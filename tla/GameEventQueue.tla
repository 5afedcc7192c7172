--------------------------- MODULE GameEventQueue ---------------------------
(***************************************************************************)
(* GameEventQueue, the queue through which network threads hand game       *)
(* events to the game thread of the server.                                *)
(*                                                                         *)
(* Events live in slots (GameEvent objects).  A slot is in the deque       *)
(* `ready' while its event waits and in the vector `unused' between two    *)
(* events; slots are allocated when `unused' is empty and deleted one by   *)
(* one once more than PruneAbove are unused and none has been allocated    *)
(* for a minute.  Retreive() leaves the front event in `ready' and         *)
(* Release() pops whatever is at the front by then.                        *)
(*   source: xrGame/game_sv_event_queue.cpp, game_sv_event_queue.h         *)
(*                                                                         *)
(* Every operation below runs under the critical section `cs' and is one   *)
(* atomic step, except the block list, which the code reads and writes     *)
(* without it.  Real sizes: 16 slots at the start, PruneAbove = 32.        *)
(***************************************************************************)
EXTENDS Filter, Functions

CONSTANTS Slots,        \* bounds the events alive at one time
          FirstUnused,  \* the slots the constructor allocates, in a sequence
          PruneAbove,   \* unused slots kept whatever their age
          Events,       \* the possible contents of a slot
          NoEvent,      \* the contents of a slot never used
          Clients       \* senders that can be blocked

ASSUME SlotsAssumption == FirstUnused \in Seq(Slots) /\ IsInjective(FirstUnused)
ASSUME PruneAssumption == PruneAbove \in Nat
ASSUME NoEventAssumption == NoEvent \notin Events

VARIABLES ready,        \* slots whose event waits, front first
          unused,       \* slots to reuse, last one first
          content,      \* content[s]: the event copied into slot s
          blocked       \* clients whose ordinary events are dropped

queue == <<ready, unused, content>>

Allocated == Range(ready) \cup Range(unused)

InitQueue == /\ ready = <<>>
             /\ unused = FirstUnused
             /\ content = [s \in Slots |-> NoEvent]
             /\ blocked = {}

(* A slot for a new event: the last unused one, else a new one. *)
HasSlot == unused # <<>> \/ Slots \ Allocated # {}
NewSlot == IF unused # <<>> THEN unused[Len(unused)]
                            ELSE CHOOSE s \in Slots : s \notin Allocated

(* Create(P, type, time, sender).  Slip: the event is not copied. *)
CreateWithoutCopy(e) ==
    /\ HasSlot
    /\ ready' = Append(ready, NewSlot)
    /\ unused' = IF unused = <<>> THEN unused ELSE SubSeq(unused, 1, Len(unused) - 1)
    /\ UNCHANGED content

Create(e) ==
    /\ HasSlot
    /\ ready' = Append(ready, NewSlot)
    /\ unused' = IF unused = <<>> THEN unused ELSE SubSeq(unused, 1, Len(unused) - 1)
    /\ content' = [content EXCEPT ![NewSlot] = e]

(* CreateSafe: the event of a blocked client is dropped. *)
CreateSafe(e, sender) == IF sender \in blocked THEN UNCHANGED queue ELSE Create(e)

(* Slots that leave `ready' are kept for reuse; when no slot was allocated  *)
(* lately, those beyond the first PruneAbove + 1 unused ones are deleted.   *)
Reclaim(slots, idle) ==
    LET room == IF Len(unused) > PruneAbove THEN 0
                                            ELSE PruneAbove + 1 - Len(unused)
    IN  IF idle /\ Len(slots) > room THEN unused \o SubSeq(slots, 1, room)
                                     ELSE unused \o slots

(* The slot Retreive() returns.  Slip: the newest event instead. *)
NewestSlot == ready[Len(ready)]
FrontSlot == ready[1]

(* Retreive() on an empty queue deletes one slot nobody needs. *)
RetreiveNothing ==
    /\ ready = <<>>
    /\ \E idle \in BOOLEAN :
          unused' = IF idle /\ Len(unused) > PruneAbove
                    THEN SubSeq(unused, 1, Len(unused) - 1) ELSE unused
    /\ UNCHANGED <<ready, content>>

(* Release(): the front slot, whichever it is by now, is taken out. *)
Release == /\ ready # <<>>
           /\ \E idle \in BOOLEAN : unused' = Reclaim(<<Head(ready)>>, idle)
           /\ ready' = Tail(ready)
           /\ UNCHANGED content

(* The predicate of an erasure, which is true of some contents. *)
Holding(doomed) == {s \in Slots : content[s] \in doomed}

(* EraseEvents(predicate): every event in the predicate is taken out, the   *)
(* one the game thread is handling included.  Slip: the slot is reclaimed   *)
(* but stays in `ready'.                                                    *)
EraseKeepingReady(doomed) ==
    /\ \E idle \in BOOLEAN : unused' = Reclaim(Only(ready, Holding(doomed)), idle)
    /\ UNCHANGED <<ready, content>>

EraseEvents(doomed) ==
    /\ \E idle \in BOOLEAN : unused' = Reclaim(Only(ready, Holding(doomed)), idle)
    /\ ready' = Only(ready, Slots \ Holding(doomed))
    /\ UNCHANGED content

-----------------------------------------------------------------------------
QueueTypeOK == /\ ready \in Seq(Slots)
               /\ unused \in Seq(Slots)
               /\ content \in [Slots -> Events \cup {NoEvent}]
               /\ \A i \in DOMAIN ready : content[ready[i]] \in Events
               /\ blocked \subseteq Clients

(* A slot waits once, or is unused once, never both: an event is never      *)
(* overwritten while it waits, and no slot is deleted twice.                *)
SlotsOnce == /\ IsInjective(ready)
             /\ IsInjective(unused)
             /\ Range(ready) \cap Range(unused) = {}
=============================================================================
