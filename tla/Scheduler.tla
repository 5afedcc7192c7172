----------------------------- MODULE Scheduler ------------------------------
(***************************************************************************)
(* CSheduler, through which the engine calls everything that wants to be   *)
(* called regularly but not in every frame: game objects, particles, the   *)
(* managers of the game.  Objects of real time are called in every frame,  *)
(* the others when their time has come and as long as the frame's budget   *)
(* lasts, the longest overdue first.                                       *)
(*   source: xrEngine/xrSheduler.cpp, xrEngine/ISheduled.cpp               *)
(*                                                                         *)
(* The scheduler keeps bare pointers.  Objects register and unregister     *)
(* themselves and each other at any time: between the passes, and inside   *)
(* the calls that a pass makes, when the lists it walks over must not      *)
(* change under it.  The model is of the release build, whose destructor   *)
(* of a scheduled object unregisters it once more.  An element of Objs is  *)
(* a place in memory: a later object may be constructed where an earlier   *)
(* one was deleted.                                                        *)
(*                                                                         *)
(* Times are relative to the present frame.  Left out: the time since the  *)
(* last call that is passed to an object, and EnsureOrder, which nobody    *)
(* calls.                                                                  *)
(***************************************************************************)
EXTENDS Integers, Sequences

CONSTANTS Objs,         \* addresses of scheduled objects
          Null,         \* the null pointer
          Intervals,    \* dwUpdate: until an object is called again
          MaxRequests,  \* bound on Registration
          MaxEntries    \* bound on the entries of all lists together

ASSUME NullAssumption == Null \notin Objs
ASSUME IntervalsAssumption == Intervals \subseteq Nat \ {0}
ASSUME BoundsAssumption == MaxRequests \in Nat /\ MaxEntries \in Nat

VARIABLES
    life,            \* "none"; "fresh" until it is registered; then "needed"
                     \* or "unneeded", the answer of shedule_Needed()
    b_RT,            \* the flag in the object: registered as real time
    ItemsRT,         \* the objects of real time
    Items,           \* the heap, in any order: object or Null, and deadline
    ItemsProcessed,  \* items of the heap that were called in this pass
    Registration,    \* requests that wait for the end of the pass
    current,         \* m_current_step_obj
    phase,           \* where CSheduler::Update is
    it,              \* index of its loop over ItemsRT
    i,               \* its count of steps over the heap, modulo three
    called           \* objects called in this pass (dbg_update_shedule)

lists == <<ItemsRT, Items, ItemsProcessed, Registration>>
vars == <<life, b_RT, lists, current, phase, it, i, called>>

Item    == [Object : Objs \cup {Null}, time : Int]
ItemReg == [OP : BOOLEAN, RT : BOOLEAN, Object : Objs]
Phases  == {"idle", "first", "rt", "rtcall", "step", "stepcall", "full",
            "last"}

TypeOK ==
    /\ life \in [Objs -> {"none", "fresh", "needed", "unneeded"}]
    /\ b_RT \in [Objs -> BOOLEAN]
    /\ ItemsRT \in Seq(Objs)
    /\ Items \in Seq(Item)
    /\ ItemsProcessed \in Seq(Item)
    /\ Registration \in Seq(ItemReg)
    /\ current \in Objs \cup {Null}
    /\ phase \in Phases
    /\ it \in Nat \ {0}
    /\ i \in 0 .. 2
    /\ called \subseteq Objs

Init ==
    /\ life = [o \in Objs |-> "none"]
    /\ b_RT = [o \in Objs |-> FALSE]
    /\ ItemsRT = <<>>
    /\ Items = <<>>
    /\ ItemsProcessed = <<>>
    /\ Registration = <<>>
    /\ current = Null
    /\ phase = "idle"
    /\ it = 1
    /\ i = 0
    /\ called = {}

-----------------------------------------------------------------------------
(* Where an object is. *)

\* The sequence without its k-th element.
Erase(s, k) == SubSeq(s, 1, k - 1) \o SubSeq(s, k + 1, Len(s))

In(o, s)     == \E k \in DOMAIN s : s[k].Object = o
InRT(o)      == \E k \in DOMAIN ItemsRT : ItemsRT[k] = o
Requested(o) == \E k \in DOMAIN Registration : Registration[k].Object = o
LastRequest(o) ==
    CHOOSE k \in DOMAIN Registration :
        /\ Registration[k].Object = o
        /\ \A j \in DOMAIN Registration : Registration[j].Object = o => j <= k

Listed(o) == InRT(o) \/ In(o, Items) \/ In(o, ItemsProcessed) \/ current = o

\* Registered(): what the last request says, or else the lists.
Registered(o) ==
    IF Requested(o) THEN Registration[LastRequest(o)].OP ELSE Listed(o)

m_processing_now == phase \in {"rt", "rtcall", "step", "stepcall", "full"}
ClientsRun       == phase \in {"idle", "rtcall", "stepcall"}

\* The search of internal_Unregister, which is one for each kind of item.
Finds(o, RT) == \/ RT /\ InRT(o)
                \/ ~RT /\ In(o, Items)

\* Slip: objects of real time are put in front of those that wait.
RegisterInFront(o, RT) ==
    /\ b_RT' = [b_RT EXCEPT ![o] = RT]
    /\ \/ RT /\ ItemsRT' = <<o>> \o ItemsRT /\ UNCHANGED Items
       \/ ~RT /\ Items' = Append(Items, [Object |-> o, time |-> 0])
              /\ UNCHANGED ItemsRT

internal_Register(o, RT) ==
    /\ b_RT' = [b_RT EXCEPT ![o] = RT]
    /\ \/ RT /\ ItemsRT' = Append(ItemsRT, o) /\ UNCHANGED Items
       \/ ~RT /\ Items' = Append(Items, [Object |-> o, time |-> 0])
              /\ UNCHANGED ItemsRT

internal_Unregister(o, RT) ==
    \/ /\ RT
       /\ \E k \in DOMAIN ItemsRT :
             /\ ItemsRT[k] = o
             /\ \A j \in 1 .. k - 1 : ItemsRT[j] # o
             /\ ItemsRT' = Erase(ItemsRT, k)
       /\ UNCHANGED <<Items, current>>
    \/ /\ ~RT
       /\ \E k \in DOMAIN Items :
             /\ Items[k].Object = o
             /\ \A j \in 1 .. k - 1 : Items[j].Object # o
             /\ Items' = [Items EXCEPT ![k].Object = Null]
       /\ UNCHANGED <<ItemsRT, current>>
    \/ /\ ~Finds(o, RT)
       /\ current' = IF current = o THEN Null ELSE current
       /\ UNCHANGED <<ItemsRT, Items>>

-----------------------------------------------------------------------------
(* The objects and those who own them. *)

Request(op, rt, o) ==
    /\ Len(Registration) < MaxRequests
    /\ Registration' =
          Append(Registration, [OP |-> op, RT |-> rt, Object |-> o])

Construct(o) ==
    /\ ClientsRun
    /\ life[o] = "none"
    /\ life' = [life EXCEPT ![o] = "fresh"]
    /\ UNCHANGED <<b_RT, lists, current, phase, it, i, called>>

StopNeeding(o) ==
    /\ ClientsRun
    /\ life[o] = "needed"
    /\ life' = [life EXCEPT ![o] = "unneeded"]
    /\ UNCHANGED <<b_RT, lists, current, phase, it, i, called>>

Register(o, RT) ==
    /\ ClientsRun
    /\ life[o] # "none"
    /\ ~Registered(o)
    /\ Len(Items) + Len(ItemsProcessed) + Len(Registration) < MaxEntries
    /\ life' = [life EXCEPT ![o] = IF @ = "fresh" THEN "needed" ELSE @]
    /\ b_RT' = [b_RT EXCEPT ![o] = RT]
    /\ Request(TRUE, RT, o)
    /\ UNCHANGED <<ItemsRT, Items, ItemsProcessed, current, phase, it, i,
                   called>>

\* Slip: every request waits for the end of the pass.
StrikeLater(o, RT) ==
    /\ Request(FALSE, RT, o)
    /\ UNCHANGED <<ItemsRT, Items, ItemsProcessed, current, phase, it, i, called>>

\* CSheduler::Unregister: during a pass at once, where the object is found.
Strike(o, RT) ==
    /\ IF m_processing_now /\ (Finds(o, RT) \/ current = o)
       THEN internal_Unregister(o, RT) /\ UNCHANGED Registration
       ELSE /\ Request(FALSE, RT, o)
            /\ UNCHANGED <<ItemsRT, Items, current>>
    /\ UNCHANGED <<ItemsProcessed, phase, it, i, called>>

Unregister(o) ==
    /\ ClientsRun
    /\ life[o] # "none"
    /\ Registered(o)
    /\ Strike(o, b_RT[o])
    /\ UNCHANGED <<life, b_RT>>

\* Slip: the destructor leaves it to the owner to unregister the object.
DestructOnly(o) ==
    /\ ClientsRun
    /\ life[o] # "none"
    /\ life' = [life EXCEPT ![o] = "none"]
    /\ b_RT' = [b_RT EXCEPT ![o] = FALSE]
    /\ UNCHANGED <<lists, current, phase, it, i, called>>

\* ~ISheduled, which does not ask whether the object is registered; b_RT is
\* set by Register, not by the constructor.
Destruct(o) ==
    /\ ClientsRun
    /\ life[o] # "none"
    /\ \E RT \in IF life[o] = "fresh" THEN BOOLEAN ELSE {b_RT[o]} : Strike(o, RT)
    /\ life' = [life EXCEPT ![o] = "none"]
    /\ b_RT' = [b_RT EXCEPT ![o] = FALSE]

-----------------------------------------------------------------------------
(* The pass. *)

BeginUpdate ==
    /\ phase = "idle"
    /\ phase' = "first"
    /\ Items' = [k \in DOMAIN Items |-> [Items[k] EXCEPT !.time = @ - 1]]
    /\ UNCHANGED <<life, b_RT, ItemsRT, ItemsProcessed, Registration, current,
                   it, i, called>>

\* Slip: the object is not compared.
PairsOfAnyone(o, requests) == {k \in DOMAIN requests : ~requests[k].OP}

\* The requests to unregister that answer a request to register.
Pairs(o, requests) == {k \in DOMAIN requests : /\ ~requests[k].OP
                                               /\ requests[k].Object = o}

internal_Registration ==
    /\ phase \in {"first", "last"}
    /\ Registration # <<>>
    /\ LET R    == Head(Registration)
           rest == Tail(Registration)
       IN  \/ /\ R.OP
              /\ \E k \in Pairs(R.Object, rest) :
                    /\ \A j \in Pairs(R.Object, rest) : k <= j
                    /\ Registration' = Erase(rest, k)
              /\ UNCHANGED <<b_RT, ItemsRT, Items, current>>
           \/ /\ R.OP
              /\ Pairs(R.Object, rest) = {}
              /\ internal_Register(R.Object, R.RT)
              /\ Registration' = rest
              /\ UNCHANGED current
           \/ /\ ~R.OP
              /\ internal_Unregister(R.Object, R.RT)
              /\ Registration' = rest
              /\ UNCHANGED b_RT
    /\ UNCHANGED <<life, ItemsProcessed, phase, it, i, called>>

BeginRT ==
    /\ phase = "first"
    /\ Registration = <<>>
    /\ phase' = "rt"
    /\ it' = 1
    /\ UNCHANGED <<life, b_RT, lists, current, i, called>>

SkipRT ==
    /\ phase = "rt"
    /\ it <= Len(ItemsRT)
    /\ life[ItemsRT[it]] # "needed"
    /\ it' = it + 1
    /\ UNCHANGED <<life, b_RT, lists, current, phase, i, called>>

CallRT ==
    /\ phase = "rt"
    /\ it <= Len(ItemsRT)
    /\ life[ItemsRT[it]] = "needed"
    /\ called' = called \cup {ItemsRT[it]}
    /\ phase' = "rtcall"
    /\ UNCHANGED <<life, b_RT, lists, current, it, i>>

ReturnRT ==
    /\ phase = "rtcall"
    /\ phase' = "rt"
    /\ it' = it + 1
    /\ UNCHANGED <<life, b_RT, lists, current, i, called>>

BeginSteps ==
    /\ phase = "rt"
    /\ it > Len(ItemsRT)
    /\ phase' = "step"
    /\ it' = 1
    /\ i' = 0
    /\ UNCHANGED <<life, b_RT, lists, current, called>>

\* The front of the heap; which of equal deadlines comes first is open.
Top(k) == /\ k \in DOMAIN Items
          /\ \A j \in DOMAIN Items : Items[k].time <= Items[j].time
Due == \E k \in DOMAIN Items : Items[k].time < 0

\* A null pointer, or an object that needs no calls, leaves the heap.
DropStep ==
    /\ phase = "step"
    /\ \E k \in DOMAIN Items :
          /\ Top(k)
          /\ Items[k].time < 0
          /\ \/ Items[k].Object = Null
             \/ Items[k].Object # Null /\ life[Items[k].Object] # "needed"
          /\ Items' = Erase(Items, k)
    /\ i' = (i + 1) % 3
    /\ UNCHANGED <<life, b_RT, ItemsRT, ItemsProcessed, Registration, current,
                   phase, it, called>>

CallStep ==
    /\ phase = "step"
    /\ \E k \in DOMAIN Items :
          /\ Top(k)
          /\ Items[k].time < 0
          /\ Items[k].Object # Null
          /\ life[Items[k].Object] = "needed"
          /\ Items' = Erase(Items, k)
          /\ current' = Items[k].Object
          /\ called' = called \cup {Items[k].Object}
    /\ phase' = "stepcall"
    /\ UNCHANGED <<life, b_RT, ItemsRT, ItemsProcessed, Registration, it, i>>

\* The budget is looked at after every third step that ends here.
ReturnStep ==
    /\ phase = "stepcall"
    /\ current # Null
    /\ \E u \in Intervals :
          ItemsProcessed' = Append(ItemsProcessed,
                                   [Object |-> current, time |-> u])
    /\ current' = Null
    /\ phase' \in IF i = 2 THEN {"step", "full"} ELSE {"step"}
    /\ i' = (i + 1) % 3
    /\ UNCHANGED <<life, b_RT, ItemsRT, Items, Registration, it, called>>

ReturnGone ==
    /\ phase = "stepcall"
    /\ current = Null
    /\ phase' = "step"
    /\ i' = (i + 1) % 3
    /\ UNCHANGED <<life, b_RT, lists, current, it, called>>

\* The items called in this pass go back to the heap.
EndSteps ==
    /\ phase = "full" \/ (phase = "step" /\ ~Due)
    /\ Items' = Items \o ItemsProcessed
    /\ ItemsProcessed' = <<>>
    /\ phase' = "last"
    /\ i' = 0
    /\ UNCHANGED <<life, b_RT, ItemsRT, Registration, current, it, called>>

EndUpdate ==
    /\ phase = "last"
    /\ Registration = <<>>
    /\ phase' = "idle"
    /\ called' = {}
    /\ UNCHANGED <<life, b_RT, lists, current, it, i>>

-----------------------------------------------------------------------------
Clients ==
    \E o \in Objs :
        \/ Construct(o)
        \/ StopNeeding(o)
        \/ \E RT \in BOOLEAN : Register(o, RT)
        \/ Unregister(o)
        \/ Destruct(o)

Update ==
    \/ BeginUpdate \/ internal_Registration
    \/ BeginRT \/ SkipRT \/ CallRT
    \/ BeginSteps \/ DropStep \/ CallStep \/ EndSteps \/ EndUpdate

Returns == ReturnRT \/ ReturnStep \/ ReturnGone

Next == Clients \/ Update \/ Returns

\* The main loop runs, and every call returns.
Spec == Init /\ [][Next]_vars /\ WF_vars(Update) /\ WF_vars(Returns)

-----------------------------------------------------------------------------
(* Correctness. *)

Roll == INSTANCE RollCall WITH
    roll   <- {o \in Objs : Registered(o)},
    wanted <- {o \in Objs : life[o] \in {"fresh", "needed"}},
    turn   <- IF phase = "idle" THEN "outside"
              ELSE IF phase \in {"rtcall", "stepcall"} THEN "call"
              ELSE "scheduler"

(* The lists, the requests that wait and the pass together behave like one *)
(* set of objects, changed at once by every call of Register, Unregister   *)
(* and ~ISheduled, of which each member is called at most once in a frame  *)
(* (ISheduled::shedule_Update ends the program otherwise).                 *)
ImplementsRoll == Roll!RollSpec

(* No object is in two lists, or twice in one: the VERIFYs of Registered().*)
OneEntryEach ==
    /\ TypeOK
    /\ \A o \in Objs :
        /\ \A j, k \in DOMAIN ItemsRT : ItemsRT[j] = o /\ ItemsRT[k] = o => j = k
        /\ \A s \in {Items, ItemsProcessed} : \A j, k \in DOMAIN s :
              s[j].Object = o /\ s[k].Object = o => j = k
        /\ ~(InRT(o) /\ In(o, Items))
        /\ ~(In(o, ItemsProcessed) /\ (InRT(o) \/ In(o, Items)))
        /\ current = o => ~(InRT(o) \/ In(o, Items) \/ In(o, ItemsProcessed))

(* What is registered exists, whoever deleted what and whatever has been   *)
(* constructed in its place; and what a pass may still look at exists:     *)
(* the objects of real time it has not come to, those in the heap, and the *)
(* one it is calling.                                                      *)
PointersAreLive ==
    /\ \A o \in Objs : Registered(o) => life[o] # "none"
    /\ phase = "rt" =>
          \A k \in DOMAIN ItemsRT : k >= it => life[ItemsRT[k]] # "none"
    /\ phase \in {"rt", "rtcall", "step", "stepcall"} =>
          \A k \in DOMAIN Items :
              Items[k].Object # Null => life[Items[k].Object] # "none"
    /\ current # Null => life[current] # "none"

(* Nobody starves: not behind objects that are always due while the budget *)
(* ends every pass after three steps, nor behind objects of real time that *)
(* unregister in front of it and make the loop skip their successor.       *)
EveryoneIsCalled == Roll!Served
=============================================================================
