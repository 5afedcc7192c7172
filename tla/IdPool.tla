------------------------------- MODULE IdPool -------------------------------
(***************************************************************************)
(* What the server expects of its object-id generator, whatever the data   *)
(* structure behind it: xrServer asks for an id (any id, or one given id), *)
(* gives it back when the entity is destroyed, and may drop the whole      *)
(* generator when a saved game is reloaded.                                *)
(*   source: xrGame/xrServer.h (clear_ids, PerformIDgen, FreeID)           *)
(***************************************************************************)
CONSTANT Ids        \* the ids the generator hands out

VARIABLES used,     \* the ids the callers hold
          fault     \* the assertion that ended the process, if any

vars == <<used, fault>>

Faults == {"none", "exhausted", "conflict"}

TypeOK == /\ used \subseteq Ids
          /\ fault \in Faults

Init == /\ used = {}
        /\ fault = "none"

(* An id nobody holds is handed out. *)
Acquire(v) == /\ fault = "none"
              /\ v \notin used
              /\ used' = used \cup {v}
              /\ UNCHANGED fault

(* A caller gives back an id it holds. *)
Release(v) == /\ fault = "none"
              /\ v \in used
              /\ used' = used \ {v}
              /\ UNCHANGED fault

(* clear_ids: the callers have dropped every id. *)
Clear == /\ fault = "none"
         /\ used' = {}
         /\ UNCHANGED fault

(* The process may give up for want of ids only when every id is held ... *)
Exhaust == /\ fault = "none"
           /\ used = Ids
           /\ fault' = "exhausted"
           /\ UNCHANGED used

(* ... and for a conflict only when somebody asks for an id that is held. *)
Conflict(v) == /\ fault = "none"
               /\ v \in used
               /\ fault' = "conflict"
               /\ UNCHANGED used

Next == \/ \E v \in Ids : Acquire(v) \/ Release(v) \/ Conflict(v)
        \/ Clear
        \/ Exhaust

Spec == Init /\ [][Next]_vars
=============================================================================
