------------------------------ MODULE EventLog ------------------------------
(***************************************************************************)
(* What the game expects of its delayed events: they wait in the order in  *)
(* which they were posted, the game thread takes them from the front and   *)
(* handles each one to the end, once; an event that has to be forgotten is *)
(* forgotten while it waits.                                               *)
(***************************************************************************)
EXTENDS Filter, Functions

CONSTANTS Events,     \* what can be posted
          NoEvent     \* the game thread is not handling an event

VARIABLES pending,    \* events waiting to be handled
          current     \* the event being handled, or NoEvent

vars == <<pending, current>>

Init == pending = <<>> /\ current = NoEvent

Post(e) == /\ pending' = Append(pending, e)
           /\ UNCHANGED current

Begin == /\ current = NoEvent
         /\ pending # <<>>
         /\ current' = Head(pending)
         /\ pending' = Tail(pending)

End == /\ current # NoEvent
       /\ current' = NoEvent
       /\ UNCHANGED pending

(* Some kinds of waiting events are forgotten; the others keep their order. *)
Forget == /\ \E kept \in SUBSET Range(pending) : pending' = Only(pending, kept)
          /\ UNCHANGED current

Next == \/ \E e \in Events : Post(e)
        \/ Begin
        \/ End
        \/ Forget

Spec == Init /\ [][Next]_vars
=============================================================================
