------------------------------ MODULE RollCall ------------------------------
(***************************************************************************)
(* What the engine promises to the objects it calls regularly: an object   *)
(* is called while it is on the roll, at most once in a frame, and leaves  *)
(* the roll when it, its owner or its destructor asks for that, or when it *)
(* says itself that it need not be called.  Objects join and quit outside  *)
(* the scheduler's work and inside every call; what they ask for holds     *)
(* from that moment.  Scheduler implements this specification.             *)
(***************************************************************************)
CONSTANT Objs        \* the places in memory of objects that may be called

VARIABLES
    roll,            \* the objects that are registered
    called,          \* those called in this pass
    wanted,          \* those whose shedule_Needed() is true
    turn             \* who runs: "outside", "scheduler" or "call"

rollVars == <<roll, called, wanted, turn>>

Turns == {"outside", "scheduler", "call"}

RollTypeOK ==
    /\ roll \subseteq Objs
    /\ called \subseteq Objs
    /\ wanted \subseteq Objs
    /\ turn \in Turns

RollInit ==
    /\ roll = {}
    /\ called = {}
    /\ wanted = {}
    /\ turn = "outside"

ClientsRun == turn \in {"outside", "call"}

\* An object is constructed, or stops to need calls.
Want(o) ==
    /\ ClientsRun
    /\ o \notin roll
    /\ wanted' = wanted \cup {o}
    /\ UNCHANGED <<roll, called, turn>>

Unwant(o) ==
    /\ ClientsRun
    /\ wanted' = wanted \ {o}
    /\ UNCHANGED <<roll, called, turn>>

Join(o) ==
    /\ ClientsRun
    /\ o \notin roll
    /\ roll' = roll \cup {o}
    /\ UNCHANGED <<called, wanted, turn>>

Quit(o) ==
    /\ ClientsRun
    /\ o \in roll
    /\ roll' = roll \ {o}
    /\ UNCHANGED <<called, wanted, turn>>

\* A destructor takes the object off the roll.
Vanish(o) ==
    /\ ClientsRun
    /\ roll' = roll \ {o}
    /\ wanted' = wanted \ {o}
    /\ UNCHANGED <<called, turn>>

StartPass ==
    /\ turn = "outside"
    /\ turn' = "scheduler"
    /\ UNCHANGED <<roll, called, wanted>>

Call(o) ==
    /\ turn = "scheduler"
    /\ o \in roll
    /\ o \in wanted
    /\ o \notin called
    /\ called' = called \cup {o}
    /\ turn' = "call"
    /\ UNCHANGED <<roll, wanted>>

Return ==
    /\ turn = "call"
    /\ turn' = "scheduler"
    /\ UNCHANGED <<roll, called, wanted>>

\* The scheduler itself forgets only objects that need no calls.
Lapse(o) ==
    /\ turn = "scheduler"
    /\ o \in roll
    /\ o \notin wanted
    /\ roll' = roll \ {o}
    /\ UNCHANGED <<called, wanted, turn>>

EndPass ==
    /\ turn = "scheduler"
    /\ turn' = "outside"
    /\ called' = {}
    /\ UNCHANGED <<roll, wanted>>

RollNext ==
    \/ \E o \in Objs : \/ Want(o) \/ Unwant(o) \/ Join(o) \/ Quit(o)
                       \/ Vanish(o) \/ Call(o) \/ Lapse(o)
    \/ StartPass
    \/ Return
    \/ EndPass

RollSpec == RollInit /\ [][RollNext]_rollVars

\* Nobody who stays on the roll and wants calls waits for ever.
Served ==
    \A o \in Objs :
        (o \in roll /\ o \in wanted) ~>
            (o \in called \/ o \notin roll \/ o \notin wanted)
=============================================================================
