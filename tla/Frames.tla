------------------------------- MODULE Frames -------------------------------
(***************************************************************************)
(* What the engine promises to the work it puts aside for its second       *)
(* thread.  The game and the parallel part of a frame take turns: while    *)
(* the game moves nobody touches the tasks but the game itself, which adds *)
(* some and takes back those of objects that go away.  In the parallel     *)
(* part every task that is left is done, by exactly one of the two         *)
(* threads, and the game moves again only when all are done.  Engine       *)
(* implements this specification.                                          *)
(***************************************************************************)
CONSTANT Tasks       \* what may be put aside

VARIABLES
    turn,            \* "game", "parallel", or "over" at the end
    work,            \* the parallel part's work: "due", "running" or "done"
    pending          \* the tasks put aside

frameVars == <<turn, work, pending>>

FrameTypeOK ==
    /\ turn \in {"game", "parallel", "over"}
    /\ work \in {"due", "running", "done"}
    /\ pending \subseteq Tasks

FrameInit ==
    /\ turn = "game"
    /\ work = "due"
    /\ pending = {}

\* A step of the game: any number of tasks comes or goes.
Play ==
    /\ turn = "game"
    /\ pending' \subseteq Tasks
    /\ UNCHANGED <<turn, work>>

Open ==
    /\ turn = "game"
    /\ turn' = "parallel"
    /\ UNCHANGED <<work, pending>>

Start ==
    /\ turn = "parallel"
    /\ work = "due"
    /\ work' = "running"
    /\ UNCHANGED <<turn, pending>>

Do(task) ==
    /\ work = "running"
    /\ task \in pending
    /\ pending' = pending \ {task}
    /\ UNCHANGED <<turn, work>>

Finish ==
    /\ work = "running"
    /\ pending = {}
    /\ work' = "done"
    /\ UNCHANGED <<turn, pending>>

Close ==
    /\ turn = "parallel"
    /\ work = "done"
    /\ turn' = "game"
    /\ work' = "due"
    /\ UNCHANGED pending

Quit ==
    /\ turn = "game"
    /\ turn' = "over"
    /\ UNCHANGED <<work, pending>>

FrameNext ==
    \/ Play \/ Open \/ Start \/ Finish \/ Close \/ Quit
    \/ \E task \in Tasks : Do(task)

FrameSpec == FrameInit /\ [][FrameNext]_frameVars

\* No frame gets stuck in its parallel part.
FramesEnd == turn = "parallel" ~> turn = "game"
=============================================================================
