---------------------------- MODULE EngineProofs ----------------------------
(***************************************************************************)
(* Proofs about Engine, for every number of objects and every set of       *)
(* monsters among them: first the two threads and the frame, then the      *)
(* lists of objects.                                                       *)
(***************************************************************************)
EXTENDS Engine, FiniteSets, FiniteSetTheorems, SequenceTheorems, TLAPS

USE MonstersAssumption, NullAssumption

(* Who owns the critical sections, by where the two threads are. *)
MainOwnsEnter == main \in (Game \cup Beside) \ {"render"}
MainOwnsLeave == main \in {"open", "render", "enter"}

Gates ==
    /\ main \in Game \cup Beside \cup {"over", "ended"}
    /\ second \in {"enter", "run", "leave", "back", "gone"}
    /\ mt_csEnter = IF MainOwnsEnter THEN "main"
                    ELSE IF second = "run" THEN "second" ELSE Null
    /\ mt_csLeave = IF MainOwnsLeave THEN "main"
                    ELSE IF second = "back" THEN "second" ELSE Null
    /\ second = "run" => main = "render"
    /\ second = "back" => ~MainOwnsLeave
    /\ second = "gone" => main \in {"over", "ended"}
    /\ main = "ended" => second = "gone"

(* The secondary thread is told to stop once, and says that it has.        *)
Exit == /\ mt_bMustExit \in BOOLEAN
        /\ mt_bMustExit <=> (main = "over" /\ second # "gone")

(* When the frame is marked: the secondary thread has had its turn, and    *)
(* cannot come back for another one while the primary one renders.         *)
Turns ==
    /\ marked \in BOOLEAN
    /\ main \in (Game \ {"idle"}) \cup {"open", "self"} => ~marked
    /\ second = "run" => marked
    /\ marked /\ main \in {"render", "enter"} => second \in {"run", "leave"}

LoopInv == Gates /\ Exit /\ Turns

LEMMA InitLoop == Init => LoopInv
  BY DEF Init, LoopInv, Gates, Exit, Turns, MainOwnsEnter, MainOwnsLeave, Game, Beside

(* The steps of the game's turn that stay where they are. *)
GameStep ==
    /\ main \in Game
    /\ UNCHANGED <<main, second, mt_csEnter, mt_csLeave, mt_bMustExit>>
    /\ marked' = marked \/ marked' = FALSE

LEMMA GameKeepsLoop == LoopInv /\ GameStep => LoopInv'
<1> SUFFICES ASSUME LoopInv, GameStep PROVE LoopInv'
  OBVIOUS
<1> USE DEF LoopInv, GameStep
<1>1. main \in Game /\ main' \in Game
  BY DEF Game
<1>2. MainOwnsEnter /\ MainOwnsEnter' /\ ~MainOwnsLeave /\ ~MainOwnsLeave'
  BY <1>1 DEF MainOwnsEnter, MainOwnsLeave, Game
<1>3. Gates'
  BY <1>1, <1>2 DEF Gates, Game
<1>4. Turns'
  <2>1. CASE marked' = FALSE
    BY <1>1, <2>1 DEF Gates, Turns, Game
  <2>2. CASE marked' = marked
    <3>1. Turns
      OBVIOUS
    <3> QED BY <2>2, <3>1 DEF Turns
  <2> QED BY <2>1, <2>2
<1>5. Exit'
  <2>1. main # "over" /\ main' # "over"
    BY <1>1 DEF Game
  <2> QED BY <2>1 DEF Exit
<1> QED BY <1>3, <1>4, <1>5

(* The steps of the game's turn that go on to another phase of it. *)
PhaseStep ==
    /\ main \in Game /\ main' \in Game \ {"idle"}
    /\ main = "idle" => marked' = FALSE
    /\ main # "idle" => marked' = marked
    /\ UNCHANGED <<second, mt_csEnter, mt_csLeave, mt_bMustExit>>

LEMMA PhaseKeepsLoop == LoopInv /\ PhaseStep => LoopInv'
<1> SUFFICES ASSUME LoopInv, PhaseStep PROVE LoopInv'
  OBVIOUS
<1> USE DEF LoopInv, PhaseStep
<1>1. main \in Game /\ main' \in Game
  BY DEF Game
<1>2. MainOwnsEnter /\ MainOwnsEnter' /\ ~MainOwnsLeave /\ ~MainOwnsLeave'
  BY <1>1 DEF MainOwnsEnter, MainOwnsLeave, Game
<1>3. Gates'
  BY <1>1, <1>2 DEF Gates, Game
<1>4. Turns'
  <2>1. marked' = FALSE
    BY DEF Turns, Game
  <2> QED BY <1>1, <2>1 DEF Gates, Turns, Game
<1>5. Exit'
  <2>1. main # "over" /\ main' # "over"
    BY <1>1 DEF Game
  <2> QED BY <2>1 DEF Exit
<1> QED BY <1>3, <1>4, <1>5

(* Which steps are of which kind. *)
LEMMA GameSteps ==
    ASSUME LoopInv
    PROVE  /\ Pause \/ Unpause \/ remove_objects => GameStep
           /\ \A o \in Objs :
                \/ shedule_Update(o) \/ g_sv_Spawn(o) \/ H_SetParent(o)
                \/ GE_DESTROY(o) \/ processing_activate(o)
                \/ processing_deactivate(o) \/ SingleUpdate(o)
                => GameStep
           /\ \A o \in Monsters : on_restrictions_change(o) => GameStep
           /\ Destroy => GameStep
<1>1. Pause \/ Unpause \/ remove_objects => GameStep
  BY DEF Pause, Unpause, remove_objects, NewFrame, GameStep, Game, threads
<1>2. ASSUME NEW o \in Objs
      PROVE  \/ shedule_Update(o) \/ g_sv_Spawn(o) \/ H_SetParent(o)
             \/ GE_DESTROY(o) \/ processing_activate(o)
             \/ processing_deactivate(o) \/ SingleUpdate(o)
             => GameStep
  BY DEF shedule_Update, g_sv_Spawn, H_SetParent, GE_DESTROY,
         processing_activate, processing_deactivate, SingleUpdate, GameStep,
         Game, threads
<1>3. ASSUME NEW o \in Monsters PROVE on_restrictions_change(o) => GameStep
  BY DEF on_restrictions_change, GameStep, Game, threads
<1>4. Destroy => GameStep
  BY DEF Destroy, DestroyAt, GameStep, Game, threads
<1> QED BY <1>1, <1>2, <1>3, <1>4

LEMMA PhaseSteps ==
    FrameMove \/ EndPass \/ BeginUpdate \/ EndUpdate \/ EndDestroy => PhaseStep
  BY DEF FrameMove, NewFrame, EndPass, BeginUpdate, EndUpdate, EndDestroy,
         PhaseStep, Game

LEMMA GatesKeepLoop ==
    ASSUME LoopInv,
           \/ TakeLeave \/ FreeEnter \/ TakeEnter \/ FreeLeave \/ Ensure
           \/ EndSelf \/ EndFrame \/ EndRun \/ StopThread \/ SecondThread
    PROVE  LoopInv'
<1> USE DEF LoopInv, Gates, Exit, Turns, MainOwnsEnter, MainOwnsLeave, Game, Beside,
            Enter, Leave, Goes, Moves
<1>1. CASE TakeLeave
  BY <1>1 DEF TakeLeave
<1>2. CASE FreeEnter
  BY <1>2 DEF FreeEnter
<1>3. CASE TakeEnter
  BY <1>3 DEF TakeEnter
<1>4. CASE FreeLeave
  BY <1>4 DEF FreeLeave
<1>5. CASE Ensure
  BY <1>5 DEF Ensure
<1>6. CASE EndSelf
  BY <1>6 DEF EndSelf
<1>7. CASE EndFrame
  BY <1>7 DEF EndFrame
<1>8. CASE EndRun
  BY <1>8 DEF EndRun
<1>9. CASE StopThread
  BY <1>9 DEF StopThread
<1>10. CASE SecondEnter
  <2>1. CASE /\ mt_bMustExit /\ mt_csEnter = Null /\ mt_bMustExit' = FALSE
             /\ second' = "gone" /\ UNCHANGED <<mt_csEnter, marked>>
    BY <1>10, <2>1 DEF SecondEnter
  <2>2. CASE /\ ~mt_bMustExit /\ Enter(mt_csEnter, "second") /\ marked' = TRUE
             /\ second' = "run" /\ UNCHANGED mt_bMustExit
    <3>5. mt_csEnter = Null /\ main' = main /\ second = "enter"
      BY <1>10, <2>2 DEF SecondEnter
    <3>6. main \in {"render", "over", "ended"}
      BY <3>5
    <3>7. main \notin {"over"}
      BY <3>5, <2>2
    <3>1. main = "render" /\ main' = main
      BY <3>5, <3>6, <3>7
    <3>2. Gates'
      BY <1>10, <2>2, <3>1 DEF SecondEnter
    <3>3. Exit'
      BY <2>2, <3>1
    <3>4. Turns'
      BY <2>2, <3>1
    <3> QED BY <3>2, <3>3, <3>4
  <2> QED BY <1>10, <2>1, <2>2 DEF SecondEnter
<1>11. CASE EndWork
  BY <1>11 DEF EndWork
<1>12. CASE SecondLeave
  BY <1>12 DEF SecondLeave
<1>13. CASE SecondBack
  BY <1>13 DEF SecondBack
<1> QED BY <1>1, <1>2, <1>3, <1>4, <1>5, <1>6, <1>7, <1>8, <1>9, <1>10, <1>11,
           <1>12, <1>13 DEF SecondThread

LEMMA OthersKeepLoop == LoopInv /\ UNCHANGED threads => LoopInv'
  BY DEF LoopInv, Gates, Exit, Turns, MainOwnsEnter, MainOwnsLeave, threads

LEMMA NextKeepsLoop == LoopInv /\ [Next]_vars => LoopInv'
<1> SUFFICES ASSUME LoopInv, [Next]_vars PROVE LoopInv'
  OBVIOUS
<1>1. CASE Frame
  BY <1>1, GameSteps, GameKeepsLoop, PhaseSteps, PhaseKeepsLoop, GatesKeepLoop
     DEF Frame
<1>2. CASE SecondThread
  BY <1>2, GatesKeepLoop
<1>3. ASSUME NEW t \in Threads, Parallel(t) PROVE LoopInv'
  <2>1. UNCHANGED threads
    BY <1>3 DEF Parallel, CrowExchange, RunTask
  <2> QED BY <2>1, OthersKeepLoop
<1>4. CASE World
  <2>1. ASSUME NEW o \in Objs, NEW t \in Threads, CrowRead(t, o) PROVE LoopInv'
    BY <2>1, OthersKeepLoop DEF CrowRead
  <2> QED BY <1>4, <2>1, GameSteps, GameKeepsLoop, GatesKeepLoop DEF World
<1>5. CASE Ended \/ UNCHANGED vars
  BY <1>5, OthersKeepLoop DEF Ended, vars
<1> QED BY <1>1, <1>2, <1>3, <1>4, <1>5 DEF Next

LEMMA SpecLoop == Spec => []LoopInv
<1> QED BY InitLoop, NextKeepsLoop, PTL DEF Spec

(* No moment belongs to both threads: mt_csEnter is held by the primary    *)
(* thread for as long as it moves the game, and whoever works off what is  *)
(* put aside holds it, too.                                                *)
OneAtATime ==
    /\ main \in Game => mt_csEnter = "main" /\ second # "run"
    /\ second = "run" => mt_csEnter = "second" /\ main = "render"
    /\ main = "self" => mt_csEnter = "main" /\ second # "run"

(* The turns of the two threads exclude each other, for any number of      *)
(* objects and however late the secondary thread comes.                    *)
THEOREM TurnsExclude == Spec => []OneAtATime
<1>1. LoopInv => OneAtATime
  BY DEF LoopInv, Gates, MainOwnsEnter, OneAtATime, Game, Beside
<1> QED BY <1>1, SpecLoop, PTL

-----------------------------------------------------------------------------
(* The engine implements Frames. *)

Turn == IF main \in Game THEN "game"
        ELSE IF main \in Beside THEN "parallel" ELSE "over"
Work == IF main \notin Beside THEN "due"
        ELSE IF second = "run" \/ main = "self" THEN "running"
        ELSE IF marked \/ main = "joined" THEN "done" ELSE "due"
Pending == {task \in Tasks : seqParallel[task] > 0}

(* A step of the game is a Play, whatever it does to the tasks. *)
LEMMA GamePlays ==
    ASSUME LoopInv, main \in Game, main' \in Game
    PROVE  FrameLoop!Play
<1>1. Turn = "game" /\ Turn' = "game" /\ Work = "due" /\ Work' = "due"
  BY DEF Turn, Work, Game, Beside
<1>2. Pending' \subseteq Tasks
  BY DEF Pending
<1> QED BY <1>1, <1>2 DEF FrameLoop!Play, Turn, Work, Pending

(* What the gates do to turn and work. *)
LEMMA GatesMap ==
    ASSUME LoopInv, UNCHANGED seqParallel
    PROVE  /\ TakeLeave => FrameLoop!Open
           /\ FreeEnter \/ TakeEnter \/ FreeLeave \/ EndRun \/ SecondLeave
              \/ SecondBack => UNCHANGED <<Turn, Work, Pending>>
           /\ Ensure => FrameLoop!Start \/ UNCHANGED <<Turn, Work, Pending>>
           /\ EndSelf \/ EndWork => FrameLoop!Finish
           /\ EndFrame => FrameLoop!Close
           /\ StopThread => FrameLoop!Quit
           /\ SecondEnter => FrameLoop!Start \/ UNCHANGED <<Turn, Work, Pending>>
<1> USE DEF LoopInv, Gates, Exit, Turns, MainOwnsEnter, MainOwnsLeave, Game, Beside,
            Enter, Leave, Goes, Moves, Turn, Work
<1>1. Pending' = Pending
  BY DEF Pending
<1>2. TakeLeave => FrameLoop!Open
  BY <1>1 DEF TakeLeave, FrameLoop!Open, Pending
<1>3. FreeEnter \/ TakeEnter \/ FreeLeave \/ EndRun \/ SecondLeave \/ SecondBack
        => UNCHANGED <<Turn, Work, Pending>>
  BY <1>1 DEF FreeEnter, TakeEnter, FreeLeave, EndRun, SecondLeave, SecondBack
<1>4. Ensure => FrameLoop!Start \/ UNCHANGED <<Turn, Work, Pending>>
  BY <1>1 DEF Ensure, FrameLoop!Start, Pending
<1>5. EndSelf \/ EndWork => FrameLoop!Finish
  <2>1. EndSelf \/ EndWork => Pending = {}
    BY DEF EndSelf, EndWork, Pending
  <2> QED BY <1>1, <2>1 DEF EndSelf, EndWork, FrameLoop!Finish, Pending
<1>6. EndFrame => FrameLoop!Close
  BY <1>1 DEF EndFrame, FrameLoop!Close, Pending
<1>7. StopThread => FrameLoop!Quit
  BY <1>1 DEF StopThread, FrameLoop!Quit, Pending
<1>8. ASSUME SecondEnter
      PROVE  FrameLoop!Start \/ UNCHANGED <<Turn, Work, Pending>>
  <2>1. /\ mt_csEnter = Null /\ main' = main /\ second = "enter"
        /\ second' \in {"gone", "run"}
    BY <1>8 DEF SecondEnter
  <2>2. main \in {"render", "over"}
    BY <2>1
  <2>3. CASE main = "over"
    BY <1>1, <2>1, <2>3
  <2>4. CASE main = "render"
    <3>1. ~mt_bMustExit
      BY <2>4
    <3>2. ~marked /\ second' = "run"
      BY <1>8, <2>1, <2>4, <3>1 DEF SecondEnter
    <3>3. Turn = "parallel" /\ Turn' = "parallel"
      BY <2>1, <2>4
    <3>4. Work = "due" /\ Work' = "running"
      BY <2>1, <2>4, <3>2
    <3> QED BY <1>1, <3>3, <3>4 DEF FrameLoop!Start, Turn, Work, Pending
  <2> QED BY <2>2, <2>3, <2>4
<1> QED BY <1>2, <1>3, <1>4, <1>5, <1>6, <1>7, <1>8

(* Work on the tasks, in the parallel part. *)
LEMMA RunTaskMaps ==
    ASSUME LoopInv, seqParallel \in [Tasks -> Nat], NEW t \in Threads,
           NEW task \in Tasks, RunTask(t, task)
    PROVE  FrameLoop!Do(task) \/ UNCHANGED <<Turn, Work, Pending>>
<1>1. /\ UNCHANGED <<main, second, marked>>
      /\ seqParallel[task] > 0
      /\ seqParallel' = [seqParallel EXCEPT ![task] = @ - 1]
      /\ Works(t)
  BY DEF RunTask, threads
<1>2. Work = "running" /\ UNCHANGED <<Turn, Work>>
  BY <1>1 DEF LoopInv, Gates, Works, Work, Turn, Beside
<1>3. CASE seqParallel[task] = 1
  <2>1. Pending' = Pending \ {task}
    BY <1>1, <1>3 DEF Pending
  <2>2. task \in Pending
    BY <1>1 DEF Pending
  <2> QED BY <1>2, <2>1, <2>2 DEF FrameLoop!Do, Turn, Work, Pending
<1>4. CASE seqParallel[task] # 1
  <2>1. Pending' = Pending
    BY <1>1, <1>4 DEF Pending
  <2> QED BY <1>2, <2>1
<1> QED BY <1>3, <1>4

-----------------------------------------------------------------------------
(* What is put aside is a bag of tasks. *)
TasksOK == /\ seqParallel \in [Tasks -> Nat]
           /\ {wait, failed} \subseteq [Monsters -> BOOLEAN]

LEMMA PutAsideOK ==
    ASSUME TasksOK, NEW S, NEW P, PutAside(S, P)
    PROVE  TasksOK'
  BY DEF TasksOK, PutAside

LEMMA TakeBackOK ==
    ASSUME TasksOK, NEW o, NEW K, TakeBack(o, K)
    PROVE  seqParallel' \in [Tasks -> Nat] /\ wait' \in [Monsters -> BOOLEAN]
  BY DEF TasksOK, TakeBack

LEMMA InitTasks == Init => TasksOK
  BY DEF Init, TasksOK

LEMMA NextTasks == TasksOK /\ [Next]_vars => TasksOK'
<1> SUFFICES ASSUME TasksOK, [Next]_vars PROVE TasksOK'
  OBVIOUS
<1>1. CASE UNCHANGED tasks
  BY <1>1 DEF tasks, TasksOK
<1>2. CASE FrameMove
  BY <1>2 DEF FrameMove, TasksOK
<1>3. ASSUME NEW o \in Objs, shedule_Update(o) \/ SingleUpdate(o)
      PROVE  TasksOK'
  BY <1>3, PutAsideOK DEF shedule_Update, SingleUpdate
<1>4. ASSUME NEW o \in Monsters, on_restrictions_change(o) PROVE TasksOK'
  BY <1>4, TakeBackOK DEF on_restrictions_change, TasksOK
<1>5. CASE Destroy
  <2>1. PICK o : TakeBack(o, Kinds) /\ failed' = [m \in Monsters |-> failed[m] /\ m # o]
    BY <1>5 DEF Destroy, DestroyAt
  <2> QED BY <2>1, TakeBackOK DEF TasksOK
<1>6. ASSUME NEW t \in Threads, NEW task \in Tasks, RunTask(t, task)
      PROVE  TasksOK'
  <2>1. seqParallel' \in [Tasks -> Nat]
    BY <1>6 DEF RunTask, TasksOK
  <2>2. task[1] \in Monsters
    BY DEF Tasks
  <2>3. {wait', failed'} \subseteq [Monsters -> BOOLEAN]
    <3>1. CASE UNCHANGED <<wait, failed>>
      BY <3>1 DEF TasksOK
    <3>2. CASE /\ wait' = [wait EXCEPT ![task[1]] = FALSE]
               /\ \/ failed' = failed
                  \/ failed' = [failed EXCEPT ![task[1]] = TRUE]
      BY <2>2, <3>2 DEF TasksOK
    <3> QED BY <1>6, <3>1, <3>2 DEF RunTask
  <2> QED BY <2>1, <2>3 DEF TasksOK
<1>7. CASE Frame
  BY <1>1, <1>2, <1>3, <1>5, <1>7
     DEF Frame, EndPass, BeginUpdate, EndUpdate, EndDestroy, TakeLeave, FreeEnter,
         TakeEnter, FreeLeave, Ensure, EndSelf, EndFrame, EndRun, others, tasks
<1>8. CASE SecondThread
  BY <1>1, <1>8 DEF SecondThread, SecondEnter, EndWork, SecondLeave, SecondBack,
                   others, tasks
<1>9. ASSUME NEW t \in Threads, Parallel(t) PROVE TasksOK'
  BY <1>1, <1>6, <1>9 DEF Parallel, CrowExchange, tasks
<1>10. CASE World
  BY <1>1, <1>3, <1>4, <1>10
     DEF World, Pause, Unpause, remove_objects, StopThread, others, g_sv_Spawn,
         H_SetParent, GE_DESTROY, processing_activate, processing_deactivate,
         CrowRead, tasks
<1>11. CASE Ended \/ UNCHANGED vars
  BY <1>1, <1>11 DEF Ended, vars
<1> QED BY <1>7, <1>8, <1>9, <1>10, <1>11 DEF Next

-----------------------------------------------------------------------------
LEMMA NextImplementsFrames ==
    LoopInv /\ TasksOK /\ [Next]_vars => [FrameLoop!FrameNext]_(FrameLoop!frameVars)
<1> SUFFICES ASSUME LoopInv, TasksOK, [Next]_vars
             PROVE  FrameLoop!FrameNext \/ UNCHANGED <<Turn, Work, Pending>>
  BY DEF FrameLoop!frameVars, Turn, Work, Pending
<1>1. GameStep \/ PhaseStep => FrameLoop!Play
  BY GamePlays DEF GameStep, PhaseStep, Game
<1>2. CASE UNCHANGED <<threads, seqParallel>>
  BY <1>2 DEF threads, Turn, Work, Pending
<1>3. \/ TakeLeave \/ FreeEnter \/ TakeEnter \/ FreeLeave \/ EndRun \/ SecondLeave
      \/ SecondBack \/ Ensure \/ EndSelf \/ EndWork \/ EndFrame \/ StopThread
      \/ SecondEnter
      => UNCHANGED seqParallel
  <2>1. UNCHANGED others => UNCHANGED seqParallel
    BY DEF others, tasks
  <2>2. TakeLeave \/ FreeEnter \/ TakeEnter \/ FreeLeave => UNCHANGED others
    BY DEF TakeLeave, FreeEnter, TakeEnter, FreeLeave
  <2>3. EndRun \/ Ensure \/ EndSelf \/ EndFrame \/ StopThread => UNCHANGED others
    BY DEF EndRun, Ensure, EndSelf, EndFrame, StopThread
  <2>4. SecondLeave \/ SecondBack \/ EndWork \/ SecondEnter => UNCHANGED others
    BY DEF SecondLeave, SecondBack, EndWork, SecondEnter
  <2> QED BY <2>1, <2>2, <2>3, <2>4
<1>4. CASE Frame
  <2>1. CASE FrameMove \/ EndPass \/ BeginUpdate \/ EndUpdate \/ EndDestroy
    BY <1>1, <2>1, PhaseSteps DEF FrameLoop!FrameNext
  <2>2. ASSUME NEW o \in Objs, SingleUpdate(o) PROVE FrameLoop!FrameNext
    BY <1>1, <2>2, GameSteps DEF FrameLoop!FrameNext
  <2>3. CASE Destroy
    BY <1>1, <2>3, GameSteps DEF FrameLoop!FrameNext
  <2>4. CASE \/ TakeLeave \/ FreeEnter \/ TakeEnter \/ FreeLeave \/ Ensure
             \/ EndSelf \/ EndFrame \/ EndRun
    <3>1. UNCHANGED seqParallel
      BY <1>3, <2>4
    <3> QED BY <2>4, <3>1, GatesMap DEF FrameLoop!FrameNext
  <2> QED BY <1>4, <2>1, <2>2, <2>3, <2>4 DEF Frame
<1>5. CASE SecondThread
  BY <1>3, <1>5, GatesMap DEF SecondThread, FrameLoop!FrameNext
<1>6. ASSUME NEW t \in Threads, Parallel(t)
      PROVE  FrameLoop!FrameNext \/ UNCHANGED <<Turn, Work, Pending>>
  BY <1>2, <1>6, RunTaskMaps DEF Parallel, CrowExchange, TasksOK, tasks,
                                 FrameLoop!FrameNext
<1>7. CASE World
  <2>1. ASSUME NEW o \in Objs, NEW t \in Threads, CrowRead(t, o)
        PROVE  UNCHANGED <<threads, seqParallel>>
    BY <2>1 DEF CrowRead, tasks
  <2>2. ASSUME NEW o \in Objs,
               \/ shedule_Update(o) \/ g_sv_Spawn(o) \/ H_SetParent(o)
               \/ GE_DESTROY(o) \/ processing_activate(o)
               \/ processing_deactivate(o)
        PROVE  FrameLoop!FrameNext
    BY <1>1, <2>2, GameSteps DEF FrameLoop!FrameNext
  <2>3. ASSUME NEW o \in Monsters, on_restrictions_change(o)
        PROVE  FrameLoop!FrameNext
    BY <1>1, <2>3, GameSteps DEF FrameLoop!FrameNext
  <2>4. CASE Pause \/ Unpause \/ remove_objects
    BY <1>1, <2>4, GameSteps DEF FrameLoop!FrameNext
  <2>5. CASE StopThread
    BY <1>3, <2>5, GatesMap DEF FrameLoop!FrameNext
  <2> QED BY <1>2, <1>7, <2>1, <2>2, <2>3, <2>4, <2>5 DEF World
<1>8. CASE Ended \/ UNCHANGED vars
  BY <1>2, <1>8 DEF Ended, vars, tasks
<1> QED BY <1>4, <1>5, <1>6, <1>7, <1>8 DEF Next

(* Game and parallel part take turns, and every task put aside is done in  *)
(* its frame by one thread, for any number of objects and monsters.        *)
THEOREM EngineImplementsFrames == Spec => ImplementsFrames
<1>1. Init => FrameLoop!FrameInit
  BY DEF Init, FrameLoop!FrameInit, Game, Beside, Tasks
<1> QED BY <1>1, SpecLoop, InitTasks, NextTasks, NextImplementsFrames, PTL
        DEF Spec, ImplementsFrames, FrameLoop!FrameSpec

-----------------------------------------------------------------------------
(* Who waits for a path has a task, where no delay after a failure is used. *)
Kept == \A o \in NoDelay : ~failed[o] /\ (wait[o] => seqParallel[<<o, "path">>] > 0)

LEMMA PutAsideKeeps ==
    ASSUME TasksOK, Kept, NEW S, NEW P, PutAside(S, P)
    PROVE  Kept'
<1> SUFFICES ASSUME NEW o \in NoDelay
             PROVE  ~failed'[o] /\ (wait'[o] => seqParallel'[<<o, "path">>] > 0)
  BY DEF Kept
<1>1. o \in Monsters /\ <<o, "path">> \in Tasks
  BY DEF Tasks, Kinds
<1>2. ~failed'[o]
  BY DEF PutAside, Kept
<1>3. wait'[o] <=> wait[o] \/ o \in P
  BY <1>1 DEF PutAside
<1>4. seqParallel[<<o, "path">>] \in Nat
  BY <1>1 DEF TasksOK
<1>5. seqParallel'[<<o, "path">>] =
        seqParallel[<<o, "path">>] + IF o \in P THEN 1 ELSE 0
  <2>1. ~failed[o]
    BY DEF Kept
  <2> QED BY <1>1, <2>1 DEF PutAside
<1> QED BY <1>2, <1>3, <1>4, <1>5 DEF Kept

LEMMA TakeBackKeeps ==
    ASSUME TasksOK, Kept, NEW x, NEW K, TakeBack(x, K), NEW o \in NoDelay, wait'[o]
    PROVE  seqParallel'[<<o, "path">>] > 0
<1>1. o \in Monsters /\ <<o, "path">> \in Tasks
  BY DEF Tasks, Kinds
<1>2. wait[o] /\ o # x
  BY <1>1 DEF TakeBack
<1>3. seqParallel'[<<o, "path">>] = seqParallel[<<o, "path">>]
  BY <1>1, <1>2 DEF TakeBack
<1> QED BY <1>2, <1>3 DEF Kept

LEMMA RunTaskKeeps ==
    ASSUME TasksOK, Kept, NEW t \in Threads, NEW task \in Tasks, RunTask(t, task)
    PROVE  Kept'
<1> SUFFICES ASSUME NEW o \in NoDelay
             PROVE  ~failed'[o] /\ (wait'[o] => seqParallel'[<<o, "path">>] > 0)
  BY DEF Kept
<1>1. o \in Monsters /\ <<o, "path">> \in Tasks /\ task[1] \in Monsters
  BY DEF Tasks, Kinds
<1>2. CASE task = <<o, "path">>
  <2>1. wait' = [wait EXCEPT ![o] = FALSE] /\ failed' = failed
    BY <1>2 DEF RunTask
  <2>2. ~wait'[o]
    BY <1>1, <2>1 DEF TasksOK
  <2> QED BY <2>1, <2>2 DEF Kept
<1>3. CASE task # <<o, "path">>
  <2>1. seqParallel'[<<o, "path">>] = seqParallel[<<o, "path">>]
    BY <1>1, <1>3 DEF RunTask, TasksOK
  <2>2. wait'[o] = wait[o] /\ failed'[o] = failed[o]
    <3>1. CASE UNCHANGED <<wait, failed>>
      BY <3>1
    <3>2. CASE /\ task[2] = "path"
               /\ wait' = [wait EXCEPT ![task[1]] = FALSE]
               /\ \/ failed' = failed
                  \/ failed' = [failed EXCEPT ![task[1]] = TRUE]
      <4>1. task[1] # o
        BY <1>3, <3>2 DEF Tasks
      <4> QED BY <1>1, <3>2, <4>1 DEF TasksOK
    <3> QED BY <3>1, <3>2 DEF RunTask
  <2> QED BY <2>1, <2>2 DEF Kept
<1> QED BY <1>2, <1>3

LEMMA NextKeeps == TasksOK /\ Kept /\ [Next]_vars => Kept'
<1> SUFFICES ASSUME TasksOK, Kept, [Next]_vars PROVE Kept'
  OBVIOUS
<1>1. CASE UNCHANGED tasks
  BY <1>1 DEF tasks, Kept
<1>2. CASE FrameMove
  <2>1. PICK still \in SUBSET {o \in Monsters : failed[o]} :
           failed' = [o \in Monsters |-> o \in still]
    BY <1>2 DEF FrameMove
  <2>2. UNCHANGED <<wait, seqParallel>>
    BY <1>2 DEF FrameMove
  <2>3. \A o \in NoDelay : ~failed'[o]
    BY <2>1 DEF Kept
  <2> QED BY <2>2, <2>3 DEF Kept
<1>3. ASSUME NEW o \in Objs, shedule_Update(o) \/ SingleUpdate(o)
      PROVE  Kept'
  BY <1>3, PutAsideKeeps DEF shedule_Update, SingleUpdate
<1>4. ASSUME NEW o \in Monsters, on_restrictions_change(o) PROVE Kept'
  BY <1>4, TakeBackKeeps DEF on_restrictions_change, Kept
<1>5. CASE Destroy
  <2>1. PICK o : TakeBack(o, Kinds) /\ failed' = [m \in Monsters |-> failed[m] /\ m # o]
    BY <1>5 DEF Destroy, DestroyAt
  <2>2. \A x \in NoDelay : ~failed'[x]
    BY <2>1 DEF Kept
  <2> QED BY <2>1, <2>2, TakeBackKeeps DEF Kept
<1>6. CASE Frame
  BY <1>1, <1>2, <1>3, <1>5, <1>6
     DEF Frame, EndPass, BeginUpdate, EndUpdate, EndDestroy, TakeLeave, FreeEnter,
         TakeEnter, FreeLeave, Ensure, EndSelf, EndFrame, EndRun, others, tasks
<1>7. CASE SecondThread
  BY <1>1, <1>7 DEF SecondThread, SecondEnter, EndWork, SecondLeave, SecondBack,
                   others, tasks
<1>8. ASSUME NEW t \in Threads, Parallel(t) PROVE Kept'
  BY <1>1, <1>8, RunTaskKeeps DEF Parallel, CrowExchange, tasks
<1>9. CASE World
  BY <1>1, <1>3, <1>4, <1>9
     DEF World, Pause, Unpause, remove_objects, StopThread, others, g_sv_Spawn,
         H_SetParent, GE_DESTROY, processing_activate, processing_deactivate,
         CrowRead, tasks
<1>10. CASE Ended \/ UNCHANGED vars
  BY <1>1, <1>10 DEF Ended, vars
<1> QED BY <1>6, <1>7, <1>8, <1>9, <1>10 DEF Next

(* A monster that uses no delay after a failure, as stalkers do, always has *)
(* the task it waits for: only the delay makes CLevelPathBuilder forget.    *)
THEOREM NoDelayNoneForgotten == Spec => [](\A o \in NoDelay : ~Forgotten(o))
<1>1. Init => Kept
  BY DEF Init, Kept
<1>2. Kept /\ TasksOK => \A o \in NoDelay : ~Forgotten(o)
  <2> SUFFICES ASSUME Kept, TasksOK, NEW o \in NoDelay PROVE ~Forgotten(o)
    OBVIOUS
  <2>1. wait[o] => seqParallel[<<o, "path">>] > 0
    BY DEF Kept
  <2> QED BY <2>1 DEF Forgotten
<1> QED BY <1>1, <1>2, InitTasks, NextTasks, NextKeeps, PTL DEF Spec

-----------------------------------------------------------------------------
(* The lists of Engine name objects that exist: the invariant ListsAreLive   *)
(* and what it rests on, the families that are destroyed together, the      *)
(* crows of both threads, and the tasks that were put aside.                *)

(* Which steps change what. *)
ObjectSteps ==
    \/ remove_objects \/ Destroy
    \/ \E o \in Objs : \/ g_sv_Spawn(o) \/ H_SetParent(o) \/ GE_DESTROY(o)
                       \/ processing_activate(o) \/ processing_deactivate(o)

CrowSteps ==
    \/ FrameMove \/ remove_objects \/ BeginUpdate \/ Destroy
    \/ \E o \in Objs : \/ shedule_Update(o) \/ g_sv_Spawn(o) \/ H_SetParent(o)
                       \/ processing_activate(o) \/ SingleUpdate(o)
                       \/ \E t \in Threads : CrowRead(t, o)
    \/ \E t \in Threads : CrowExchange(t)

UpdSteps ==
    \/ FrameMove \/ remove_objects \/ BeginUpdate \/ Destroy
    \/ \E o \in Objs : SingleUpdate(o)

TimeSteps == FrameMove \/ Pause \/ Unpause \/ remove_objects \/ EndDestroy

LEMMA FrameChanges ==
    Frame => /\ UNCHANGED objects \/ ObjectSteps
             /\ UNCHANGED crows \/ CrowSteps
             /\ UNCHANGED upd \/ UpdSteps
             /\ UNCHANGED time \/ TimeSteps
<1>1. CASE FrameMove \/ BeginUpdate
  BY <1>1 DEF FrameMove, BeginUpdate, ObjectSteps, CrowSteps, UpdSteps, TimeSteps,
              objects, crows, upd, time
<1>2. CASE EndPass \/ EndUpdate \/ EndDestroy
  BY <1>2 DEF EndPass, EndUpdate, EndDestroy, ObjectSteps, CrowSteps, UpdSteps,
              TimeSteps, objects, crows, upd, time
<1>3. CASE \E o \in Objs : SingleUpdate(o)
  BY <1>3 DEF SingleUpdate, ObjectSteps, CrowSteps, UpdSteps, TimeSteps,
              objects, crows, upd, time
<1>4. CASE Destroy
  BY <1>4 DEF Destroy, DestroyAt, ObjectSteps, CrowSteps, UpdSteps, TimeSteps, time
<1>5. CASE TakeLeave \/ FreeEnter \/ TakeEnter \/ FreeLeave \/ Ensure \/ EndSelf \/ EndFrame \/ EndRun
  BY <1>5 DEF TakeLeave, FreeEnter, TakeEnter, FreeLeave, Ensure, EndSelf, EndFrame,
              EndRun, others
<1> QED BY <1>1, <1>2, <1>3, <1>4, <1>5 DEF Frame

LEMMA Changes ==
    [Next]_vars => /\ UNCHANGED objects \/ ObjectSteps
                   /\ UNCHANGED crows \/ CrowSteps
                   /\ UNCHANGED upd \/ UpdSteps
                   /\ UNCHANGED time \/ TimeSteps
<1>1. CASE SecondThread
  BY <1>1 DEF SecondThread, SecondEnter, EndWork, SecondLeave, SecondBack, others
<1>2. ASSUME NEW t \in Threads, Parallel(t)
      PROVE  /\ UNCHANGED objects \/ ObjectSteps
             /\ UNCHANGED crows \/ CrowSteps
             /\ UNCHANGED upd \/ UpdSteps
             /\ UNCHANGED time \/ TimeSteps
  BY <1>2 DEF Parallel, CrowExchange, RunTask, CrowSteps
<1>3. CASE Pause \/ Unpause \/ remove_objects \/ StopThread
  BY <1>3 DEF Pause, Unpause, remove_objects, StopThread, others, ObjectSteps,
              CrowSteps, UpdSteps, TimeSteps, objects, crows, upd, time
<1>4. ASSUME NEW o \in Objs,
             \/ shedule_Update(o) \/ g_sv_Spawn(o) \/ H_SetParent(o)
             \/ GE_DESTROY(o) \/ processing_activate(o) \/ processing_deactivate(o)
             \/ \E t \in Threads : CrowRead(t, o)
      PROVE  /\ UNCHANGED objects \/ ObjectSteps
             /\ UNCHANGED crows \/ CrowSteps
             /\ UNCHANGED upd \/ UpdSteps
             /\ UNCHANGED time \/ TimeSteps
  BY <1>4 DEF shedule_Update, g_sv_Spawn, H_SetParent, GE_DESTROY, CrowRead,
              processing_activate, processing_deactivate, ObjectSteps, CrowSteps
<1>5. ASSUME NEW o \in Monsters, on_restrictions_change(o)
      PROVE  UNCHANGED <<objects, crows, upd, time>>
  BY <1>5 DEF on_restrictions_change
<1>6. CASE Ended \/ UNCHANGED vars
  BY <1>6 DEF Ended, vars
<1> QED BY FrameChanges, <1>1, <1>2, <1>3, <1>4, <1>5, <1>6 DEF Next, World

-----------------------------------------------------------------------------
(* Types. *)
TimeOK == {paused, tick, removing, active} \subseteq BOOLEAN

ObjectsOK ==
    /\ life \in [Objs -> {"none", "sleeping", "active"}]
    /\ bDestroy \in [Objs -> BOOLEAN]
    /\ Parent \in [Objs -> Monsters \cup {Null}]
    /\ destroy_queue \in Seq(Objs)

CrowsOK ==
    /\ {crow, asCrow} \subseteq [Objs -> BOOLEAN]
    /\ m_crows \in [Threads -> [Objs -> Nat]]
    /\ candidate \in [Threads -> Objs \cup {Null}]

UpdOK == updated \in [Objs -> BOOLEAN] /\ workload \subseteq Objs

Types == TimeOK /\ ObjectsOK /\ CrowsOK /\ UpdOK /\ TasksOK

LEMMA InitTypes == Init => Types
<1> SUFFICES ASSUME Init PROVE Types
  OBVIOUS
<1>1. TimeOK
  BY DEF Init, TimeOK
<1>2. ObjectsOK
  BY DEF Init, ObjectsOK
<1>3. CrowsOK
  BY DEF Init, CrowsOK
<1>4. UpdOK
  BY DEF Init, UpdOK
<1> QED BY <1>1, <1>2, <1>3, <1>4, InitTasks DEF Types

LEMMA TypesTypeOK == LoopInv /\ Types => TypeOK
<1> SUFFICES ASSUME LoopInv, Types PROVE TypeOK
  OBVIOUS
<1>1. {mt_bMustExit, marked, paused, tick, removing, active} \subseteq BOOLEAN
  BY DEF LoopInv, Exit, Turns, Types, TimeOK
<1>2. {mt_csEnter, mt_csLeave} \subseteq Threads \cup {Null}
  BY DEF LoopInv, Gates, Threads
<1> QED
  BY <1>1, <1>2 DEF LoopInv, Gates, Types, ObjectsOK, CrowsOK, UpdOK, TasksOK, TypeOK

LEMMA TimeType == TimeOK /\ [Next]_vars => TimeOK'
<1>1. UNCHANGED time /\ TimeOK => TimeOK'
  BY DEF time, TimeOK
<1>2. TimeSteps /\ TimeOK => TimeOK'
  BY DEF TimeSteps, FrameMove, Pause, Unpause, remove_objects, EndDestroy, TimeOK
<1> QED BY <1>1, <1>2, Changes

LEMMA MakeMeCrowType ==
    ASSUME CrowsOK, NEW S, NEW l, MakeMeCrow(S, l)
    PROVE  CrowsOK'
<1>1. {crow', asCrow'} \subseteq [Objs -> BOOLEAN]
  BY DEF MakeMeCrow
<1>2. m_crows' \in [Threads -> [Objs -> Nat]]
  <2> DEFINE row == [o \in Objs |->
                       m_crows["main"][o] + IF o \in NewCrows(S, l) THEN 1 ELSE 0]
  <2>1. m_crows' = [m_crows EXCEPT !["main"] = row]
    BY DEF MakeMeCrow, CrowsOK, Threads
  <2>2. \A o \in Objs : m_crows["main"][o] \in Nat
    BY DEF CrowsOK, Threads
  <2>3. row \in [Objs -> Nat]
    BY <2>2
  <2> QED BY <2>1, <2>3 DEF CrowsOK
<1> QED BY <1>1, <1>2 DEF MakeMeCrow, CrowsOK

LEMMA RemovedElement ==
    ASSUME NEW S, NEW q \in Seq(S), Len(q) \in DOMAIN q
    PROVE  /\ RemoveAt(q, Len(q)) \in Seq(S)
           /\ Len(RemoveAt(q, Len(q))) = Len(q) - 1
           /\ \A j \in 1 .. Len(q) - 1 : RemoveAt(q, Len(q))[j] = q[j]
<1> DEFINE front == SubSeq(q, 1, Len(q) - 1)
<1>1. Len(q) \in Nat /\ DOMAIN q = 1 .. Len(q) /\ Len(q) \in 1 .. Len(q)
  BY LenProperties
<1>2. /\ front \in Seq(S)
      /\ Len(front) = Len(q) - 1
      /\ \A j \in 1 .. Len(q) - 1 : front[j] = q[j]
  BY <1>1, SubSeqProperties
<1>3. SubSeq(q, Len(q) + 1, Len(q)) = <<>>
  BY <1>1, SubSeqProperties, EmptySeq
<1>4. front \o <<>> = front
  BY <1>2, ConcatEmptySeq
<1>5. RemoveAt(q, Len(q)) = front
  BY <1>3, <1>4 DEF RemoveAt
<1> QED BY <1>2, <1>5

LEMMA OrderType ==
    ASSUME NEW T, T \subseteq Objs, IsFiniteSet(T), NEW order \in SetToSeqs(T)
    PROVE  /\ order \in Seq(Objs)
           /\ \A x : x \in T <=> \E k \in DOMAIN order : order[k] = x
           /\ \A j, k \in DOMAIN order : j # k => order[j] # order[k]
<1> DEFINE D == 1 .. Cardinality(T)
<1>1. order \in [D -> T] /\ \A j, k \in D : j # k => order[j] # order[k]
  BY DEF SetToSeqs
<1>2. Cardinality(T) \in Nat
  BY FS_CardinalityType
<1>3. order \in Injection(D, T)
  BY <1>1 DEF Injection, IsInjective
<1>4. Cardinality(D) = Cardinality(T)
  BY <1>2, FS_Interval
<1>5. order \in Surjection(D, T)
  BY <1>3, <1>4, FS_Injection
<1>6. \A x \in T : \E k \in D : order[k] = x
  BY <1>5 DEF Surjection
<1>7. order \in Seq(Objs)
  BY <1>1, <1>2
<1> QED BY <1>1, <1>6, <1>7

-----------------------------------------------------------------------------
(* Families: who is destroyed, and in what order. *)

Within(q, o) == \E k \in DOMAIN q : q[k] = o
Distinct(q)  == \A j, k \in DOMAIN q : q[j] = q[k] => j = k

\* The queue is the set of the doomed.
Queued ==
    /\ Distinct(destroy_queue)
    /\ \A o \in Objs : bDestroy[o] <=> Within(destroy_queue, o)
    /\ \A o \in Objs : bDestroy[o] => life[o] # "none"

\* Relatives exist, and are doomed together.
Related ==
    \A o \in Objs : Parent[o] # Null =>
        /\ o \notin Monsters
        /\ life[o] # "none"
        /\ life[Parent[o]] # "none"
        /\ bDestroy[o] <=> bDestroy[Parent[o]]

\* A parent is queued in front of its children.
ParentsFirst ==
    \A j, k \in DOMAIN destroy_queue :
        destroy_queue[k] = Parent[destroy_queue[j]] => k < j

Living   == {o \in Objs : life[o] # "none"}
Cleared  == removing => \A o \in Objs : life[o] # "none" => bDestroy[o]
Families == /\ IsFiniteSet(Living)
            /\ Queued /\ Related /\ ParentsFirst /\ Cleared

LEMMA InitFamilies == Init => Families
<1> SUFFICES ASSUME Init PROVE Families
  OBVIOUS
<1>1. /\ \A o \in Objs : life[o] = "none" /\ ~bDestroy[o] /\ Parent[o] = Null
      /\ destroy_queue = <<>>
      /\ ~removing
  BY DEF Init
<1>2. Living = {}
  BY <1>1 DEF Living
<1>3. DOMAIN destroy_queue = {}
  BY <1>1
<1> QED BY <1>1, <1>2, <1>3, FS_EmptySet
        DEF Families, Queued, Related, ParentsFirst, Cleared, Distinct, Within

LEMMA ConcatDistinct ==
    ASSUME NEW q \in Seq(Objs), NEW r \in Seq(Objs), Distinct(q), Distinct(r),
           \A o : ~(Within(q, o) /\ Within(r, o))
    PROVE  /\ q \o r \in Seq(Objs)
           /\ Distinct(q \o r)
           /\ \A o : Within(q \o r, o) <=> Within(q, o) \/ Within(r, o)
<1>1. /\ q \o r \in Seq(Objs)
      /\ Len(q \o r) = Len(q) + Len(r)
      /\ \A i \in 1 .. Len(q) + Len(r) :
            (q \o r)[i] = IF i <= Len(q) THEN q[i] ELSE r[i - Len(q)]
  BY ConcatProperties
<1>2. /\ Len(q) \in Nat /\ DOMAIN q = 1 .. Len(q)
      /\ Len(r) \in Nat /\ DOMAIN r = 1 .. Len(r)
      /\ DOMAIN (q \o r) = 1 .. Len(q) + Len(r)
  BY <1>1, LenProperties
<1> DEFINE c == q \o r
<1>3. \A i \in DOMAIN c : \/ i \in DOMAIN q /\ c[i] = q[i]
                          \/ i - Len(q) \in DOMAIN r /\ c[i] = r[i - Len(q)]
  BY <1>1, <1>2
<1>4. \A i \in DOMAIN q : i \in DOMAIN c /\ c[i] = q[i]
  BY <1>1, <1>2
<1>5. \A i \in DOMAIN r : i + Len(q) \in DOMAIN c /\ c[i + Len(q)] = r[i]
  <2> SUFFICES ASSUME NEW i \in DOMAIN r
               PROVE  i + Len(q) \in DOMAIN c /\ c[i + Len(q)] = r[i]
    OBVIOUS
  <2>1. i \in Nat /\ i + Len(q) \in 1 .. Len(q) + Len(r) /\ ~(i + Len(q) <= Len(q))
    BY <1>2
  <2>2. (i + Len(q)) - Len(q) = i
    BY <1>2, <2>1
  <2> QED BY <1>1, <1>2, <2>1, <2>2
<1> HIDE DEF c
<1>6. \A o : Within(c, o) <=> Within(q, o) \/ Within(r, o)
  BY <1>3, <1>4, <1>5 DEF Within
<1>7. ASSUME NEW j \in DOMAIN c, NEW k \in DOMAIN c, c[j] = c[k]
      PROVE  j = k
  <2>0. j \in Int /\ k \in Int
    BY <1>2 DEF c
  <2>1. CASE j \in DOMAIN q /\ k \in DOMAIN q /\ c[j] = q[j] /\ c[k] = q[k]
    BY <2>1, <1>7 DEF Distinct
  <2>2. CASE /\ j - Len(q) \in DOMAIN r /\ k - Len(q) \in DOMAIN r
             /\ c[j] = r[j - Len(q)] /\ c[k] = r[k - Len(q)]
    <3>1. j - Len(q) = k - Len(q)
      BY <2>2, <1>7 DEF Distinct
    <3> QED BY <3>1, <2>0, <1>2
  <2>3. \A x \in DOMAIN q : \A y \in DOMAIN r : q[x] # r[y]
    BY DEF Within
  <2> QED BY <1>3, <1>7, <2>1, <2>2, <2>3
<1>8. Distinct(c)
  BY <1>7 DEF Distinct
<1> QED BY <1>1, <1>6, <1>8 DEF c

\* Who is queued has a place.
LEMMA InQueue ==
    ASSUME ObjectsOK
    PROVE  \A k \in DOMAIN destroy_queue : /\ destroy_queue[k] \in Objs
                                           /\ Within(destroy_queue, destroy_queue[k])
  BY LenProperties DEF ObjectsOK, Within

LEMMA SpawnFamilies ==
    ASSUME ObjectsOK, Families, NEW o \in Objs, g_sv_Spawn(o)
    PROVE  ObjectsOK' /\ Families'
<1>1. PICK p \in {Null} \cup {m \in Monsters : life[m] # "none" /\ ~bDestroy[m]} :
         /\ p # Null => o \notin Monsters
         /\ Parent' = [Parent EXCEPT ![o] = p]
  BY DEF g_sv_Spawn
<1>2. /\ life[o] = "none" /\ life' = [life EXCEPT ![o] = "active"]
      /\ UNCHANGED <<bDestroy, destroy_queue, removing>>
      /\ ~removing
  BY DEF g_sv_Spawn, time
<1>3. ObjectsOK'
  BY <1>1, <1>2 DEF ObjectsOK
<1>4. ~bDestroy[o] /\ ~Within(destroy_queue, o)
  BY <1>2 DEF Families, Queued
<1>5. \A x \in Objs : /\ Parent'[x] = IF x = o THEN p ELSE Parent[x]
                      /\ life'[x] = IF x = o THEN "active" ELSE life[x]
  BY <1>1, <1>2 DEF ObjectsOK
<1>6. IsFiniteSet(Living')
  <2>1. Living' = Living \cup {o}
    BY <1>5 DEF Living
  <2> QED BY <2>1, FS_AddElement DEF Families
<1>7. Queued'
  BY <1>2, <1>5 DEF Families, Queued
<1>8. Related'
  <2> SUFFICES ASSUME NEW x \in Objs, Parent'[x] # Null
               PROVE  /\ x \notin Monsters
                      /\ life'[x] # "none"
                      /\ life'[Parent'[x]] # "none"
                      /\ bDestroy[x] <=> bDestroy[Parent'[x]]
    BY <1>2 DEF Related
  <2>1. CASE x = o
    <3>1. Parent'[x] = p /\ p \in Objs /\ life[p] # "none" /\ ~bDestroy[p] /\ o \notin Monsters
      BY <1>1, <1>5, <2>1
    <3> QED BY <1>4, <1>5, <2>1, <3>1
  <2>2. CASE x # o
    <3>1. Parent'[x] = Parent[x] /\ Parent[x] \in Objs
      BY <1>5, <2>2 DEF ObjectsOK
    <3> QED BY <1>5, <2>2, <3>1 DEF Families, Related
  <2> QED BY <2>1, <2>2
<1>9. ParentsFirst'
  <2>1. \A j \in DOMAIN destroy_queue : Parent'[destroy_queue[j]] = Parent[destroy_queue[j]]
    BY <1>4, <1>5, InQueue
  <2> QED BY <1>2, <2>1 DEF Families, ParentsFirst
<1>10. Cleared'
  BY <1>2 DEF Cleared
<1> QED BY <1>3, <1>6, <1>7, <1>8, <1>9, <1>10 DEF Families

LEMMA SetParentFamilies ==
    ASSUME ObjectsOK, Families, NEW o \in Objs, H_SetParent(o)
    PROVE  ObjectsOK' /\ Families'
<1>1. PICK p \in {Null} \cup {m \in Monsters : life[m] # "none" /\ ~bDestroy[m]} :
         Parent' = [Parent EXCEPT ![o] = p]
  BY DEF H_SetParent
<1>2. /\ life[o] # "none" /\ ~bDestroy[o] /\ o \notin Monsters
      /\ UNCHANGED <<life, bDestroy, destroy_queue, removing>>
  BY DEF H_SetParent, time
<1>3. ObjectsOK'
  BY <1>1, <1>2 DEF ObjectsOK
<1>4. ~Within(destroy_queue, o)
  BY <1>2 DEF Families, Queued
<1>5. \A x \in Objs : Parent'[x] = IF x = o THEN p ELSE Parent[x]
  BY <1>1, <1>2 DEF ObjectsOK
<1>6. IsFiniteSet(Living') /\ Queued' /\ Cleared'
  BY <1>2 DEF Families, Living, Queued, Cleared
<1>7. Related'
  BY <1>1, <1>2, <1>5 DEF Families, Related
<1>8. ParentsFirst'
  <2>1. \A j \in DOMAIN destroy_queue : Parent'[destroy_queue[j]] = Parent[destroy_queue[j]]
    BY <1>4, <1>5, InQueue
  <2> QED BY <1>2, <2>1 DEF Families, ParentsFirst
<1> QED BY <1>3, <1>6, <1>7, <1>8 DEF Families

LEMMA LifeFamilies ==
    ASSUME ObjectsOK, Families, NEW o \in Objs,
           processing_activate(o) \/ processing_deactivate(o)
    PROVE  ObjectsOK' /\ Families'
<1>1. /\ life[o] # "none"
      /\ life' \in {[life EXCEPT ![o] = "active"], [life EXCEPT ![o] = "sleeping"]}
      /\ UNCHANGED <<Parent, bDestroy, destroy_queue, removing>>
  BY DEF processing_activate, processing_deactivate, time
<1>2. ObjectsOK'
  BY <1>1 DEF ObjectsOK
<1>3. \A x \in Objs : life'[x] # "none" <=> life[x] # "none"
  BY <1>1 DEF ObjectsOK
<1>4. IsFiniteSet(Living')
  <2>1. Living' = Living
    BY <1>3 DEF Living
  <2> QED BY <2>1 DEF Families
<1>5. Queued' /\ ParentsFirst' /\ Cleared'
  BY <1>1, <1>3 DEF Families, Queued, ParentsFirst, Cleared
<1>6. Related'
  <2>1. \A x \in Objs : Parent[x] # Null => Parent[x] \in Objs
    BY DEF ObjectsOK
  <2> QED BY <1>1, <1>3, <2>1 DEF Families, Related
<1> QED BY <1>2, <1>4, <1>5, <1>6 DEF Families

LEMMA DestroyEventFamilies ==
    ASSUME ObjectsOK, Families, NEW o \in Objs, GE_DESTROY(o)
    PROVE  ObjectsOK' /\ Families'
<1> DEFINE S == {x \in Objs : life[x] # "none" /\ ~bDestroy[x] /\ Parent[x] = o}
           q == destroy_queue
<1>1. PICK order \in SetToSeqs(S) : Doom(o, order)
  BY DEF GE_DESTROY
<1>2. /\ life[o] # "none" /\ ~bDestroy[o] /\ Parent[o] = Null
      /\ UNCHANGED <<life, Parent, removing>> /\ ~removing
  BY DEF GE_DESTROY, time
<1>3. IsFiniteSet(S)
  <2>1. S \subseteq Living
    BY DEF Living
  <2> QED BY <2>1, FS_Subset DEF Families
<1>4. /\ order \in Seq(Objs) /\ Distinct(order)
      /\ \A x : x \in S <=> Within(order, x)
  <2>1. S \subseteq Objs
    OBVIOUS
  <2> HIDE DEF S
  <2>2. /\ order \in Seq(Objs)
        /\ \A x : x \in S <=> \E k \in DOMAIN order : order[k] = x
        /\ \A j, k \in DOMAIN order : j # k => order[j] # order[k]
    BY <1>1, <1>3, <2>1, OrderType
  <2> QED BY <2>2 DEF Distinct, Within
<1>5. o \notin S
  BY <1>2
<1> DEFINE one == <<o>>
<1>6. one \in Seq(Objs) /\ Distinct(one) /\ \A x : Within(one, x) <=> x = o
  BY DEF Distinct, Within
<1>7. q \in Seq(Objs) /\ Distinct(q) /\ \A x \in Objs : Within(q, x) <=> bDestroy[x]
  BY DEF ObjectsOK, Families, Queued
<1>7a. \A x : Within(q, x) => x \in Objs
  BY InQueue DEF Within
<1>8. /\ q \o one \in Seq(Objs) /\ Distinct(q \o one)
      /\ \A x : Within(q \o one, x) <=> Within(q, x) \/ x = o
  <2>1. \A x : ~(Within(q, x) /\ Within(one, x))
    BY <1>2, <1>6, <1>7
  <2> HIDE DEF q, one
  <2> QED BY <1>6, <1>7, <2>1, ConcatDistinct
<1>9. /\ destroy_queue' = (q \o one) \o order
      /\ bDestroy' = [x \in Objs |-> bDestroy[x] \/ x \in {o} \cup Range(order)]
  BY <1>1 DEF Doom
<1>10. Range(order) = S
  BY <1>4 DEF Range, Within
<1>11. /\ destroy_queue' \in Seq(Objs) /\ Distinct(destroy_queue')
       /\ \A x : Within(destroy_queue', x) <=> Within(q, x) \/ x = o \/ x \in S
  <2>1. \A x : ~(Within(q \o one, x) /\ Within(order, x))
    BY <1>4, <1>5, <1>7, <1>8
  <2> QED BY <1>4, <1>8, <1>9, <2>1, ConcatDistinct
<1>12. \A x \in Objs : bDestroy'[x] <=> bDestroy[x] \/ x = o \/ x \in S
  BY <1>9, <1>10
<1>13. ObjectsOK'
  BY <1>2, <1>9, <1>11 DEF ObjectsOK
<1>14. Queued'
  BY <1>2, <1>7, <1>11, <1>12 DEF Families, Queued
<1>15. Related'
  <2> SUFFICES ASSUME NEW x \in Objs, Parent[x] # Null
               PROVE  bDestroy'[x] <=> bDestroy'[Parent[x]]
    BY <1>2 DEF Families, Related
  <2>1. Parent[x] \in Monsters /\ Parent[x] \in Objs /\ Parent[Parent[x]] = Null
    BY DEF ObjectsOK, Families, Related
  <2>2. Parent[x] \notin S /\ x # o
    BY <1>2, <2>1
  <2>3. (bDestroy[x] <=> bDestroy[Parent[x]]) /\ life[x] # "none"
    BY DEF Families, Related
  <2> QED BY <1>2, <1>12, <2>1, <2>2, <2>3
<1>16. ParentsFirst'
  <2> DEFINE n == Len(q)
             r == destroy_queue'
  <2>0. n \in Nat /\ DOMAIN q = 1 .. n /\ Len(order) \in Nat /\ DOMAIN order = 1 .. Len(order)
    BY <1>4, <1>7, LenProperties
  <2>1. Len(q \o one) = n + 1 /\ (q \o one)[n + 1] = o
        /\ \A i \in DOMAIN q : (q \o one)[i] = q[i]
    BY <1>6, <1>7, <2>0, ConcatProperties
  <2>2. /\ DOMAIN r = 1 .. (n + 1) + Len(order)
        /\ r[n + 1] = o
        /\ \A i \in DOMAIN q : r[i] = q[i]
        /\ \A i \in DOMAIN r : i > n + 1 => r[i] \in S
    <3>1. /\ Len(r) = (n + 1) + Len(order)
          /\ \A i \in 1 .. (n + 1) + Len(order) :
               r[i] = IF i <= n + 1 THEN (q \o one)[i] ELSE order[i - (n + 1)]
      BY <1>4, <1>8, <1>9, <2>1, ConcatProperties
    <3>2. DOMAIN r = 1 .. Len(r)
      BY <1>11, LenProperties
    <3>3. \A i \in DOMAIN r : i > n + 1 => r[i] \in S
      <4> SUFFICES ASSUME NEW i \in DOMAIN r, i > n + 1
                   PROVE  r[i] \in S
        OBVIOUS
      <4>1. i - (n + 1) \in DOMAIN order /\ r[i] = order[i - (n + 1)]
        BY <2>0, <3>1, <3>2
      <4> QED BY <1>4, <4>1 DEF Within
    <3> QED BY <2>0, <2>1, <3>1, <3>2, <3>3
  <2> SUFFICES ASSUME NEW j \in DOMAIN r, NEW k \in DOMAIN r, r[k] = Parent[r[j]]
               PROVE  k < j
    BY <1>2 DEF ParentsFirst
  <2>3. j \in Int /\ k \in Int /\ r[j] \in Objs /\ r[k] \in Objs
    BY <1>11, <2>2, LenProperties
  <2> HIDE DEF S, q, n, r, one
  <2>4. CASE j \in DOMAIN q
    <3>1. r[j] = q[j] /\ bDestroy[r[j]] /\ Parent[r[j]] # Null
      BY <1>7, <2>2, <2>3, <2>4 DEF Within
    <3>2. bDestroy[r[k]]
      BY <2>3, <3>1 DEF Families, Related
    <3>3. PICK i \in DOMAIN q : q[i] = r[k]
      BY <1>7, <2>3, <3>2 DEF Within
    <3>4. i = k
      BY <1>11, <2>0, <2>2, <3>3 DEF Distinct, r
    <3> QED BY <2>4, <3>1, <3>3, <3>4 DEF Families, ParentsFirst, q
  <2>5. CASE j = n + 1
    BY <1>2, <2>2, <2>3, <2>5
  <2>6. CASE j > n + 1
    <3>1. r[j] \in S
      BY <2>2, <2>6
    <3>2. r[k] = o
      BY <3>1 DEF S
    <3>3. k = n + 1
      BY <1>11, <2>0, <2>2, <3>2 DEF Distinct, r
    <3> QED BY <2>6, <3>3
  <2> QED BY <2>0, <2>2, <2>3, <2>4, <2>5, <2>6
<1>17. IsFiniteSet(Living') /\ Cleared'
  BY <1>2 DEF Families, Living, Cleared
<1> QED BY <1>13, <1>14, <1>15, <1>16, <1>17 DEF Families

LEMMA RemoveObjectsFamilies ==
    ASSUME ObjectsOK, Families, remove_objects
    PROVE  ObjectsOK' /\ Families'
<1> DEFINE S == {o \in Objs : life[o] # "none" /\ ~bDestroy[o]}
           q == destroy_queue
<1>1. PICK order \in SetToSeqs(S) : destroy_queue' = q \o order
  BY DEF remove_objects
<1>2. /\ Parent' = [o \in Objs |-> Null]
      /\ bDestroy' = [o \in Objs |-> life[o] # "none"]
      /\ UNCHANGED life
  BY DEF remove_objects
<1>3. IsFiniteSet(S)
  <2>1. S \subseteq Living
    BY DEF Living
  <2> QED BY <2>1, FS_Subset DEF Families
<1>4. /\ order \in Seq(Objs) /\ Distinct(order)
      /\ \A x : x \in S <=> Within(order, x)
  <2>1. S \subseteq Objs
    OBVIOUS
  <2> HIDE DEF S
  <2>2. /\ order \in Seq(Objs)
        /\ \A x : x \in S <=> \E k \in DOMAIN order : order[k] = x
        /\ \A j, k \in DOMAIN order : j # k => order[j] # order[k]
    BY <1>1, <1>3, <2>1, OrderType
  <2> QED BY <2>2 DEF Distinct, Within
<1>5. q \in Seq(Objs) /\ Distinct(q) /\ \A x \in Objs : Within(q, x) <=> bDestroy[x]
  BY DEF ObjectsOK, Families, Queued
<1>6. \A x : ~(Within(q, x) /\ Within(order, x))
  BY <1>4, <1>5
<1>7. /\ q \o order \in Seq(Objs) /\ Distinct(q \o order)
      /\ \A x : Within(q \o order, x) <=> Within(q, x) \/ Within(order, x)
  <2> HIDE DEF q
  <2> QED BY <1>4, <1>5, <1>6, ConcatDistinct
<1>8. /\ destroy_queue' \in Seq(Objs) /\ Distinct(destroy_queue')
      /\ \A x : Within(destroy_queue', x) <=> Within(q, x) \/ x \in S
  BY <1>1, <1>4, <1>7
<1>9. \A x \in Objs : bDestroy'[x] <=> life[x] # "none"
  BY <1>2
<1>10. ObjectsOK'
  BY <1>2, <1>8 DEF ObjectsOK
<1>11. Queued'
  <2>1. \A x \in Objs : bDestroy[x] => life[x] # "none"
    BY DEF Families, Queued
  <2> QED BY <1>2, <1>5, <1>8, <1>9, <2>1 DEF Queued
<1>12. Related' /\ Cleared'
  BY <1>2, <1>9 DEF Related, Cleared
<1>13. ParentsFirst'
  <2>1. \A k \in DOMAIN destroy_queue' : destroy_queue'[k] \in Objs
    BY <1>8, LenProperties
  <2> QED BY <1>2, <2>1 DEF ParentsFirst
<1>14. IsFiniteSet(Living')
  BY <1>2 DEF Families, Living
<1> QED BY <1>10, <1>11, <1>12, <1>13, <1>14 DEF Families

\* The object that Destroy takes from the queue.
Hindmost == destroy_queue[Len(destroy_queue)]

LEMMA DestroyTakesLast ==
    ASSUME ObjectsOK, Families, Destroy
    PROVE  /\ Len(destroy_queue) \in DOMAIN destroy_queue
           /\ Hindmost \in Objs
           /\ bDestroy[Hindmost]
           /\ \A o \in Objs : Parent[o] # Hindmost
<1>1. /\ Len(destroy_queue) \in Nat
      /\ DOMAIN destroy_queue = 1 .. Len(destroy_queue)
      /\ Len(destroy_queue) \in DOMAIN destroy_queue
  BY LenProperties DEF ObjectsOK, Destroy, DestroyAt
<1>2. Hindmost \in Objs /\ bDestroy[Hindmost]
  BY <1>1, InQueue DEF Hindmost, Families, Queued
<1>3. ASSUME NEW o \in Objs, Parent[o] = Hindmost PROVE FALSE
  <2>1. Parent[o] # Null
    BY <1>2, <1>3
  <2>2. bDestroy[o]
    BY <1>2, <1>3, <2>1 DEF Families, Related
  <2>3. PICK j \in DOMAIN destroy_queue : destroy_queue[j] = o
    BY <2>2 DEF Families, Queued, Within
  <2>4. Len(destroy_queue) < j
    BY <1>1, <1>3, <2>3 DEF Families, ParentsFirst, Hindmost
  <2> QED BY <1>1, <2>3, <2>4
<1> QED BY <1>1, <1>2, <1>3

LEMMA DestroyFamilies ==
    ASSUME ObjectsOK, Families, Destroy
    PROVE  ObjectsOK' /\ Families'
<1> DEFINE q == destroy_queue
           r == destroy_queue'
<1>1. /\ life' = [life EXCEPT ![Hindmost] = "none"]
      /\ bDestroy' = [bDestroy EXCEPT ![Hindmost] = FALSE]
      /\ Parent' = [Parent EXCEPT ![Hindmost] = Null]
      /\ r = RemoveAt(q, Len(q))
      /\ UNCHANGED removing
  BY DEF Destroy, DestroyAt, Hindmost, time
<1>2. /\ Len(q) \in DOMAIN q /\ Hindmost \in Objs /\ bDestroy[Hindmost]
      /\ \A o \in Objs : Parent[o] # Hindmost
  BY DestroyTakesLast
<1>3. /\ q \in Seq(Objs) /\ Len(q) \in Nat /\ DOMAIN q = 1 .. Len(q)
      /\ Distinct(q) /\ \A x \in Objs : Within(q, x) <=> bDestroy[x]
  BY LenProperties DEF ObjectsOK, Families, Queued
<1>4. /\ r \in Seq(Objs) /\ DOMAIN r = 1 .. Len(q) - 1
      /\ \A j \in 1 .. Len(q) - 1 : r[j] = q[j]
  <2>1. /\ r \in Seq(Objs) /\ Len(r) = Len(q) - 1
        /\ \A j \in 1 .. Len(q) - 1 : r[j] = q[j]
    BY <1>1, <1>2, <1>3, RemovedElement
  <2> QED BY <2>1, LenProperties
<1>5. \A x \in Objs : /\ life'[x] = IF x = Hindmost THEN "none" ELSE life[x]
                      /\ Parent'[x] = IF x = Hindmost THEN Null ELSE Parent[x]
                      /\ bDestroy'[x] <=> x # Hindmost /\ bDestroy[x]
  BY <1>1 DEF ObjectsOK
<1>6. ObjectsOK'
  BY <1>1, <1>4 DEF ObjectsOK
<1>7. q[Len(q)] = Hindmost
  BY DEF Hindmost
<1> HIDE DEF q, r
<1>8. Distinct(r)
  BY <1>3, <1>4 DEF Distinct
<1>9. \A x \in Objs : Within(r, x) <=> x # Hindmost /\ Within(q, x)
  <2> SUFFICES ASSUME NEW x \in Objs
               PROVE  Within(r, x) <=> x # Hindmost /\ Within(q, x)
    OBVIOUS
  <2>1. ASSUME NEW k \in DOMAIN r, r[k] = x
        PROVE  k \in DOMAIN q /\ q[k] = x /\ k # Len(q)
    BY <1>3, <1>4, <2>1
  <2>2. ASSUME Within(r, x) PROVE x # Hindmost /\ Within(q, x)
    <3>1. PICK k \in DOMAIN q : q[k] = x /\ k # Len(q)
      BY <2>1, <2>2 DEF Within
    <3>2. q[k] # q[Len(q)]
      BY <1>2, <1>3, <3>1 DEF Distinct, q
    <3> QED BY <1>7, <3>1, <3>2 DEF Within
  <2>3. ASSUME x # Hindmost, Within(q, x) PROVE Within(r, x)
    <3>1. PICK k \in DOMAIN q : q[k] = x
      BY <2>3 DEF Within
    <3>2. k # Len(q)
      BY <1>7, <2>3, <3>1
    <3>3. k \in DOMAIN r /\ r[k] = x
      BY <1>3, <1>4, <3>1, <3>2
    <3> QED BY <3>3 DEF Within
  <2> QED BY <2>2, <2>3
<1>10. Queued'
  BY <1>3, <1>5, <1>8, <1>9 DEF Families, Queued, r
<1>11. Related'
  <2> SUFFICES ASSUME NEW x \in Objs, Parent'[x] # Null
               PROVE  /\ x \notin Monsters
                      /\ life'[x] # "none"
                      /\ life'[Parent'[x]] # "none"
                      /\ bDestroy'[x] <=> bDestroy'[Parent'[x]]
    BY DEF Related
  <2>1. x # Hindmost /\ Parent'[x] = Parent[x]
    BY <1>5
  <2>2. Parent[x] \in Objs /\ Parent[x] # Hindmost
    BY <1>2, <2>1 DEF ObjectsOK
  <2> QED BY <1>5, <2>1, <2>2 DEF Families, Related
<1>12. ParentsFirst'
  <2> SUFFICES ASSUME NEW j \in DOMAIN r, NEW k \in DOMAIN r, r[k] = Parent'[r[j]]
               PROVE  k < j
    BY DEF ParentsFirst, r
  <2>1. j \in DOMAIN q /\ k \in DOMAIN q /\ r[j] = q[j] /\ r[k] = q[k]
    BY <1>3, <1>4
  <2>2. r[j] \in Objs /\ r[k] \in Objs
    BY <1>4
  <2>3. Parent'[r[j]] = Parent[r[j]]
    BY <1>5, <2>2
  <2> QED BY <2>1, <2>3 DEF Families, ParentsFirst, q
<1>13. IsFiniteSet(Living')
  <2>1. Living' \subseteq Living
    BY <1>5 DEF Living
  <2> QED BY <2>1, FS_Subset DEF Families
<1>14. Cleared'
  BY <1>1, <1>5 DEF Families, Cleared
<1> QED BY <1>6, <1>10, <1>11, <1>12, <1>13, <1>14 DEF Families

LEMMA NextFamilies == ObjectsOK /\ Families /\ [Next]_vars => ObjectsOK' /\ Families'
<1> SUFFICES ASSUME ObjectsOK, Families, [Next]_vars
             PROVE  ObjectsOK' /\ Families'
  OBVIOUS
<1>1. CASE ObjectSteps
  BY <1>1, SpawnFamilies, SetParentFamilies, LifeFamilies, DestroyEventFamilies,
     RemoveObjectsFamilies, DestroyFamilies DEF ObjectSteps
<1>2. CASE UNCHANGED objects
  <2>1. ObjectsOK'
    BY <1>2 DEF objects, ObjectsOK
  <2>2. IsFiniteSet(Living') /\ Queued' /\ Related' /\ ParentsFirst'
    BY <1>2 DEF objects, Families, Living, Queued, Related, ParentsFirst
  <2>3. removing' => removing \/ remove_objects
    BY Changes DEF time, TimeSteps, FrameMove, Pause, Unpause, EndDestroy
  <2>4. CASE remove_objects
    BY <2>4, RemoveObjectsFamilies
  <2>5. CASE removing' => removing
    BY <1>2, <2>1, <2>2, <2>5 DEF objects, Families, Cleared
  <2> QED BY <2>3, <2>4, <2>5
<1> QED BY <1>1, <1>2, Changes

-----------------------------------------------------------------------------
(* Crows: how often an object is listed, and by whom. *)

\* A crow is in one place of one list.
OneCrow ==
    \A o \in Objs :
        m_crows["main"][o] + m_crows["second"][o] = IF crow[o] THEN 1 ELSE 0

CrowsLive ==
    /\ \A o \in Objs : crow[o] => life[o] # "none"
    /\ \A o \in workload : life[o] # "none"

\* Who is in the hands of a thread exists, and is a crow only by an exchange.
Candidates ==
    \A t \in Threads : candidate[t] # Null =>
        /\ Renders(t)
        /\ life[candidate[t]] # "none"
        /\ crow[candidate[t]] => asCrow[candidate[t]]

Ticking  == ~paused => tick
TakenOver == main \in {"update", "destroy"} /\ ~paused =>
                \A o \in Objs : m_crows["second"][o] = 0
Working  == main # "update" => workload = {}

Crows == OneCrow /\ CrowsLive /\ Candidates /\ Ticking /\ TakenOver /\ Working

NoCandidates == \A t \in Threads : candidate[t] = Null

LEMMA InitCrows == Init => Crows
<1> SUFFICES ASSUME Init PROVE Crows
  OBVIOUS
<1>1. /\ \A o \in Objs : ~crow[o] /\ m_crows["main"][o] = 0 /\ m_crows["second"][o] = 0
      /\ \A t \in Threads : candidate[t] = Null
      /\ workload = {} /\ ~paused /\ tick /\ main = "idle"
  BY DEF Init, Threads
<1> QED BY <1>1 DEF Crows, OneCrow, CrowsLive, Candidates, Ticking, TakenOver, Working

LEMMA GameHasNoCandidates ==
    ASSUME LoopInv, Crows, main \notin {"render", "self"}
    PROVE  NoCandidates
  BY DEF LoopInv, Gates, Crows, Candidates, Renders, Works, NoCandidates

LEMMA CrowCounts ==
    ASSUME CrowsOK
    PROVE  \A o \in Objs : m_crows["main"][o] \in Nat /\ m_crows["second"][o] \in Nat
  BY DEF CrowsOK, Threads

LEMMA MakeMeCrowCounts ==
    ASSUME CrowsOK, OneCrow, NEW S, NEW l, MakeMeCrow(S, l)
    PROVE  /\ OneCrow'
           /\ \A o \in Objs : m_crows'["second"][o] = m_crows["second"][o]
           /\ \A o \in Objs : crow'[o] => crow[o] \/ l[o] = "active"
           /\ UNCHANGED candidate
<1>1. \A o \in Objs : /\ m_crows'["main"][o] =
                           m_crows["main"][o] + IF o \in NewCrows(S, l) THEN 1 ELSE 0
                      /\ m_crows'["second"][o] = m_crows["second"][o]
                      /\ crow'[o] <=> crow[o] \/ o \in NewCrows(S, l)
  BY DEF MakeMeCrow, CrowsOK, Threads
<1>2. \A o \in Objs : o \in NewCrows(S, l) => ~crow[o] /\ l[o] = "active"
  BY DEF NewCrows
<1>3. OneCrow'
  <2> SUFFICES ASSUME NEW o \in Objs
               PROVE  m_crows'["main"][o] + m_crows'["second"][o] =
                         IF crow'[o] THEN 1 ELSE 0
    BY DEF OneCrow
  <2>1. m_crows["main"][o] \in Nat /\ m_crows["second"][o] \in Nat
    BY CrowCounts
  <2>2. CASE o \in NewCrows(S, l)
    <3>1. m_crows["main"][o] + m_crows["second"][o] = 0
      BY <1>2, <2>2 DEF OneCrow
    <3> QED BY <1>1, <2>1, <2>2, <3>1
  <2>3. CASE o \notin NewCrows(S, l)
    <3>1. crow'[o] <=> crow[o]
      BY <1>1, <2>3
    <3>2. m_crows["main"][o] + m_crows["second"][o] = IF crow[o] THEN 1 ELSE 0
      BY DEF OneCrow
    <3>3. m_crows'["main"][o] = m_crows["main"][o]
      BY <1>1, <2>1, <2>3
    <3> QED BY <1>1, <3>1, <3>2, <3>3
  <2> QED BY <2>2, <2>3
<1> QED BY <1>1, <1>2, <1>3 DEF MakeMeCrow

\* The steps of the game that make crows.
LEMMA MakeMeCrowKeeps ==
    ASSUME LoopInv, CrowsOK, Crows, NEW S, NEW l, MakeMeCrow(S, l),
           main \in Game, UNCHANGED <<main, paused, tick>>,
           workload' \subseteq workload,
           \A o \in Objs : life[o] # "none" => life'[o] # "none",
           \A o \in Objs : l[o] = "active" => life'[o] # "none",
           UpdOK
    PROVE  CrowsOK' /\ Crows'
<1>1. CrowsOK'
  BY MakeMeCrowType
<1>2. /\ OneCrow'
      /\ \A o \in Objs : m_crows'["second"][o] = m_crows["second"][o]
      /\ \A o \in Objs : crow'[o] => crow[o] \/ l[o] = "active"
      /\ UNCHANGED candidate
  BY MakeMeCrowCounts DEF Crows
<1>3. NoCandidates
  BY GameHasNoCandidates DEF Game
<1>4. Candidates'
  BY <1>2, <1>3 DEF NoCandidates, Candidates
<1>5. CrowsLive'
  BY <1>2 DEF Crows, CrowsLive, UpdOK
<1>6. Ticking' /\ TakenOver' /\ Working'
  BY <1>2 DEF Crows, Ticking, TakenOver, Working
<1> QED BY <1>1, <1>2, <1>4, <1>5, <1>6 DEF Crows

\* The steps of the game that make none.
Still ==
    /\ main \in Game
    /\ UNCHANGED <<crow, m_crows, candidate, workload>>
    /\ asCrow' \in {asCrow, [o \in Objs |-> FALSE]}
    /\ \A o \in Objs : life[o] # "none" => life'[o] # "none"
    /\ ~paused' => tick'
    /\ main' \in {"update", "destroy"} /\ ~paused' =>
          main \in {"update", "destroy"} /\ ~paused
    /\ main' # "update" => workload = {}

LEMMA StillKeeps ==
    ASSUME LoopInv, CrowsOK, Crows, UpdOK, Still
    PROVE  CrowsOK' /\ Crows'
<1>1. NoCandidates
  BY GameHasNoCandidates DEF Game, Still
<1>2. Candidates'
  BY <1>1 DEF NoCandidates, Candidates, Still
<1>3. CrowsOK'
  <2>1. asCrow' \in [Objs -> BOOLEAN]
    BY DEF Still, CrowsOK
  <2> QED BY <2>1 DEF Still, CrowsOK
<1>4. OneCrow' /\ CrowsLive'
  BY DEF Still, Crows, OneCrow, CrowsLive, UpdOK
<1>5. Ticking' /\ TakenOver' /\ Working'
  BY DEF Still, Crows, Ticking, TakenOver, Working
<1> QED BY <1>2, <1>3, <1>4, <1>5 DEF Crows

LEMMA StillSteps ==
    ASSUME LoopInv, Types, Families, Crows
    PROVE  /\ FrameMove \/ EndPass \/ EndUpdate \/ EndDestroy => Still
           /\ Pause \/ Unpause \/ remove_objects => Still
           /\ \A o \in Objs : GE_DESTROY(o) \/ processing_deactivate(o) => Still
           /\ \A o \in Monsters : on_restrictions_change(o) => Still
<1>0. /\ main \in Game => (main # "update" => workload = {})
      /\ ~paused => tick
  BY DEF Crows, Working, Ticking
<1>1. FrameMove => Still
  <2> SUFFICES ASSUME FrameMove PROVE Still
    OBVIOUS
  <2>1. ~paused' => tick'
    BY DEF FrameMove
  <2>2. /\ main = "idle" /\ main' = "pass"
        /\ UNCHANGED <<crow, m_crows, candidate, workload, life>>
        /\ asCrow' = [o \in Objs |-> FALSE]
    BY DEF FrameMove, NewFrame, objects
  <2> QED BY <1>0, <2>1, <2>2 DEF Still, Game
<1>2. EndPass \/ EndUpdate => Still
  BY <1>0 DEF EndPass, EndUpdate, Still, Game, objects, crows, upd, time
<1>3. EndDestroy => Still
  BY <1>0 DEF EndDestroy, Still, Game, objects, crows, upd
<1>4. Pause \/ Unpause => Still
  BY <1>0 DEF Pause, Unpause, Still, Game, objects, crows, upd, threads
<1>5. remove_objects => Still
  BY <1>0 DEF remove_objects, NewFrame, Still, Game
<1>6. ASSUME NEW o \in Objs, GE_DESTROY(o) PROVE Still
  BY <1>0, <1>6 DEF GE_DESTROY, Still, Game, crows, upd, threads, time
<1>7. ASSUME NEW o \in Objs, processing_deactivate(o) PROVE Still
  <2>1. \A x \in Objs : life[x] # "none" => life'[x] # "none"
    BY <1>7 DEF processing_deactivate, Types, ObjectsOK
  <2> QED BY <1>0, <1>7, <2>1 DEF processing_deactivate, Still, Game, crows, upd, threads, time
<1>8. ASSUME NEW o \in Monsters, on_restrictions_change(o) PROVE Still
  BY <1>0, <1>8 DEF on_restrictions_change, Still, Game, crows, upd, objects, threads, time
<1> QED BY <1>1, <1>2, <1>3, <1>4, <1>5, <1>6, <1>7, <1>8

LEMMA MakingSteps ==
    ASSUME LoopInv, Types, Families, Crows, NEW o \in Objs,
           \/ shedule_Update(o) \/ g_sv_Spawn(o) \/ H_SetParent(o)
           \/ processing_activate(o) \/ SingleUpdate(o)
    PROVE  CrowsOK' /\ Crows'
<1> USE DEF Types
<1>1. CASE shedule_Update(o)
  <2>1. /\ MakeMeCrow({o}, life) /\ main \in Game
        /\ UNCHANGED <<main, paused, tick, workload, life>>
    BY <1>1 DEF shedule_Update, Game, threads, time, objects, upd
  <2> QED BY <2>1, MakeMeCrowKeeps
<1>2. CASE H_SetParent(o)
  <2>1. /\ MakeMeCrow({o}, life) /\ main \in Game
        /\ UNCHANGED <<main, paused, tick, workload, life>>
    BY <1>2 DEF H_SetParent, Game, threads, time, upd
  <2> QED BY <2>1, MakeMeCrowKeeps
<1>3. CASE g_sv_Spawn(o) \/ processing_activate(o)
  <2>1. /\ MakeMeCrow({o}, life') /\ main \in Game
        /\ UNCHANGED <<main, paused, tick, workload>>
        /\ life' = [life EXCEPT ![o] = "active"]
    BY <1>3 DEF g_sv_Spawn, processing_activate, Game, threads, time, upd
  <2>2. \A x \in Objs : /\ life[x] # "none" => life'[x] # "none"
                        /\ life'[x] = "active" => life'[x] # "none"
    BY <2>1 DEF ObjectsOK
  <2> QED BY <2>1, <2>2, MakeMeCrowKeeps
<1>4. CASE SingleUpdate(o)
  <2>1. PICK near \in SUBSET Chain(o) : MakeMeCrow(near, life)
    BY <1>4 DEF SingleUpdate
  <2>2. /\ main \in Game
        /\ UNCHANGED <<main, paused, tick, life>>
        /\ workload' \subseteq workload
    BY <1>4 DEF SingleUpdate, Game, threads, time, objects
  <2> QED BY <2>1, <2>2, MakeMeCrowKeeps
<1> QED BY <1>1, <1>2, <1>3, <1>4

LEMMA BeginUpdateCrows ==
    ASSUME LoopInv, Types, Crows, BeginUpdate
    PROVE  CrowsOK' /\ Crows'
<1> USE DEF Types
<1>1. /\ main = "events" /\ main' = "update"
      /\ UNCHANGED <<life, paused, tick, candidate>>
  BY DEF BeginUpdate, objects, time
<1>2. NoCandidates
  BY <1>1, GameHasNoCandidates
<1>3. Candidates' /\ Ticking' /\ Working'
  BY <1>1, <1>2 DEF NoCandidates, Candidates, Crows, Ticking, Working
<1>4. CASE (paused \/ ~tick) /\ UNCHANGED <<workload, crow, asCrow, m_crows>>
  <2>1. paused
    BY <1>4 DEF Crows, Ticking
  <2>2. TakenOver'
    BY <1>1, <2>1 DEF TakenOver
  <2>3. CrowsOK' /\ OneCrow' /\ CrowsLive'
    BY <1>1, <1>4 DEF CrowsOK, Crows, OneCrow, CrowsLive
  <2> QED BY <1>3, <2>2, <2>3 DEF Crows
<1>5. CASE ~paused /\ tick
  <2> DEFINE listed == {o \in Objs : \E t \in Threads : m_crows[t][o] > 0}
  <2>1. /\ workload' = IF active THEN {o \in Objs : Active(o)} ELSE listed
        /\ crow' = [o \in Objs |-> crow[o] /\ o \notin listed \cup workload']
        /\ asCrow' = [o \in Objs |-> asCrow[o] /\ o \notin workload']
        /\ m_crows' = [t \in Threads |-> [o \in Objs |-> 0]]
    BY <1>5 DEF BeginUpdate
  <2>2. \A o \in Objs : o \in listed <=> crow[o]
    <3> SUFFICES ASSUME NEW o \in Objs PROVE o \in listed <=> crow[o]
      OBVIOUS
    <3>1. /\ m_crows["main"][o] \in Nat /\ m_crows["second"][o] \in Nat
          /\ m_crows["main"][o] + m_crows["second"][o] = IF crow[o] THEN 1 ELSE 0
      BY CrowCounts DEF Crows, OneCrow
    <3>2. o \in listed <=> m_crows["main"][o] > 0 \/ m_crows["second"][o] > 0
      BY DEF Threads
    <3>3. CASE crow[o]
      BY <3>1, <3>2, <3>3
    <3>4. CASE ~crow[o]
      BY <3>1, <3>2, <3>4
    <3> QED BY <3>3, <3>4
  <2>3. \A o \in Objs : ~crow'[o]
    BY <2>1, <2>2
  <2>4. \A o \in Objs : m_crows'["main"][o] = 0 /\ m_crows'["second"][o] = 0
    BY <2>1 DEF Threads
  <2>5. OneCrow' /\ TakenOver'
    BY <2>3, <2>4 DEF OneCrow, TakenOver
  <2>6. CrowsLive'
    <3>1. \A o \in workload' : life[o] # "none"
      <4>1. CASE active
        BY <2>1, <4>1 DEF Active
      <4>2. CASE ~active
        BY <2>1, <2>2, <4>2 DEF Crows, CrowsLive
      <4> QED BY <4>1, <4>2
    <3> QED BY <1>1, <2>3, <3>1 DEF CrowsLive
  <2>7. CrowsOK'
    <3>1. crow' \in [Objs -> BOOLEAN] /\ asCrow' \in [Objs -> BOOLEAN]
      BY <2>1
    <3> QED BY <1>1, <2>1, <3>1 DEF CrowsOK
  <2> QED BY <1>3, <2>5, <2>6, <2>7 DEF Crows
<1> QED BY <1>4, <1>5 DEF BeginUpdate

LEMMA DestroyCrows ==
    ASSUME LoopInv, Types, Families, Crows, Destroy
    PROVE  CrowsOK' /\ Crows'
<1> USE DEF Types
<1> DEFINE second2 == [x \in Objs |->
                         IF ~paused THEN 0
                         ELSE IF x = Hindmost /\ m_crows["second"][x] > 0
                         THEN m_crows["second"][x] - 1 ELSE m_crows["second"][x]]
           main2 == [x \in Objs |->
                         IF x = Hindmost /\ m_crows["main"][x] > 0
                         THEN m_crows["main"][x] - 1 ELSE m_crows["main"][x]]
<1>1. /\ main = "destroy" /\ main' = "destroy"
      /\ UNCHANGED <<paused, tick, candidate, workload>>
      /\ life' = [life EXCEPT ![Hindmost] = "none"]
      /\ crow' = [crow EXCEPT ![Hindmost] = FALSE]
      /\ asCrow' = [asCrow EXCEPT ![Hindmost] = FALSE]
  BY DEF Destroy, DestroyAt, Hindmost, threads, time
<1>2. /\ m_crows'["main"] = main2
      /\ m_crows'["second"] = second2
      /\ m_crows' \in [Threads -> {main2, second2}]
  <2>1. m_crows' = [m_crows EXCEPT !["second"] = second2, !["main"] = main2]
    BY DEF Destroy, DestroyAt, Hindmost, CrowsOK, Threads
  <2> HIDE DEF main2, second2
  <2> QED BY <2>1 DEF CrowsOK, Threads
<1>3. Hindmost \in Objs
  BY DestroyTakesLast
<1>4. NoCandidates
  BY <1>1, GameHasNoCandidates
<1>5. Candidates' /\ Ticking' /\ Working'
  BY <1>1, <1>4 DEF NoCandidates, Candidates, Crows, Ticking, Working
<1>6. workload = {}
  BY <1>1 DEF Crows, Working
<1>7. CrowsLive'
  BY <1>1, <1>6 DEF Crows, CrowsLive, CrowsOK, ObjectsOK
<1>8. \A o \in Objs : m_crows["main"][o] \in Nat /\ m_crows["second"][o] \in Nat
  BY CrowCounts
<1>9. TakenOver'
  BY <1>1, <1>2 DEF TakenOver
<1>10. OneCrow'
  <2> SUFFICES ASSUME NEW o \in Objs
               PROVE  main2[o] + second2[o] = IF crow'[o] THEN 1 ELSE 0
    BY <1>2 DEF OneCrow
  <2>1. /\ m_crows["main"][o] \in Nat /\ m_crows["second"][o] \in Nat
        /\ m_crows["main"][o] + m_crows["second"][o] = IF crow[o] THEN 1 ELSE 0
        /\ ~paused => m_crows["second"][o] = 0
    BY <1>1, <1>8 DEF Crows, OneCrow, TakenOver
  <2>2. CASE o # Hindmost
    <3>1. crow'[o] = crow[o]
      BY <1>1, <2>2 DEF CrowsOK
    <3>2. main2[o] = m_crows["main"][o] /\ second2[o] = m_crows["second"][o]
      BY <2>1, <2>2
    <3> QED BY <2>1, <3>1, <3>2
  <2>3. CASE o = Hindmost
    <3>1. ~crow'[o]
      BY <1>1, <2>3 DEF CrowsOK
    <3>2. m_crows["main"][o] <= 1 /\ m_crows["second"][o] <= 1
      BY <2>1
    <3>3. main2[o] = 0
      BY <2>1, <2>3, <3>2
    <3>4. second2[o] = 0
      BY <2>1, <2>3, <3>2
    <3> QED BY <3>1, <3>3, <3>4
  <2> QED BY <2>2, <2>3
<1>11. CrowsOK'
  <2>1. main2 \in [Objs -> Nat] /\ second2 \in [Objs -> Nat]
    BY <1>8
  <2>2. m_crows' \in [Threads -> [Objs -> Nat]]
    BY <1>2, <2>1
  <2> QED BY <1>1, <2>2 DEF CrowsOK
<1> QED BY <1>5, <1>7, <1>9, <1>10, <1>11 DEF Crows

\* The gates: where a thread stops to work it has nobody in its hands.
GateSteps ==
    \/ TakeLeave \/ FreeEnter \/ TakeEnter \/ FreeLeave \/ Ensure \/ EndSelf
    \/ EndFrame \/ EndRun \/ StopThread
    \/ SecondEnter \/ EndWork \/ SecondLeave \/ SecondBack

LEMMA GateCrows ==
    ASSUME CrowsOK, Crows, GateSteps
    PROVE  CrowsOK' /\ Crows'
<1>1. UNCHANGED others
  BY DEF GateSteps, TakeLeave, FreeEnter, TakeEnter, FreeLeave, Ensure, EndSelf,
         EndFrame, EndRun, StopThread, SecondEnter, EndWork, SecondLeave, SecondBack
<1>2. UNCHANGED <<life, paused, tick, crow, asCrow, m_crows, candidate, workload>>
  BY <1>1 DEF others, time, objects, crows, upd
<1>3. /\ main # main' => main \notin {"update", "destroy"} /\ main' \notin {"update", "destroy"}
      /\ main \in {"render", "self"} /\ main' # main => candidate["main"] = Null
      /\ second = "run" /\ second' # "run" => candidate["second"] = Null
  BY DEF GateSteps, TakeLeave, FreeEnter, TakeEnter, FreeLeave, Ensure, EndSelf,
         EndFrame, EndRun, StopThread, SecondEnter, EndWork, SecondLeave, SecondBack,
         Goes, Moves
<1>4. CrowsOK' /\ OneCrow' /\ CrowsLive' /\ Ticking'
  BY <1>2 DEF CrowsOK, Crows, OneCrow, CrowsLive, Ticking
<1>5. TakenOver' /\ Working'
  BY <1>2, <1>3 DEF Crows, TakenOver, Working
<1>6. Candidates'
  <2> SUFFICES ASSUME NEW t \in Threads, candidate[t] # Null
               PROVE  Renders(t)'
    BY <1>2 DEF Crows, Candidates
  <2>1. Renders(t)
    BY DEF Crows, Candidates
  <2>2. CASE t = "main"
    BY <1>3, <2>1, <2>2 DEF Renders, Works
  <2>3. CASE t = "second"
    BY <1>3, <2>1, <2>3 DEF Renders, Works
  <2> QED BY <2>2, <2>3 DEF Threads
<1> QED BY <1>4, <1>5, <1>6 DEF Crows

LEMMA CrowReadCrows ==
    ASSUME LoopInv, CrowsOK, Crows, NEW t \in Threads, NEW o \in Objs, CrowRead(t, o)
    PROVE  CrowsOK' /\ Crows'
<1>1. /\ Renders(t) /\ life[o] = "active" /\ ~crow[o]
      /\ candidate' = [candidate EXCEPT ![t] = o]
      /\ UNCHANGED <<main, second, paused, tick, life, crow, asCrow, m_crows, workload>>
  BY DEF CrowRead, Active, threads, time, objects, upd
<1>2. CrowsOK'
  BY <1>1 DEF CrowsOK
<1>3. OneCrow' /\ CrowsLive' /\ Ticking' /\ TakenOver' /\ Working'
  BY <1>1 DEF Crows, OneCrow, CrowsLive, Ticking, TakenOver, Working
<1>4. Candidates'
  <2> SUFFICES ASSUME NEW u \in Threads, candidate'[u] # Null
               PROVE  /\ Renders(u)
                      /\ life[candidate'[u]] # "none"
                      /\ crow[candidate'[u]] => asCrow[candidate'[u]]
    BY <1>1 DEF Candidates, Renders, Works
  <2>1. CASE u = t
    BY <1>1, <2>1 DEF CrowsOK
  <2>2. CASE u # t
    BY <1>1, <2>2 DEF CrowsOK, Crows, Candidates
  <2> QED BY <2>1, <2>2
<1> QED BY <1>2, <1>3, <1>4 DEF Crows

LEMMA CrowExchangeCrows ==
    ASSUME LoopInv, CrowsOK, UpdOK, Crows, NEW t \in Threads, CrowExchange(t)
    PROVE  CrowsOK' /\ Crows'
<1> DEFINE o == candidate[t]
<1>1. /\ o \in Objs /\ Renders(t) /\ life[o] # "none"
      /\ crow[o] => asCrow[o]
      /\ candidate' = [candidate EXCEPT ![t] = Null]
      /\ UNCHANGED <<main, second, paused, tick, life, workload>>
  BY DEF CrowExchange, CrowsOK, Crows, Candidates, threads, time, objects, upd
<1>2. main \notin {"update", "destroy"}
  BY <1>1 DEF Renders, Works, LoopInv, Gates
<1>3. Ticking' /\ TakenOver' /\ Working'
  BY <1>1, <1>2 DEF Crows, Ticking, TakenOver, Working
<1>4. CASE asCrow[o] /\ UNCHANGED <<asCrow, crow, m_crows>>
  <2>1. CrowsOK'
    BY <1>1, <1>4 DEF CrowsOK
  <2>2. OneCrow' /\ CrowsLive'
    BY <1>1, <1>4 DEF Crows, OneCrow, CrowsLive
  <2>3. Candidates'
    BY <1>1, <1>4 DEF CrowsOK, Crows, Candidates, Renders, Works
  <2> QED BY <1>3, <2>1, <2>2, <2>3 DEF Crows
<1>5. CASE /\ ~asCrow[o]
           /\ asCrow' = [asCrow EXCEPT ![o] = TRUE]
           /\ crow' = [crow EXCEPT ![o] = TRUE]
           /\ m_crows' = [m_crows EXCEPT ![t][o] = @ + 1]
  <2> HIDE DEF o
  <2>1. ~crow[o]
    BY <1>1, <1>5
  <2>2. \A x \in Objs : /\ crow'[x] <=> crow[x] \/ x = o
                        /\ asCrow'[x] <=> asCrow[x] \/ x = o
    BY <1>1, <1>5 DEF CrowsOK
  <2>3. \A u \in Threads : \A x \in Objs :
           m_crows'[u][x] = IF u = t /\ x = o THEN m_crows[u][x] + 1 ELSE m_crows[u][x]
    BY <1>1, <1>5 DEF CrowsOK
  <2>4. OneCrow'
    <3> SUFFICES ASSUME NEW x \in Objs
                 PROVE  m_crows'["main"][x] + m_crows'["second"][x] =
                           IF crow'[x] THEN 1 ELSE 0
      BY DEF OneCrow
    <3>1. /\ m_crows["main"][x] \in Nat /\ m_crows["second"][x] \in Nat
          /\ m_crows["main"][x] + m_crows["second"][x] = IF crow[x] THEN 1 ELSE 0
      BY CrowCounts DEF Crows, OneCrow
    <3>2. CASE x # o
      <4>1. crow'[x] <=> crow[x]
        BY <2>2, <3>2
      <4>2. m_crows'["main"][x] = m_crows["main"][x] /\ m_crows'["second"][x] = m_crows["second"][x]
        BY <2>3, <3>2 DEF Threads
      <4> QED BY <3>1, <4>1, <4>2
    <3>3. CASE x = o
      <4>1. crow'[x] /\ ~crow[x]
        BY <2>1, <2>2, <3>3
      <4>2. m_crows["main"][x] = 0 /\ m_crows["second"][x] = 0
        BY <3>1, <4>1
      <4>3. CASE t = "main"
        <5>1. m_crows'["main"][x] = 1 /\ m_crows'["second"][x] = 0
          BY <2>3, <3>3, <4>2, <4>3 DEF Threads
        <5> QED BY <4>1, <5>1
      <4>4. CASE t = "second"
        <5>1. m_crows'["main"][x] = 0 /\ m_crows'["second"][x] = 1
          BY <2>3, <3>3, <4>2, <4>4 DEF Threads
        <5> QED BY <4>1, <5>1
      <4> QED BY <4>3, <4>4 DEF Threads
    <3> QED BY <3>2, <3>3
  <2>5. CrowsLive'
    BY <1>1, <2>2 DEF Crows, CrowsLive, UpdOK
  <2>6. Candidates'
    <3> SUFFICES ASSUME NEW u \in Threads, candidate'[u] # Null
                 PROVE  /\ Renders(u)
                        /\ life[candidate'[u]] # "none"
                        /\ crow'[candidate'[u]] => asCrow'[candidate'[u]]
      BY <1>1 DEF Candidates, Renders, Works
    <3>1. u # t /\ candidate'[u] = candidate[u] /\ candidate[u] \in Objs
      BY <1>1 DEF CrowsOK
    <3>2. /\ Renders(u) /\ life[candidate[u]] # "none"
          /\ crow[candidate[u]] => asCrow[candidate[u]]
      BY <3>1 DEF Crows, Candidates
    <3> QED BY <2>2, <3>1, <3>2
  <2>7. CrowsOK'
    <3>1. crow' \in [Objs -> BOOLEAN] /\ asCrow' \in [Objs -> BOOLEAN]
      BY <1>5 DEF CrowsOK
    <3>2. m_crows' \in [Threads -> [Objs -> Nat]]
      BY <1>1, <1>5 DEF CrowsOK
    <3> QED BY <1>1, <3>1, <3>2 DEF CrowsOK
  <2> QED BY <1>3, <2>4, <2>5, <2>6, <2>7 DEF Crows
<1> QED BY <1>4, <1>5 DEF CrowExchange

LEMMA NextCrows ==
    LoopInv /\ Types /\ Families /\ Crows /\ [Next]_vars => CrowsOK' /\ Crows'
<1> SUFFICES ASSUME LoopInv, Types, Families, Crows, [Next]_vars
             PROVE  CrowsOK' /\ Crows'
  OBVIOUS
<1>1. CASE Still
  BY <1>1, StillKeeps DEF Types
<1>2. CASE GateSteps
  BY <1>2, GateCrows DEF Types
<1>3. CASE Frame
  <2>1. CASE FrameMove \/ EndPass \/ EndUpdate \/ EndDestroy
    BY <1>1, <2>1, StillSteps
  <2>2. CASE \E o \in Objs : SingleUpdate(o)
    BY <2>2, MakingSteps
  <2>3. CASE BeginUpdate
    BY <2>3, BeginUpdateCrows
  <2>4. CASE Destroy
    BY <2>4, DestroyCrows
  <2>5. CASE TakeLeave \/ FreeEnter \/ TakeEnter \/ FreeLeave \/ Ensure \/ EndSelf
             \/ EndFrame \/ EndRun
    BY <1>2, <2>5 DEF GateSteps
  <2> QED BY <1>3, <2>1, <2>2, <2>3, <2>4, <2>5 DEF Frame
<1>4. CASE SecondThread
  BY <1>2, <1>4 DEF SecondThread, GateSteps
<1>5. ASSUME NEW t \in Threads, Parallel(t) PROVE CrowsOK' /\ Crows'
  <2>1. CASE CrowExchange(t)
    BY <2>1, CrowExchangeCrows DEF Types
  <2>2. ASSUME NEW task \in Tasks, RunTask(t, task) PROVE CrowsOK' /\ Crows'
    <3>1. UNCHANGED <<main, second, life, paused, tick, crow, asCrow, m_crows, candidate, workload>>
      BY <2>2 DEF RunTask, threads, time, objects, crows, upd
    <3> QED BY <3>1 DEF Types, CrowsOK, Crows, OneCrow, CrowsLive, Candidates, Renders,
                        Works, Ticking, TakenOver, Working
  <2> QED BY <1>5, <2>1, <2>2 DEF Parallel
<1>6. CASE World
  <2>1. CASE Pause \/ Unpause \/ remove_objects
    BY <1>1, <2>1, StillSteps
  <2>2. CASE StopThread
    BY <1>2, <2>2 DEF GateSteps
  <2>3. ASSUME NEW o \in Objs, GE_DESTROY(o) \/ processing_deactivate(o)
        PROVE  CrowsOK' /\ Crows'
    BY <1>1, <2>3, StillSteps
  <2>4. ASSUME NEW o \in Objs, \/ shedule_Update(o) \/ g_sv_Spawn(o) \/ H_SetParent(o)
                               \/ processing_activate(o)
        PROVE  CrowsOK' /\ Crows'
    BY <2>4, MakingSteps
  <2>5. ASSUME NEW o \in Objs, NEW t \in Threads, CrowRead(t, o)
        PROVE  CrowsOK' /\ Crows'
    BY <2>5, CrowReadCrows DEF Types
  <2>6. ASSUME NEW o \in Monsters, on_restrictions_change(o) PROVE CrowsOK' /\ Crows'
    BY <1>1, <2>6, StillSteps
  <2> QED BY <1>6, <2>1, <2>2, <2>3, <2>4, <2>5, <2>6 DEF World
<1>7. CASE Ended \/ UNCHANGED vars
  <2>1. UNCHANGED <<main, second, life, paused, tick, crow, asCrow, m_crows, candidate, workload>>
    BY <1>7 DEF Ended, vars, threads, time, objects, crows, upd
  <2> QED BY <2>1 DEF Types, CrowsOK, Crows, OneCrow, CrowsLive, Candidates, Renders,
                      Works, Ticking, TakenOver, Working
<1> QED BY <1>3, <1>4, <1>5, <1>6, <1>7 DEF Next

-----------------------------------------------------------------------------
(* Tasks: how often each is put aside, and until when. *)

\* A task belongs to an object that exists, and is put aside once.
OnceAside ==
    \A task \in Tasks :
        seqParallel[task] <= IF life[task[1]] = "none" THEN 0 ELSE 1

Early == {"idle", "pass", "events"}

\* Sounds are put aside once in a frame: by the update.
SoundsFresh ==
    \A m \in Monsters :
        seqParallel[<<m, "sound">>] > 0 => updated[m] /\ main \notin Early

\* Paths are put aside once until they are found: the monster waits.
PathsAwaited ==
    \A m \in Monsters : seqParallel[<<m, "path">>] > 0 => wait[m]

\* The work of the parallel part is done.
Done ==
    \/ main \in {"joined", "idle"}
    \/ marked /\ second # "run" /\ main \in {"render", "enter", "close"}

NoTasks  == \A task \in Tasks : seqParallel[task] = 0
DoneIsDone == Done => NoTasks

Aside == OnceAside /\ SoundsFresh /\ PathsAwaited /\ DoneIsDone

LEMMA InitAside == Init => Aside
<1> SUFFICES ASSUME Init PROVE Aside
  OBVIOUS
<1>1. NoTasks
  BY DEF Init, NoTasks
<1>2. \A m \in Monsters : \A k \in Kinds : <<m, k>> \in Tasks
  BY DEF Tasks
<1>3. SoundsFresh /\ PathsAwaited
  <2>1. \A m \in Monsters : /\ seqParallel[<<m, "sound">>] = 0
                             /\ seqParallel[<<m, "path">>] = 0
    BY <1>1, <1>2 DEF NoTasks, Kinds
  <2>2. ~(0 > 0)
    OBVIOUS
  <2> QED BY <2>1, <2>2 DEF SoundsFresh, PathsAwaited
<1>4. OnceAside
  BY <1>1 DEF NoTasks, OnceAside
<1> QED BY <1>1, <1>3, <1>4 DEF Aside, DoneIsDone

LEMMA TaskTypes ==
    ASSUME TasksOK
    PROVE  /\ \A task \in Tasks : seqParallel[task] \in Nat /\ task[1] \in Monsters
           /\ \A m \in Monsters : /\ <<m, "sound">> \in Tasks /\ <<m, "path">> \in Tasks
                                  /\ m \in Objs
  BY DEF TasksOK, Tasks, Kinds

\* A task is of one of two kinds.
LEMMA TaskKinds ==
    ASSUME NEW task \in Tasks
    PROVE  \E m \in Monsters : task = <<m, "sound">> \/ task = <<m, "path">>
  BY DEF Tasks, Kinds

LEMMA PutAsideAside ==
    ASSUME TasksOK, OnceAside, PathsAwaited, NEW S, NEW P, PutAside(S, P),
           \A m \in S \cap Monsters :
               life[m] # "none" /\ ~(seqParallel[<<m, "sound">>] > 0),
           \A m \in P \cap Monsters : life[m] # "none" /\ ~wait[m],
           UNCHANGED life
    PROVE  /\ OnceAside'
           /\ PathsAwaited'
           /\ \A m \in Monsters : seqParallel'[<<m, "sound">>] > 0 =>
                  m \in S \/ seqParallel[<<m, "sound">>] > 0
<1> DEFINE adds(task) == \/ task[2] = "sound" /\ task[1] \in S
                         \/ task[2] = "path" /\ task[1] \in P /\ ~failed[task[1]]
<1>1. \A task \in Tasks :
         /\ seqParallel[task] \in Nat
         /\ task[1] \in Monsters
         /\ adds(task) => seqParallel'[task] = seqParallel[task] + 1
         /\ ~adds(task) => seqParallel'[task] = seqParallel[task]
  BY TaskTypes DEF PutAside
<1>2. \A m \in Monsters :
         /\ <<m, "sound">> \in Tasks /\ <<m, "path">> \in Tasks
         /\ adds(<<m, "sound">>) <=> m \in S
         /\ adds(<<m, "path">>) => m \in P
  BY TaskTypes
<1> HIDE DEF adds
<1>3. \A m \in Monsters : wait'[m] <=> wait[m] \/ m \in P
  BY DEF PutAside
<1>4. \A task \in Tasks : adds(task) => life[task[1]] # "none" /\ seqParallel[task] = 0
  <2> SUFFICES ASSUME NEW task \in Tasks, adds(task)
               PROVE  life[task[1]] # "none" /\ ~(seqParallel[task] > 0)
    BY <1>1
  <2>1. PICK m \in Monsters : task = <<m, "sound">> \/ task = <<m, "path">>
    BY TaskKinds
  <2>2. CASE task = <<m, "sound">>
    BY <1>2, <2>2
  <2>3. CASE task = <<m, "path">>
    BY <1>2, <2>3 DEF PathsAwaited
  <2> QED BY <2>1, <2>2, <2>3
<1>5. OnceAside'
  <2> SUFFICES ASSUME NEW task \in Tasks
               PROVE  seqParallel'[task] <= IF life[task[1]] = "none" THEN 0 ELSE 1
    BY DEF OnceAside
  <2>1. CASE adds(task)
    BY <1>1, <1>4, <2>1
  <2>2. CASE ~adds(task)
    BY <1>1, <2>2 DEF OnceAside
  <2> QED BY <2>1, <2>2
<1>6. PathsAwaited'
  <2> SUFFICES ASSUME NEW m \in Monsters, seqParallel'[<<m, "path">>] > 0
               PROVE  wait'[m]
    BY DEF PathsAwaited
  <2>1. CASE adds(<<m, "path">>)
    BY <1>2, <1>3, <2>1
  <2>2. CASE ~adds(<<m, "path">>)
    BY <1>1, <1>2, <1>3, <2>2 DEF PathsAwaited
  <2> QED BY <2>1, <2>2
<1>7. \A m \in Monsters : seqParallel'[<<m, "sound">>] > 0 =>
          m \in S \/ seqParallel[<<m, "sound">>] > 0
  BY <1>1, <1>2
<1> QED BY <1>5, <1>6, <1>7

LEMMA TakeBackAside ==
    ASSUME TasksOK, OnceAside, PathsAwaited, NEW o, NEW K, TakeBack(o, K), "path" \in K,
           K \subseteq Kinds,
           \A x \in Objs : life[x] # "none" =>
               life'[x] # "none" \/ (x = o /\ K = Kinds)
    PROVE  /\ OnceAside'
           /\ PathsAwaited'
           /\ \A task \in Tasks : seqParallel'[task] > 0 => seqParallel[task] > 0
           /\ K = Kinds => \A k \in Kinds : <<o, k>> \in Tasks => seqParallel'[<<o, k>>] = 0
<1>1. \A task \in Tasks :
         /\ seqParallel[task] \in Nat /\ seqParallel[task] <= 1
         /\ task[1] \in Monsters
         /\ task[1] = o /\ task[2] \in K => seqParallel'[task] = 0
         /\ ~(task[1] = o /\ task[2] \in K) => seqParallel'[task] = seqParallel[task]
  <2> SUFFICES ASSUME NEW task \in Tasks
               PROVE  /\ seqParallel[task] \in Nat /\ seqParallel[task] <= 1
                      /\ task[1] \in Monsters
                      /\ task[1] = o /\ task[2] \in K => seqParallel'[task] = 0
                      /\ ~(task[1] = o /\ task[2] \in K) =>
                            seqParallel'[task] = seqParallel[task]
    OBVIOUS
  <2>1. seqParallel[task] \in Nat /\ seqParallel[task] <= 1 /\ task[1] \in Monsters
    BY TaskTypes DEF OnceAside
  <2>2. seqParallel'[task] = IF task[1] = o /\ task[2] \in K /\ seqParallel[task] > 0
                             THEN seqParallel[task] - 1 ELSE seqParallel[task]
    BY DEF TakeBack
  <2>3. CASE task[1] = o /\ task[2] \in K /\ seqParallel[task] > 0
    BY <2>1, <2>2, <2>3
  <2>4. CASE ~(task[1] = o /\ task[2] \in K /\ seqParallel[task] > 0)
    BY <2>1, <2>2, <2>4
  <2> QED BY <2>1, <2>3, <2>4
<1>2. \A m \in Monsters : wait'[m] <=> wait[m] /\ m # o
  BY DEF TakeBack
<1>3. \A task \in Tasks : task[2] \in Kinds
  BY DEF Tasks
<1>4. OnceAside'
  <2> SUFFICES ASSUME NEW task \in Tasks
               PROVE  seqParallel'[task] <= IF life'[task[1]] = "none" THEN 0 ELSE 1
    BY DEF OnceAside
  <2>1. CASE task[1] = o /\ task[2] \in K
    BY <1>1, <2>1
  <2>2. CASE ~(task[1] = o /\ task[2] \in K)
    <3>1. seqParallel'[task] = seqParallel[task] /\ task[1] \in Objs
      BY <1>1, <2>2
    <3>2. life[task[1]] # "none" => life'[task[1]] # "none"
      BY <1>3, <2>2, <3>1
    <3> QED BY <1>1, <3>1, <3>2 DEF OnceAside
  <2> QED BY <2>1, <2>2
<1>5. PathsAwaited'
  <2> SUFFICES ASSUME NEW m \in Monsters, seqParallel'[<<m, "path">>] > 0
               PROVE  wait'[m]
    BY DEF PathsAwaited
  <2>1. <<m, "path">> \in Tasks
    BY DEF Tasks, Kinds
  <2>2. m # o
    BY <1>1, <2>1
  <2> QED BY <1>1, <1>2, <2>1, <2>2 DEF PathsAwaited
<1>6. \A task \in Tasks : seqParallel'[task] > 0 => seqParallel[task] > 0
  BY <1>1
<1>7. K = Kinds => \A k \in Kinds : <<o, k>> \in Tasks => seqParallel'[<<o, k>>] = 0
  BY <1>1
<1> QED BY <1>4, <1>5, <1>6, <1>7

\* The steps that leave the tasks alone.
Idling ==
    /\ UNCHANGED <<seqParallel, wait>>
    /\ \A o \in Objs : life[o] # "none" => life'[o] # "none"
    /\ \/ NoTasks
       \/ /\ main' \in Early => main \in Early
          /\ main \in Early \/ \A m \in Monsters : updated[m] => updated'[m]
    /\ Done' => Done \/ NoTasks

LEMMA IdlingKeeps ==
    ASSUME TasksOK, Aside, Idling
    PROVE  Aside'
<1>1. OnceAside'
  BY TaskTypes DEF Aside, OnceAside, Idling
<1>2. PathsAwaited'
  BY DEF Aside, PathsAwaited, Idling
<1>3. NoTasks <=> NoTasks'
  BY DEF NoTasks, Idling
<1>4. DoneIsDone'
  BY <1>3 DEF Aside, DoneIsDone, Idling
<1>5. SoundsFresh'
  <2> SUFFICES ASSUME NEW m \in Monsters, seqParallel[<<m, "sound">>] > 0
               PROVE  updated'[m] /\ main' \notin Early
    BY DEF SoundsFresh, Idling
  <2>1. ~NoTasks
    <3>1. <<m, "sound">> \in Tasks
      BY TaskTypes
    <3>2. ~(seqParallel[<<m, "sound">>] = 0)
      OBVIOUS
    <3> QED BY <3>1, <3>2 DEF NoTasks
  <2>2. updated[m] /\ main \notin Early
    BY DEF Aside, SoundsFresh
  <2> QED BY <2>1, <2>2 DEF Idling
<1> QED BY <1>1, <1>2, <1>4, <1>5 DEF Aside

LEMMA IdlingSteps ==
    ASSUME LoopInv, Types, Families, Aside
    PROVE  /\ FrameMove \/ EndPass \/ BeginUpdate \/ EndUpdate \/ EndDestroy => Idling
           /\ Pause \/ Unpause \/ remove_objects => Idling
           /\ \A o \in Objs : \/ g_sv_Spawn(o) \/ H_SetParent(o) \/ GE_DESTROY(o)
                              \/ processing_activate(o) \/ processing_deactivate(o)
                              => Idling
           /\ GateSteps => Idling
<1> USE DEF Types
<1>1. FrameMove => Idling
  <2> SUFFICES ASSUME FrameMove PROVE Idling
    OBVIOUS
  <2>1. /\ main = "idle" /\ main' = "pass" /\ marked' = FALSE
        /\ UNCHANGED <<seqParallel, wait, life>>
    BY DEF FrameMove, NewFrame, objects
  <2>2. NoTasks
    BY <2>1 DEF Aside, DoneIsDone, Done
  <2> QED BY <2>1, <2>2 DEF Idling
<1>2. EndPass \/ BeginUpdate \/ EndUpdate => Idling
  BY DEF EndPass, BeginUpdate, EndUpdate, Idling, Early, Done, objects, tasks, upd
<1>3. EndDestroy => Idling
  <2> SUFFICES ASSUME EndDestroy PROVE Idling
    OBVIOUS
  <2>1. /\ main = "destroy" /\ main' = IF removing THEN "events" ELSE "gate"
        /\ UNCHANGED <<seqParallel, wait, life, updated, second, marked>>
        /\ destroy_queue = <<>>
    BY DEF EndDestroy, objects, tasks, upd
  <2>2. removing => NoTasks
    <3> SUFFICES ASSUME removing, NEW task \in Tasks PROVE seqParallel[task] = 0
      BY DEF NoTasks
    <3>1. seqParallel[task] \in Nat /\ task[1] \in Objs
      BY TaskTypes
    <3>2. ~Within(destroy_queue, task[1])
      BY <2>1 DEF Within
    <3>3. life[task[1]] = "none"
      BY <3>1, <3>2 DEF Families, Queued, Cleared
    <3> QED BY <3>1, <3>3 DEF Aside, OnceAside
  <2> QED BY <2>1, <2>2 DEF Idling, Early, Done
<1>4. Pause \/ Unpause => Idling
  BY DEF Pause, Unpause, Idling, Early, Done, objects, tasks, upd, threads
<1>5. remove_objects => Idling
  BY DEF remove_objects, NewFrame, Idling, Early, Done, tasks
<1>6. ASSUME NEW o \in Objs, \/ g_sv_Spawn(o) \/ H_SetParent(o) \/ GE_DESTROY(o)
                             \/ processing_activate(o) \/ processing_deactivate(o)
      PROVE  Idling
  <2>1. /\ UNCHANGED <<seqParallel, wait, updated, main, second, marked>>
        /\ \/ UNCHANGED life
           \/ life' \in {[life EXCEPT ![o] = "active"], [life EXCEPT ![o] = "sleeping"]}
    BY <1>6 DEF g_sv_Spawn, H_SetParent, GE_DESTROY, processing_activate,
                processing_deactivate, tasks, upd, threads
  <2>2. \A x \in Objs : life[x] # "none" => life'[x] # "none"
    BY <2>1 DEF ObjectsOK
  <2> QED BY <2>1, <2>2 DEF Idling, Done
<1>7. GateSteps => Idling
  <2> SUFFICES ASSUME GateSteps PROVE Idling
    OBVIOUS
  <2>1. UNCHANGED <<seqParallel, wait, life, updated>>
    BY DEF GateSteps, TakeLeave, FreeEnter, TakeEnter, FreeLeave, Ensure, EndSelf,
           EndFrame, EndRun, StopThread, SecondEnter, EndWork, SecondLeave, SecondBack,
           others, objects, upd, tasks
  <2>2. main' \in Early => main \in Early \/ main = "joined"
    BY DEF GateSteps, TakeLeave, FreeEnter, TakeEnter, FreeLeave, Ensure, EndSelf,
           EndFrame, EndRun, StopThread, SecondEnter, EndWork, SecondLeave, SecondBack,
           Goes, Moves, Early
  <2>3. Done' => Done \/ NoTasks
    <3>1. CASE EndSelf \/ EndWork
      BY <3>1 DEF EndSelf, EndWork, NoTasks
    <3>2. CASE TakeLeave \/ FreeEnter
      BY <3>2 DEF TakeLeave, FreeEnter, Goes, LoopInv, Turns, Done
    <3>3. CASE TakeEnter \/ FreeLeave \/ Ensure \/ EndFrame \/ EndRun \/ StopThread
      <4>1. ~(second = "run" /\ main = "close")
        BY DEF LoopInv, Gates
      <4> QED BY <3>3, <4>1 DEF TakeEnter, FreeLeave, Ensure, EndFrame, EndRun, StopThread,
                               Goes, Done
    <3>4. CASE SecondEnter
      <4>1. second' \in {"run", "gone"} /\ main' = main /\ (second' = "gone" => marked' = marked /\ second # "run")
        BY <3>4 DEF SecondEnter
      <4>2. CASE second' = "run"
        BY <4>1, <4>2 DEF Done
      <4>3. CASE second' = "gone"
        BY <4>1, <4>3 DEF Done
      <4> QED BY <4>1, <4>2, <4>3
    <3>5. CASE SecondLeave \/ SecondBack
      BY <3>5 DEF SecondLeave, SecondBack, Moves, Done
    <3> QED BY <3>1, <3>2, <3>3, <3>4, <3>5 DEF GateSteps
  <2>4. main = "joined" => NoTasks
    BY DEF Aside, DoneIsDone, Done
  <2> QED BY <2>1, <2>2, <2>3, <2>4 DEF Idling
<1> QED BY <1>1, <1>2, <1>3, <1>4, <1>5, <1>6, <1>7

LEMMA SheduleAside ==
    ASSUME LoopInv, Types, Families, Aside, NEW o \in Objs, shedule_Update(o)
    PROVE  Aside'
<1> USE DEF Types, Aside
<1>1. PICK P \in SUBSET AsksPath({o}) : PutAside({}, P)
  BY DEF shedule_Update
<1>2. /\ main = "pass" /\ life[o] # "none"
      /\ UNCHANGED <<main, second, marked, life, updated>>
  BY DEF shedule_Update, threads, objects, upd
<1>3. \A m \in P \cap Monsters : life[m] # "none" /\ ~wait[m]
  BY <1>2 DEF AsksPath
<1>4. /\ OnceAside' /\ PathsAwaited'
      /\ \A m \in Monsters : seqParallel'[<<m, "sound">>] > 0 =>
             m \in {} \/ seqParallel[<<m, "sound">>] > 0
  <2>1. \A m \in {} \cap Monsters : life[m] # "none" /\ ~(seqParallel[<<m, "sound">>] > 0)
    OBVIOUS
  <2> QED BY <1>1, <1>2, <1>3, <2>1, PutAsideAside
<1>5. SoundsFresh'
  BY <1>2, <1>4 DEF SoundsFresh
<1>6. DoneIsDone'
  BY <1>2 DEF DoneIsDone, Done
<1> QED BY <1>4, <1>5, <1>6

LEMMA SingleUpdateAside ==
    ASSUME LoopInv, Types, Families, Aside, NEW o \in Objs, SingleUpdate(o)
    PROVE  Aside'
<1> USE DEF Types, Aside
<1> DEFINE S == Chain(o) \cap Monsters
<1>1. PICK P \in SUBSET AsksPath(Chain(o)) : PutAside(S, P)
  BY DEF SingleUpdate
<1>2. /\ main = "update"
      /\ UNCHANGED <<main, second, marked, life>>
      /\ updated' = [x \in Objs |-> updated[x] \/ x \in Chain(o)]
  BY DEF SingleUpdate, threads, objects
<1>3. \A m \in Chain(o) \cap Monsters : life[m] # "none" /\ ~updated[m]
  <2>1. \A m \in Chain(o) \cap Monsters : m \in Objs /\ life[m] = "active" /\ ~updated[m]
    BY DEF Chain, Active
  <2> QED BY <2>1
<1>4. \A m \in S \cap Monsters :
         life[m] # "none" /\ ~(seqParallel[<<m, "sound">>] > 0)
  BY <1>3 DEF SoundsFresh
<1>5. \A m \in P \cap Monsters : life[m] # "none" /\ ~wait[m]
  BY <1>3 DEF AsksPath
<1>6. /\ OnceAside' /\ PathsAwaited'
      /\ \A m \in Monsters : seqParallel'[<<m, "sound">>] > 0 =>
             m \in S \/ seqParallel[<<m, "sound">>] > 0
  <2> HIDE DEF S
  <2> QED BY <1>1, <1>2, <1>4, <1>5, PutAsideAside
<1>7. SoundsFresh'
  <2> SUFFICES ASSUME NEW m \in Monsters, seqParallel'[<<m, "sound">>] > 0
               PROVE  updated'[m]
    BY <1>2 DEF SoundsFresh, Early
  <2>1. m \in S \/ updated[m]
    BY <1>6 DEF SoundsFresh
  <2> QED BY <1>2, <2>1
<1>8. DoneIsDone'
  BY <1>2 DEF DoneIsDone, Done
<1> QED BY <1>6, <1>7, <1>8

LEMMA RestrictionsAside ==
    ASSUME LoopInv, Types, Families, Aside, NEW o \in Monsters, on_restrictions_change(o)
    PROVE  Aside'
<1> USE DEF Types, Aside
<1>1. /\ TakeBack(o, {"path"}) /\ main \in {"pass", "events"}
      /\ UNCHANGED <<main, second, marked, life, updated>>
  BY DEF on_restrictions_change, threads, objects, upd
<1>2. /\ OnceAside' /\ PathsAwaited'
      /\ \A task \in Tasks : seqParallel'[task] > 0 => seqParallel[task] > 0
  <2>1. "path" \in {"path"} /\ {"path"} \subseteq Kinds
    BY DEF Kinds
  <2> QED BY <1>1, <2>1, TakeBackAside
<1>3. SoundsFresh'
  <2>1. \A m \in Monsters : <<m, "sound">> \in Tasks
    BY TaskTypes
  <2> QED BY <1>1, <1>2, <2>1 DEF SoundsFresh
<1>4. DoneIsDone'
  BY <1>1 DEF DoneIsDone, Done
<1> QED BY <1>2, <1>3, <1>4

LEMMA DestroyAside ==
    ASSUME LoopInv, Types, Families, Aside, Destroy
    PROVE  Aside'
<1> USE DEF Types, Aside
<1>1. /\ TakeBack(Hindmost, Kinds) /\ main = "destroy"
      /\ UNCHANGED <<main, second, marked>>
      /\ life' = [life EXCEPT ![Hindmost] = "none"]
      /\ updated' = [updated EXCEPT ![Hindmost] = FALSE]
  BY DEF Destroy, DestroyAt, Hindmost, threads
<1>2. Hindmost \in Objs
  BY DestroyTakesLast
<1>3. \A x \in Objs : life[x] # "none" => life'[x] # "none" \/ (x = Hindmost /\ Kinds = Kinds)
  BY <1>1 DEF ObjectsOK
<1>4. /\ OnceAside' /\ PathsAwaited'
      /\ \A task \in Tasks : seqParallel'[task] > 0 => seqParallel[task] > 0
      /\ \A k \in Kinds : <<Hindmost, k>> \in Tasks => seqParallel'[<<Hindmost, k>>] = 0
  <2>1. "path" \in Kinds /\ Kinds \subseteq Kinds
    BY DEF Kinds
  <2> QED BY <1>1, <1>3, <2>1, TakeBackAside
<1>5. SoundsFresh'
  <2> SUFFICES ASSUME NEW m \in Monsters, seqParallel'[<<m, "sound">>] > 0
               PROVE  updated'[m]
    BY <1>1 DEF SoundsFresh, Early
  <2>1. <<m, "sound">> \in Tasks /\ m \in Objs
    BY TaskTypes
  <2>2. updated[m]
    BY <1>4, <2>1 DEF SoundsFresh
  <2>3. m # Hindmost
    BY <1>4, <2>1 DEF Kinds
  <2> QED BY <1>1, <2>1, <2>2, <2>3 DEF UpdOK
<1>6. DoneIsDone'
  BY <1>1 DEF DoneIsDone, Done
<1> QED BY <1>4, <1>5, <1>6

LEMMA RunTaskAside ==
    ASSUME LoopInv, Types, Aside, NEW t \in Threads, NEW task \in Tasks, RunTask(t, task)
    PROVE  Aside'
<1> USE DEF Types, Aside
<1>1. /\ Works(t) /\ seqParallel[task] > 0
      /\ seqParallel' = [seqParallel EXCEPT ![task] = @ - 1]
      /\ UNCHANGED <<main, second, marked, life, updated>>
  BY DEF RunTask, threads, objects, upd
<1>2. \A x \in Tasks : /\ seqParallel[x] \in Nat /\ seqParallel[x] <= 1
                       /\ x[1] \in Monsters
                       /\ x # task => seqParallel'[x] = seqParallel[x]
                       /\ x = task => seqParallel'[x] = 0
  <2> SUFFICES ASSUME NEW x \in Tasks
               PROVE  /\ seqParallel[x] \in Nat /\ seqParallel[x] <= 1
                      /\ x[1] \in Monsters
                      /\ x # task => seqParallel'[x] = seqParallel[x]
                      /\ x = task => seqParallel'[x] = 0
    OBVIOUS
  <2>1. seqParallel[x] \in Nat /\ seqParallel[x] <= 1 /\ x[1] \in Monsters
    BY TaskTypes DEF OnceAside
  <2> QED BY <1>1, <2>1 DEF TasksOK
<1>3. OnceAside'
  <2> SUFFICES ASSUME NEW x \in Tasks
               PROVE  seqParallel'[x] <= IF life[x[1]] = "none" THEN 0 ELSE 1
    BY <1>1 DEF OnceAside
  <2>1. CASE x = task
    BY <1>2, <2>1
  <2>2. CASE x # task
    BY <1>2, <2>2 DEF OnceAside
  <2> QED BY <2>1, <2>2
<1>4. SoundsFresh'
  <2> SUFFICES ASSUME NEW m \in Monsters, seqParallel'[<<m, "sound">>] > 0
               PROVE  seqParallel[<<m, "sound">>] > 0
    BY <1>1 DEF SoundsFresh
  <2>1. <<m, "sound">> \in Tasks
    BY TaskTypes
  <2> QED BY <1>2, <2>1
<1>5. PathsAwaited'
  <2> SUFFICES ASSUME NEW m \in Monsters, seqParallel'[<<m, "path">>] > 0
               PROVE  wait'[m]
    BY DEF PathsAwaited
  <2>1. <<m, "path">> \in Tasks
    BY TaskTypes
  <2>2. <<m, "path">> # task /\ seqParallel[<<m, "path">>] > 0
    BY <1>2, <2>1
  <2>3. wait[m]
    BY <2>2 DEF PathsAwaited
  <2>4. CASE UNCHANGED wait
    BY <2>3, <2>4
  <2>5. CASE task[2] = "path" /\ wait' = [wait EXCEPT ![task[1]] = FALSE]
    <3>1. task[1] # m
      BY <2>2, <2>5 DEF Tasks
    <3> QED BY <2>3, <2>5, <3>1 DEF TasksOK
  <2> QED BY <2>4, <2>5 DEF RunTask
<1>6. DoneIsDone'
  <2>1. ~Done'
    BY <1>1 DEF Works, Done, LoopInv, Gates
  <2> QED BY <2>1 DEF DoneIsDone
<1> QED BY <1>3, <1>4, <1>5, <1>6

LEMMA NextAside ==
    LoopInv /\ Types /\ Families /\ Aside /\ [Next]_vars => Aside'
<1> SUFFICES ASSUME LoopInv, Types, Families, Aside, [Next]_vars
             PROVE  Aside'
  OBVIOUS
<1>1. CASE Idling
  BY <1>1, IdlingKeeps DEF Types
<1>2. CASE Frame
  <2>1. CASE FrameMove \/ EndPass \/ BeginUpdate \/ EndUpdate \/ EndDestroy
    BY <1>1, <2>1, IdlingSteps
  <2>2. CASE \E o \in Objs : SingleUpdate(o)
    BY <2>2, SingleUpdateAside
  <2>3. CASE Destroy
    BY <2>3, DestroyAside
  <2>4. CASE TakeLeave \/ FreeEnter \/ TakeEnter \/ FreeLeave \/ Ensure \/ EndSelf
             \/ EndFrame \/ EndRun
    BY <1>1, <2>4, IdlingSteps DEF GateSteps
  <2> QED BY <1>2, <2>1, <2>2, <2>3, <2>4 DEF Frame
<1>3. CASE SecondThread
  BY <1>1, <1>3, IdlingSteps DEF SecondThread, GateSteps
<1>4. ASSUME UNCHANGED <<main, second, marked, life, updated, seqParallel, wait>>
      PROVE  Aside'
  BY <1>1, <1>4 DEF Idling, Done
<1>5. ASSUME NEW t \in Threads, Parallel(t) PROVE Aside'
  <2>1. CASE CrowExchange(t)
    BY <1>4, <2>1 DEF CrowExchange, threads, objects, upd, tasks
  <2>2. ASSUME NEW task \in Tasks, RunTask(t, task) PROVE Aside'
    BY <2>2, RunTaskAside
  <2> QED BY <1>5, <2>1, <2>2 DEF Parallel
<1>6. CASE World
  <2>1. CASE Pause \/ Unpause \/ remove_objects
    BY <1>1, <2>1, IdlingSteps
  <2>2. CASE StopThread
    BY <1>1, <2>2, IdlingSteps DEF GateSteps
  <2>3. ASSUME NEW o \in Objs, \/ g_sv_Spawn(o) \/ H_SetParent(o) \/ GE_DESTROY(o)
                               \/ processing_activate(o) \/ processing_deactivate(o)
        PROVE  Aside'
    BY <1>1, <2>3, IdlingSteps
  <2>4. ASSUME NEW o \in Objs, shedule_Update(o) PROVE Aside'
    BY <2>4, SheduleAside
  <2>5. ASSUME NEW o \in Objs, NEW t \in Threads, CrowRead(t, o) PROVE Aside'
    BY <1>4, <2>5 DEF CrowRead, threads, objects, upd, tasks
  <2>6. ASSUME NEW o \in Monsters, on_restrictions_change(o) PROVE Aside'
    BY <2>6, RestrictionsAside
  <2> QED BY <1>6, <2>1, <2>2, <2>3, <2>4, <2>5, <2>6 DEF World
<1>7. CASE Ended \/ UNCHANGED vars
  BY <1>4, <1>7 DEF Ended, vars, threads, objects, upd, tasks
<1> QED BY <1>2, <1>3, <1>5, <1>6, <1>7 DEF Next

-----------------------------------------------------------------------------
(* The invariant. *)

LEMMA NextUpd == Types /\ [Next]_vars => UpdOK'
<1> SUFFICES ASSUME Types, [Next]_vars PROVE UpdOK'
  OBVIOUS
<1>1. CASE UNCHANGED upd
  BY <1>1 DEF upd, Types, UpdOK
<1>2. CASE FrameMove \/ remove_objects
  BY <1>2 DEF FrameMove, remove_objects, NewFrame, Types, UpdOK
<1>3. CASE BeginUpdate
  BY <1>3 DEF BeginUpdate, Types, UpdOK
<1>4. CASE Destroy
  BY <1>4 DEF Destroy, DestroyAt, Types, UpdOK
<1>5. CASE \E o \in Objs : SingleUpdate(o)
  BY <1>5 DEF SingleUpdate, Types, UpdOK
<1> QED BY <1>1, <1>2, <1>3, <1>4, <1>5, Changes DEF UpdSteps

ListsInv == LoopInv /\ Types /\ Families /\ Crows /\ Aside

LEMMA InvariantLists == Spec => []ListsInv
<1>1. Init => ListsInv
  BY InitLoop, InitTypes, InitFamilies, InitCrows, InitAside DEF ListsInv
<1>2. ListsInv /\ [Next]_vars => ListsInv'
  <2> SUFFICES ASSUME ListsInv, [Next]_vars PROVE ListsInv'
    OBVIOUS
  <2>1. TimeOK' /\ TasksOK' /\ UpdOK'
    BY TimeType, NextTasks, NextUpd DEF ListsInv, Types
  <2>2. ObjectsOK' /\ Families'
    BY NextFamilies DEF ListsInv, Types
  <2>3. CrowsOK' /\ Crows'
    BY NextCrows DEF ListsInv
  <2>4. LoopInv' /\ Aside'
    BY NextKeepsLoop, NextAside DEF ListsInv
  <2> QED BY <2>1, <2>2, <2>3, <2>4 DEF ListsInv, Types
<1> QED BY <1>1, <1>2, PTL DEF Spec

(* Every list of the engine names objects that exist, each crow is in one  *)
(* place of one thread's list, each task is put aside once: for every      *)
(* number of objects, and whatever the threads, the pauses and the order   *)
(* of spawns and destructions are.                                         *)
THEOREM EngineListsAreLive == Spec => []ListsAreLive
<1>1. ListsInv => ListsAreLive
  <2> SUFFICES ASSUME ListsInv PROVE ListsAreLive
    OBVIOUS
  <2>1. TypeOK
    BY TypesTypeOK DEF ListsInv
  <2>2. ASSUME NEW o \in Objs
        PROVE  /\ m_crows["main"][o] + m_crows["second"][o] = IF crow[o] THEN 1 ELSE 0
               /\ crow[o] \/ o \in workload \/ bDestroy[o] => life[o] # "none"
               /\ Parent[o] # Null => life[Parent[o]] # "none"
               /\ (main = "destroy" /\ ~paused) => m_crows["second"][o] = 0
    <3>1. m_crows["main"][o] + m_crows["second"][o] = IF crow[o] THEN 1 ELSE 0
      BY DEF ListsInv, Crows, OneCrow
    <3>2. crow[o] \/ o \in workload \/ bDestroy[o] => life[o] # "none"
      BY DEF ListsInv, Crows, CrowsLive, Families, Queued
    <3>3. Parent[o] # Null => life[Parent[o]] # "none"
      BY DEF ListsInv, Families, Related
    <3>4. (main = "destroy" /\ ~paused) => m_crows["second"][o] = 0
      BY DEF ListsInv, Crows, TakenOver
    <3> QED BY <3>1, <3>2, <3>3, <3>4
  <2>3. \A k \in DOMAIN destroy_queue : life[destroy_queue[k]] # "none"
    BY InQueue DEF ListsInv, Types, Families, Queued
  <2>4. \A task \in Tasks :
           seqParallel[task] <= IF life[task[1]] = "none" THEN 0 ELSE 1
    BY DEF ListsInv, Aside, OnceAside
  <2> QED BY <2>1, <2>2, <2>3, <2>4 DEF ListsAreLive
<1> QED BY <1>1, InvariantLists, PTL
=============================================================================
