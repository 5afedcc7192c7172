------------------------------- MODULE Engine -------------------------------
(***************************************************************************)
(* A frame of the engine: the message loop of the primary thread, the      *)
(* secondary thread that runs beside the renderer, and the client's list   *)
(* of objects they share.                                                  *)
(*   source: xrEngine/device.cpp, xr_object.cpp, xr_object_list.cpp;       *)
(*           xrGame/level_path_builder.h, Level_network.cpp                *)
(*                                                                         *)
(* Two critical sections pass control from one thread to the other.  While *)
(* the game moves, the primary thread holds mt_csEnter; while it renders,  *)
(* mt_csLeave.  Neither thread waits for the other to have had its turn,   *)
(* so the secondary one may miss a frame, and the primary one then does    *)
(* its work.                                                               *)
(*                                                                         *)
(* An object near the camera, or one that was just called by the           *)
(* scheduler, is a "crow" and is updated in the next frame.  Each thread   *)
(* has a list of crows of its own.  Objects of Monsters own others, put    *)
(* aside the sound player and the search of a path for the parallel part,  *)
(* and take these tasks back when they are destroyed.  The level path      *)
(* builder and the detail path builder share the flag that lets neither be *)
(* put aside while one is, and are taken back together: one task, "path",  *)
(* stands for both.  After a failure it waits as the level builder does.   *)
(*                                                                         *)
(* A frame's number only counts as the present one or not.  Left out: the  *)
(* loading events, the functions of seqFrameMT, a net_Spawn that fails.    *)
(* Of remove_objects' twenty rounds the first is modelled: the server's    *)
(* events to reject and destroy everything arrive in it.                   *)
(***************************************************************************)
EXTENDS Integers, Sequences, SequencesExt

CONSTANTS Objs,        \* addresses of the client's objects
          Monsters,    \* those that own others and put tasks aside
          Null,        \* the null pointer
          NoDelay      \* monsters with m_use_delay_after_fail = FALSE

ASSUME MonstersAssumption == Monsters \subseteq Objs /\ NoDelay \subseteq Monsters
ASSUME NullAssumption == Null \notin Objs \cup {"main", "second"}

VARIABLES
    main,            \* where the primary thread is
    second,          \* where mt_Thread is
    mt_csEnter,      \* owner of the critical section: a thread, or Null
    mt_csLeave,
    mt_bMustExit,
    marked,          \* mt_Thread_marker is this frame's number
    paused,          \* Device.Paused()
    tick,            \* fTimeDelta > EPS_S
    removing,        \* CLevel::remove_objects makes the updates
    active,          \* rsDisableObjectsAsCrows: every active object is updated
    life,            \* "none", or the list: "sleeping" or "active"
    bDestroy,
    Parent,
    crow,            \* Props.crow
    asCrow,          \* dwFrame_AsCrow is this frame's number
    updated,         \* dwFrame_UpdateCL is this frame's number
    m_crows,         \* for each thread: how often each object is in its list
    candidate,       \* for each thread: the object inside MakeMeCrow
    workload,        \* objects that Update has not come to
    destroy_queue,
    seqParallel,     \* how often each task is put aside
    wait,            \* m_wait_for_distributed_computation
    failed           \* the last search failed in the last two seconds

threads == <<main, second, mt_csEnter, mt_csLeave, mt_bMustExit, marked>>
time    == <<paused, tick, removing, active>>
objects == <<life, bDestroy, Parent, destroy_queue>>
crows   == <<crow, asCrow, m_crows, candidate>>
upd     == <<updated, workload>>
tasks   == <<seqParallel, wait, failed>>
vars    == <<threads, time, objects, crows, upd, tasks>>

Threads == {"main", "second"}
Kinds   == {"sound", "path"}
Tasks   == Monsters \X Kinds

Game   == {"idle", "pass", "events", "update", "destroy", "gate"}
Beside == {"open", "render", "enter", "close", "self", "joined"}

TypeOK ==
    /\ main \in Game \cup Beside \cup {"over", "ended"}
    /\ second \in {"enter", "run", "leave", "back", "gone"}
    /\ {mt_csEnter, mt_csLeave} \subseteq Threads \cup {Null}
    /\ {mt_bMustExit, marked, paused, tick, removing, active} \subseteq BOOLEAN
    /\ life \in [Objs -> {"none", "sleeping", "active"}]
    /\ Parent \in [Objs -> Monsters \cup {Null}]
    /\ {bDestroy, crow, asCrow, updated} \subseteq [Objs -> BOOLEAN]
    /\ m_crows \in [Threads -> [Objs -> Nat]]
    /\ candidate \in [Threads -> Objs \cup {Null}]
    /\ workload \subseteq Objs
    /\ destroy_queue \in Seq(Objs)
    /\ seqParallel \in [Tasks -> Nat]
    /\ {wait, failed} \subseteq [Monsters -> BOOLEAN]

Init ==
    /\ main = "idle"
    /\ second = "enter"
    /\ mt_csEnter = "main"
    /\ mt_csLeave = Null
    /\ mt_bMustExit = FALSE
    /\ marked = FALSE
    /\ paused = FALSE
    /\ tick = TRUE
    /\ removing = FALSE
    /\ active \in BOOLEAN
    /\ life = [o \in Objs |-> "none"]
    /\ Parent = [o \in Objs |-> Null]
    /\ bDestroy = [o \in Objs |-> FALSE]
    /\ crow = [o \in Objs |-> FALSE]
    /\ asCrow = [o \in Objs |-> FALSE]
    /\ updated = [o \in Objs |-> FALSE]
    /\ m_crows = [t \in Threads |-> [o \in Objs |-> 0]]
    /\ candidate = [t \in Threads |-> Null]
    /\ workload = {}
    /\ destroy_queue = <<>>
    /\ seqParallel = [task \in Tasks |-> 0]
    /\ wait = [o \in Monsters |-> FALSE]
    /\ failed = [o \in Monsters |-> FALSE]

Active(o) == life[o] = "active"

-----------------------------------------------------------------------------
(* Crows and tasks, in the game's turn. *)

\* The objects of S that MakeMeCrow makes crows, in states of life l.
NewCrows(S, l) == {o \in S : ~crow[o] /\ l[o] = "active" /\ ~asCrow[o]}

\* CObject::MakeMeCrow and CObjectList::o_crow.
MakeMeCrow(S, l) ==
    /\ crow' = [o \in Objs |-> crow[o] \/ o \in NewCrows(S, l)]
    /\ asCrow' = [o \in Objs |-> asCrow[o] \/ o \in NewCrows(S, l)]
    /\ m_crows' = [m_crows EXCEPT !["main"] =
                      [o \in Objs |-> @[o] + IF o \in NewCrows(S, l) THEN 1 ELSE 0]]
    /\ UNCHANGED candidate

\* Monsters that update_path may bring to ask for a path.
AsksPath(S) == {o \in S \cap Monsters : ~wait[o] /\ ~bDestroy[o]}

\* Those of P register for a path, those of S for their sound player.
PutAside(S, P) ==
    /\ wait' = [o \in Monsters |-> wait[o] \/ o \in P]
    /\ seqParallel' =
          [task \in Tasks |-> seqParallel[task] +
              IF \/ task[2] = "sound" /\ task[1] \in S
                 \/ task[2] = "path" /\ task[1] \in P /\ ~failed[task[1]]
              THEN 1 ELSE 0]
    /\ UNCHANGED failed

\* Of each kind in K, the first of the object's tasks is taken back.
TakeBack(o, K) ==
    /\ seqParallel' = [task \in Tasks |->
          IF task[1] = o /\ task[2] \in K /\ seqParallel[task] > 0
          THEN seqParallel[task] - 1 ELSE seqParallel[task]]
    /\ wait' = [m \in Monsters |-> wait[m] /\ m # o]

-----------------------------------------------------------------------------
(* The game's turn: scheduler, events, updates, destruction. *)

\* dwFrame++: nothing has happened in this frame yet.
NewFrame ==
    /\ marked' = FALSE
    /\ asCrow' = [o \in Objs |-> FALSE]
    /\ updated' = [o \in Objs |-> FALSE]

FrameMove ==
    /\ main = "idle"
    /\ main' = "pass"
    /\ NewFrame
    /\ tick' = ~paused
    /\ \E still \in SUBSET {o \in Monsters : failed[o]} :
          failed' = [o \in Monsters |-> o \in still]
    /\ UNCHANGED <<second, mt_csEnter, mt_csLeave, mt_bMustExit, paused,
                   removing, active, objects, crow, m_crows, candidate,
                   workload, seqParallel, wait>>

Pause ==
    /\ main \in {"idle", "pass", "events"} /\ ~removing
    /\ ~paused
    /\ paused' = TRUE
    /\ UNCHANGED <<threads, tick, removing, active, objects, crows, upd, tasks>>

\* Slip: the frame's time stays at nought.
UnpauseOnly ==
    /\ main \in {"idle", "pass", "events"} /\ ~removing
    /\ paused
    /\ paused' = FALSE
    /\ UNCHANGED <<threads, tick, removing, active, objects, crows, upd, tasks>>

Unpause ==
    /\ main \in {"idle", "pass", "events"} /\ ~removing
    /\ paused
    /\ paused' = FALSE
    /\ tick' = TRUE
    /\ UNCHANGED <<threads, removing, active, objects, crows, upd, tasks>>

shedule_Update(o) ==
    /\ main = "pass"
    /\ ~paused
    /\ life[o] # "none"
    /\ ~bDestroy[o]
    /\ MakeMeCrow({o}, life)
    /\ \E P \in SUBSET AsksPath({o}) : PutAside({}, P)
    /\ UNCHANGED <<threads, time, objects, upd>>

EndPass ==
    /\ main = "pass"
    /\ main' = "events"
    /\ UNCHANGED <<second, mt_csEnter, mt_csLeave, mt_bMustExit, marked, time,
                   objects, crows, upd, tasks>>

g_sv_Spawn(o) ==
    /\ main = "events" /\ ~removing
    /\ life[o] = "none"
    /\ life' = [life EXCEPT ![o] = "active"]
    /\ \E p \in {Null} \cup {m \in Monsters : life[m] # "none" /\ ~bDestroy[m]} :
          /\ p # Null => o \notin Monsters
          /\ Parent' = [Parent EXCEPT ![o] = p]
    /\ MakeMeCrow({o}, life')
    /\ UNCHANGED <<threads, time, bDestroy, destroy_queue, upd, tasks>>

\* GE_OWNERSHIP_TAKE and GE_OWNERSHIP_REJECT.
H_SetParent(o) ==
    /\ main = "events" /\ ~removing
    /\ life[o] # "none"
    /\ ~bDestroy[o]
    /\ o \notin Monsters
    /\ \E p \in {Null} \cup {m \in Monsters : life[m] # "none" /\ ~bDestroy[m]} :
          /\ (p = Null) # (Parent[o] = Null)
          /\ Parent' = [Parent EXCEPT ![o] = p]
    /\ MakeMeCrow({o}, life)
    /\ UNCHANGED <<threads, time, life, bDestroy, destroy_queue, upd, tasks>>

\* setDestroy and register_object_to_destroy, for one object and its children.
Doom(o, order) ==
    /\ bDestroy' = [x \in Objs |-> bDestroy[x] \/ x \in {o} \cup Range(order)]
    /\ destroy_queue' = destroy_queue \o <<o>> \o order

GE_DESTROY(o) ==
    /\ main = "events" /\ ~removing
    /\ life[o] # "none"
    /\ ~bDestroy[o]
    /\ Parent[o] = Null
    /\ \E order \in SetToSeqs({x \in Objs : life[x] # "none" /\ ~bDestroy[x]
                                             /\ Parent[x] = o}) :
          Doom(o, order)
    /\ UNCHANGED <<threads, time, life, Parent, crows, upd, tasks>>

processing_activate(o) ==
    /\ main \in {"pass", "events", "update"} /\ ~removing
    /\ life[o] = "sleeping"
    /\ life' = [life EXCEPT ![o] = "active"]
    /\ MakeMeCrow({o}, life')
    /\ UNCHANGED <<threads, time, bDestroy, Parent, destroy_queue, upd, tasks>>

processing_deactivate(o) ==
    /\ main \in {"pass", "events", "update"} /\ ~removing
    /\ life[o] = "active"
    /\ life' = [life EXCEPT ![o] = "sleeping"]
    /\ UNCHANGED <<threads, time, bDestroy, Parent, destroy_queue, crows, upd,
                   tasks>>

on_restrictions_change(o) ==
    /\ main \in {"pass", "events"} /\ ~removing
    /\ life[o] # "none"
    /\ TakeBack(o, {"path"})
    /\ UNCHANGED <<threads, time, objects, crows, upd, failed>>

\* remove_objects: everything is rejected and destroyed, in another frame.
remove_objects ==
    /\ main = "events"
    /\ ~removing
    /\ removing' = TRUE
    /\ active' = TRUE
    /\ NewFrame
    /\ Parent' = [o \in Objs |-> Null]
    /\ bDestroy' = [o \in Objs |-> life[o] # "none"]
    /\ \E order \in SetToSeqs({o \in Objs : life[o] # "none" /\ ~bDestroy[o]}) :
          destroy_queue' = destroy_queue \o order
    /\ UNCHANGED <<main, second, mt_csEnter, mt_csLeave, mt_bMustExit, paused,
                   tick, life, crow, m_crows, candidate, workload, tasks>>

-----------------------------------------------------------------------------
(* CObjectList::Update. *)

BeginUpdate ==
    /\ main = "events"
    /\ main' = "update"
    /\ UNCHANGED <<second, mt_csEnter, mt_csLeave, mt_bMustExit, marked, time,
                   objects, updated, candidate, tasks>>
    /\ \/ (paused \/ ~tick) /\ UNCHANGED <<workload, crow, asCrow, m_crows>>
       \/ /\ ~paused /\ tick
          /\ LET listed == {o \in Objs : \E t \in Threads : m_crows[t][o] > 0}
             IN  /\ workload' = IF active THEN {o \in Objs : Active(o)} ELSE listed
                 /\ crow' = [o \in Objs |->
                       crow[o] /\ o \notin listed \cup workload']
          /\ asCrow' = [o \in Objs |-> asCrow[o] /\ o \notin workload']
          /\ m_crows' = [t \in Threads |-> [o \in Objs |-> 0]]

\* Whom SingleUpdate updates: the object, and first the one that owns it.
Chain(o) == {x \in {o, Parent[o]} \ {Null} : Active(o) /\ Active(x)
                                              /\ ~updated[o] /\ ~updated[x]}

SingleUpdate(o) ==
    /\ main = "update"
    /\ o \in workload
    /\ workload' = workload \ {o}
    /\ updated' = [x \in Objs |-> updated[x] \/ x \in Chain(o)]
    /\ \E near \in SUBSET Chain(o) : MakeMeCrow(near, life)
    /\ \E P \in SUBSET AsksPath(Chain(o)) : PutAside(Chain(o) \cap Monsters, P)
    /\ UNCHANGED <<threads, time, objects>>

EndUpdate ==
    /\ main = "update"
    /\ workload = {}
    /\ main' = "destroy"
    /\ UNCHANGED <<second, mt_csEnter, mt_csLeave, mt_bMustExit, marked, time,
                   objects, crows, upd, tasks>>

\* net_Destroy and CObjectList::Destroy, for the object at place k.
DestroyAt(k) ==
    /\ main = "destroy"
    /\ k \in DOMAIN destroy_queue
    /\ LET o == destroy_queue[k]
       IN  /\ TakeBack(o, Kinds)
           /\ m_crows' = [m_crows EXCEPT
                 !["second"] = [x \in Objs |->
                     IF ~paused THEN 0
                     ELSE IF x = o /\ @[x] > 0 THEN @[x] - 1 ELSE @[x]],
                 !["main"] = [x \in Objs |->
                     IF x = o /\ @[x] > 0 THEN @[x] - 1 ELSE @[x]]]
           /\ crow' = [crow EXCEPT ![o] = FALSE]
           /\ asCrow' = [asCrow EXCEPT ![o] = FALSE]
           /\ updated' = [updated EXCEPT ![o] = FALSE]
           /\ life' = [life EXCEPT ![o] = "none"]
           /\ bDestroy' = [bDestroy EXCEPT ![o] = FALSE]
           /\ Parent' = [Parent EXCEPT ![o] = Null]
           /\ failed' = [m \in Monsters |-> failed[m] /\ m # o]
    /\ destroy_queue' = RemoveAt(destroy_queue, k)
    /\ UNCHANGED <<threads, time, candidate, workload>>

\* Slip: the queue is worked off from its front.
DestroyFirst == DestroyAt(1)

\* From the back, where the children of a parent are.
Destroy == DestroyAt(Len(destroy_queue))

EndDestroy ==
    /\ main = "destroy"
    /\ destroy_queue = <<>>
    /\ main' = IF removing THEN "events" ELSE "gate"
    /\ removing' = FALSE
    /\ UNCHANGED <<second, mt_csEnter, mt_csLeave, mt_bMustExit, marked,
                   paused, tick, active, objects, crows, upd, tasks>>

-----------------------------------------------------------------------------
(* The gates between the threads. *)

Enter(cs, t) == cs = Null /\ cs' = t
Leave(cs, t) == cs = t /\ cs' = Null

Goes(from, to) == main = from /\ main' = to
Moves(from, to) == second = from /\ second' = to

others == <<time, objects, crows, upd, tasks>>

TakeLeave ==
    /\ Goes("gate", "open")
    /\ Enter(mt_csLeave, "main")
    /\ UNCHANGED <<second, mt_csEnter, mt_bMustExit, marked, others>>

FreeEnter ==
    /\ Goes("open", "render")
    /\ Leave(mt_csEnter, "main")
    /\ UNCHANGED <<second, mt_csLeave, mt_bMustExit, marked, others>>

TakeEnter ==
    /\ Goes("render", "enter")
    /\ candidate["main"] = Null
    /\ Enter(mt_csEnter, "main")
    /\ UNCHANGED <<second, mt_csLeave, mt_bMustExit, marked, others>>

FreeLeave ==
    /\ Goes("enter", "close")
    /\ Leave(mt_csLeave, "main")
    /\ UNCHANGED <<second, mt_csEnter, mt_bMustExit, marked, others>>

\* Slips: the primary thread always, or never, works off what is put aside.
EnsureAlways ==
    /\ Goes("close", "self")
    /\ UNCHANGED <<second, mt_csEnter, mt_csLeave, mt_bMustExit, marked, others>>
EnsureNever ==
    /\ Goes("close", "joined")
    /\ UNCHANGED <<second, mt_csEnter, mt_csLeave, mt_bMustExit, marked, others>>

\* "Ensure, that second thread gets chance to execute anyway"
Ensure ==
    /\ Goes("close", IF marked THEN "joined" ELSE "self")
    /\ UNCHANGED <<second, mt_csEnter, mt_csLeave, mt_bMustExit, marked, others>>

EndSelf ==
    /\ Goes("self", "joined")
    /\ candidate["main"] = Null
    /\ \A task \in Tasks : seqParallel[task] = 0
    /\ UNCHANGED <<second, mt_csEnter, mt_csLeave, mt_bMustExit, marked, others>>

EndFrame ==
    /\ Goes("joined", "idle")
    /\ UNCHANGED <<second, mt_csEnter, mt_csLeave, mt_bMustExit, marked, others>>

\* Run after the message loop: the secondary thread is told to stop.
StopThread ==
    /\ Goes("idle", "over")
    /\ mt_bMustExit' = TRUE
    /\ Leave(mt_csEnter, "main")
    /\ UNCHANGED <<second, mt_csLeave, marked, others>>

EndRun ==
    /\ Goes("over", "ended")
    /\ ~mt_bMustExit
    /\ UNCHANGED <<second, mt_csEnter, mt_csLeave, mt_bMustExit, marked, others>>

Ended == main = "ended" /\ second = "gone" /\ UNCHANGED vars

SecondEnter ==
    /\ second = "enter"
    /\ \/ /\ mt_bMustExit
          /\ mt_csEnter = Null
          /\ mt_bMustExit' = FALSE
          /\ second' = "gone"
          /\ UNCHANGED <<mt_csEnter, marked>>
       \/ /\ ~mt_bMustExit
          /\ Enter(mt_csEnter, "second")
          /\ marked' = TRUE
          /\ second' = "run"
          /\ UNCHANGED mt_bMustExit
    /\ UNCHANGED <<main, mt_csLeave, others>>

EndWork ==
    /\ Moves("run", "leave")
    /\ candidate["second"] = Null
    /\ \A task \in Tasks : seqParallel[task] = 0
    /\ Leave(mt_csEnter, "second")
    /\ UNCHANGED <<main, mt_csLeave, mt_bMustExit, marked, others>>

SecondLeave ==
    /\ Moves("leave", "back")
    /\ Enter(mt_csLeave, "second")
    /\ UNCHANGED <<main, mt_csEnter, mt_bMustExit, marked, others>>

SecondBack ==
    /\ Moves("back", "enter")
    /\ Leave(mt_csLeave, "second")
    /\ UNCHANGED <<main, mt_csEnter, mt_bMustExit, marked, others>>

-----------------------------------------------------------------------------
(* The parallel part. *)

Works(t)   == \/ t = "second" /\ second = "run"
              \/ t = "main" /\ main = "self"
Renders(t) == Works(t) \/ (t = "main" /\ main = "render")

\* MakeMeCrow up to the comparison: the object's frame is read.
CrowRead(t, o) ==
    /\ Renders(t)
    /\ candidate[t] = Null
    /\ Active(o)
    /\ ~crow[o]
    /\ ~asCrow[o]
    /\ candidate' = [candidate EXCEPT ![t] = o]
    /\ UNCHANGED <<threads, time, objects, crow, asCrow, m_crows, upd, tasks>>

\* Slip: what was read is believed.
CrowPush(t) ==
    /\ candidate[t] # Null
    /\ candidate' = [candidate EXCEPT ![t] = Null]
    /\ asCrow' = [asCrow EXCEPT ![candidate[t]] = TRUE]
    /\ crow' = [crow EXCEPT ![candidate[t]] = TRUE]
    /\ m_crows' = [m_crows EXCEPT ![t][candidate[t]] = @ + 1]
    /\ UNCHANGED <<threads, time, objects, upd, tasks>>

\* _InterlockedCompareExchange, and o_crow where it changed the frame.
CrowExchange(t) ==
    /\ candidate[t] # Null
    /\ candidate' = [candidate EXCEPT ![t] = Null]
    /\ LET o == candidate[t]
       IN  \/ asCrow[o] /\ UNCHANGED <<asCrow, crow, m_crows>>
           \/ /\ ~asCrow[o]
              /\ asCrow' = [asCrow EXCEPT ![o] = TRUE]
              /\ crow' = [crow EXCEPT ![o] = TRUE]
              /\ m_crows' = [m_crows EXCEPT ![t][o] = @ + 1]
    /\ UNCHANGED <<threads, time, objects, upd, tasks>>

\* A task of seqParallel; a search of a path may fail.
RunTask(t, task) ==
    /\ Works(t)
    /\ candidate[t] = Null
    /\ seqParallel[task] > 0
    /\ seqParallel' = [seqParallel EXCEPT ![task] = @ - 1]
    /\ \/ task[2] = "sound" /\ UNCHANGED <<wait, failed>>
       \/ /\ task[2] = "path"
          /\ wait' = [wait EXCEPT ![task[1]] = FALSE]
          /\ failed' \in {failed} \cup IF task[1] \in NoDelay THEN {} ELSE
                            {[failed EXCEPT ![task[1]] = TRUE]}
    /\ UNCHANGED <<threads, time, objects, crows, upd>>

-----------------------------------------------------------------------------
Frame ==
    \/ FrameMove \/ EndPass \/ BeginUpdate
    \/ \E o \in Objs : SingleUpdate(o)
    \/ EndUpdate \/ Destroy \/ EndDestroy
    \/ TakeLeave \/ FreeEnter \/ TakeEnter \/ FreeLeave \/ Ensure
    \/ EndSelf \/ EndFrame \/ EndRun

SecondThread == SecondEnter \/ EndWork \/ SecondLeave \/ SecondBack

Parallel(t) == CrowExchange(t) \/ \E task \in Tasks : RunTask(t, task)

World ==
    \/ Pause \/ Unpause \/ remove_objects \/ StopThread
    \/ \E o \in Objs :
        \/ shedule_Update(o) \/ g_sv_Spawn(o) \/ H_SetParent(o)
        \/ GE_DESTROY(o) \/ processing_activate(o) \/ processing_deactivate(o)
        \/ \E t \in Threads : CrowRead(t, o)
    \/ \E o \in Monsters : on_restrictions_change(o)

Next ==
    \/ Frame
    \/ SecondThread
    \/ \E t \in Threads : Parallel(t)
    \/ World
    \/ Ended

\* Both threads run; no critical section is fair.
Spec ==
    /\ Init
    /\ [][Next]_vars
    /\ WF_vars(Frame \/ Parallel("main"))
    /\ WF_vars(SecondThread \/ Parallel("second"))

-----------------------------------------------------------------------------
(* Correctness. *)

FrameLoop == INSTANCE Frames WITH
    turn    <- IF main \in Game THEN "game"
               ELSE IF main \in Beside THEN "parallel" ELSE "over",
    work    <- IF main \notin Beside THEN "due"
               ELSE IF second = "run" \/ main = "self" THEN "running"
               ELSE IF marked \/ main = "joined" THEN "done" ELSE "due",
    pending <- {task \in Tasks : seqParallel[task] > 0}

(* The game and the parallel part take turns, although the secondary       *)
(* thread may come late, twice, or never: what is put aside is done in the *)
(* same frame, by one thread, before the game goes on.                     *)
ImplementsFrames == FrameLoop!FrameSpec

(* What the lists point at exists.  A crow is in exactly one place of one  *)
(* list, whichever thread made it one and however often the game was       *)
(* paused in between; Destroy finds the secondary thread's crows taken     *)
(* over (its VERIFY); a task belongs to an object that exists and is put   *)
(* aside once, so that taking back the first one takes back all; and a     *)
(* parent goes after its children.                                         *)
ListsAreLive ==
    /\ TypeOK
    /\ \A o \in Objs :
        /\ m_crows["main"][o] + m_crows["second"][o] = IF crow[o] THEN 1 ELSE 0
        /\ crow[o] \/ o \in workload \/ bDestroy[o] => life[o] # "none"
        /\ Parent[o] # Null => life[Parent[o]] # "none"
        /\ (main = "destroy" /\ ~paused) => m_crows["second"][o] = 0
    /\ \A k \in DOMAIN destroy_queue : life[destroy_queue[k]] # "none"
    /\ \A task \in Tasks :
        seqParallel[task] <= IF life[task[1]] = "none" THEN 0 ELSE 1

\* A monster that asked again within two seconds after a failure: it waits
\* for a task that nobody has put aside.
Forgotten(o) == wait[o] /\ seqParallel[<<o, "path">>] = 0

(* Nothing gets lost between the threads: every parallel part ends, and    *)
(* the program too when it has been told to; a crow is updated while the   *)
(* game is not paused; a search of a path that was put aside comes to an   *)
(* end, except that a monster may be forgotten.                            *)
NothingWaitsForever ==
    /\ FrameLoop!FramesEnd
    /\ main = "over" ~> main = "ended"
    /\ \A o \in Objs :
        (crow[o] /\ Active(o)) ~>
            (updated[o] \/ ~Active(o) \/ paused \/ main = "ended")
    /\ \A o \in Monsters :
        wait[o] ~> (~wait[o] \/ Forgotten(o) \/ main = "ended")
=============================================================================
