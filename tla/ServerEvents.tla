---------------------------- MODULE ServerEvents ----------------------------
(***************************************************************************)
(* The delayed events of the multiplayer server, from the callback that     *)
(* posts them to the handler that takes them, over the whole life of a      *)
(* connection and across round changes.                                     *)
(*                                                                          *)
(* Threads.  The game thread runs xrServer::Update: the loop of             *)
(* ProcessDelayedEvent (pc = "loop", "got", "handled"), then game->Update   *)
(* ("update"), where a round may end ("ending") or start ("starting").      *)
(* DirectPlay threads run, for each client in turn, CREATE_PLAYER, the      *)
(* packets of the client (under csMessage: one packet at a time) and        *)
(* DESTROY_PLAYER (not under csMessage).                                    *)
(*   source: xrGame/game_sv_base.cpp, game_sv_mp.cpp, xrServer.cpp,         *)
(*   xrServer_Connect.cpp, xrServer_CL_disconnect.cpp,                      *)
(*   xrNetServer/NET_Server.cpp                                             *)
(***************************************************************************)
EXTENDS GameEventQueue, FiniteSets

CONSTANTS PublicServer,   \* profiles are checked: a new player may be rejected
          MaxHits,        \* bound on the hits the game reports
          MaxRounds,      \* bound on the rounds that end
          MaxPlays        \* bound on the ordinary events of one client

Kinds == {"create", "auth", "state", "started", "play", "hit", "gone"}

(* An event and the client it is about: its sender, the victim of a hit,    *)
(* the player that has left.                                                *)
Event(k, c) == [kind |-> k, who |-> c]

ASSUME EventsAssumption == Events = [kind : Kinds, who : Clients]
ASSUME BoundsAssumption == /\ PublicServer \in BOOLEAN
                           /\ {MaxHits, MaxRounds, MaxPlays} \subseteq Nat

VARIABLES
    conn,       \* conn[c]: how far c's connection is (see Connections)
    attached,   \* clients AttachNewClient has been called for (bConnected)
    sent,       \* sent[c]: which of its handshake packets c has sent
    hasState,   \* clients with a game_PlayerState (ps)
    avatar,     \* avatar[c]: the client's entity (owner) and if it can be hit
    kicked,     \* clients DisconnectClient has been called for
    told,       \* told[c]: the "started" events c has still to send
    plays,      \* plays[c]: ordinary events c has sent
    packet,     \* the client whose packet holds csMessage, if any
    pc,         \* where the game thread is
    cur,        \* the slot Retreive returned
    taken,      \* history: the event that was in cur when it was retreived
    phase,      \* "pending" between two rounds, else "inprogress"
    hits, rounds,
    forgotten,  \* history: events erased by a round change
    fault       \* the assertion that ended the process

(* "out": not yet; "joining": in the list of players, CREATE_CLIENT not yet *)
(* posted; "in"; "left": OnCL_Disconnected has run; "erased": out of the    *)
(* list of players; "gone": client_Destroy has returned.                    *)
Connections == {"out", "joining", "in", "left", "erased", "gone"}
Found == {c \in Clients : conn[c] \in {"joining", "in", "left"}}

clients == <<conn, attached, sent, hasState, avatar, kicked, told, plays>>
threads == <<packet, pc, cur, taken, phase>>
bounds  == <<hits, rounds, forgotten>>
vars == <<queue, blocked, clients, threads, bounds, fault>>

Init == /\ InitQueue
        /\ conn = [c \in Clients |-> "out"]
        /\ attached = {}
        /\ sent = [c \in Clients |-> {}]
        /\ hasState = {}
        /\ avatar = [c \in Clients |-> "none"]
        /\ kicked = {}
        /\ told = [c \in Clients |-> 0]
        /\ plays = [c \in Clients |-> 0]
        /\ packet = {}
        /\ pc = "loop"
        /\ cur = NoEvent
        /\ taken = NoEvent
        /\ phase = "pending"
        /\ hits = 0
        /\ rounds = 0
        /\ forgotten = {}
        /\ fault = "none"

Alive == fault = "none"

-----------------------------------------------------------------------------
(* game_sv_GameState::AddDelayedEvent: STARTED, READY, the votes and the    *)
(* handshake bypass the block list.  Slip: STARTED does not.                *)
BypassHandshakeOnly == {"auth", "state"}
Bypass == {"started", "auth", "state"}

AddDelayedEvent(k, c) == IF k \in Bypass THEN Create(Event(k, c))
                         ELSE CreateSafe(Event(k, c), c)

-----------------------------------------------------------------------------
(* The network threads. *)

(* DPN_MSGID_CREATE_PLAYER: new_client puts the client in the list ...      *)
Join(c) == /\ Alive
           /\ conn[c] = "out"
           /\ conn' = [conn EXCEPT ![c] = "joining"]
           /\ UNCHANGED <<queue, blocked, attached, sent, hasState, avatar,
                          kicked, told, plays, threads, bounds, fault>>

(* ... and posts CREATE_CLIENT. *)
PostCreate(c) == /\ Alive
                 /\ conn[c] = "joining"
                 /\ AddDelayedEvent("create", c)
                 /\ conn' = [conn EXCEPT ![c] = "in"]
                 /\ UNCHANGED <<blocked, attached, sent, hasState, avatar,
                                kicked, told, plays, threads, bounds, fault>>

(* A packet of c is handled under csMessage.  A packet whose event goes     *)
(* through the block list checks it first and creates the event later.      *)
CanReceive(c) == Alive /\ conn[c] = "in" /\ packet = {}

(* After AttachNewClient the server challenges the client, which answers     *)
(* with M_CREATE_PLAYER_STATE and then M_CL_AUTH.                            *)
Handshake(c, k, after) ==
    /\ CanReceive(c)
    /\ c \in after
    /\ k \notin sent[c]
    /\ AddDelayedEvent(k, c)
    /\ sent' = [sent EXCEPT ![c] = @ \cup {k}]
    /\ UNCHANGED <<blocked, conn, attached, hasState, avatar, kicked, told,
                   plays, threads, bounds, fault>>

SendState(c) == Handshake(c, "state", attached)
SendAuth(c)  == Handshake(c, "auth", {d \in attached : "state" \in sent[d]})

(* M_CLIENTREADY, from a client that was accepted and not kicked: the game  *)
(* spawns the client's spectator.  The client then announces itself as      *)
(* started (game_cl_mp::OnConnected).  The client whose player state was    *)
(* forgotten is the subject of module Connection.                           *)
Authorized == {c \in attached : "authorized" \in sent[c]}
ClientReady(c) == /\ CanReceive(c)
                  /\ c \in (Authorized \cap hasState) \ kicked
                  /\ avatar[c] = "none"
                  /\ avatar' = [avatar EXCEPT ![c] = "alive"]
                  /\ told' = [told EXCEPT ![c] = @ + 1]
                  /\ UNCHANGED <<queue, blocked, conn, attached, sent, hasState,
                                 kicked, plays, threads, bounds, fault>>

(* The client answers ROUND_STARTED with GAME_EVENT_PLAYER_STARTED. *)
SendStarted(c) == /\ CanReceive(c)
                  /\ told[c] > 0
                  /\ AddDelayedEvent("started", c)
                  /\ told' = [told EXCEPT ![c] = @ - 1]
                  /\ UNCHANGED <<blocked, conn, attached, sent, hasState, avatar,
                                 kicked, plays, threads, bounds, fault>>

(* An ordinary game event: CreateSafe looks into the block list, which the  *)
(* game thread may be changing, and then creates the event.                 *)
CheckPlay(c) == /\ CanReceive(c)
                /\ c \in hasState
                /\ plays[c] < MaxPlays
                /\ plays' = [plays EXCEPT ![c] = @ + 1]
                /\ packet' = IF c \in blocked THEN {} ELSE {c}
                /\ UNCHANGED <<queue, blocked, conn, attached, sent, hasState,
                               avatar, kicked, told, pc, cur, taken, phase, bounds, fault>>

PostPlay(c) == /\ Alive
               /\ packet = {c}
               /\ Create(Event("play", c))
               /\ packet' = {}
               /\ UNCHANGED <<blocked, clients, pc, cur, taken, phase, bounds, fault>>

(* DPN_MSGID_DESTROY_PLAYER, after the client's last packet.  OnCL_Disconn- *)
(* ected posts PLAYER_DISCONNECTED (with no sender) if the client has a     *)
(* player state.                                                            *)
Leave(c) == /\ Alive
            /\ conn[c] = "in"
            /\ packet # {c}
            /\ IF c \in hasState THEN Create(Event("gone", c)) ELSE UNCHANGED queue
            /\ conn' = [conn EXCEPT ![c] = "left"]
            /\ UNCHANGED <<blocked, attached, sent, hasState, avatar, kicked,
                           told, plays, threads, bounds, fault>>

(* client_Destroy takes the client out of the list of players ... *)
ClientErase(c) == /\ Alive
                  /\ conn[c] = "left"
                  /\ conn' = [conn EXCEPT ![c] = "erased"]
                  /\ UNCHANGED <<queue, blocked, attached, sent, hasState, avatar,
                                 kicked, told, plays, threads, bounds, fault>>

(* ... and erases the events about the client's entity being hit or killed. *)
(* CleanDelayedEventFor(u16) is the overload for victims: what the client   *)
(* itself has sent stays in the queue.                                      *)
ClientClean(c) == /\ Alive
                  /\ conn[c] = "erased"
                  /\ IF avatar[c] # "none" THEN EraseEvents({Event("hit", c)})
                                            ELSE UNCHANGED queue
                  /\ conn' = [conn EXCEPT ![c] = "gone"]
                  /\ UNCHANGED <<blocked, attached, sent, hasState, avatar, kicked,
                                 told, plays, threads, bounds, fault>>

-----------------------------------------------------------------------------
(* The game thread: ProcessDelayedEvent. *)

Retreive == /\ Alive
            /\ pc = "loop"
            /\ ready # <<>>
            /\ cur' = FrontSlot
            /\ taken' = content[FrontSlot]
            /\ pc' = "got"
            /\ UNCHANGED <<queue, blocked, clients, packet, phase, bounds, fault>>

EndLoop == /\ Alive
           /\ pc = "loop"
           /\ RetreiveNothing
           /\ pc' = "update"
           /\ UNCHANGED <<blocked, clients, packet, cur, taken, phase, bounds, fault>>

(* OnEvent begins with the event that is in the slot by now. *)
Handling(k, c) == /\ Alive
                  /\ pc = "got"
                  /\ content[cur] = Event(k, c)
                  /\ UNCHANGED <<packet, cur, taken, phase, bounds>>

Proceed == pc' = "handled" /\ UNCHANGED fault
Crash(why) == fault' = why /\ UNCHANGED <<pc, queue, blocked, clients>>

(* GAME_EVENT_CREATE_CLIENT.  Slip: a client without a player state is      *)
(* taken for one that has left.                                             *)
HandleCreateKnown(c) ==
    /\ Handling("create", c)
    /\ Proceed
    /\ attached' = IF c \in Found \cap hasState THEN attached \cup {c} ELSE attached
    /\ UNCHANGED <<queue, blocked, conn, sent, hasState, avatar, kicked, told, plays>>

HandleCreate(c) ==
    /\ Handling("create", c)
    /\ Proceed
    /\ attached' = IF c \in Found THEN attached \cup {c} ELSE attached
    /\ UNCHANGED <<queue, blocked, conn, sent, hasState, avatar, kicked, told, plays>>

(* GAME_EVENT_PLAYER_AUTH: OnBuildVersionRespond uses the client unchecked. *)
HandleAuth(c) ==
    /\ Handling("auth", c)
    /\ IF c \in Found
       THEN /\ Proceed
            /\ sent' = [sent EXCEPT ![c] = @ \cup {"authorized"}]
            /\ UNCHANGED <<queue, blocked, conn, attached, hasState, avatar,
                           kicked, told, plays>>
       ELSE Crash("null client")

(* GAME_EVENT_CREATE_PLAYER_STATE, with R_ASSERT2 that the client is there. *)
(* CheckNewPlayer may reject the profile: the client is disconnected and    *)
(* its events are erased, among them the one being handled.                 *)
HandleState(c) ==
    /\ Handling("state", c)
    /\ IF c \in Found
       THEN /\ Proceed
            /\ hasState' = hasState \cup {c}
            /\ \/ UNCHANGED <<queue, kicked>>
               \/ /\ PublicServer
                  /\ kicked' = kicked \cup {c}
                  /\ EraseEvents({Event(k, c) : k \in Kinds \ {"hit", "gone"}})
            /\ UNCHANGED <<blocked, conn, attached, sent, avatar, told, plays>>
       ELSE Crash("client not found")

(* GAME_EVENT_PLAYER_STARTED (from a client on the right map). *)
HandleStarted(c) ==
    /\ Handling("started", c)
    /\ Proceed
    /\ blocked' = blocked \ {c}
    /\ UNCHANGED <<queue, clients>>

(* GAME_EVENT_PLAYER_DISCONNECTED: the player's entity becomes a corpse or  *)
(* is destroyed; the client's pointer to it stays.                          *)
HandleGone(c) ==
    /\ Handling("gone", c)
    /\ Proceed
    /\ avatar' = [avatar EXCEPT ![c] = IF @ = "alive" THEN "dead" ELSE @]
    /\ UNCHANGED <<queue, blocked, conn, attached, sent, hasState, kicked, told, plays>>

(* Events that change nothing modelled here. *)
HandleOther(c) == /\ Handling("play", c) \/ Handling("hit", c)
                  /\ Proceed
                  /\ UNCHANGED <<queue, blocked, clients>>

Handle == \E c \in Clients : \/ HandleCreate(c)
                             \/ HandleAuth(c)
                             \/ HandleState(c)
                             \/ HandleStarted(c)
                             \/ HandleGone(c)
                             \/ HandleOther(c)

ReleaseEvent == /\ Alive
                /\ pc = "handled"
                /\ \/ /\ Release
                      /\ pc' = "loop"
                      /\ cur' = NoEvent
                      /\ taken' = NoEvent
                      /\ UNCHANGED fault
                   \/ /\ ready = <<>>          \* R_ASSERT(!ready.empty())
                      /\ fault' = "release"
                      /\ UNCHANGED <<queue, pc, cur, taken>>
                /\ UNCHANGED <<blocked, clients, packet, phase, bounds>>

-----------------------------------------------------------------------------
(* The game thread: game->Update. *)

(* A hit on c costs health: the game reports it to itself. *)
ReportHit(c) == /\ Alive
                /\ pc = "update"
                /\ hits < MaxHits
                /\ avatar[c] = "alive"
                /\ Create(Event("hit", c))
                /\ hits' = hits + 1
                /\ UNCHANGED <<blocked, clients, threads, rounds, forgotten, fault>>

(* OnRoundEnd erases every event ... *)
EndRound == /\ Alive
            /\ pc = "update"
            /\ rounds < MaxRounds
            /\ forgotten' = forgotten \cup {content[s] : s \in Range(ready)}
            /\ EraseEvents(Events)
            /\ rounds' = rounds + 1
            /\ phase' = "pending"
            /\ pc' = "ending"
            /\ UNCHANGED <<blocked, clients, packet, cur, taken, hits, fault>>

(* ... and then blocks every client in the list. *)
BlockAll == /\ Alive
            /\ pc = "ending"
            /\ blocked' = blocked \cup Found
            /\ pc' = "loop"
            /\ UNCHANGED <<queue, clients, packet, cur, taken, phase, bounds, fault>>

NextFrame == /\ Alive
             /\ pc = "update"
             /\ pc' = "loop"
             /\ UNCHANGED <<queue, blocked, clients, packet, cur, taken, phase, bounds,
                            fault>>

(* In the pending phase the game waits for the players or for its timer     *)
(* (checkForRoundStart).  OnRoundStart erases every event again ...         *)
StartRound == /\ Alive
              /\ pc = "update"
              /\ phase = "pending"
              /\ forgotten' = forgotten \cup {content[s] : s \in Range(ready)}
              /\ EraseEvents(Events)
              /\ phase' = "inprogress"
              /\ pc' = "starting"
              /\ UNCHANGED <<blocked, clients, packet, cur, taken, hits, rounds, fault>>

(* ... and tells every connected client that the round has started. *)
TellStarted == /\ Alive
               /\ pc = "starting"
               /\ told' = [c \in Clients |-> IF c \in attached /\ conn[c] = "in"
                                             THEN told[c] + 1 ELSE told[c]]
               /\ pc' = "loop"
               /\ UNCHANGED <<queue, blocked, conn, attached, sent, hasState, avatar,
                              kicked, plays, packet, cur, taken, phase, bounds,
                              fault>>

-----------------------------------------------------------------------------
Network(c) == \/ Join(c) \/ PostCreate(c) \/ SendAuth(c) \/ SendState(c)
              \/ ClientReady(c) \/ SendStarted(c)
              \/ CheckPlay(c) \/ PostPlay(c)
              \/ Leave(c) \/ ClientErase(c) \/ ClientClean(c)

ProcessDelayedEvent == Retreive \/ EndLoop \/ Handle \/ ReleaseEvent

Update == \/ \E c \in Clients : ReportHit(c)
          \/ EndRound \/ BlockAll \/ NextFrame
          \/ StartRound \/ TellStarted

Next == \/ \E c \in Clients : Network(c)
        \/ ProcessDelayedEvent
        \/ Update

Spec == Init /\ [][Next]_vars

(* The main loop runs the game thread every frame, and the pending phase    *)
(* ends by its timer.  A network thread finishes the callback it is in, and  *)
(* DisconnectClient makes DirectPlay destroy the player.                    *)
(* Messages between the server and its clients are guaranteed (net_flags    *)
(* (TRUE, TRUE)), and a client in the game answers "round started".         *)
Fairness == /\ WF_vars(ProcessDelayedEvent)
            /\ WF_vars(NextFrame \/ BlockAll \/ TellStarted)
            /\ SF_vars(StartRound)
            /\ \A c \in Clients : /\ WF_vars(PostCreate(c))
                                  /\ WF_vars(PostPlay(c))
                                  /\ WF_vars(ClientErase(c) \/ ClientClean(c))
                                  /\ WF_vars(c \in kicked /\ Leave(c))
                                  /\ SF_vars(SendStarted(c))

FairSpec == Spec /\ Fairness

-----------------------------------------------------------------------------
TypeOK == /\ QueueTypeOK
          /\ conn \in [Clients -> Connections]
          /\ attached \subseteq Clients
          /\ sent \in [Clients -> SUBSET {"auth", "state", "authorized"}]
          /\ hasState \subseteq attached
          /\ avatar \in [Clients -> {"none", "alive", "dead"}]
          /\ kicked \subseteq hasState
          /\ told \in [Clients -> 0 .. MaxRounds + 2]
          /\ plays \in [Clients -> 0 .. MaxPlays]
          /\ packet \subseteq Clients /\ Cardinality(packet) <= 1
          /\ pc \in {"loop", "got", "handled", "update", "ending", "starting"}
          /\ cur \in Slots \cup {NoEvent}
          /\ taken \in Events \cup {NoEvent}
          /\ phase \in {"pending", "inprogress"}
          /\ hits \in 0 .. MaxHits
          /\ rounds \in 0 .. MaxRounds
          /\ forgotten \subseteq Events
          /\ fault \in {"none", "null client", "client not found", "release"}

(* While an event is handled its slot stays at the front of the queue with   *)
(* the event in it, so that Release takes out that event and no other.  The  *)
(* exceptions are the events other parties erase while they are handled:     *)
(* the profile being rejected and the hit of a client that is leaving.       *)
FrontIsCurrent ==
    pc \in {"got", "handled"} /\ taken.kind \notin {"state", "hit"} =>
        /\ ready # <<>>
        /\ Head(ready) = cur
        /\ content[cur] = taken

(* The queue is the log of events the game expects: every event is handled  *)
(* once, to its end, in the order of posting, unless forgotten while it      *)
(* waits.  The steps that erase the event being handled, and the releases    *)
(* that follow them, are the only exceptions; FrontIsCurrent says which      *)
(* events these are.                                                         *)
Busy == pc \in {"got", "handled"}
InStep == Busy => /\ ready # <<>>
                  /\ Head(ready) = cur
                  /\ content[cur] = taken
Waiting == [i \in DOMAIN ready |-> content[ready[i]]]
Log == INSTANCE EventLog WITH
          pending <- IF Busy THEN Tail(Waiting) ELSE Waiting,
          current <- IF Busy THEN taken ELSE NoEvent
ImplementsLog == /\ Log!Init
                 /\ [][InStep /\ InStep' => Log!Next \/ UNCHANGED Log!vars]_vars

(* A client blocked at the end of a round is heard again: once it is in the  *)
(* game, the next round start reaches it and its answer unblocks it, unless  *)
(* it leaves first or an assertion ends the server.                          *)
BlockedIsHeardAgain ==
    \A c \in Clients :
        c \in blocked /\ c \in hasState ~>
            c \notin blocked \/ conn[c] # "in" \/ fault # "none"

(* A client that has joined is attached, unless a round change forgets its   *)
(* CREATE_CLIENT or drops it, or the client leaves.                          *)
JoinedIsAttached ==
    \A c \in Clients :
        conn[c] = "in" ~>
            \/ c \in attached
            \/ c \in blocked
            \/ Event("create", c) \in forgotten
            \/ conn[c] # "in"
            \/ fault # "none"

(* Assertions of the code.                                                   *)
(* GameEventQueue::Release: R_ASSERT(!ready.empty()).                        *)
ReleaseFindsAnEvent == fault # "release"
=============================================================================
