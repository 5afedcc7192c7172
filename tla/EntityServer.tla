---------------------------- MODULE EntityServer ----------------------------
(***************************************************************************)
(* The registry of game entities of a multiplayer (deathmatch) server: who *)
(* lives in the map `entities', who holds whom (ID_Parent on one side,     *)
(* children on the other), which client owns an entity and which entity is *)
(* a client's body.                                                        *)
(*                                                                         *)
(* A player's actor is spawned with a bag (players_rukzak) and items.  When*)
(* the actor dies the bag is rejected from it, takes the actor's items     *)
(* along and lies on the ground until another player touches it.  Bodies   *)
(* are removed later, and a round change removes everything.               *)
(*                                                                         *)
(* Threads.  DirectPlay threads handle the packets of the players; the     *)
(* game thread handles delayed events, frames and round changes.  What goes*)
(* through xrServer::OnMessage holds csMessage; Process_spawn and SLS_Clear*)
(* on the game thread do not.  The loops of one operation are steps here,  *)
(* so that the other thread may come in between wherever no lock forbids it*)
(*   source: xrGame/xrServer*.cpp, game_sv_deathmatch.cpp, game_sv_mp.cpp  *)
(***************************************************************************)
EXTENDS SequencesExt, Naturals, FiniteSets, Filter

CONSTANTS Ids,          \* ids of entities
          Clients,      \* the players
          Server,       \* the server client, which owns what no player owns
          Nobody,       \* no owner
          None,         \* no entity
          Items,        \* the kinds of items spawned: a subset of {"gun", "ammo"}
          MaxCorpses,   \* g_dwMaxCorpses
          MaxRounds,    \* bound on the rounds that end
          QuietClear    \* no packet arrives while SLS_Clear runs

ASSUME NoneAssumption == None \notin Ids
ASSUME OwnersAssumption == Server \notin Clients /\ Nobody \notin Clients \cup {Server}
ASSUME ItemsAssumption == Items \subseteq {"gun", "ammo"}
ASSUME BoundsAssumption == MaxCorpses \in Nat /\ MaxRounds \in Nat /\ QuietClear \in BOOLEAN

VARIABLES
    ent,        \* ent[i]: the entity with id i, or Gone
    dead,       \* creatures with no health left
    valid,      \* is_object_valid_on_svclient: the game thread has its object
    ground,     \* the objects that have no parent as far as the game thread knows
    removable,  \* m_bAllowDeathRemove
    corpses,    \* m_CorpseList
    avatar,     \* avatar[c]: CL->owner and ps->GameID
    conn,       \* conn[c]: "out", "in", "left" (PLAYER_DISCONNECTED waits),
                \* "lost" (it has been erased), "done"
    veryDead,   \* players with GAME_PLAYER_FLAG_VERY_VERY_DEAD
    job,        \* the handler the game thread is in, and its clients to do
    emptying,   \* <<actor, bag>>: OnTouch moves the bag's children to the actor
    detach,     \* OnDetach moves the actor's items to its rejected bag
    destroying, \* the entities Process_event_destroy is in, outermost first
    clearing,   \* the entities Perform_destroy is in, outermost first
    phase, rounds,
    fault       \* the assertion that failed

Gone == [kind |-> "none", parent |-> None, children |-> <<>>, owner |-> Nobody]
Idle == [at |-> "idle", todo |-> {}]
Done == <<>>

players == <<avatar, conn, veryDead>>
bodies  == <<dead, valid, ground, removable, corpses>>
nested  == <<emptying, detach, destroying, clearing>>
round   == <<phase, rounds>>
vars == <<ent, bodies, players, job, nested, round, fault>>

live == {i \in Ids : ent[i].kind # "none"}
Kind(i) == ent[i].kind
Parent(i) == ent[i].parent
Children(i) == ent[i].children
Owner(i) == ent[i].owner

Init == /\ ent = [i \in Ids |-> Gone]
        /\ dead = {} /\ valid = {} /\ ground = {} /\ removable = {} /\ corpses = {}
        /\ avatar = [c \in Clients |-> None]
        /\ conn = [c \in Clients |-> "out"]
        /\ veryDead = {}
        /\ job = Idle
        /\ emptying = Done
        /\ detach = Done
        /\ destroying = <<>>
        /\ clearing = <<>>
        /\ phase = "inprogress"
        /\ rounds = 0
        /\ fault = "none"

-----------------------------------------------------------------------------
(* Who may take a step. *)

Alive == fault = "none"
InClear == job.at \in {"entering", "clearing"}
ForAll == job.at \in {"ending", "starting"}

(* csMessage is held by an operation that started from a message and by     *)
(* ForEachClientDoSender, which holds csPlayers as well.                    *)
Locked == \/ emptying # Done
          \/ destroying # <<>>
          \/ detach # Done /\ ~InClear
          \/ ForAll

Network == /\ Alive
           /\ ~Locked
           /\ ~(QuietClear /\ InClear)

(* The game thread is between two handlers; At(s): inside one. *)
Between == Alive /\ job = Idle /\ destroying = <<>> /\ detach = Done
At(s) == Alive /\ job.at = s /\ detach = Done

-----------------------------------------------------------------------------
(* The tree of entities.  Slips: the old parent still lists the entity; the *)
(* entity still names its parent; its owner stays the player.               *)

Attach(E, p, e) == [E EXCEPT ![e].parent = p, ![p].children = Append(@, e)]
CutKeepingParent(E, p, e) == [E EXCEPT ![p].children = RemoveFirst(@, e)]
Cut(E, p, e) == [E EXCEPT ![e].parent = None, ![p].children = RemoveFirst(@, e)]
TransferCopy(E, e, from, to) == Attach(E, to, e)
Transfer(E, e, from, to) == Attach(Cut(E, from, e), to, e)

(* entity_Destroy, E being the registry without references to e; the        *)
(* object on the server's client goes as well.  CL->owner is reset only if  *)
(* the client still owns the entity.  Slip: it is not reset.                *)
DestroyKeepingAvatar(E, e) ==
    /\ ent' = [E EXCEPT ![e] = Gone]
    /\ dead' = dead \ {e}
    /\ valid' = valid \ {e}
    /\ ground' = ground \ {e}
    /\ removable' = removable \ {e}
    /\ avatar' = avatar

Destroy(E, e) ==
    /\ ent' = [E EXCEPT ![e] = Gone]
    /\ dead' = dead \ {e}
    /\ valid' = valid \ {e}
    /\ ground' = ground \ {e}
    /\ removable' = removable \ {e}
    /\ avatar' = [c \in Clients |-> IF Owner(e) = c /\ avatar[c] = e
                                    THEN None ELSE avatar[c]]

(* game->OnDestroyObject.  Slip: the list of corpses is not updated. *)
KeepCorpse(e) == corpses' = corpses
OnDestroyObject(e) == corpses' = corpses \ {e}

Guns(p) == Only(Children(p), {i \in Ids : Kind(i) = "gun"})

(* OnTouch for an item: one gun per slot, any ammunition.  Slip: any gun. *)
AcceptsAnyGun(p, e) == Kind(p) = "actor" /\ Kind(e) \in {"gun", "ammo"}
Accepts(p, e) == /\ Kind(p) = "actor"
                 /\ \/ Kind(e) = "ammo"
                    \/ Kind(e) = "gun" /\ Guns(p) = <<>>

-----------------------------------------------------------------------------
(* Process_spawn.  The ids are far more than a game needs: Room bounds the *)
(* model, so that a respawn that has begun never runs out of them.          *)

Free(i) == i \in Ids \ live
Room(n) == Cardinality(Ids \ live) >= n
New(k, p, o) == [kind |-> k, parent |-> p, children |-> <<>>, owner |-> o]

(* SpawnPlayer: a new body for c. *)
SpawnPlayer(c, k, i) ==
    /\ Free(i)
    /\ ent' = [ent EXCEPT ![i] = New(k, None, c)]
    /\ avatar' = [avatar EXCEPT ![c] = i]
    /\ veryDead' = IF k = "actor" THEN veryDead \ {c} ELSE veryDead \cup {c}

(* SpawnWeapon4Actor: an item that is a child from the start, unless the    *)
(* parent is gone.                                                          *)
SpawnChild(p, k, i) ==
    /\ Free(i)
    /\ ent' = IF p \in live THEN Attach([ent EXCEPT ![i] = New(k, None, Server)], p, i)
                            ELSE ent

(* The game thread takes the spawns, takes, rejects and destroys that the   *)
(* server has broadcast: its objects are those of the registry again.       *)
Roots == {e \in live : Parent(e) = None}
Hear == /\ Between
        /\ valid # live \/ ground # Roots
        /\ valid' = live
        /\ ground' = Roots
        /\ UNCHANGED <<ent, dead, removable, corpses, players, job, nested, round,
                       fault>>

-----------------------------------------------------------------------------
(* The packets of players. *)

(* M_CLIENTREADY: OnPlayerConnectFinished. *)
ConnectFinished(c) ==
    /\ Network
    /\ conn[c] = "out"
    /\ Room(3)
    /\ conn' = [conn EXCEPT ![c] = "in"]
    /\ \E i \in Ids : SpawnPlayer(c, "spectator", i)
    /\ UNCHANGED <<bodies, job, nested, round, fault>>

(* GE_OWNERSHIP_TAKE and its FORCED variant, from the owner of the parent.  *)
(* Slips: the objects need not exist on the server's client yet; the        *)
(* parent may be dead.                                                      *)
MayTakeUnchecked(c, p, e) ==
    /\ conn[c] = "in"
    /\ {p, e} \subseteq live
    /\ Parent(e) = None
    /\ Owner(p) = c
    /\ p \notin dead

MayTakeDead(c, p, e) ==
    /\ conn[c] = "in"
    /\ {p, e} \subseteq live
    /\ {p, e} \subseteq valid
    /\ Parent(e) = None
    /\ Owner(p) = c

MayTake(c, p, e) ==
    /\ conn[c] = "in"
    /\ {p, e} \subseteq live
    /\ {p, e} \subseteq valid
    /\ Parent(e) = None
    /\ Owner(p) = c
    /\ p \notin dead

Take(c, p, e) ==
    /\ Network
    /\ MayTake(c, p, e)
    /\ Accepts(p, e)
    /\ ent' = Attach(ent, p, e)
    /\ UNCHANGED <<bodies, players, job, nested, round, fault>>

(* The slot is occupied: the server rejects the old gun and repeats the     *)
(* request, which fails if yet another gun is in the slot.                  *)
TakeForced(c, p, e) ==
    /\ Network
    /\ MayTake(c, p, e)
    /\ Kind(p) = "actor" /\ Kind(e) = "gun"
    /\ Guns(p) # <<>>
    /\ LET E == Cut(ent, p, Head(Guns(p)))
       IN  ent' = IF Len(Guns(p)) = 1 THEN Attach(E, p, e) ELSE E
    /\ UNCHANGED <<bodies, players, job, nested, round, fault>>

(* Touching a bag empties it. *)
TakeBag(c, p, e) ==
    /\ Network
    /\ MayTake(c, p, e)
    /\ Kind(p) = "actor" /\ Kind(e) = "bag"
    /\ emptying' = <<p, e>>
    /\ UNCHANGED <<ent, bodies, players, job, detach, destroying, clearing,
                   round, fault>>

(* One child of the bag, from the back: Perform_transfer or, when OnTouch   *)
(* refuses, Process_event_reject.                                           *)
MoveFromBag ==
    /\ Alive
    /\ emptying # Done
    /\ LET p == emptying[1]
           b == emptying[2]
           e == Last(Children(b))
       IN  /\ Children(b) # <<>>
           /\ IF Parent(e) = b
              THEN /\ ent' = IF Accepts(p, e) THEN Transfer(ent, e, b, p)
                                              ELSE Cut(ent, b, e)
                   /\ UNCHANGED fault
              ELSE fault' = "transfer" /\ UNCHANGED ent
    /\ UNCHANGED <<bodies, players, job, nested, round>>

(* The empty bag is destroyed. *)
BagEmptied ==
    /\ Alive
    /\ emptying # Done
    /\ Children(emptying[2]) = <<>>
    /\ Destroy(ent, emptying[2])
    /\ OnDestroyObject(emptying[2])
    /\ emptying' = Done
    /\ UNCHANGED <<conn, veryDead, job, detach, destroying, clearing, round, fault>>

(* GE_OWNERSHIP_REJECT of an item, whoever sends it. *)
Reject(p, e) ==
    /\ Network
    /\ {p, e} \subseteq live
    /\ Kind(e) \in Items
    /\ e \in Range(Children(p))
    /\ Parent(e) # None
    /\ ent' = Cut(ent, p, e)
    /\ UNCHANGED <<bodies, players, job, nested, round, fault>>

(* DESTROY_PLAYER takes csPlayers but not csMessage: the client leaves the  *)
(* list of players, and PLAYER_DISCONNECTED is queued.                      *)
Leave(c) == /\ Alive /\ ~ForAll
            /\ conn[c] = "in"
            /\ conn' = [conn EXCEPT ![c] = "left"]
            /\ UNCHANGED <<ent, bodies, avatar, veryDead, job, nested, round, fault>>

-----------------------------------------------------------------------------
(* Bodies. *)

(* GE_DIE: the actor a dies. *)
Dies(a) == /\ dead' = dead \cup {a}
           /\ veryDead' = veryDead \cup {c \in Clients : avatar[c] = a}

Mortal(a) == Kind(a) = "actor" /\ a \in valid \ dead

Die(a) == /\ Between
          /\ Mortal(a)
          /\ Dies(a)
          /\ UNCHANGED <<ent, valid, ground, removable, corpses, avatar, conn, job, nested,
                         round, fault>>

(* AllowDeadBodyRemove and the list of corpses.  Slips: the body is given   *)
(* to no client; it stays the player's.                                     *)
BuryForNobody(E, a) == [E EXCEPT ![a].owner = Nobody]
BuryKeepingOwner(E, a) == E
Bury(E, a) == [E EXCEPT ![a].owner = Server]
BuryBody(a) == /\ removable' = removable \cup (valid \cap {a})
               /\ corpses' = corpses \cup {a}

(* In the frame the actor dies, its object drops the bag: Process_event_    *)
(* reject finds the bag among the children and calls OnDetach.  The active  *)
(* item falls to the ground, the other items go into the bag.               *)
Detaching(p, b) ==
    \E active \in {None} \cup Range(Guns(p)) :
        detach' = [bag |-> b, from |-> p, drop |-> active,
                   at |-> SelectInSeq(Children(p), LAMBDA x : x = b),
                   move |-> Only(Children(p),
                                {x \in Ids : Kind(x) \in Items /\ x # active})]

DropBag(a, b) ==
    /\ Between /\ ~Locked
    /\ a \in dead \cap valid
    /\ b \in Range(Children(a))
    /\ Kind(b) = "bag"
    /\ Detaching(a, b)
    /\ UNCHANGED <<ent, bodies, players, job, emptying, destroying, clearing,
                   round, fault>>

(* OnDetach: Perform_transfer of the next item to the bag ... *)
DetachMove ==
    /\ Alive
    /\ detach # Done
    /\ detach.move # <<>>
    /\ LET e == Head(detach.move)
       IN  IF Parent(e) = detach.from
           THEN /\ ent' = Transfer(ent, e, detach.from, detach.bag)
                /\ detach' = [detach EXCEPT !.move = Tail(@)]
                /\ UNCHANGED fault
           ELSE fault' = "transfer" /\ UNCHANGED <<ent, detach>>
    /\ UNCHANGED <<bodies, players, job, emptying, destroying, clearing, round>>

(* ... then RejectGameItem of the active item ... *)
DetachDrop ==
    /\ Alive
    /\ detach # Done
    /\ detach.move = <<>>
    /\ detach.drop # None
    /\ ent' = IF Parent(detach.drop) \in live
              THEN Cut(ent, Parent(detach.drop), detach.drop) ELSE ent
    /\ detach' = [detach EXCEPT !.drop = None]
    /\ UNCHANGED <<bodies, players, job, emptying, destroying, clearing, round,
                   fault>>

(* ... and the bag is erased from the actor's children at the position that *)
(* was found before OnDetach.                                               *)
DetachEnd ==
    /\ Alive
    /\ detach # Done
    /\ detach.move = <<>> /\ detach.drop = None
    /\ LET p == detach.from
           b == detach.bag
       IN  IF detach.at \in DOMAIN Children(p)
           THEN /\ ent' = [ent EXCEPT ![b].parent = None,
                                      ![p].children = RemoveAt(@, detach.at)]
                /\ clearing' = IF InClear THEN Append(clearing, b) ELSE clearing
                /\ UNCHANGED fault
           ELSE fault' = "iterator" /\ UNCHANGED <<ent, clearing>>
    /\ detach' = Done
    /\ UNCHANGED <<bodies, players, job, emptying, destroying, round>>

(* GE_DESTROY by the game thread: bodies that exceed the limit and hold     *)
(* nothing (game_sv_mp::Update), bodies whose time is over (NeedToDestroy-  *)
(* Object), bags and items that seem to have lain around for long.  A dying *)
(* actor's object drops its bag in the same frame, before that.  Slip: the  *)
(* time alone removes no body.                                              *)
ExceedsLimit(e) == /\ e \in corpses
                   /\ Children(e) = <<>>
                   /\ Cardinality(corpses) > MaxCorpses
ExpiresAboveLimit(e) == e \in dead \cap removable \cap valid /\ ExceedsLimit(e)
BodyExpires(e) == /\ e \in dead \cap removable \cap valid
                  /\ \A x \in Range(Children(e)) : Kind(x) # "bag"
Abandoned(e) == e \in valid \cap ground /\ Kind(e) \in Items \cup {"bag"}

(* Process_event_destroy starts with R_ASSERT(c_dest == c_from). *)
EnterDestroy(e) ==
    /\ destroying' = Append(destroying, e)
    /\ fault' = IF Owner(e) = Server THEN fault ELSE "foreign"

StartDestroy(e) ==
    /\ Between /\ ~Locked
    /\ ExceedsLimit(e) \/ BodyExpires(e) \/ Abandoned(e)
    /\ EnterDestroy(e)
    /\ UNCHANGED <<ent, bodies, players, job, emptying, detach, clearing, round>>

(* It goes into the first child as long as there is one ... *)
DestroyChild ==
    /\ Alive
    /\ destroying # <<>>
    /\ Children(Last(destroying)) # <<>>
    /\ EnterDestroy(Head(Children(Last(destroying))))
    /\ UNCHANGED <<ent, bodies, players, job, emptying, detach, clearing, round>>

(* ... and then rejects the entity from its parent and destroys it. *)
DestroyLeaf ==
    /\ Alive
    /\ destroying # <<>>
    /\ LET e == Last(destroying)
       IN  /\ Children(e) = <<>>
           /\ Destroy(IF Parent(e) = None THEN ent ELSE Cut(ent, Parent(e), e), e)
           /\ OnDestroyObject(e)
    /\ destroying' = Front(destroying)
    /\ UNCHANGED <<conn, veryDead, job, emptying, detach, clearing, round, fault>>

-----------------------------------------------------------------------------
(* The delayed events of players, on the game thread without csMessage. *)

InGame(c) == conn[c] = "in" /\ avatar[c] # None
Body(c) == avatar[c]

(* OnPlayerReady of a player whose actor has died: RespawnPlayer gives the  *)
(* body away and spawns a spectator.                                        *)
ReadyDead(c) ==
    /\ Between
    /\ phase = "inprogress"
    /\ InGame(c) /\ c \in veryDead
    /\ Kind(Body(c)) = "actor"
    /\ BuryBody(Body(c))
    /\ \E i \in Ids :
          /\ Free(i)
          /\ ent' = [Bury(ent, Body(c)) EXCEPT ![i] = New("spectator", None, c)]
          /\ avatar' = [avatar EXCEPT ![c] = i]
    /\ UNCHANGED <<dead, valid, ground, conn, veryDead, job, nested, round, fault>>

(* OnPlayerReady of a spectator: RespawnPlayer destroys it, after which     *)
(* CL->owner points to a deleted entity ...                                 *)
ReadySpectator(c) ==
    /\ Between /\ ~Locked
    /\ phase = "inprogress"
    /\ InGame(c) /\ c \in veryDead
    /\ Kind(Body(c)) = "spectator"
    /\ Room(1)
    /\ LET e == Body(c)
       IN  /\ ent' = [ent EXCEPT ![e] = Gone]
           /\ valid' = valid \ {e}
           /\ ground' = ground \ {e}
           /\ OnDestroyObject(e)
    /\ job' = [at |-> "actor", todo |-> {c}]
    /\ UNCHANGED <<dead, removable, players, nested, round, fault>>

(* ... SpawnPlayer sets it to a new actor, if the client is still found ... *)
SpawnActor(c) ==
    /\ At("actor") /\ c \in job.todo
    /\ \/ /\ conn[c] = "in"
          /\ \E i \in Ids : SpawnPlayer(c, "actor", i)
          /\ job' = [job EXCEPT !.at = "bag"]
          /\ UNCHANGED fault
       \/ /\ conn[c] # "in"
          /\ fault' = "null client"
          /\ UNCHANGED <<ent, avatar, veryDead, job>>
    /\ UNCHANGED <<bodies, conn, nested, round>>

(* ... the actor gets its bag (game_sv_Deathmatch::RespawnPlayer) ... *)
SpawnBag(c) ==
    /\ At("bag") /\ c \in job.todo
    /\ \/ /\ conn[c] = "in"
          /\ \E i \in Ids : SpawnChild(Body(c), "bag", i)
          /\ job' = [job EXCEPT !.at = "items"]
          /\ UNCHANGED fault
       \/ /\ conn[c] # "in"
          /\ fault' = "null client"
          /\ UNCHANGED <<ent, job>>
    /\ UNCHANGED <<bodies, players, nested, round>>

(* ... and what the player has bought (SpawnWeaponsForActor), at most one   *)
(* gun for the slot.                                                        *)
SpawnItem(c, k) ==
    /\ At("items") /\ c \in job.todo
    /\ k = "gun" => Guns(Body(c)) = <<>>
    /\ \E i \in Ids : SpawnChild(Body(c), k, i)
    /\ UNCHANGED <<bodies, players, job, nested, round, fault>>

EndRespawn == /\ At("items")
              /\ job' = Idle
              /\ UNCHANGED <<ent, bodies, players, nested, round, fault>>

(* OnPlayerSelectSpectator: KillPlayer, which needs the actor's object, and *)
(* then as for a dead body.                                                 *)
KillPlayer(a) == dead' = dead \cup {x \in {a} : Mortal(x)}

SelectSpectator(c) ==
    /\ Between
    /\ InGame(c)
    /\ Kind(Body(c)) = "actor"
    /\ KillPlayer(Body(c))
    /\ BuryBody(Body(c))
    /\ \E i \in Ids :
          /\ Free(i)
          /\ ent' = [Bury(ent, Body(c)) EXCEPT ![i] = New("spectator", None, c)]
          /\ avatar' = [avatar EXCEPT ![c] = i]
    /\ veryDead' = veryDead \cup {c}
    /\ UNCHANGED <<valid, ground, conn, job, nested, round, fault>>

(* OnPlayerDisconnect: the body of a player that has left is killed and     *)
(* given away; a spectator is treated as a corpse, too.                     *)
Disconnect(c) ==
    /\ Between
    /\ conn[c] = "left"
    /\ LET a == Body(c)
       IN  IF a \in live
           THEN /\ KillPlayer(a)
                /\ ent' = Bury(ent, a)
                /\ corpses' = corpses \cup {a}
                /\ removable' = removable \cup {x \in valid \cap {a} : Kind(x) = "actor"}
           ELSE UNCHANGED <<dead, ent, corpses, removable>>
    /\ avatar' = [avatar EXCEPT ![c] = None]
    /\ conn' = [conn EXCEPT ![c] = "done"]
    /\ UNCHANGED <<valid, ground, veryDead, job, nested, round, fault>>

-----------------------------------------------------------------------------
(* Round changes, in game->Update. *)

Present == {c \in Clients : conn[c] = "in"}

(* CleanDelayedEvents: a disconnection that waits is forgotten. *)
CleanDelayedEvents == conn' = [c \in Clients |-> IF conn[c] = "left" THEN "lost" ELSE conn[c]]

(* OnRoundEnd spawns a spectator for everybody under ForEachClientDoSender. *)
(* The actors stay, and stay owned by their players.                        *)
EndRound == /\ Between /\ ~Locked
            /\ phase = "inprogress"
            /\ rounds < MaxRounds
            /\ Room(Cardinality(Present))
            /\ job' = [at |-> "ending", todo |-> Present]
            /\ UNCHANGED <<ent, bodies, players, nested, round, fault>>

RoundEnded == /\ At("ending") /\ job.todo = {}
              /\ CleanDelayedEvents
              /\ phase' = "pending"
              /\ rounds' = rounds + 1
              /\ job' = Idle
              /\ UNCHANGED <<ent, bodies, avatar, veryDead, nested, fault>>

RespawnAsSpectator(c) ==
    /\ ForAll /\ Alive /\ c \in job.todo
    /\ \E i \in Ids : SpawnPlayer(c, "spectator", i)
    /\ job' = [job EXCEPT !.todo = @ \ {c}]
    /\ UNCHANGED <<bodies, conn, nested, round, fault>>

(* OnRoundStart: the list of corpses is cleared and SLS_Clear runs.  Slip:  *)
(* the list of corpses is kept.                                             *)
ForgetNoCorpse == corpses' = corpses
ForgetCorpses == corpses' = {}

StartRound == /\ Between
              /\ QuietClear => ~Locked
              /\ phase = "pending"
              /\ ForgetCorpses
              /\ veryDead' = {}
              /\ phase' = "inprogress"
              /\ CleanDelayedEvents
              /\ job' = [at |-> "clearing", todo |-> {}]
              /\ UNCHANGED <<ent, dead, valid, ground, removable, avatar, nested, rounds,
                             fault>>

(* SLS_Clear calls Perform_destroy for an entity without a parent ... *)
ClearPick == /\ At("clearing") /\ clearing = <<>>
             /\ \E e \in Roots : clearing' = <<e>>
             /\ job' = [job EXCEPT !.at = "entering"]
             /\ UNCHANGED <<ent, bodies, players, emptying, detach, destroying, round,
                            fault>>

(* ... which asserts that it has none ... *)
ClearEnter ==
    /\ At("entering")
    /\ fault' = IF Last(clearing) \in Roots THEN fault ELSE "parent"
    /\ job' = [job EXCEPT !.at = "clearing"]
    /\ UNCHANGED <<ent, bodies, players, nested, round>>

(* ... and, as long as it has children, rejects the last one (Perform_      *)
(* reject) and enters it ...                                                *)
ClearReject ==
    /\ At("clearing") /\ clearing # <<>>
    /\ LET p == Last(clearing)
           e == Last(Children(p))
       IN  /\ Children(p) # <<>>
           /\ fault' = IF Parent(e) = p THEN fault ELSE "transfer"
           /\ IF Kind(e) = "bag" /\ Kind(p) = "actor"
              THEN Detaching(p, e) /\ UNCHANGED <<ent, clearing>>
              ELSE /\ ent' = Cut(ent, p, e)
                   /\ clearing' = Append(clearing, e)
                   /\ UNCHANGED detach
    /\ job' = [job EXCEPT !.at = "entering"]
    /\ UNCHANGED <<bodies, players, emptying, destroying, round>>

(* ... and then destroys it; the corpses have been forgotten already. *)
ClearDestroy ==
    /\ At("clearing") /\ clearing # <<>>
    /\ Children(Last(clearing)) = <<>>
    /\ Destroy(ent, Last(clearing))
    /\ clearing' = Front(clearing)
    /\ UNCHANGED <<corpses, conn, veryDead, job, emptying, detach, destroying, round,
                   fault>>

(* RespawnPlayerAsSpectator for everybody follows. *)
ClearDone == /\ At("clearing") /\ clearing = <<>>
             /\ live = {}
             /\ job' = [at |-> "starting", todo |-> Present]
             /\ UNCHANGED <<ent, bodies, players, nested, round, fault>>

RoundStarted == /\ At("starting") /\ job.todo = {}
                /\ job' = Idle
                /\ UNCHANGED <<ent, bodies, players, nested, round, fault>>

-----------------------------------------------------------------------------
Packets == \/ \E c \in Clients : ConnectFinished(c) \/ Leave(c)
           \/ \E c \in Clients, p, e \in Ids :
                 Take(c, p, e) \/ TakeForced(c, p, e) \/ TakeBag(c, p, e)
           \/ \E p, e \in Ids : Reject(p, e)

Nested == \/ MoveFromBag \/ BagEmptied
          \/ DetachMove \/ DetachDrop \/ DetachEnd
          \/ DestroyChild \/ DestroyLeaf

Frame == \/ Hear
         \/ \E e \in Ids : Die(e) \/ StartDestroy(e)
         \/ \E a, b \in Ids : DropBag(a, b)

Respawn == \/ \E c \in Clients : SpawnActor(c) \/ SpawnBag(c)
           \/ \E c \in Clients, k \in Items : SpawnItem(c, k)
           \/ EndRespawn

DelayedEvents == \E c \in Clients : \/ ReadyDead(c) \/ ReadySpectator(c)
                                    \/ SelectSpectator(c) \/ Disconnect(c)

Rounds == \/ EndRound \/ RoundEnded
          \/ \E c \in Clients : RespawnAsSpectator(c)
          \/ StartRound \/ ClearPick \/ ClearEnter \/ ClearReject \/ ClearDestroy
          \/ ClearDone \/ RoundStarted

Next == Packets \/ Nested \/ Frame \/ Respawn \/ DelayedEvents \/ Rounds

Spec == Init /\ [][Next]_vars

(* Scheduling.  The loops of an operation run on; the game thread evaluates *)
(* every frame what its objects ask for, and gets csMessage, which packets  *)
(* hold for one operation each.                                             *)
Fairness == /\ WF_vars(Nested)
            /\ WF_vars(\E c \in Clients : SpawnActor(c) \/ SpawnBag(c))
            /\ WF_vars(EndRespawn)
            /\ \A a \in Ids : SF_vars(\E b \in Ids : DropBag(a, b))
            /\ \A e \in Ids : SF_vars(StartDestroy(e))

FairSpec == Spec /\ Fairness

-----------------------------------------------------------------------------
Kinds == {"none", "actor", "spectator", "bag"} \cup Items
Faults == {"none", "null client", "foreign", "transfer", "iterator", "parent"}

(* Every variable has its type.  An entity always has an owner: Process_    *)
(* event asserts it of every receiver.                                      *)
TypeOK ==
    /\ \A i \in Ids : /\ Kind(i) \in Kinds
                      /\ Parent(i) \in Ids \cup {None}
                      /\ Children(i) \in Seq(Ids)
                      /\ i \in live => Owner(i) \in Clients \cup {Server}
    /\ dead \subseteq live /\ valid \subseteq live /\ removable \subseteq live
    /\ ground \subseteq valid
    /\ corpses \subseteq Ids
    /\ avatar \in [Clients -> Ids \cup {None}]
    /\ conn \in [Clients -> {"out", "in", "left", "lost", "done"}]
    /\ veryDead \subseteq Clients
    /\ job.todo \subseteq Clients
    /\ destroying \in Seq(Ids) /\ clearing \in Seq(Ids)
    /\ phase \in {"inprogress", "pending"}
    /\ rounds \in 0..MaxRounds
    /\ fault \in Faults

(* xrServer::verify_entities, which the debug build calls after every take, *)
(* reject and destroy: parents and children know each other.  Here it also  *)
(* says that no child is listed twice.                                      *)
VerifyEntities ==
    \A i \in live :
        /\ Parent(i) # None => /\ Parent(i) \in live
                               /\ i \in Range(Children(Parent(i)))
        /\ \A x \in Range(Children(i)) : x \in live /\ Parent(x) = i
        /\ \A m, n \in DOMAIN Children(i) : Children(i)[m] = Children(i)[n] => m = n

(* While OnDetach moves the items of a dying actor, the position that       *)
(* Process_event_reject keeps across the call still is the bag's: the bag   *)
(* is the actor's first child, whatever packets arrived while it respawned. *)
IteratorHits ==
    detach # Done => /\ detach.at \in DOMAIN Children(detach.from)
                     /\ Children(detach.from)[detach.at] = detach.bag

(* As long as entities remain, SLS_Clear finds one without a parent: its    *)
(* "can't delete all entities" branch, which loses their ids, is not taken. *)
NothingLeaked == At("clearing") /\ clearing = <<>> /\ live # {} => Roots # {}

(* The assertions of Perform_transfer, Perform_reject, Perform_destroy and  *)
(* Process_event_destroy hold: no operation meets an entity that another    *)
(* one has moved or that belongs to a player, and SLS_Clear gets to its end.*)
AssertionsHold == fault \in {"none", "null client"} /\ NothingLeaked

(* A player never holds two guns of one slot, whichever way they come:      *)
(* bought, taken, forced or out of a bag.                                   *)
OneGun == \A a \in live : Kind(a) = "actor" => Len(Guns(a)) <= 1

(* A body that has lost its bag holds nothing any more: what its player had *)
(* lies in the bag or on the ground and is not destroyed with the body.     *)
BodiesLeaveTheirItems ==
    \A a \in dead : /\ detach = Done
                    /\ \A x \in Range(Children(a)) : Kind(x) # "bag"
                    => Children(a) = <<>>

(* A player in the game has a body that exists and that it owns, except     *)
(* between the destruction of its spectator and the spawn of its actor.     *)
AvatarOwned ==
    \A c \in Clients :
        conn[c] = "in" /\ avatar[c] # None =>
            \/ job = [at |-> "actor", todo |-> {c}]
            \/ avatar[c] \in live /\ Owner(avatar[c]) = c

(* The list of corpses names entities that exist and that the server owns,  *)
(* so that game_sv_mp::Update can destroy them.                             *)
CorpsesAreLive == \A e \in corpses : e \in live /\ Owner(e) = Server

(* No bare id outlives what it names: neither a player's nor a corpse's.    *)
BareIdsAreLive == AvatarOwned /\ CorpsesAreLive

(* No packet can take an entity between the check of SLS_Clear or the       *)
(* Perform_reject of its parent and the assertion of Perform_destroy that   *)
(* it has no parent: R_ASSERT (object->ID_Parent == 0xffff).                *)
DestroysRoots == fault # "parent"

(* A dead body that may be removed is removed, or the process ends.         *)
BodiesGo == \A i \in Ids : i \in dead \cap removable ~> i \notin dead \/ ~Alive
=============================================================================
