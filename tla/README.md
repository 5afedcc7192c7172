# X-Ray engine and multiplayer server: TLA+ models, checks and proofs

This directory holds a verification development of the X-Ray engine in this
repository (the S.T.A.L.K.E.R. Clear Sky / Call of Pripyat code base). It has
two centres: the multiplayer server inside the game, in which several threads,
unreliable players and long sequences of legal calls meet; and the engine's frame,
with the scheduler that calls everything and the secondary thread that runs
beside the renderer.

    IdPool            what callers may expect of a source of entity ids
    IdGenerator       CID_Generator, block by block; refines IdPool
    Filter            the erasing loops over a queue
    FilterProofs      what such a loop leaves, for queues of any length
    EventLog          what the game expects of its delayed events
    GameEventQueue    the queue of event slots behind them
    ServerEvents      clients, network threads and game thread around the queue;
                      implements EventLog
    ServerEventsProofs theorems about ServerEvents, checked by TLAPS
    EntityServer      the registry of entities: spawn, ownership, death,
                      looting, destruction, round changes
    EntityServerProofs theorems about EntityServer, checked by TLAPS
    Connection        the handshake of a client, the keys of secret messages
                      and the delayed packets
    ConnectionProofs  theorems about Connection and Crypt, checked by TLAPS
    Crypt             the cipher of secret messages
    UpdatesCompressor the state of the entities on its way to the clients
    IdsAndUpdatesProofs theorems about IdGenerator and UpdatesCompressor, checked by TLAPS
    FileTransfer      screenshots and configuration dumps
    FileTransferProofs theorems about FileTransfer, checked by TLAPS
    RollCall          what the engine promises to objects it calls regularly
    Scheduler         CSheduler: lists, waiting requests, pass; implements RollCall
    SchedulerProofs   theorems about Scheduler, checked by TLAPS
    Frames            what the engine promises to work it puts aside
    Engine            message loop, secondary thread, client's object list;
                      implements Frames
    EngineProofs      theorems about Engine, checked by TLAPS

`MCServerEvents`, `MCEntityServer`, `MCUpdatesCompressor` and `MCCrypt` give TLC the values
a `.cfg` file cannot express.
`PROJECT.json` lists the components, the runs, the source lines behind every
definition, the findings, the hazards and the theorems.

Short paths below are relative to `src/xray/t6638/xrGame/`; `xrNetServer`,
`xrEngine` and the other libraries are its siblings.

## 1. Inventory

### Threads and locks

The whole design rests on a few facts about who runs what.

- The **game thread** runs one frame after another. On the server a frame is
  `CLevel::OnFrame` -> `xrServer::Update` (`xrServer.cpp:209`): delayed packets,
  then all delayed events (`ProcessDelayedEvent`), then `game->Update()` with the
  round changes, then the respawn queue, then updates to the clients.
- **DirectPlay threads** call `IPureServer::net_Handler`
  (`xrNetServer/NET_Server.cpp:463`). `CREATE_PLAYER` calls `new_client`; a packet
  calls `OnMessage` under `csMessage`; `DESTROY_PLAYER` calls `OnCL_Disconnected`
  and `client_Destroy`, *without* `csMessage`.
- `csPlayers` guards the list of clients. `ForEachClientDoSender` takes
  `csMessage` and `csPlayers` for the whole iteration.
- The game thread takes `csMessage` when it sends a message to the server it
  runs itself (`CLevel::Send` -> `OnMessageSync`). `Process_spawn` and `SLS_Clear`
  called from the game mode on the game thread take **no** lock.
- The queue of delayed events has a lock of its own; its list of blocked
  clients is read and written without it.
- A frame of the engine (`xrEngine/device.cpp:247`) has a game's turn, in which
  the primary thread moves the game and holds `mt_csEnter`, and a parallel part, in
  which it renders and holds `mt_csLeave` while the **secondary thread**
  (`mt_Thread`, `device.cpp:147`) works off `seqParallel`. The two critical sections exclude, but
  they do not make anybody take a turn.

### Components

| Component | State | Operations | Interacts with | What makes it correct | Here |
|---|---|---|---|---|---|
| Object id generator (`id_generator.h`) | blocks of ids as stacks, block times, counter of blocks with free ids | construct, get any, get given, free | entity creation and destruction, ALife | no id twice, late reuse, exact counter | modelled, proved |
| Delayed game events (`game_sv_event_queue.cpp`, `game_sv_base.cpp`) | deque of events, slots to reuse, blocked clients | create, create unless blocked, retreive, release, erase | network threads post, game thread handles | each event handled once, in order, to its end | modelled, proved |
| Events over a connection (`xrServer*.cpp`, `game_sv_mp.cpp`) | client list, player states, round phase | connect, authorize, ready, disconnect, reject, round end / start | both threads | handlers find their client; nobody is muted for good | partly, proved |
| Entity registry and ownership (`xrServer_process_event_*.cpp`, `xrServer_process_spawn.cpp`, `xrServer_sls_clear.cpp`) | map of entities, `ID_Parent`, `children`, `owner` | spawn, take, reject, transfer, destroy, clear | packets, game mode, game objects | parents and children agree; the assertions hold | partly, proved |
| Player life cycle of a deathmatch (`game_sv_deathmatch.cpp`, `game_sv_mp.cpp`) | player state, corpses, bodies | respawn, die, loot, spectate, leave, round change | registry | one body per player; items survive the body; bodies go | partly, proved in part |
| Connection handshake (`xrServer_Connect.cpp`, `xrServer_CL_connect.cpp`, `Level_network.cpp`) | per client flags, the client's result | version, auth, ban, password, sync | GameSpy, event queue, keys | no one gets in unchecked or after a refusal; every attempt is answered | partly, proved |
| Pool of disconnected clients (`xrClientsPool.cpp`) | clients with an expiry time | add, get, expire, clear | handshake, registry | one client per reconnection, no dangling owner | not modelled |
| Delayed packets (`xrServer.cpp:163-205`) | deque with a lock | add, drain, erase of a client | both threads | what is popped is what was handled | partly, proved |
| File transfer, screenshots (`file_transfer.cpp`, `screenshot_server.cpp`) | sender and receiver nodes, proxies, timeouts | request, chunk, relay, reject, abort, timeout | packets, game thread | a file that completes is whole; no relay outruns its buffer; everything ends | partly, proved in part |
| Packets in flight (`xrNetServer/NET_Common.cpp`, `NET_Client.cpp`) | multipacket buffers, receive queue, pool | send, flush, receive, lock, reuse | DirectPlay | no packet lost, split or reordered | not modelled |
| Secure messaging (`secure_messaging.cpp`) | keys, sequence of key changes | encrypt, decrypt, agree on a key | packets, handshake | both ends use the same key for a message; what is decrypted is what was encrypted | modelled, proved |
| Update compression (`xrServer_updates_compressor.cpp`, `Level_network_compressed_updates.cpp`) | cache of updates, accumulating buffer, row of packets | begin, write, flush, end, send, read | broadcast | every update sent once, within limits; only what is known is withheld | modelled, proved |
| Votes (`game_sv_mp.cpp`) | vote, counters, time | start, yes/no, stop, time out | players who come and go | one result, the right majority | not modelled |
| Other game types (`game_sv_teamdeathmatch.cpp`, ...) | scores, artefacts | overrides of the deathmatch handlers | registry | as above | not modelled |
| ALife simulator (`alife_*.cpp`) | registries, online set | register, switch online / offline, release | id generator, registry | online iff an object exists | not modelled |
| Scheduler (`xrEngine/xrSheduler.cpp`, `ISheduled.cpp`) | objects of real time, heap of items, waiting requests | register, unregister, destroy, pass | everything that is called regularly | who is registered exists and is called, once in a frame; who is not is not | partly, proved |
| Main loop, secondary thread (`xrEngine/device.cpp`, `device.h`) | two critical sections, frame marker, `seqParallel` | frame, gates, pause, stop | game, renderer | what is put aside is done in its frame, by one thread | partly, proved |
| Client object list (`xrEngine/xr_object_list.cpp`, `xr_object.cpp`) | active, sleeping, crows of two threads, destroy queue | create, update, destroy, relcase | both threads, network events | no list names a deleted object; crows are updated | partly, proved |
| Path search of monsters (`level_path_builder.h`) | waiting, last failure | register, process, remove | `seqParallel` | who waits gets an answer | partly |
| Shared strings (`xrCore/xrstring.cpp`) | counted values | dock, release | everything | no value freed while counted | not modelled |
| Sound emitters (`xrSound/SoundRender_Emitter_FSM.cpp`) | emitter states, targets | start, stop, update | game objects | a target has one emitter | not modelled |
| Weapons, inventory (`WeaponMagazined.cpp`, `Inventory.cpp`) | weapon state, slots | fire, reload, take, drop | ownership events | ammunition conserved | not modelled |
| AI, physics and collision, renderers, accounts, UI, tools | - | - | - | - | not modelled: see section 7 |

### What is hard here

`PROJECT.json` lists every hazard with its line. They fall into nine groups.

1. *The event at the front of the queue.* `Retreive` leaves the event in the
   deque and `Release` pops whatever is at the front by then; erasures run in
   between, from the handler itself and from network threads.
2. *Clients that come and go.* A client can leave at any point of any handler;
   what it sent earlier is still waiting, and a round change erases what it may
   still need (its CREATE_CLIENT, or its disconnection).
3. *Two threads in one registry.* Packets hold `csMessage`; spawns and
   `SLS_Clear` on the game thread do not.
4. *Nested operations on one vector.* Rejecting a bag calls back into the game
   mode, which moves other children of the same parent while an iterator into
   that parent's `children` is kept.
5. *Ids that outlive what they name.* Corpse lists, `ps->GameID`, respawn queue
   and packets in flight hold bare ids, so late reissue is a safety property.
6. *Renewals that overlap.* The key of a client is renewed three times during a
   handshake, by two threads, while messages encrypted with it are under way in
   both directions; the handshake itself goes on after a refusal.
7. *Messages that do not say what they belong to.* Chunks, rejects and aborts
   of file transfers name a player, not a transfer; updates are not guaranteed
   and name an entity, not a version.
8. *Lists that change under the loop over them.* A scheduled object registers and
   unregisters itself and others, inside the very pass that walks the scheduler's
   lists; requests may be at once or wait, and a destructor makes one more.
9. *A secondary thread nobody waits for.* It may miss a frame, come in twice, or
   finish late; both threads make objects crows, and objects are destroyed while
   tasks still name them.

## 2. Modules and how they correspond to the code

### IdGenerator and IdPool (`id_generator.h`)

`CID_Generator<u32,u8,u16,u16,MinValue,MaxValue,BlockSize>` cuts the range of
ids into blocks. A block is a stack of the offsets of its free ids, their number
and the time of the last release into it.

| Code | Model |
|---|---|
| `m_tppBlocks[b].m_tpIDs`, `m_tCount`, `m_tTimeID`, `m_available_count` | `stack[b]`, `count[b]`, `timeID[b]`, `available` |
| constructor; `xrServer::clear_ids` | `Construct`; `ClearIds` |
| `tfGetID()` with the block `std::min_element` returns | `GetAny` with `Less` and `IsMinElement`; `GetAnyFails` is its `R_ASSERT2` |
| `tfGetID(id)` through `tfGetFromBlock` | `GetGiven`, `GetGivenFails` |
| `vfFreeID(id, time)` | `Free(v, t)` |
| the entities that hold ids (callers) | `used`; `freedAt` is history |

`SID_Block::operator<` is no strict weak order (two empty blocks, an empty one
against itself), so `IsMinElement` follows the linear scan of the library
algorithm: the first block that no later one is less than. The array keeps what
it holds beyond the count, as in the code. `IdPool` is the promise: an id has one
holder; failure has a cause.

### EventLog, GameEventQueue, ServerEvents

`GameEventQueue` models the class in slots: `ready` (the deque), `unused` (the
vector of reusable `GameEvent` objects), `content` (what was copied into a slot)
and `blocked` (`m_blocked_clients`). Pruning after a minute is the choice
`idle`. `Slots` bounds the number of events alive at a time; in the code they
are allocated at will.

`ServerEvents` adds what happens around it. Each DirectPlay callback and each
stage of the frame is an action:

| Code | Model |
|---|---|
| `xrServer::new_client` (list, then CREATE_CLIENT) | `Join`, `PostCreate` |
| packets `M_CL_AUTH`, `M_CREATE_PLAYER_STATE`, `M_CLIENTREADY` | `SendAuth`, `SendState`, `ClientReady` |
| `GAME_EVENT_PLAYER_STARTED`, any other game event | `SendStarted`; `CheckPlay` then `PostPlay` (the block list is looked up outside the queue's lock) |
| `OnCL_Disconnected`, `client_Destroy` (erase, then clean) | `Leave`, `ClientErase`, `ClientClean` |
| `ProcessDelayedEvent`: `Retreive`, `OnEvent`, `Release` | `Retreive`, `Handle...`, `ReleaseEvent` |
| `CheckNewPlayer` rejecting a profile | the second disjunct of `HandleState` |
| `OnRoundEnd` (erase all, block all), `OnRoundStart` (erase all, announce) | `EndRound`, `BlockAll`; `StartRound`, `TellStarted` |
| `CActor::OnHitHealthLoss` reporting a hit | `ReportHit` |

`conn` is the life of a connection, `attached` the clients `AttachNewClient` ran
for, `sent` what the client has sent of the handshake, `hasState` the clients with
a `game_PlayerState`, `avatar` whether the client's entity exists and can be hit,
`told` the announcements it has still to answer, `packet` the holder of
`csMessage` when a packet takes more than a step, `pc`/`cur`/`taken` the position
of the game thread, `phase` the round phase, `fault` a failed assertion.
Handlers that touch neither the queue, the block list nor a client's life are
one action, `HandleOther`.

`EventLog` says what the game mode relies on: events wait in order, each is
handled once and to its end, and events are forgotten only while they wait.

`Filter` has one operator, `Only(s, T)`: what a loop over `find_if` and `erase` leaves
of a deque, in its order. It is a recursive function where the library's `SelectSeq`
is a recursive operator, so that the provers can follow it.

### EntityServer (`xrServer_*.cpp`, `game_sv_deathmatch.cpp`, `game_sv_mp.cpp`)

| Code | Model |
|---|---|
| `entities[id]`: `ID_Parent`, `children`, `owner` | `ent[i].parent`, `.children`, `.owner`; `Gone` when erased |
| `E->g_Alive()`, `m_bAllowDeathRemove`, `m_CorpseList` | `dead`, `removable`, `corpses` |
| `is_object_valid_on_svclient`, `H_Parent()` of the object | `valid`, `ground` |
| `CL->owner` with `ps->GameID`, the flag VERY_VERY_DEAD | `avatar`, `veryDead` |
| client list and waiting disconnection | `conn` |
| handler the game thread is in | `job`; nested loops in `emptying`, `detach`, `destroying`, `clearing` |
| `Process_spawn`, `SpawnPlayer`, `SpawnWeapon4Actor` | `SpawnPlayer`, `SpawnChild`, `SpawnActor`, `SpawnBag`, `SpawnItem` |
| `Process_event_ownership`, `OnTouch` | `Take`, `TakeForced`, `TakeBag`, `MoveFromBag`, `BagEmptied` |
| `Process_event_reject`, `OnDetach` | `Reject`, `DropBag`, `DetachMove`, `DetachDrop`, `DetachEnd` |
| `Process_event_destroy`, `entity_Destroy` | `StartDestroy`, `DestroyChild`, `DestroyLeaf`, `Destroy` |
| `OnPlayerReady`, `OnPlayerSelectSpectator`, `OnPlayerDisconnect` | `ReadyDead`, `ReadySpectator`, `SelectSpectator`, `Disconnect` |
| `OnRoundEnd`, `OnRoundStart`, `SLS_Clear`, `Perform_destroy` | `EndRound`, `RespawnAsSpectator`, `RoundEnded`; `StartRound`, `ClearPick`, `ClearEnter`, `ClearReject`, `ClearDestroy`, `ClearDone`, `RoundStarted` |

The loops of one operation are separate steps, so that the other thread may come
in wherever no lock forbids it. `Locked` says when `csMessage` is held: by an
operation that started from a message, and by `ForEachClientDoSender`.
`Perform_destroy` uses two steps per entity (`ClearPick`/`ClearReject`, then
`ClearEnter` with its assertion), since that is where a packet can come in.

Abstractions of the data, all on the side of fewer kinds and not fewer steps:

- One weapon slot, so `OnTouch` for a weapon is "no other gun". Ammunition is
  always accepted. The kinds spawned are `Items`.
- `CL->owner` and `ps->GameID` are one variable: both are assigned together in
  `SpawnPlayer`, and the exceptions (`SLS_Clear` leaves `ps->GameID` stale) are
  listed as hazards.
- The game objects of the server's own client are the sets `valid` and `ground`,
  brought up to date by `Hear` between two handlers: the broadcasts are handled
  on the game thread.
- `Perform_migration` begins with `return;`, so ownership never migrates that way.
- Team, rank, money, spawn points and the equipment menu only choose among
  respawns that look alike to the registry.
- Dereferences of the null client in `SpawnPlayer`/`RespawnPlayer` end the
  behaviour as `fault = "null client"`.
- A player whose PLAYER_DISCONNECTED is erased by a round change is `"lost"`;
  reading a deleted owner (`xrServer.cpp:787`) has no effect in the model.
- The last branch of `SLS_Clear` ("can't delete all entities") is not an action:
  `NothingLeaked` shows that it is never reached.

### Connection (`xrServer_CL_connect.cpp`, `xrServer_Connect.cpp`, `Level_network.cpp` and others)

Both ends of the handshake, message by message. Each direction is a FIFO.

| Code | Model |
|---|---|
| `new_client`; `OnCL_Disconnected` with the erasure from the list, then `client_Destroy` | `Join`; `Leave`, `Purge` |
| `AttachNewClient`, `OnCDKey_Validation`, `NeedToCheckClient_BuildVersion` | `HandleCreate`, `KeyValidated`, `CheckBuildVersion` |
| GAME_EVENT_CREATE_PLAYER_STATE with `CheckNewPlayer`; GAME_EVENT_PLAYER_AUTH with `OnBuildVersionRespond` | `HandleState`; `HandleAuth` |
| `RequestClientDigest`, `ProcessClientDigest` with the ban list, `SendConnectResult` | `RequestClientDigest`, `ReceiveDigest`, `Refuse` |
| `PerformSecretKeysSync`, `PerformSecretKeysSyncAck`, `OnSecureMessage`, `SecureSendTo` | `Tell` with `NextKey`, `ReceiveAck`, `OnSecureMessage`, `SendSecret` |
| `AddDelayedPacket`, `ProceedDelayedPackets`, `OnCL_Connected` | `ReceiveRequest`, `BeginDelayed`, `EndDelayed` |
| the client: `OnSecureKeySync`, `ClientSendProfileData`, `OnBuildVersionChallenge`, `OnConnectResult`, `Connect2Server`, `synchronize_client`, `net_start5` | `HearKey`, `HearChallenge`, `HearDigestRequest`, `HearResult`, `TimeOut`, `Request`, `Announce` |
| `CleanDelayedEventFor` of a refused client; `Release` in `ProcessDelayedEvent` | `CleanDelayedEventFor`; part of each handler, and `Release` where the handler's event is gone |
| `CleanDelayedEvents` at a round change | `ChangeRound` |

A seed and the key generated from it are one number, which grows; 0 is the key
nobody has initialized. Which checks a client fails (key service, version,
profile, ban list) is a choice. The queue of delayed events is a sequence of those of the handshake; its slots
are the subject of ServerEvents. `Release` pops what is at the front after each handler.
Where the handler's event is still there, handler and `Release` are one action.
Where it was erased under its handler, `releasing` is set and `Release` is a step of its
own, which pops another event unhandled: one of the handshake, or one of the game (no change
here); or it finds none, and its assertion fails (`fault = "release"`). That happens
after a profile was refused (`HandleState`), and after `client_Destroy` has erased a hit
while its handler runs (`Purge`, which sets `releasing` only while no event of the
handshake is handled, `Idle`). `lost` remembers the events that were popped or erased
unhandled in these ways or by a round change. The host's own client, whose messages are
calls, is left out.

### Crypt (`secure_messaging.cpp`)

`xray_crypt` is the loop both directions share: word by word, with a key that
goes round and a last word that may not be whole. `encrypt` and `decrypt` differ
only in the word that is fed back and summed. The widths are constants, and so is the
exclusive or of two bytes, `XorBytes`: of it `XorAssumption` says only that it gives a byte and that what is combined
with a byte twice is gone, whatever comes in between. `MCCrypt` gives TLC the real one. A
word is the sequence of its bytes; as a number (`Value`) it only enters the checksum.
The generation of keys is left out: both ends run it on the same seed.

### UpdatesCompressor (`xrServer_updates_compressor.cpp`, `xrServer.cpp:270-345`)

| Code | Model |
|---|---|
| `last_updates_cache`: `add_update`, `search_most_expired` | `cache`; `AddUpdate`, `SlotFor`, `MostExpired` |
| `m_acc_buff`; `m_ready_for_send` up to `m_current_update` | `acc`; `packets` |
| `begin_updates`, `write_update_for`, `flush_accumulative_buffer`, `goto_next_dest`, `end_updates` | `BeginUpdates`, `WriteUpdateFor` / `Suppress`, `Flush`, `NextDest`, `EndUpdates` |
| `SendUpdatePacketsToAll`, and the network | `SendUpdatePacketsToAll` with the set `lost` |
| the client's `ProcessCompressedUpdate` | `ProcessUpdate` |

A packet is the sequence of its fields with their widths in bytes, so that limits
are real limits; what the compressor makes of a buffer is a choice of sizes below
it. There is one client, and what is sent is received or lost before the next
pass. Times in the cache are kept as ranks. The `lzo` setting differs from plain
`ppmd` only in a header that `goto_next_dest` does not write, so the runs use
plain and `ppmd`. Whether the cache is used does not change during a run, and ids
are not reused.

### FileTransfer (`file_transfer.cpp`, `filetransfer_node.cpp`, `filereceiver_node.cpp`, `screenshot_server.cpp`)

| Code | Model |
|---|---|
| `CCC_MakeScreenshot`, `MakeScreenshot`, `MakeConfigDump`, `clientdata_proxy::make_...` | `Request`, `HandleCommand`, `MakeData` |
| `m_screenshot_proxies`: their two ids, `m_first_receive`, `my_proxy_mem_file` | `proxy` |
| `server_site`: `m_receivers`, `m_transfers` | `downloads`, `relays` |
| `server_site::on_message`, `update_transfer`, `stop_obsolete_receivers` | `ReceiveData`, `ReceiveAbort`, `ReceiveReject`, `UpdateRelay`, `DownloadTimesOut` |
| the player: `ss_manager`, `cd_manager`, `SendCollectedData`, `client_site::update_transfer` | `collecting`, `HearRequest`, `Collected`, `UpdateUpload`, `HearReject`, `StopGame` |
| the administrator: `PrepareToReceiveFile`, `client_site::on_message`, `stop_obsolete_receivers` | `HearResponse`, `HearData`, `HearAbort`, `ReceiverTimesOut` |

A part stands for some bytes, more than a header has, and says which file it is
from; chunks take any number of parts. Silence (`DownloadQuiet`,
`ReceiverQuiet`) makes a receiver obsolete, a chunk makes it current again. The
size a receiver expects is uninitialized before the first chunk, so what
`is_complete` says by then is a choice, and so is the size that a chunk without
header seems to announce (`GarbageSizes`). All files have the same size, hence no
buffer is reallocated under a reader. An administrator leaves without stopping
its game first, and is not asked for a screenshot itself.

### Scheduler and RollCall (`xrEngine/xrSheduler.cpp`, `ISheduled.cpp`)

| Code | Model |
|---|---|
| `ItemsRT`; `Items`, `ItemsProcessed`; `Registration`; `m_current_step_obj`; `m_processing_now` | the variables and the operator of these names (`current` for the object being called) |
| `ISheduled::shedule.b_RT`; `shedule_Needed()`; `dbg_update_shedule` | `b_RT`; `life`; `called` |
| `Register`, `Unregister`, `~ISheduled`, each at any time clients run | `Register`, `Unregister`, `Destruct`, with `Strike` for what the last two share |
| `Registered` | `Registered`: the last request that waits, else the lists |
| `internal_Registration`, `internal_Register`, `internal_Unregister` | the actions and operators of these names; `Pairs` is the search for the request that cancels one |
| `Update`: real time items | `BeginRT`, `SkipRT`, `CallRT`, `ReturnRT` with the index `it` |
| `ProcessStep` | `BeginSteps`, `DropStep`, `CallStep`, `ReturnStep` or `ReturnGone` (the object went while it was called), `EndSteps`; `i` counts the steps between two looks at the budget |

Every call to an object is two steps, and between them the objects do what they
like (`Clients`): register, unregister, delete each other and themselves. An element of
`Objs` is a place in memory, so that a later object may lie where an earlier one
was deleted with a request still waiting. The heap is a sequence in any order, of
which `Top` picks a front; deadlines are relative to the present frame.
`RollCall` is a single set: who asks is on the roll or off it at once, and a
member is called at most once in a pass.

### Engine and Frames (`xrEngine/device.cpp`, `xr_object.cpp`, `xr_object_list.cpp`, `level_path_builder.h`)

| Code | Model |
|---|---|
| the message loop of `CRenderDevice::Run` | `main`; `FrameMove` to `EndFrame`, one action for each stage and each critical section |
| `mt_Thread` | `second`; `SecondEnter`, `EndWork`, `SecondLeave`, `SecondBack` |
| `mt_Thread_marker` compared with `dwFrame`; `mt_bMustExit` | `marked`; `mt_bMustExit` |
| `seqParallel`, a vector of delegates | `seqParallel`: how often each object's task is in it |
| `remove_from_seq_parallel` (the first equal delegate) | `TakeBack` |
| `CObject::MakeMeCrow`: read, `_InterlockedCompareExchange`, `o_crow` | `CrowRead`, `CrowExchange` in the parallel part; `MakeMeCrow` in the game's turn, when nobody else runs |
| `CObjectList::Update`, `SingleUpdate`, the loop over `destroy_queue` | `BeginUpdate`, `SingleUpdate`, `EndUpdate`, `Destroy`, `EndDestroy` |
| `Destroy` with `net_Destroy`; `register_object_to_destroy` | `DestroyAt`; `Doom` |
| spawn, ownership, destruction, `processing_activate` / `deactivate` | the actions of these names (`g_sv_Spawn`, `H_SetParent`, `GE_DESTROY`) |
| `CLevel::remove_objects` | `remove_objects`, `removing` |
| `register_to_process`, `process`, `remove`, with `m_use_delay_after_fail` | `PutAside`, `RunTask`, `TakeBack`; `wait`, `failed`, `NoDelay` |

The level and the detail path builder are one task: the flag they share
(`m_wait_for_distributed_computation`) lets neither register while one waits, and they are
removed together. A detail search is thus held back for two seconds after a failure like a
level search.

Comparisons with the frame's number are the flags `marked`, `asCrow`, `updated`,
all reset by `NewFrame`. `Frames` is the order the loop is for: the game alone, then
the parallel part in which each task is done once, then the game.

## 3. What the runs check and show

| Run | Bounds | Properties | What it shows |
|---|---|---|---|
| `id_generator_mp` | ids 0..4, blocks of 2 (the last is short), clock 0..2 | `TypeOK`, `EachIdOnce`, `AvailableExact`, `Quarantine`, `ImplementsPool` | no id has two holders, counters are exact, an id is reissued late, the pool's promise holds |
| `events_join` | 1 client, 2 slots, rejection, a hit, a round change, 1 ordinary event, fair scheduling | `TypeOK`, `SlotsOnce`, `FrontIsCurrent`, `ImplementsLog`, `BlockedIsHeardAgain`, `JoinedIsAttached` | the queue is the log; only the named events are overrun; no player stays muted; joins are lost in named cases only |
| `events_release` | 1 client | `ReleaseFindsAnEvent`: **violated** | finding 1 |
| `entities_play` | 2 players, 4 ids, guns and ammunition, 1 round change | `TypeOK`, `VerifyEntities`, `IteratorHits`, `AssertionsHold`, `OneGun`, `BodiesLeaveTheirItems`, `BareIdsAreLive` | respawn, death, looting, spectating, leaving and `SLS_Clear` keep the registry consistent |
| `entities_live` | 1 player, 3 ids, fair scheduling | `BodiesGo` | dead bodies are removed |
| `entities_clear` | 2 players, 5 ids, packets during `SLS_Clear` | `DestroysRoots`: **violated** | finding 2 |
| `connection_live` | 2 clients, key service, 1 secret message, 1 round change, fair scheduling | `TypeOK`, `KeysAgree`, `OnlyTheAdmitted`, `DelayedIsFront`, `NobodyHangs` | secrets stay readable through three renewals, only checked clients get in, every attempt is answered unless its event was lost to `Release` or a round change |
| `crypt_words` | words of 3 one-bit bytes, keys of 1 and 2 words, buffers of up to 7 bytes | `CryptTypeOK`, `RoundTrip` | what one end encrypts the other reads, whatever remains for the last word |
| `updates_pass` | 3 entities with updates of 4 and 5 bytes, packets below 17 bytes, cache of 2, plain and `ppmd` | `UpdatesArriveOnce`, `PacketsFit`, `SuppressedIsKnown` | updates are split over packets without loss and only what a client knows is withheld |
| `files_relay` | 1 administrator, 1 player, 2 proxies, files of 2 parts, 2 requests, fair scheduling | `TypeOK`, `FilesAreWhole`, `RelaysStayInBuffer`, `TransfersEnd` | files that complete are whole, transfers end |
| `scheduler_roll` | 2 objects that come, go and are replaced, intervals 1 and 2, 2 waiting requests, 4 entries, fair scheduling | `OneEntryEach`, `PointersAreLive`, `ImplementsRoll`, `EveryoneIsCalled` | the lists act like one set, name nobody who is gone, and nobody starves |
| `engine_frames` | 2 objects, one a monster, fair threads | `ListsAreLive`, `ImplementsFrames`, `NothingWaitsForever` | the threads take turns, lists and tasks name live objects, frames, crows and searches come to an end |

Every property has a mutant of the code in its module (operators called *slips*
in the comments), listed in `PROJECT.json`: with the slip in place of the
definition the run finds the property violated.

### The properties worth a second look

- `IteratorHits`. `Process_event_reject` finds the bag in the parent's
  `children`, calls `OnDetach`, which moves other children of the same parent
  out of the same vector, and then erases at the old iterator. That works only
  because the bag is always the first child, and the bag is the first child only
  because a take is refused until the server's client has the object of the
  taker (`is_object_valid_on_svclient`); the mutant without that check breaks it.
- `AssertionsHold`. `Process_event_destroy` ends the server on an entity its
  sender does not own. Hence every path that leads a body to `GE_DESTROY` must
  have given the body to the server client first, through five handlers and two
  threads.
- `BodiesLeaveTheirItems`. A body is destroyed with its children; it has none
  once the bag is gone because nobody can take items for a dead actor.
- `BlockedIsHeardAgain`. A round end mutes everybody. Hearing a player again
  takes a start of the next round that reaches it, an answer that bypasses the
  block list, and no erasure in between.
- `FrontIsCurrent` and `ImplementsLog` state the protocol `Retreive` /
  handler / `Release` needs, with the exceptions it has; the exceptions are the
  subject of finding 1.
- `KeysAgree`. The client uses a new key as soon as it hears the seed, the server
  when the acknowledgement arrives. In between each encrypts with what the other
  has just left. It is the order of the handshake, and not the key protocol, that
  keeps secrets out of the gap; a renewal more (`RenewTwice`) breaks it.
- `OnlyTheAdmitted`. A profile is refused on the game thread while version check,
  digest and ban list go on for the same client, which may be *accepted* later.
  Only the client keeps itself out, by the conjunction of the results
  (`RefusedStayOut`). And a client may get in without a player state, but only if the
  very event that makes it was lost (`AcceptedHaveState`): to a round change, or to the
  `Release` after *another* client's refused profile or an erased hit. The mutant
  `CleanAll`, a refusal that erases everyone's events, breaks it.
- `NobodyHangs`. A client hears nothing until its timeout only if its creation or its
  version check was lost in one of these ways (`AnswerLost`). The client waits for its configuration with no timeout;
  its request waits behind `pop_front`, which pops what is in front *after* the
  handler, whosever it is.
- `SuppressedIsKnown`. The server never learns what an unreliable packet did, so
  an update equal three times is taken for known. The property says exactly what
  a client may lack: a state it missed `max_eq_packets` times, or one that changed
  and changed back around its joining. Switching `sv_traffic_optimization_level`
  during a game would add a third exception, since the cache is not emptied.
- `UpdatesArriveOnce` needs the compressed updates of a pass to fit one packet:
  beyond that no client can read them (see *Misplaced levels* below).
- `PacketsFit`. Three checks in three places keep room for what a fourth writes. They
  do for everything but the levels that `goto_next_dest` writes to the wrong
  packet, which the property leaves aside by name (`Misplaced`).
- `FilesAreWhole`. There is no number of a transfer in any message. That a new
  transfer is not fed with the chunks of an old one rests on the FIFO, on the
  abort that closes an upload and on `is_active` keeping a proxy with its relay.
  Once a receiver has timed out that no longer holds (`gaveUp`).
- `TransfersEnd`. A relay whose download ended early never reaches its end and never
  notices: it sends empty chunks each frame, which keep the administrator's
  receiver alive, and its proxy stays active. The property excepts it by name
  (`Starved`) and shows that nothing else lasts.
- `ImplementsRoll`. `Registered` answers from the last waiting request, or from the
  lists, or from `m_current_step_obj`; `internal_Registration` cancels pairs and
  leaves the rest in order; an unregistration in a pass is done at once or waits,
  depending on where the object is found. That all this is one set changed at once
  is what every owner relies on and nobody states.
- `PointersAreLive`. The destructor of the release build makes a request although
  the object may not be registered. It waits under an address at which another
  object may be constructed and registered meanwhile: harmless, because requests
  are worked off in order, and a registration is cancelled only by a *later* request.
- `EveryoneIsCalled`. An object of real time that goes while the loop runs moves
  its successors down, and the one after it is not called in this pass; and items
  that are always due can end every pass at the budget. Neither starves anybody.
- `ListsAreLive`. A destroyed object is taken out of each thread's crows and its
  first task of each kind out of `seqParallel`; that the first is all there is, and
  that the crows of the secondary thread are already taken over unless the game is
  paused (a VERIFY of `Destroy`), holds because of what a frame did before.
- `ImplementsFrames`. Nothing in the gates makes the secondary thread take its
  turn: it may be late by a whole frame. `mt_Thread_marker` is written when it
  starts, not when it ends; the join works because it cannot start and be
  overtaken, holding `mt_csEnter` for all its work.

### Findings

1. `events_release`. `Release` asserts that the queue is not empty. A handler
   that rejects a profile (`CheckNewPlayer`) erases all events of the sender, its
   own event included. With nothing else waiting the assertion fails; else the
   next event is dropped unhandled. `Connection` follows it into the handshake, where the
   next event may be another client's: its creation, its player state or its
   authorisation, with the consequences `OnlyTheAdmitted` and `NobodyHangs` allow for.
2. `entities_clear`. `Perform_destroy` asserts that the entity has no parent.
   `SLS_Clear` runs on the game thread without `csMessage`; a take handled on a
   network thread can give the entity a parent after `SLS_Clear` has looked.

*Misplaced levels.* With `ppmd`, `goto_next_dest` writes the level to the *front*
packet instead of the new one (`xrServer_updates_compressor.cpp:186`), whose reader then
takes the low byte of a block's size for it; with `lzo` it writes no header at all. The
front packet has been filled up to the room for its own end when the levels come behind it:
after the second one it may have as many bytes as the buffer, which `NET_Packet::w` asserts
it has not. Two properties allow for this by name, `UpdatesArriveOnce` (one packet, if
compressed) and `PacketsFit` (`Misplaced`). Without the allowance TLC refutes the first on
the bounds of `updates_pass` and the second with nine entities of one byte each and packets below 20 bytes.

The models reach some more outcomes of the kind, as named faults that end a
behaviour or as exceptions in a property: `OnCL_Connected` asserts that the client
has a player state ("Player state not created"), which a round change prevents when
it erases the waiting GAME_EVENT_CREATE_PLAYER_STATE, and finding 1 when `Release` pops it
(`AcceptedHaveState`); a monster
that asks for a path within two seconds after a failed search is marked as waiting
while nothing is put aside (`level_path_builder.h:70`), and `update_path` then returns
early until its restrictions change or it is destroyed (`Forgotten`); the handler of
GAME_EVENT_CREATE_PLAYER_STATE finds no client (it asserts one) when the client
has left meanwhile; the handler of the authorisation and `OnCL_Connected` use a
null client in the same case; `SpawnPlayer` likewise; with `sv_no_auth_check` the
key is renewed twice at once and the first acknowledgement fails the debug
assertion on the seed; a screenshot asked of a player who is still in the
handshake is encrypted with a key the player has just left; `TransfersEnd` and
`FilesAreWhole` as above.

## 4. Bounds, and why they are enough

- *Ids of the generator.* Five ids in blocks of two give blocks that empty, refill
  and tie, and a short last block. The theorems cover all sizes, and the releases
  without a time that scripts make (`UnstampedFree`).
- *Slots.* They bound the events alive at a time (`HasSlot`); two are enough for
  an event in the hands of the game thread and one that arrives meanwhile.
  `PruneAbove` is 0 (32 in the code), so that unused slots are pruned at once.
- *Clients.* The event runs have one client: events of different clients meet
  only in the order of the deque, which ordinary events of the same client have
  as well. The registry and the handshake, where clients compete for entities and
  for the front of the delayed packets, have two. Clients and entity ids are
  symmetric: no definition tells them apart; the liveness runs use no symmetry.
- *Entity ids.* A player needs a body, a bag and an item; four ids let one player
  have all of them while the other has a body. An operation that spawns starts
  only with `Room` for what it must spawn, so that a small number of ids cannot
  stop a respawn half way: the real range is 65535 ids.
- *`MaxCorpses`* is 0, so that the limit is exceeded by every corpse, and 1 in the
  liveness run, so that only time removes a single body.
- *`MaxRounds`*, *`MaxRoundEnds`* are 1: a round change goes through end, pending
  phase and start, and what survives it (blocked clients, lost clients, unanswered
  announcements) meets the next round.
- *`MaxHits`, `MaxPlays`, `MaxSecrets`* bound events that repeat without changing
  state.
- *`QuietClear`*. With FALSE the run `entities_clear` reaches finding 2, after
  which the code has undefined behaviour; with TRUE the other runs show that
  everything else holds when no packet comes in while `SLS_Clear` runs.
- *`EarlySecrets`* is FALSE and *`AuthCheck`* TRUE: with the other values `KeysAgree`
  fails, or the assertion on the seed does, as said under the findings.
- *Words.* The loop of the cipher never looks at the width of a byte or a word.
  Three bytes leave rests of 0, 1 and 2; seven bytes make two words and a rest, so
  that the key goes round and the sum overflows. The theorems hold for all widths and lengths.
- *Updates.* Three updates of 4 or 5 bytes overflow a packet below 17 bytes at
  every possible place; a cache of two evicts; `MaxEq` is 1 and the counter wraps
  after 2 (3 and 65536 in the code), so that suppression, its end by a change and
  its end by wrapping all happen within three passes.
- *Files.* Two parts make a first chunk, a last one and one that is both. Two
  requests are a transfer and its successor, of the same kind or the other, over
  the same proxy or another; `MaxInFlight` holds the next message back until the
  channel has room. Kinds are alike, so the first request is for a screenshot.
- *Scheduled objects.* Two of them, each of either kind, make a neighbour in front
  and one behind, pairs of requests for the same and for different objects, and
  one object that deletes another while it is called. Two waiting requests
  (`MaxRequests`) are a registration with what cancels it; a third would have to be
  made of the same two kinds, and the theorems have no bound. Four entries
  (`MaxEntries`), those without an object included, are enough for three steps of a
  pass and the budget.
- *Objects of the engine.* A monster and an object that it may own: one crow in
  the hands of each thread, a parent with a child in one queue, and both tasks of
  the monster at once. Every other object would behave like the second one. The
  delay after a failed search is the case that can go wrong; the case without a delay has
  a theorem.
- Deadlock is checked in `scheduler_roll` and in `engine_frames`, where the end of the
  program is the action `Ended`. The other models stop once their bounds are used up.

## 5. Fairness, and why the code justifies it

`ServerEvents`: the main loop runs the game thread (weak fairness of
`ProcessDelayedEvent` and of the steps of a frame). The pending phase ends by
`checkForRoundStart`, whose timer runs out whatever the players do; its guard
holds only in some steps of each frame, hence strong fairness of `StartRound`.
A DirectPlay thread finishes the callback it is in (weak fairness of `PostCreate`,
`PostPlay`, `ClientErase`, `ClientClean`), and `DisconnectClient` makes DirectPlay
destroy the player (weak fairness of `Leave` for rejected clients). Messages are
sent guaranteed (`net_flags(TRUE, TRUE)`), so a client in the game does answer
(`SendStarted`); strong, since another packet may hold `csMessage` from time to
time. Nothing makes clients join, play or leave.

`EntityServer`: the loops inside an operation run on (weak fairness of `Nested`
and of the steps of a respawn). `DropBag` and `StartDestroy` are evaluated by the
objects every frame and need `csMessage`, which packets hold for one operation
each: strong fairness, per entity. Nothing makes players do anything.

`Connection`: messages are guaranteed and handled (weak fairness of `OnMessage`,
per client, with the destruction begun by a disconnection); both main loops run
and the key service answers (`Game`, `Release`, `EndDelayed`, `Client`); a client that was
refused, or has given up, is destroyed (`GaveUp`). Nothing makes a client join,
time out or leave otherwise.

`FileTransfer`: the main loops of all games run (weak fairness of `OnMessage` of the
server, of the steps of a player and of an administrator, and of every relay); a
collection finishes; what is not heard from is found obsolete in the end
(`DownloadQuiet` or `DownloadTimesOut`, and the same for receivers). A chunk undoes
the silence, so a receiver that is fed for ever is never timed out, which is why
starved relays show. A player whose game has stopped leaves. Nothing makes an administrator ask
or anybody else leave.

`Scheduler`: the main loop runs (weak fairness of `Update`, the steps of the pass)
and every call to an object returns (weak fairness of `Returns`). Nothing makes an
object register, or be deleted.

`Engine`: both threads run (weak fairness of what the primary thread does next in
its loop, and of the secondary thread). A critical section is given to anybody who
waits, in no order: the model's waits are guards, and no strong fairness is assumed
for them. Nothing makes an object appear, be destroyed or be a crow, nor the
player pause or quit.

## 6. Proofs

### IdGenerator

`IdsAndUpdatesProofs` is checked by TLAPS; its part about ids for every id range, block size and clock,
under the named assumptions of `IdGenerator`: `IdRange`, `BlockSizeAssumption`,
`MaxTimeAssumption`, `UnstampedFreeAssumption`.

| Theorem | Establishes |
|---|---|
| `TypeCorrect` | `Spec => []TypeOK`: no write past a block, no counter below 0 |
| `NoIdTwice` | `Spec => []EachIdOnce`: stacks and holders partition the ids |
| `AvailableIsExact` | `Spec => []AvailableExact` |
| `GeneratorImplementsPool` | `Spec => ImplementsPool`: refinement of `IdPool` |
| `QuarantineHolds` | without unstamped releases, `Spec => Quarantine` |

*The argument.* The inductive invariant is
`IInv == TypeOK /\ EachIdOnce /\ AvailableExact`. `TypeOK` alone is not
inductive: that a release finds room in its block follows only because the id it
releases is not among the free ones (`RoomToFree`: an injective, full stack would
already hold it, a counting argument on finite sets), and that `available` stays
in range follows only because it is the number of non-empty blocks
(`NonEmptyFinite`). Arithmetic is confined to a few lemmas: `DivMod`,
`DivModUnique`, `LastBlock`, `CapacityRange`, and the two that make
`BlockOf`/`OffsetOf` and `IdAt` inverse (`IdOfBlock`, `BlockOfId`). Each action has
a lemma (`ConstructIInv`, `TakeEntryIInv` for both requests, `FreeIInv`, ...),
`NextIInv` puts them together. `QuarantineHolds` needs one more invariant,
`StampIsLatest`: the time of a block is the latest release of an id of that block,
and every release of that block is no later.

### UpdatesCompressor

The other part of `IdsAndUpdatesProofs` (the two share the arithmetic of counters that
wrap) is checked for every number of entities, every set of sizes of their updates, every
setting of the console variable and every size of the packets, of the cache and of its
counters, under the named assumptions of `UpdatesCompressor`. `RoomAssumption` is the one
that matters: an update with its header and the packet's own is smaller than a packet. In
the code the first has at most 255 + 3 bytes (`w_chunk_open8`), a packet 16384.

| Theorem | Establishes |
|---|---|
| `UpdatesFit` | `UpdatesSpec => []PacketsFit`: types, and no packet past its buffer but for the misplaced levels |
| `UpdatesInOrder` | `UpdatesSpec => []UpdatesArriveOnce`: what the client reads in all packets is what was written, in order |
| `SuppressedAreKnown` | with `SteadyCaching`, `UpdatesSpec => []SuppressedIsKnown` |

`SteadyCaching` says that `eto_last_change` is on in all passes or in none. It has to be
assumed: the cache is not emptied when the variable is switched off, and what it holds
when it is switched on again may be what clients have long replaced (TLC shows it in
fewer than twenty steps with one entity).

*The argument.* `PacketsInv` has the types, with the fields of packets bound to the
updates written *in this pass* (`PassOK`), and the room (`RoomOK`): the last packet has room
for its end, each one before it has been ended, and a whole buffer fits into a packet of
its own, since `Full` has kept `Reserved` free and a compressor saves at least a byte.
`FlushRoom` is that arithmetic for the one operation that has four outcomes.

`OrderOK` says what a reader makes of the packets in the middle of a pass: what the finished
packets carry, followed by the buffer, is what was written; for compressed updates, which
may not need a second packet, the first one has its header, no zero yet, and carries what the
buffer does not (`Whole`). Lemmas say how each sequence grows at its end
(`FlattenAppended`, `CarriedAppended`, `DeliveredAppended`); `EndedPacket` that a zero
is the only one, so that the reader stops at the end and not before.

`KnownOK` is what the cache knows of the clients. `OneEntry`: an entity has one
entry with an update, and it is the one `search_entity` finds, although the empty
entries all carry the id 0. Of an entry that was taken in this pass (`NewKnown`), the
client has the state or lost as many updates as the entry has counted, with one more under
way if it has been sent; of an older one (`OldKnown`) it may count one more. So the
counter of an entry never runs ahead of what was sent, wherever it wraps, whoever is
evicted, and whether an entity is written or left out in a pass. A loss counts one, receiving
starts again, and a client that joins has everything, unless the cache is behind
(`Overtakes`). `UpdatesOK`, `RoomOK`, `OrderOK` and what `KnownOK` says were checked by TLC
as invariants, on the run's instance and a larger one, before they were proved.

### FileTransfer

`FileTransferProofs` is checked for every set of administrators, players and
proxies, every size of a file, and without a bound on requests or messages (the
bounds are guards, and no step of the proof uses them), under the named assumptions
of `FileTransfer`: nobody is both administrator and player (`RolesAssumption`), the
proxies are numbered (`ProxiesAssumption`), a file is not empty (`SizesAssumption`).

| Theorem | Establishes |
|---|---|
| `TypeCorrect` | `Spec => []TypeOK`: sessions of the right clients, well-formed messages, no upload past its file |
| `SessionsOwnTheirProxy` | `Spec => []Owned`: the proxy of a session names the session's clients |
| `RelaysInBuffer` | `Spec => []RelaysStayInBuffer`: a relay never reads past its buffer |
| `WholeFiles` | `Spec => []FilesAreWhole`: a file taken for complete is one file of that player, of the kind asked for |

*The argument.* The inductive invariant is
`IInv == TypeOK /\ Owned /\ RelaysStayInBuffer`. `TypeOK` and
`RelaysStayInBuffer` are not inductive without `Owned`. A relay could be overtaken by its buffer only if the buffer shrank, and a buffer only
shrinks when `MakeData` empties it for a new request; `is_active` looks for sessions
by the *clients* in the proxy and not by the proxy, so that a proxy it calls free
serves no relay only because of `Owned` (`FreeProxy`). `Owned` in turn needs that
the proxy of a session is not given away, and that the callback of a download starts
the relay under the proxy's own two clients. Types need `Owned` where the callback
answers `m_admin_id`: it is an administrator, and not the `NoClient` of a proxy never
used. Helpers have lemmas of their own (`ReceivePacketType`: no chunk shortens a
buffer; `PartsType`, `SendType`, `PutType`, `HearsType`), each action has one
(`ReceiveDataKeepsInv`, ...), and `NextKeepsInv` puts them together.

*Whole files.* No message says which transfer it belongs to, so `FilesAreWhole` can
only hold because of what the channels contain. `Flows` says it: for each player, and
for each administrator and player, the messages in the channel take the file under
way from the *place* where the receiver has stopped to the one where the sender
is. `Flow` states this with a witness, a sequence of places, one for each message:
a chunk begins where the one before it ended and has the header if and only if it is the
first (`CarriesData`), a response only comes where no file is under way or
announces the one whose chunks follow (`Opens`), an abort ends the file.
`UploadFlows` joins the server's download to the player's upload, and adds that a
player who still has something to send has not been asked again (`Unasked`): that is what
the test for an active receiver in `make_screenshot` is good for, and without it
`SendCollectedData` would overwrite the memory of an upload. `RelayFlows` joins the
administrator's receiver to the server's relay; the relay's proxy holds a beginning
of one file, because `MakeData` does not give it away (`Owned` again). Both are
required only of those that have not given up (`Patient`): after a time-out old
chunks may meet a new receiver, which is the exception `FilesAreWhole` names.
`FlowTail` and `FlowAppend` say what taking and putting a message does to a
witness, `ChunkIsTaken` what `receive_packet` makes of the chunk that continues a
file, and each action has a lemma (`HearDataFlows`, ...) under `NextKeepsWhole`.
`Flows` was checked by TLC, as an invariant of the instance of `files_relay` and of
one with two administrators, before it was proved.

### ServerEvents and its queue

`ServerEventsProofs` is checked for every set of clients, every set of slots, finite or
not, and every `PruneAbove`; rounds, hits, plays and events are without bound. It uses
the named assumptions of `GameEventQueue` and `ServerEvents` and what `FilterProofs`
says of `Only`.

| Theorem | Establishes |
|---|---|
| `TypeCorrect` | `Spec => []TypeOK` |
| `SlotsHoldOneEvent` | `Spec => []SlotsOnce`: no slot is refilled while it waits, or deleted twice |
| `ReleaseTakesItsEvent` | `Spec => []FrontIsCurrent`: what is handled stays in front, but for the named events |
| `QueueImplementsLog` | `Spec => ImplementsLog`: refinement of `EventLog` |

*Erasing loops.* `Only(s, T)` is defined by recursion, and what it returns has to be
shown for every length of `s`. The library's induction theorem takes an operator as
its parameter, which no installed prover can instantiate; `FilterProofs` therefore
takes the least number of a set instead, which exists since `<` on `Nat` is well
founded (`LeastOf`), and gets induction over a set of numbers from that (`Induction`).
`PrefixesExist` and `OnlyUnfolds` give the recursion its meaning. The other lemmas are
what the erasures need: the result has exactly the elements of `s` in `T`
(`OnlyElements`), each once if `s` has it once (`OnlyDistinct`), in the order of `s`
(`OnlyPlaced`), with the same front if that stays (`OnlyFront`), and erasing commutes
with a renaming of the elements (`OnlyMapped`), which takes slots to their events.

*The argument.* `Inv` says of the queue that slots are in one place and that who waits holds an
event (`QueueOK`), of the game thread that what it handles is in front
(`FrontIsCurrent`). Two parts are not about the queue: `Stated`, since the handler of a
profile makes a player state, which only attached clients may have, and the slots
remember that the profile's sender was attached; and `Answers`, since `TypeOK` bounds
the announcements a client has to answer, which follows only by counting them against
rounds, the round in progress and the client's own start. Every step of the
specification then posts, erases, releases or leaves the queue alone; one lemma for each
of these four (`PostKeeps`, `EraseKeeps`, `ReleaseKeepsQueue`, `QueueSame`) carries the
queue's part, and each action has a lemma of its own. For the refinement the
pending events are those of `ready`, without the front while it is being handled: a
post appends, an erasure forgets (`OnlyMapped` and `OnlyTail`), and `Release` ends the
event that `Retreive` began because of `FrontIsCurrent`.

### EntityServer

`EntityServerProofs` is checked for every set of ids and of players, finite or not, for
one kind of items or two, and for any number of rounds (`MaxRounds` is a guard), under
`NoneAssumption`, `OwnersAssumption`, `ItemsAssumption` and `BoundsAssumption`.

| Theorem | Establishes |
|---|---|
| `RegistryTyped` | with `QuietClear`, `Spec => []TypeOK` |
| `RegistryVerified` | with `QuietClear`, `Spec => []VerifyEntities`: `xrServer::verify_entities` never fails, not even inside an operation |
| `IteratorsHit` | with `QuietClear`, `Spec => []IteratorHits`: the iterator kept across `OnDetach` points to the bag |
| `NothingAsserts` | with `QuietClear`, `Spec => []AssertionsHold`: no `R_ASSERT` of transfer, reject and destroy fails; `SLS_Clear` leaves nothing |
| `OneGunOnly` | with `QuietClear`, `Spec => []OneGun` |
| `BodiesAreEmptied` | with `QuietClear`, `Spec => []BodiesLeaveTheirItems` |
| `IdsOutliveNothing` | with `QuietClear`, `Spec => []BareIdsAreLive` |
| `CalmRegistry` | without any hypothesis, all seven as long as `Calm`: until the first `SLS_Clear` begins |

`QuietClear` says that no packet is handled while `SLS_Clear` runs. It has to be assumed:
without it the run `entities_clear` shows an assertion failing (a finding). `CalmRegistry`
says how far one gets without it.

*The argument.* The inductive invariant is `Inv == Course /\ (Calm => Core)`; `Course`
is the little that holds of the rounds in any case. `Core` speaks of
parents and hardly of lists: `Tree` says that the lists of children are the
inverse of `ID_Parent`, each child once and a bag first, and `Order` that there are only
three levels: items in bags or on actors, bags on actors, bodies on the ground, one gun
to an actor, and everything but bodies owned by the server. Each operation on the tree is a
lemma about both, for any registry (`HandKeeps`, `LooseKeeps`, `TransferKeeps`,
`RemoveKeeps`, `SpawnKeeps`, `BuriedKeeps`), and only there do sequences appear
(`WithoutFirst`, `Appended`, `WithoutLast`, and `FilterProofs` for what `OnDetach` moves).

None of the properties is inductive. The bag is first among the children only because
nothing is put on an actor before its bag: a respawning actor has neither bag nor item and
the server's client does not know its object yet (`Jobs`: it is not in `valid`), so no
packet can give it anything. Whoever is alive and not respawning therefore has a bag (`Bags`), it
loses it only by dying, and then `OnDetach` moves or drops whatever else the actor
holds (`Moving`: its children are exactly the bag, what is still to be moved, and what is to be
dropped). So a body without bag is empty, may be destroyed without entering a child that a player could own,
and `Process_event_destroy` is never deeper than a bag and one of its items (`Destroyed`).
A bag that is being emptied is a root and stays one (`Emptying`), for nothing but
`MoveFromBag` runs under the lock. While `SLS_Clear` runs, what it has entered are roots (`Cleared`). That
it finds a root while anything is left is again `Order`: from any entity a root is
two steps away (`CoreRooted`). Corpses and what may be removed are bodies
that the server owns, so they are nobody's avatar (`Types`, `Avatars`), and destroying
one leaves every avatar alone.

### Connection

`ConnectionProofs` is checked for every set of clients and every mode of the server,
and for any number of secrets and round changes (their bounds are guards; the proof
takes from `LimitsAssumption` only that the counters' ranges are of numbers), under
`ModesAssumption`, `LimitsAssumption` and `NoClientAssumption`.

| Theorem | Establishes |
|---|---|
| `TypeCorrect` | `Spec => []TypeOK` |
| `KeysAlwaysAgree` | without `EarlySecrets`, `Spec => []KeysAgree`: both ends read every secret message of the other |
| `AdmittedWereChecked` | with `AuthCheck`, `Spec => []OnlyTheAdmitted`: checked, not refused, with a player state unless the event that makes it was lost |
| `HandledIsFront` | `Spec => []DelayedIsFront`: the packet being handled is the one that will be popped |

Each mode is assumed by the theorem that needs it and by no other (the findings say what
happens otherwise): without `AuthCheck` the server asks for no version, and does
not wait for the player state, before it accepts.

*The argument.* The inductive invariant is
`Inv == Types /\ Marks /\ Inside /\ \A c \in Clients : Good(c)`. What keeps the keys
together is that the server renews a key only when the handshake has nothing else under
way (or, without a version check, sends the first two at once, before any secret).
`Shape` says so in full, as a table of what can be on its way in both directions for
each pair of keys, and every
step of the handshake moves from one row to another (`ShapeTaken`, `ShapeHeard` and the lemmas
after them). Refusals, configurations and secrets, which come in between, are filtered
out of the table with `Only` and have conditions of their own. The server uses a key
only once it is acknowledged; whenever it is behind its last seed an acknowledgement, or
a key the client has yet to hear, comes before anything encrypted (`Vouch`). For the admission the channels and
the event queue have to be followed together: no refusal is behind an acceptance, and
who asks for the game's data has heard none (`Results`); the request comes before
"ready" (`Serve`); which event of a client may wait in the queue at which stage, at most one of
each kind (`Posts`); and what the server did before each renewal of the key
(`Admit`). The player state follows from the queue only as long as no event of it is lost; so
that clause is conditional, for each client, on its own state event (`StateLost`), and what a step
leaves of the queue is stated under the same condition (`EventsKept`), which `EventLost` and `ReleaseKeeps` show
of a round change and of `Release`. A client that has not connected has nothing anywhere (`Blank`). The parts
about queues are built of four predicates (one is there, at most one, none behind,
one before), with a lemma each for what appending, taking from the front and erasing do to
them (`Appended`, `Taken`, `KeptByOnly`, the last on `FilterProofs`). Since an action is about
one client, `Assemble` says once what it must leave alone to keep `Good` for all others.

### Crypt

The end of `ConnectionProofs` is about the cipher of those secrets, for bytes and words of any
width, keys of any lengths, and messages of any length, under `WidthsAssumption`,
`LengthsAssumption` and `XorAssumption` (`MaxBuffer` bounds the messages of the
model; the proof only uses that it is a number).

| Theorem | Establishes |
|---|---|
| `CryptTypes` | `CryptSpec => []CryptTypeOK`: the buffer keeps its length, nothing is written outside its bytes, the checksum stays within a word |
| `SecretsComeBack` | `CryptSpec => []RoundTrip`: what is decrypted is what was encrypted, and both ends compute the same checksum |

*The argument.* `RoundTrip` says nothing before the message is read, so `CryptInv` adds that
the buffer in between is what the loop makes of the message (`Ciphered`). The
rest is about the loop. It exists as a function (`LoopsExist`), and the two
directions go in lockstep (`Lockstep`, by induction over the words): at each word their
checksums are the same, the decrypting loop has restored the bytes the buffer has of it, and, if another
word follows, both feed the same word back. The last condition holds since only the
last word can lack bytes (`Places`, which says where each byte of a buffer is). In a
word that lacks some, the decrypting loop gets bytes of the key where the
message has none; they are not copied, and `Masked` keeps them out of the checksum (`MaskedIs`).

### Scheduler

`SchedulerProofs` is checked for every set of objects and every set of intervals,
and for any number of requests and entries (the bounds are guards that no step of
the proof uses), under `NullAssumption` and `IntervalsAssumption`.

| Theorem | Establishes |
|---|---|
| `OneEntry` | `Spec => []OneEntryEach`: types, and no object in two lists or twice in one |
| `LivePointers` | `Spec => []PointersAreLive`: whoever is registered, or may still be looked at, exists |
| `SchedulerImplementsRoll` | `Spec => ImplementsRoll`: refinement of `RollCall` |

*The argument.* The lists alone prove nothing, since a request may wait that the
lists do not know of. The inductive invariant therefore ties the requests about an
object to its place: between two requests to register there is one to unregister
(`Alternates`); the first request about a listed object takes it off, and names the
list it is in (`FirstFits`); without a request the object's own flag names it
(`FlagFits`); no object is in two places (`Entries`); who is registered exists
(`Alive`); what a pass may look at has no request (`PassClean`), and whom it has called is behind it
(`Behind`). The refinement then is one fact per action: `Registered` of every
object is what the roll says before and after. `internal_Registration` is the
hardest step: erasing a pair of requests keeps the last request of every object,
and so the answer of `Registered` (`PairDone`, `FirstRequestDone`, `PairKeeps`), and
registration from the head of the list agrees with it (`EnterKeeps`, `LeaveKeeps`).
`LastExists` gives `LastRequest` its meaning.

### Engine

`EngineProofs` is checked for every set of objects, finite or
not, of monsters and of monsters without delay, under `MonstersAssumption` and
`NullAssumption`.

| Theorem | Establishes |
|---|---|
| `TurnsExclude` | `Spec => []OneAtATime`: the secondary thread works only in the parallel part, never beside the primary one's own turn at the tasks |
| `EngineImplementsFrames` | `Spec => ImplementsFrames`: refinement of `Frames` |
| `NoDelayNoneForgotten` | `Spec => [](\A o \in NoDelay : ~Forgotten(o))`: only the delay after a failure can leave a monster waiting for nothing |
| `EngineListsAreLive` | `Spec => []ListsAreLive`: every list names objects that exist, a crow is in one place of one thread's list, a task is put aside once |

*The argument of the frames.* `OneAtATime` needs to know who holds which critical section at
each position of both threads, and what the marker says there (`Gates`): that the
primary thread cannot be past `TakeEnter` while the secondary one is at work, and that a marker set in this
frame means the work is done by then. The refinement adds that the tasks are empty
when the work is done, since neither thread leaves before they are and nobody else adds any.

*The argument of the lists.* `ListsInv` adds three groups of facts to the gates.
`Families`: the living are finite (an invariant and no assumption, since only `g_sv_Spawn`
makes objects, one at a time; `remove_objects` puts them into a sequence, which counts them), the
queue holds exactly the doomed and each once, relatives exist and are doomed together, and
a parent comes before its children, so that the last in the queue is nobody's parent
when `Destroy` deletes it (`DestroyTakesLast`). `Crows`: whoever carries the number of a
frame is in one list, whom a thread is about to put in is in none, and what the
secondary thread left is taken over before anything is destroyed. The last holds
in a pause too, only because `Unpause` makes the frame take over what it finds (`Ticking`, `TakenOver`).
`Aside`: a task is put aside at most once in a frame, searches because their
object waits for them, sounds because their object has been updated in this frame;
tasks of a deleted object are gone with it, and nobody puts one aside for an object that waits to be deleted.

### What is only model-checked

*Out of the prover's reach.* Liveness under fairness and `ENABLED`. Every safety
invariant and every refinement that the passing runs check is a theorem.

## 7. What is not modelled, and why

*In the modelled components.* Phantoms and the respawn queue (GE_RESPAWN, no item
of a deathmatch has a respawn time), GE_TRANSFER_AMMO, artefacts, the ALife branch
of `Process_event_destroy`, money, teams, warm-up, anomalies, bots. What the
checks of the handshake compare (they are choices), demo play, the download of a
map, the host's own client in the handshake; remote commands among the delayed
packets, and their order relative to connection requests. Generation of keys. The
upload of the server's logo and rules, transfers from disk, the names and the
saving of files, the rate control and the limit of 32 receivers; the race between
the destructor of a collector and its thread. Corruption of a container by a data
race (the interleavings of its operations are modelled, the broken container is
not); wrap-around of the millisecond clock; reissue of a stale id (`Quarantine`
makes it late, the hazards name where it would hurt). Of the scheduler `EnsureOrder`,
which nobody calls, and the time handed to an object; of the frame the loading events,
precaching, the functions of `seqFrameMT` and `seqFrame`; of the object list the
callbacks of `relcase`, look-up by id and a `net_Spawn` that fails; of the path search what it
computes, and stalkers.

*Hazards without a property.* Each is listed in `PROJECT.json` with its reason. The
order of `csMessage` and `csPlayers` (`Level_network.cpp:298`) would need the call graph
of everything that sends from inside an iteration over the clients, of which the models see
only what they call.

*Components not modelled.* The pool of disconnected clients (`xrClientsPool.cpp`): a
reconnection brings back a client whose entities and waiting events are modelled
elsewhere, so it belongs into `Connection` and `ServerEvents` together, whose
product is beyond a run. Packets in flight (`NET_Common.cpp`): the models take
DirectPlay with its buffers for a channel, FIFO and guaranteed where the code asks for that.
Votes, other game types, weapons and the inventory: mostly rules of the game, over
the registry modelled here. ALife: its part in the ids is an action of `IdGenerator`;
its switching is a client of the same registry. Shared strings: one lock around each
operation. Sound emitters: a state machine of one thread, with times and volumes.

*Left aside.* Physics, collision, particles: numerical code over reals. Artificial
intelligence: planners and searches over level data with little protocol.
Renderers: output, on which nothing depends. Accounts and GameSpy: callbacks of a
third party service. User interface, editors, plug-ins, tools and imported
libraries: not the running game, or not this code.

The share of the repository's lines that is modelled is small, since nearly all
of them are SDKs, third party libraries, their data, renderers, editors and tools.

## 8. Plan

Done: IdPool, IdGenerator with proofs; EventLog, GameEventQueue, ServerEvents with
proofs; EntityServer with proofs; Connection and Crypt with proofs; UpdatesCompressor with proofs; FileTransfer with proofs;
RollCall and Scheduler with proofs; Frames and Engine with proofs. Left, in this order:

1. **ClientsPool**: reconnection within `g_sv_Client_Reconnect_Time`, expiry, deletion,
   and the owners the registry still holds.
2. **PacketStream** (`NET_Common`, `NET_Client`): multipackets as a FIFO, the pool of
   received packets; abstract specification a sequence of packets.
3. **Voting**, and the round phases of `game_sv_mp`.
4. **SwitchManager** (ALife online / offline), on top of IdPool.
5. **ClientMirror**: the ownership tree a client builds from the broadcasts of
   EntityServer; an abstract forest of owners that both implement.

The runs stay few, one for each question: a module added later takes the place of
a run that another one has come to include.
