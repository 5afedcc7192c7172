----------------------------- MODULE Connection -----------------------------
(***************************************************************************)
(* How a remote player gets into the game: the messages of the handshake,  *)
(* the key both ends use for secret messages, and the packets the server   *)
(* puts off to its game thread.                                            *)
(*                                                                          *)
(*   create -> [key, challenge] -> player state, auth -> [key, digest?]     *)
(*          -> digest -> [key, result] -> request -> [config] -> ready      *)
(*                                                                          *)
(* Messages in brackets are the server's.  All are guaranteed, so each      *)
(* direction is a FIFO.  Three threads take part: the network thread, which *)
(* handles a packet at a time under csMessage; the server's game thread,    *)
(* which handles delayed events and delayed packets; the client.            *)
(*                                                                          *)
(* The queue of delayed events is a sequence here, of the events of the     *)
(* handshake only; its slots are left to ServerEvents.  Release, which pops *)
(* the event at the front after each handler, is part of the handler, and a *)
(* step of its own where the handler's event is no longer at the front.     *)
(* The host's own client, whose messages are calls, is left out.            *)
(*   source: xrGame/xrServer_CL_connect.cpp, xrServer_Connect.cpp,          *)
(*   xrServer_secure_messaging.cpp, Level_secure_messaging.cpp,             *)
(*   xrServer.cpp, game_sv_base.cpp, Level_network.cpp                      *)
(***************************************************************************)
EXTENDS Filter, FiniteSets

CONSTANTS
    Clients,
    CDKeyServer,     \* a key service has to validate clients first
    AuthCheck,       \* not g_SV_Disable_Auth_Check (sv_no_auth_check)
    EarlySecrets,    \* administrators pick players still in the handshake
    MaxSecrets,      \* bound on the secret messages of the server
    MaxRoundEnds,    \* bound on the round changes, which erase all events
    NoClient

ASSUME ModesAssumption == {CDKeyServer, AuthCheck, EarlySecrets} \subseteq BOOLEAN
ASSUME LimitsAssumption == {MaxSecrets, MaxRoundEnds} \subseteq Nat
ASSUME NoClientAssumption == NoClient \notin Clients

VARIABLES
    conn,         \* conn[c]: the server's view of the connection
    lastSeed,     \* lastSeed[c]: m_last_key_sync_request_seed
    svKey,        \* svKey[c]: m_secret_key of the server for c
    hasState,     \* clients with a player state (ps)
    accepted,     \* net_Accepted
    ready,        \* net_Ready
    toClient, toServer,          \* messages on their way
    events,       \* delayed events of the handshake
    delayed,      \* m_aDelayedPackets: senders of connection requests
    handling,     \* the client whose delayed packet is being handled
    releasing,    \* the event being handled was erased, Release is to come
    validating,   \* clients the key service has not answered for
    client,       \* client[c]: what the client knows (see Fresh)
    passed,       \* history: clients whose version was right
    identified,   \* history: clients whose digest was not banned
    refused,      \* history: clients that were sent a refusal
    dropped,      \* history: clients whose request was popped unhandled
    lost,         \* history: events popped or erased unhandled
    failed,       \* debug assertions (VERIFY) that have failed
    fault,        \* what ended the server, or "none"
    secrets, roundEnds

serverVars  == <<conn, lastSeed, svKey, hasState, accepted, ready>>
channels    == <<toClient, toServer>>
gameThread  == <<events, delayed, handling, releasing, validating>>
history     == <<passed, identified, refused, dropped, lost>>
bounds      == <<secrets, roundEnds>>
vars == <<serverVars, channels, gameThread, client, history, failed, fault, bounds>>

-----------------------------------------------------------------------------
(* Keys.  generate_key derives a key from a seed, and seeds are fresh: the  *)
(* n-th seed and its key are the number n.  Neither end initializes its     *)
(* key, so nothing is readable before the first agreement.                  *)
Uninitialized == 0
Reads(key, m) == key # Uninitialized /\ m.key = key

Plain(t)     == [type |-> t, key |-> Uninitialized]
KeySync(s)   == [type |-> "sync", key |-> s]
Secret(t, k) == [type |-> t, key |-> k]

(* What a client sends through SecureSend, and the server through           *)
(* SecureSendTo (a kill, a request for a screenshot).                       *)
SecretToServer == {"state", "auth", "digest"}

ToClientTypes == {"sync", "challenge", "askdigest", "accept", "refuse", "config", "secret"}
ToServerTypes == SecretToServer \cup {"ack", "request", "ready"}
EventKinds    == {"create", "state", "auth"}
Event(k, c)   == [kind |-> k, who |-> c]

(* A client that has just connected: m_bConnectResultReceived,              *)
(* m_bConnectResult, sended_request_connection_data, game_configured and    *)
(* whether M_CLIENTREADY was sent.                                          *)
Fresh == [key |-> Uninitialized, received |-> FALSE, ok |-> TRUE,
          asked |-> FALSE, configured |-> FALSE, announced |-> FALSE]

Init == /\ conn = [c \in Clients |-> "out"]
        /\ lastSeed = [c \in Clients |-> Uninitialized]
        /\ svKey = [c \in Clients |-> Uninitialized]
        /\ hasState = {} /\ accepted = {} /\ ready = {}
        /\ toClient = [c \in Clients |-> <<>>]
        /\ toServer = [c \in Clients |-> <<>>]
        /\ events = <<>> /\ delayed = <<>>
        /\ handling = NoClient
        /\ releasing = FALSE
        /\ validating = {}
        /\ client = [c \in Clients |-> Fresh]
        /\ passed = {} /\ identified = {} /\ refused = {} /\ dropped = {}
        /\ lost = {}
        /\ failed = {}
        /\ fault = "none"
        /\ secrets = 0 /\ roundEnds = 0

Alive == fault = "none"
Listed(c) == conn[c] = "in"

(* The server renews the key n times and sends msgs to c. *)
Tell(c, n, msgs) == /\ lastSeed' = [lastSeed EXCEPT ![c] = @ + n]
                    /\ toClient' = [toClient EXCEPT ![c] = @ \o msgs]

(* SendConnectResult(0): refused and disconnected. *)
Refuse(c) == /\ Tell(c, 0, <<Plain("refuse")>>)
             /\ refused' = refused \cup {c}

NextKey(c, n) == KeySync(lastSeed[c] + n)

(* RequestClientDigest.  Slips: the client is accepted at once, as the      *)
(* host's own client is; the key is renewed twice.                          *)
AcceptAtOnce(c) == Tell(c, 1, <<NextKey(c, 1), Plain("accept")>>)
RenewTwice(c) == Tell(c, 2, <<NextKey(c, 1), NextKey(c, 2), Plain("askdigest")>>)
RequestClientDigest(c) == Tell(c, 1, <<NextKey(c, 1), Plain("askdigest")>>)

(* Check_GameSpy_CDKey_Success: NeedToCheckClient_BuildVersion renews the   *)
(* key even if no check is wanted, RequestClientDigest follows at once then.*)
(* Slip: the challenge is not sent.                                         *)
OnlyRenewKey(c) == Tell(c, 1, <<NextKey(c, 1)>>)
CheckBuildVersion(c) ==
    IF AuthCheck THEN Tell(c, 1, <<NextKey(c, 1), Plain("challenge")>>)
    ELSE Tell(c, 2, <<NextKey(c, 1), NextKey(c, 2), Plain("askdigest")>>)

-----------------------------------------------------------------------------
(* The network threads. *)

(* new_client lists the client and posts GAME_EVENT_CREATE_CLIENT. *)
Join(c) == /\ Alive
           /\ conn[c] = "out"
           /\ conn' = [conn EXCEPT ![c] = "in"]
           /\ events' = Append(events, Event("create", c))
           /\ UNCHANGED <<lastSeed, svKey, hasState, accepted, ready, channels, delayed,
                          handling, releasing, validating, client, history, failed,
                          fault, bounds>>

(* The next packet of c, taken under csMessage. *)
Packet(c) == Head(toServer[c])
Receive(c, types) == /\ Alive
                     /\ Listed(c)
                     /\ toServer[c] # <<>>
                     /\ Packet(c).type \in types
                     /\ toServer' = [toServer EXCEPT ![c] = Tail(@)]

(* PerformSecretKeysSyncAck generates the key of the server's last seed;    *)
(* that it is the client's seed is asserted only.                           *)
(* Slip: only the first key counts.                                         *)
KeyOfFirstAck(c) == IF svKey[c] = Uninitialized THEN lastSeed[c] ELSE svKey[c]
KeyOfAck(c) == lastSeed[c]
ReceiveAck(c) ==
    /\ Receive(c, {"ack"})
    /\ svKey' = [svKey EXCEPT ![c] = KeyOfAck(c)]
    /\ failed' = IF Packet(c).key = lastSeed[c] THEN failed ELSE failed \cup {"seed"}
    /\ UNCHANGED <<conn, lastSeed, hasState, accepted, ready, toClient, gameThread,
                   client, history, fault, bounds>>

(* OnSecureMessage drops what it cannot read. *)
Decrypted(c) == Reads(svKey[c], Packet(c))
OnSecureMessage(c) ==
    failed' = IF Decrypted(c) THEN failed ELSE failed \cup {"server checksum"}

(* M_CREATE_PLAYER_STATE and M_CL_AUTH become delayed events. *)
ReceiveEvent(c) ==
    /\ Receive(c, {"state", "auth"})
    /\ OnSecureMessage(c)
    /\ events' = IF Decrypted(c) THEN Append(events, Event(Packet(c).type, c))
                                 ELSE events
    /\ UNCHANGED <<serverVars, toClient, delayed, handling, releasing, validating,
                   client, history, fault, bounds>>

(* ProcessClientDigest, on the network thread: a banned client is refused,   *)
(* any other one accepted, after another renewal of the key.                *)
ProcessClientDigest(c) ==
    \/ /\ Refuse(c)
       /\ UNCHANGED identified
    \/ /\ Tell(c, 1, <<NextKey(c, 1), Plain("accept")>>)
       /\ identified' = identified \cup {c}
       /\ UNCHANGED refused
ReceiveDigest(c) ==
    /\ Receive(c, {"digest"})
    /\ OnSecureMessage(c)
    /\ IF Decrypted(c) THEN ProcessClientDigest(c)
       ELSE UNCHANGED <<lastSeed, toClient, identified, refused>>
    /\ UNCHANGED <<conn, svKey, hasState, accepted, ready, gameThread, client,
                   passed, dropped, lost, fault, bounds>>

(* M_CLIENT_REQUEST_CONNECTION_DATA: AddDelayedPacket.                      *)
(* Slips: the packet is put in front; a second one is not kept.             *)
AddFirst(c) == delayed' = <<c>> \o delayed
AddOne(c) == delayed' = IF delayed = <<>> THEN <<c>> ELSE delayed
AddDelayedPacket(c) == delayed' = Append(delayed, c)
ReceiveRequest(c) ==
    /\ Receive(c, {"request"})
    /\ AddDelayedPacket(c)
    /\ UNCHANGED <<serverVars, toClient, events, handling, releasing, validating,
                   client, history, failed, fault, bounds>>

(* M_CLIENTREADY: OnPlayerConnectFinished uses the player state unchecked. *)
ReceiveReady(c) ==
    /\ Receive(c, {"ready"})
    /\ IF c \in hasState THEN ready' = ready \cup {c} /\ UNCHANGED fault
                         ELSE fault' = "null player state" /\ UNCHANGED ready
    /\ UNCHANGED <<conn, lastSeed, svKey, hasState, accepted, toClient, gameThread,
                   client, history, failed, bounds>>

(* DPN_MSGID_DESTROY_PLAYER, not under csMessage: the client is taken off   *)
(* the list (the key service forgets it) ...                                *)
Leave(c) == /\ Alive
            /\ Listed(c)
            /\ conn' = [conn EXCEPT ![c] = "erased"]
            /\ toClient' = [toClient EXCEPT ![c] = <<>>]
            /\ toServer' = [toServer EXCEPT ![c] = <<>>]
            /\ validating' = validating \ {c}
            /\ UNCHANGED <<lastSeed, svKey, hasState, accepted, ready, events, delayed,
                           handling, releasing, client, history, failed, fault, bounds>>

Idle == Alive /\ handling = NoClient /\ ~ releasing

(* ... and then client_Destroy erases its delayed packets, without their    *)
(* lock, and the hits on its entity: one that is being handled is erased    *)
(* under its handler.                                                       *)
Purge(c) == /\ Alive
            /\ conn[c] = "erased"
            /\ conn' = [conn EXCEPT ![c] = "gone"]
            /\ delayed' = Only(delayed, Clients \ {c})
            /\ \/ UNCHANGED releasing
               \/ /\ Idle
                  /\ c \in ready
                  /\ releasing' = TRUE
            /\ UNCHANGED <<lastSeed, svKey, hasState, accepted, ready, channels, events,
                           handling, validating, client, history, failed, fault, bounds>>

-----------------------------------------------------------------------------
(* The game thread of the server. *)

Handle(k, c) == /\ Idle
                /\ events # <<>>
                /\ Head(events) = Event(k, c)

(* GAME_EVENT_CREATE_CLIENT: AttachNewClient, unless the client has left. *)
HandleCreate(c) ==
    /\ Handle("create", c)
    /\ events' = Tail(events)
    /\ validating' = IF Listed(c) /\ CDKeyServer THEN validating \cup {c} ELSE validating
    /\ IF Listed(c) /\ ~ CDKeyServer THEN CheckBuildVersion(c)
                                    ELSE UNCHANGED <<lastSeed, toClient>>
    /\ UNCHANGED <<conn, svKey, hasState, accepted, ready, toServer, delayed, handling,
                   releasing, client, history, failed, fault, bounds>>

(* OnCDKey_Validation, called back from xrGameSpyServer::Update. *)
KeyValidated(c) ==
    /\ Idle
    /\ c \in validating
    /\ validating' = validating \ {c}
    /\ \/ CheckBuildVersion(c) /\ UNCHANGED refused
       \/ Refuse(c)
    /\ UNCHANGED <<conn, svKey, hasState, accepted, ready, toServer, events, delayed,
                   handling, releasing, client, passed, identified, dropped, lost,
                   failed, fault, bounds>>

(* CleanDelayedEventFor(ClientID): all that c has posted, the event that is  *)
(* being handled included.  Slip: all that is waiting, as in OnRoundEnd.    *)
CleanAll(c) == events' = <<>>
CleanDelayedEventFor(c) == events' = Only(events, [kind : EventKinds, who : Clients \ {c}])

(* GAME_EVENT_CREATE_PLAYER_STATE; CheckNewPlayer may refuse the profile,   *)
(* which also erases what the client has posted.                            *)
HandleState(c) ==
    /\ Handle("state", c)
    /\ \/ /\ ~ Listed(c)
          /\ fault' = "client not found"
          /\ UNCHANGED <<hasState, lastSeed, toClient, refused, events, releasing>>
       \/ /\ Listed(c)
          /\ hasState' = hasState \cup {c}
          /\ events' = Tail(events)
          /\ UNCHANGED <<lastSeed, toClient, refused, releasing, fault>>
       \/ /\ Listed(c)
          /\ hasState' = hasState \cup {c}
          /\ CleanDelayedEventFor(c)
          /\ Refuse(c)
          /\ releasing' = TRUE
          /\ UNCHANGED fault
    /\ UNCHANGED <<conn, svKey, accepted, ready, toServer, delayed, handling, validating,
                   client, passed, identified, dropped, lost, failed, bounds>>

(* ProcessDelayedEvent calls Release after the handler whatever it did.  If  *)
(* the handler's event is gone, Release pops the next one, which nobody has *)
(* handled: an event of the handshake, or another event of the game, which  *)
(* changes nothing here.  It asserts that there is one.                     *)
Release ==
    /\ Alive
    /\ releasing
    /\ releasing' = FALSE
    /\ \/ UNCHANGED <<events, lost, fault>>
       \/ /\ events # <<>>
          /\ events' = Tail(events)
          /\ lost' = lost \cup {Head(events)}
          /\ UNCHANGED fault
       \/ /\ events = <<>>
          /\ fault' = "release"
          /\ UNCHANGED <<events, lost>>
    /\ UNCHANGED <<serverVars, channels, delayed, handling, validating, client, passed,
                   identified, refused, dropped, failed, bounds>>

(* GAME_EVENT_PLAYER_AUTH: OnBuildVersionRespond. *)
HandleAuth(c) ==
    /\ Handle("auth", c)
    /\ events' = Tail(events)
    /\ \/ /\ ~ Listed(c)
          /\ fault' = "null client"
          /\ UNCHANGED <<lastSeed, toClient, passed, refused>>
       \/ /\ Listed(c)
          /\ Refuse(c)
          /\ UNCHANGED <<passed, fault>>
       \/ /\ Listed(c)
          /\ RequestClientDigest(c)
          /\ passed' = passed \cup {c}
          /\ UNCHANGED <<refused, fault>>
    /\ UNCHANGED <<conn, svKey, hasState, accepted, ready, toServer, delayed, handling,
                   releasing, validating, client, identified, dropped, lost, failed,
                   bounds>>

(* OnRoundEnd and OnRoundStart erase every delayed event. *)
ChangeRound == /\ Idle
               /\ roundEnds < MaxRoundEnds
               /\ roundEnds' = roundEnds + 1
               /\ events' = <<>>
               /\ lost' = lost \cup {events[i] : i \in DOMAIN events}
               /\ UNCHANGED <<serverVars, channels, delayed, handling, releasing,
                              validating, client, passed, identified, refused, dropped,
                              failed, fault, secrets>>

(* ProceedDelayedPackets handles the packet at the front ...  The handler   *)
(* (OnCL_Connected) asserts the client, and that it has a player state.     *)
BeginDelayed(c) ==
    /\ Idle
    /\ delayed # <<>>
    /\ Head(delayed) = c
    /\ IF Listed(c)
       THEN /\ accepted' = accepted \cup {c}
            /\ Tell(c, 0, <<Plain("config")>>)
            /\ handling' = c
            /\ failed' = IF c \in hasState THEN failed ELSE failed \cup {"no player state"}
            /\ UNCHANGED fault
       ELSE /\ fault' = "no client"
            /\ UNCHANGED <<accepted, lastSeed, toClient, handling, failed>>
    /\ UNCHANGED <<conn, svKey, hasState, ready, toServer, events, delayed, releasing,
                   validating, client, history, bounds>>

(* ... and pops whatever is at the front by then. *)
EndDelayed ==
    /\ Alive
    /\ handling # NoClient
    /\ IF delayed = <<>>
       THEN fault' = "pop_front" /\ UNCHANGED <<delayed, dropped>>
       ELSE /\ dropped' = dropped \cup ({Head(delayed)} \ {handling})
            /\ delayed' = Tail(delayed)
            /\ UNCHANGED fault
    /\ handling' = NoClient
    /\ UNCHANGED <<serverVars, channels, events, releasing, validating, client, passed,
                   identified, refused, lost, failed, bounds>>

(* SecureSendTo: a kill, told to every client in the game; a request for a  *)
(* screenshot, to a player sv_listplayers has listed.                       *)
MayTell(c) == c \in hasState /\ (c \in ready \/ EarlySecrets)
SendSecret(c) == /\ Idle
                 /\ Listed(c)
                 /\ MayTell(c)
                 /\ secrets < MaxSecrets
                 /\ secrets' = secrets + 1
                 /\ Tell(c, 0, <<Secret("secret", svKey[c])>>)
                 /\ UNCHANGED <<conn, svKey, hasState, accepted, ready, toServer,
                                gameThread, client, history, failed, fault, roundEnds>>

-----------------------------------------------------------------------------
(* The client. *)

ClientRuns(c) == Alive /\ Listed(c)
News(c) == Head(toClient[c])
Hear(c, t) == /\ ClientRuns(c)
              /\ toClient[c] # <<>>
              /\ News(c).type = t
              /\ toClient' = [toClient EXCEPT ![c] = Tail(@)]
              /\ UNCHANGED <<serverVars, gameThread, history, fault, bounds>>

Send(c, msgs) == toServer' = [toServer EXCEPT ![c] = @ \o msgs]

(* OnSecureKeySync: the new key is used at once, then acknowledged.         *)
HearKey(c) == /\ Hear(c, "sync")
              /\ client' = [client EXCEPT ![c].key = News(c).key]
              /\ Send(c, <<[type |-> "ack", key |-> News(c).key]>>)
              /\ UNCHANGED failed

(* M_AUTH_CHALLENGE: ClientSendProfileData, then OnBuildVersionChallenge.   *)
HearChallenge(c) ==
    /\ Hear(c, "challenge")
    /\ Send(c, <<Secret("state", client[c].key), Secret("auth", client[c].key)>>)
    /\ UNCHANGED <<client, failed>>

(* M_SV_DIGEST *)
HearDigestRequest(c) == /\ Hear(c, "askdigest")
                        /\ Send(c, <<Secret("digest", client[c].key)>>)
                        /\ UNCHANGED <<client, failed>>

(* OnConnectResult: "multiple results can be sent during connection they    *)
(* should be AND-ed".  Slip: the last result counts.                        *)
ResultIsLast(ok, r) == r
ResultIsBoth(ok, r) == ok /\ r
HearResult(c) ==
    \E t \in {"accept", "refuse"} :
        /\ Hear(c, t)
        /\ client' = [client EXCEPT ![c].received = TRUE,
                                    ![c].ok = ResultIsBoth(@, t = "accept")]
        /\ UNCHANGED <<toServer, failed>>

(* M_SV_CONFIG_FINISHED *)
HearConfig(c) == /\ Hear(c, "config")
                 /\ client' = [client EXCEPT ![c].configured = TRUE]
                 /\ UNCHANGED <<toServer, failed>>

(* OnSecureMessage of the client. *)
HearSecret(c) == /\ Hear(c, "secret")
                 /\ failed' = IF Reads(client[c].key, News(c)) THEN failed
                              ELSE failed \cup {"client checksum"}
                 /\ UNCHANGED <<client, toServer>>

ClientStep(c) == /\ ClientRuns(c)
                 /\ UNCHANGED <<serverVars, toClient, gameThread, history, failed,
                                fault, bounds>>

(* Connect2Server gives up after ConnectionTimeOut. *)
TimeOut(c) == /\ ClientStep(c)
              /\ ~ client[c].received
              /\ client' = [client EXCEPT ![c].received = TRUE, ![c].ok = FALSE]
              /\ UNCHANGED toServer

(* synchronize_client, once the connection is accepted. *)
Request(c) == /\ ClientStep(c)
              /\ client[c].received /\ client[c].ok /\ ~ client[c].asked
              /\ client' = [client EXCEPT ![c].asked = TRUE]
              /\ Send(c, <<Plain("request")>>)

(* net_start5 *)
Announce(c) == /\ ClientStep(c)
               /\ client[c].configured /\ ~ client[c].announced
               /\ client' = [client EXCEPT ![c].announced = TRUE]
               /\ Send(c, <<Plain("ready")>>)

-----------------------------------------------------------------------------
OnMessage(c) == \/ ReceiveAck(c) \/ ReceiveEvent(c) \/ ReceiveDigest(c)
                \/ ReceiveRequest(c) \/ ReceiveReady(c)

Game(c) == \/ HandleCreate(c) \/ KeyValidated(c) \/ HandleState(c) \/ HandleAuth(c)
           \/ BeginDelayed(c)

Client(c) == \/ HearKey(c) \/ HearChallenge(c) \/ HearDigestRequest(c)
             \/ HearResult(c) \/ HearConfig(c) \/ HearSecret(c)
             \/ Request(c) \/ Announce(c)

Next == \/ \E c \in Clients : \/ Join(c) \/ OnMessage(c) \/ Leave(c) \/ Purge(c)
                              \/ Game(c) \/ Client(c)
                              \/ TimeOut(c) \/ SendSecret(c)
        \/ Release
        \/ EndDelayed
        \/ ChangeRound

Spec == Init /\ [][Next]_vars

(* Guaranteed messages arrive and are handled, both main loops run, the key *)
(* service answers, and the client is destroyed that was disconnected or    *)
(* has given up.  Nothing makes a client join or time out.                  *)
GaveUp(c) == c \in refused \/ (client[c].received /\ ~ client[c].ok)
Fairness == \A c \in Clients :
               /\ WF_vars(OnMessage(c) \/ Purge(c))
               /\ WF_vars(Game(c) \/ Release \/ EndDelayed)
               /\ WF_vars(Client(c))
               /\ WF_vars(GaveUp(c) /\ Leave(c))

FairSpec == Spec /\ Fairness

-----------------------------------------------------------------------------
Messages(types) == [type : types, key : 0 .. 3]

TypeOK == /\ conn \in [Clients -> {"out", "in", "erased", "gone"}]
          /\ {lastSeed, svKey} \subseteq [Clients -> 0 .. 3]
          /\ ready \subseteq hasState /\ hasState \subseteq Clients
          /\ \A c \in Clients :
                /\ \A i \in DOMAIN toClient[c] :
                      toClient[c][i] \in Messages(ToClientTypes)
                /\ \A i \in DOMAIN toServer[c] :
                      toServer[c][i] \in Messages(ToServerTypes)
          /\ \A i \in DOMAIN events : events[i] \in [kind : EventKinds, who : Clients]
          /\ \A i \in DOMAIN delayed : delayed[i] \in Clients
          /\ handling \in accepted \cup {NoClient}
          /\ releasing \in BOOLEAN
          /\ validating \subseteq {c \in Clients : Listed(c)}
          /\ client \in [Clients -> [key : 0 .. 3, received : BOOLEAN, ok : BOOLEAN,
                                     asked : BOOLEAN, configured : BOOLEAN,
                                     announced : BOOLEAN]]
          /\ accepted \cup passed \cup identified \cup refused \cup dropped \subseteq Clients
          /\ lost \subseteq [kind : EventKinds, who : Clients]
          /\ failed \subseteq {"seed", "server checksum", "client checksum",
                               "no player state"}
          /\ fault \in {"none", "client not found", "null client", "no client",
                        "null player state", "pop_front", "release"}
          /\ secrets \in 0 .. MaxSecrets
          /\ roundEnds \in 0 .. MaxRoundEnds

(* Each end reads every secret message of the other: whatever is under way  *)
(* was encrypted with the key its receiver has when it gets there, however  *)
(* the three renewals of the key overlap with the messages.                 *)
KeysAgree == failed \cap {"server checksum", "client checksum"} = {}

(* Nobody gets the game's data without having passed the version check and  *)
(* the ban list (the request itself is not checked against either).         *)
AcceptedWereChecked == accepted \subseteq passed \cap identified

(* Who was sent a refusal never gets into the game, although the rest of    *)
(* the handshake may go on for that client and end in an acceptance.        *)
RefusedStayOut == accepted \cap refused = {}

(* A client gets in without a player state (VERIFY2 of OnCL_Connected) only *)
(* if the event that makes the state was lost: to a round change, or to the *)
(* Release that follows a refused profile or an erased hit.                 *)
AcceptedHaveState ==
    \A c \in accepted : c \in hasState \/ Event("state", c) \in lost

(* Whoever gets in was checked in full, was not refused and can play, if     *)
(* the event of its player state was not lost.                              *)
OnlyTheAdmitted == AcceptedWereChecked /\ RefusedStayOut /\ AcceptedHaveState

(* While a delayed packet is handled it stays at the front, unless its      *)
(* sender's packets are purged meanwhile.                                   *)
DelayedIsFront ==
    handling # NoClient /\ conn[handling] # "gone" =>
        delayed # <<>> /\ Head(delayed) = handling

(* A client learns the result of its attempt without waiting for its         *)
(* timeout, or leaves, unless the event the server has to answer, its        *)
(* joining or its version, was lost to a round change or a Release that      *)
(* found another event at the front.                                        *)
AnswerLost(c) == \E k \in {"create", "auth"} : Event(k, c) \in lost
JoinIsAnswered ==
    \A c \in Clients :
        conn[c] = "in" ~>
            client[c].received \/ conn[c] # "in" \/ AnswerLost(c) \/ ~ Alive

(* A client that waits for its configuration (it has no timeout there) gets  *)
(* it, unless it leaves or its request was popped in place of the request   *)
(* of a client that left during its handling.                               *)
RequestIsAnswered ==
    \A c \in Clients :
        client[c].asked ~>
            client[c].configured \/ conn[c] # "in" \/ c \in dropped \/ ~ Alive

(* No client hangs in either half of the handshake.                         *)
NobodyHangs == JoinIsAnswered /\ RequestIsAnswered
=============================================================================
