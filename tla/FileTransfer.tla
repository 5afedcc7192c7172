---------------------------- MODULE FileTransfer ----------------------------
(***************************************************************************)
(* Screenshots and configuration dumps.  An administrator asks for one; the *)
(* server asks the player; the player's game collects it and uploads it in  *)
(* chunks; the server's proxy stores the chunks and relays them, as they    *)
(* come, to the administrator.                                              *)
(*                                                                          *)
(*   administrator -- command --> server -- request --> player              *)
(*   player -- data, abort --> server -- response, data, abort --> admin    *)
(*   the receiver of data answers with a reject when it does not want it    *)
(*                                                                          *)
(* All messages are guaranteed, so each direction is a FIFO; the server     *)
(* handles them on its game thread (delayed packets).  Messages carry the   *)
(* player a file comes from, but nothing that tells one transfer of a       *)
(* player from the next.                                                    *)
(*   source: xrGame/file_transfer.cpp, filetransfer_node.cpp,               *)
(*   filereceiver_node.cpp, screenshot_server.cpp, game_cl_mp.cpp,          *)
(*   xrServer.cpp                                                           *)
(***************************************************************************)
EXTENDS Integers, Sequences, FiniteSets, FiniteSetsExt, Functions

CONSTANTS
    Admins, Cheaters,  \* the clients that ask, and the players asked about
    Proxies,           \* m_screenshot_proxies: 1 .. their number
    FileSize,          \* every collected file has this many parts
    GarbageSizes,      \* what the first bytes of a chunk may say as a size
    MaxRequests,       \* bound on the administrators' commands
    MaxInFlight,       \* bound on the messages to or from a client
    NoClient

Kinds   == {"screenshot", "config"}
Clients == Admins \cup Cheaters
Server  == NoClient

ASSUME RolesAssumption == Admins \cap Cheaters = {} /\ NoClient \notin Clients
ASSUME ProxiesAssumption == Proxies \subseteq Nat /\ IsFiniteSet(Proxies)
ASSUME SizesAssumption == FileSize \in Nat \ {0} /\ GarbageSizes \subseteq Nat
ASSUME LimitsAssumption == {MaxRequests, MaxInFlight} \subseteq Nat

VARIABLES
    present,     \* clients the server knows
    stopped,     \* clients whose game has stopped (no file_transfer any more)
    toServer, toClient,
    made,        \* made[f]: whose file f is, and of which kind
    collecting,  \* collecting[c]: kinds under way (ss_manager, cd_manager)
    memory,      \* memory[c]: the file in upload_memory_writer, or 0
    upload,      \* upload[c]: parts sent of m_transfering, or Idle
    proxy,       \* m_admin_id, m_chearer_id, m_first_receive, my_proxy_mem_file
    downloads,   \* server_site::m_receivers, by player
    relays,      \* server_site::m_transfers, by administrator and player
    receivers,   \* client_site::m_receivers of the administrators
    torn,        \* history: receivers that completed, without excuse, what is no whole file
    gaveUp,      \* history: downloads and receivers that have timed out
    requests

network == <<present, stopped, toServer, toClient>>
player  == <<made, collecting, memory, upload>>
server  == <<proxy, downloads, relays>>
vars == <<network, player, server, receivers, torn, gaveUp, requests>>

Idle  == -1
Unset == -1      \* m_data_size_to_receive before the first chunk

Init == /\ present = Clients /\ stopped = {}
        /\ toServer = [x \in Clients |-> <<>>]
        /\ toClient = [x \in Clients |-> <<>>]
        /\ made = <<>>
        /\ collecting = [c \in Cheaters |-> {}]
        /\ memory = [c \in Cheaters |-> 0]
        /\ upload = [c \in Cheaters |-> Idle]
        /\ proxy = [p \in Proxies |-> [admin |-> NoClient, cheater |-> NoClient,
                                       first |-> FALSE, content |-> <<>>]]
        /\ downloads = <<>> /\ relays = <<>> /\ receivers = <<>>
        /\ torn = {} /\ gaveUp = {}
        /\ requests = 0

-----------------------------------------------------------------------------
(* Files and chunks.  A part stands for some bytes, more than a header has. *)
Parts(f, i, j) == [n \in 1 .. j - i |-> [file |-> f, part |-> i + n]]
Whole(c, k, data) ==
    \E f \in DOMAIN made : /\ made[f] = [who |-> c, kind |-> k]
                           /\ data = Parts(f, 0, FileSize)

(* A receiver completes.  What has given up earlier excuses it.             *)
Judge(at, c, k, data) ==
    torn' = IF Whole(c, k, data) \/ {<<at, c>>, <<Server, c>>} \cap gaveUp # {} THEN torn
            ELSE torn \cup {<<at, c>>}

(* The first chunk of a transfer begins with the size of the whole. *)
NoHeader   == 0
HeaderPart == [file |-> 0, part |-> 0]
Data(c, first, size, parts) ==
    [type |-> "data", who |-> c, size |-> IF first THEN size ELSE NoHeader, parts |-> parts]
Note(t, c)     == [type |-> t, who |-> c]
Ask(t, c, k)   == [type |-> t, who |-> c, kind |-> k]

(* filereceiver_node::receive_packet with what has been written so far and  *)
(* the size expected.  The first chunk is taken to begin with a header: of  *)
(* one that does not, eight bytes become the size, if there are as many.    *)
Result(total, data, heard) ==
    [total |-> total, data |-> data, heard |-> heard, done |-> heard /\ Len(data) = total]
receive_packet(total, data, m) ==
    IF data # <<>>
    THEN {Result(total, data \o (IF m.size = NoHeader THEN <<>> ELSE <<HeaderPart>>)
                             \o m.parts, TRUE)}
    ELSE IF m.size # NoHeader
    THEN {Result(m.size, m.parts, TRUE)}
    ELSE (IF m.parts = <<>> THEN {} ELSE {Result(t, m.parts, TRUE) : t \in GarbageSizes})
         \cup (IF Len(m.parts) < 2 THEN {Result(0, <<>>, FALSE)} ELSE {})

(* filereceiver_node::is_complete: the size is not initialized before the   *)
(* first chunk, so anything may come of the comparison.                     *)
MayBeComplete(total, data) == IF total = Unset THEN BOOLEAN ELSE {Len(data) = total}

With(f, k, v) == [x \in DOMAIN f \cup {k} |-> IF x = k THEN v ELSE f[x]]
Without(f, k) == Restrict(f, DOMAIN f \ {k})
Put(x, m) == [toClient EXCEPT ![x] = IF x \in present THEN Append(@, m) ELSE @]
Room(channel, x) == Len(channel[x]) < MaxInFlight

-----------------------------------------------------------------------------
(* The server: clientdata_proxy and server_site *)

(* Slip: a proxy that only relays is taken for free. *)
OnlyDownloads(p) == proxy[p].cheater \in DOMAIN downloads
is_active(p) == \/ proxy[p].cheater \in DOMAIN downloads
                \/ <<proxy[p].admin, proxy[p].cheater>> \in DOMAIN relays

ServerHears(x, t) == /\ toServer[x] # <<>>
                     /\ Head(toServer[x]).type = t
                     /\ toServer' = [toServer EXCEPT ![x] = Tail(@)]
                     /\ UNCHANGED <<present, stopped, player, receivers, gaveUp, requests>>

(* make_screenshot, make_config_dump *)
MakeData(p, a, c, k) ==
    IF c \notin present \/ c \in DOMAIN downloads
    THEN /\ proxy' = [proxy EXCEPT ![p].admin = a, ![p].cheater = c]
         /\ UNCHANGED <<downloads, toClient>>
    ELSE /\ proxy' = [proxy EXCEPT ![p] = [admin |-> a, cheater |-> c, first |-> TRUE,
                                           content |-> <<>>]]
         /\ downloads' = With(downloads, c, [proxy |-> p, kind |-> k, total |-> Unset,
                                            heard |-> TRUE])
         /\ toClient' = Put(c, Ask("request", c, k))

(* MakeScreenshot, MakeConfigDump: the first proxy that is not active *)
HandleCommand(a) ==
    LET m    == Head(toServer[a])
        free == {p \in Proxies : ~ is_active(p)}
    IN  /\ ServerHears(a, "command")
        /\ IF free = {} THEN UNCHANGED <<proxy, downloads, toClient>>
           ELSE MakeData(Min(free), a, m.who, m.kind)
        /\ UNCHANGED <<relays, torn>>

(* The callback of a download: the first chunk starts the relay, if there   *)
(* is none for the two.  Slip: the relay is as long as what there is.       *)
RelayOf(key, p, max) == relays' = IF key \in DOMAIN relays THEN relays
                                  ELSE With(relays, key, [proxy |-> p, max |-> max, pos |-> 0])
StartShortRelay(key, p, total) == RelayOf(key, p, Len(proxy'[p].content))
StartRelay(key, p, total) == RelayOf(key, p, total)

ReceiveData(c) ==
    /\ ServerHears(c, "data")
    /\ IF c \notin DOMAIN downloads
       THEN /\ toClient' = Put(c, Note("reject", c))
            /\ UNCHANGED <<server, torn>>
       ELSE LET d == downloads[c]
                p == d.proxy
                a == proxy[p].admin
            IN \E r \in receive_packet(d.total, proxy[p].content, Head(toServer[c])) :
                  /\ proxy' = [proxy EXCEPT ![p].content = r.data, ![p].first = FALSE]
                  /\ IF proxy[p].first
                     THEN /\ toClient' = Put(a, Ask("response", c, d.kind))
                          /\ StartRelay(<<a, c>>, p, r.total)
                     ELSE UNCHANGED <<toClient, relays>>
                  /\ IF r.done
                     THEN /\ downloads' = Without(downloads, c)
                          /\ Judge(Server, c, d.kind, r.data)
                     ELSE /\ downloads' = [downloads EXCEPT ![c] =
                                 [@ EXCEPT !.total = r.total, !.heard = @ \/ r.heard]]
                          /\ UNCHANGED torn

(* server_site::stop_receive_file *)
StopDownload(c) ==
    \E complete \in MayBeComplete(downloads[c].total, proxy[downloads[c].proxy].content) :
        /\ downloads' = Without(downloads, c)
        /\ toClient' = IF complete THEN toClient ELSE Put(c, Note("reject", c))

ReceiveAbort(c) ==
    /\ ServerHears(c, "abort")
    /\ IF c \in DOMAIN downloads THEN StopDownload(c) ELSE UNCHANGED <<downloads, toClient>>
    /\ UNCHANGED <<proxy, relays, torn>>

(* stop_obsolete_receivers: nothing heard for MAX_FT_WAIT_TIME, or          *)
(* MAX_START_WAIT_TIME before the first chunk.  Slip: only the former.      *)
ObsoleteOnceStarted(r) == ~ r.heard /\ r.total # Unset
Obsolete(r) == ~ r.heard
DownloadTimesOut(c) ==
    /\ c \in DOMAIN downloads /\ Obsolete(downloads[c])
    /\ StopDownload(c)
    /\ gaveUp' = gaveUp \cup {<<Server, c>>}
    /\ UNCHANGED <<present, stopped, toServer, player, proxy, relays, receivers, torn,
                   requests>>

(* on_message(receive_rejected) and stop_transfer_file *)
ReceiveReject(a) ==
    LET key == <<a, Head(toServer[a]).who>>
    IN  /\ ServerHears(a, "reject")
        /\ IF key \in DOMAIN relays
           THEN /\ relays' = Without(relays, key)
                /\ toClient' = IF relays[key].pos = relays[key].max THEN toClient
                               ELSE Put(a, Note("abort", key[2]))
           ELSE UNCHANGED <<relays, toClient>>
        /\ UNCHANGED <<proxy, downloads, torn>>

(* How much of what is left a chunk takes: nothing for a relay that has     *)
(* caught up with its download.                                             *)
ChunkSizes(left) == IF left = 0 THEN {0} ELSE 1 .. left

(* update_transfer for one session. *)
UpdateRelay(a, c) ==
    LET key  == <<a, c>>
        r    == relays[key]
        left == Len(proxy[r.proxy].content) - r.pos
    IN  /\ key \in DOMAIN relays
        /\ IF a \notin present
           THEN relays' = Without(relays, key) /\ UNCHANGED toClient
           ELSE /\ r.pos # r.max
                /\ Room(toClient, a)
                /\ \E n \in ChunkSizes(left) :
                      /\ toClient' = Put(a, Data(c, r.pos = 0, r.max,
                                   SubSeq(proxy[r.proxy].content, r.pos + 1, r.pos + n)))
                      /\ relays' = IF r.pos + n = r.max THEN Without(relays, key)
                                   ELSE [relays EXCEPT ![key].pos = @ + n]
        /\ UNCHANGED <<present, stopped, toServer, player, proxy, downloads, receivers,
                       torn, gaveUp, requests>>

-----------------------------------------------------------------------------
(* The player *)

Runs(x) == x \in present \ stopped
Hears(x, t) == /\ Runs(x)
               /\ toClient[x] # <<>>
               /\ Head(toClient[x]).type = t
               /\ Room(toServer, x)
               /\ toClient' = [toClient EXCEPT ![x] = Tail(@)]
               /\ UNCHANGED <<present, stopped, server, gaveUp, requests>>
Send(x, m) == toServer' = [toServer EXCEPT ![x] = Append(@, m)]

(* ss_manager.make_screenshot, cd_manager.dump_config: one of a kind *)
HearRequest(c) ==
    /\ Hears(c, "request")
    /\ collecting' = [collecting EXCEPT ![c] = @ \cup {Head(toClient[c]).kind}]
    /\ UNCHANGED <<toServer, made, memory, upload, receivers, torn>>

(* SendCollectedData: the memory is written before start_transfer_file      *)
(* finds out whether a transfer from it is active.                          *)
Collected(c, k) ==
    /\ Runs(c) /\ k \in collecting[c]
    /\ collecting' = [collecting EXCEPT ![c] = @ \ {k}]
    /\ made' = Append(made, [who |-> c, kind |-> k])
    /\ memory' = [memory EXCEPT ![c] = Len(made')]
    /\ upload' = [upload EXCEPT ![c] = IF @ = Idle THEN 0 ELSE @]
    /\ UNCHANGED <<network, server, receivers, torn, gaveUp, requests>>

(* client_site::update_transfer.  Slip: a complete upload is not stopped.   *)
GoesOn(next)   == next
Uploaded(next) == IF next = FileSize THEN Idle ELSE next
UpdateUpload(c) ==
    /\ Runs(c) /\ upload[c] # Idle
    /\ Room(toServer, c)
    /\ \E next \in upload[c] + 1 .. FileSize :
          /\ Send(c, Data(c, upload[c] = 0, FileSize, Parts(memory[c], upload[c], next)))
          /\ upload' = [upload EXCEPT ![c] = Uploaded(next)]
    /\ UNCHANGED <<present, stopped, toClient, made, collecting, memory, server, receivers,
                   torn, gaveUp, requests>>

HearReject(c) ==
    /\ Hears(c, "reject")
    /\ IF upload[c] = Idle THEN UNCHANGED <<toServer, upload>>
       ELSE /\ upload' = [upload EXCEPT ![c] = Idle]
            /\ Send(c, Note("abort", c))
    /\ UNCHANGED <<made, collecting, memory, receivers, torn>>

-----------------------------------------------------------------------------
(* The administrator *)

(* The kinds are alike: the first command may as well ask for a screenshot. *)
Request(a, c, k) ==
    /\ Runs(a) /\ requests < MaxRequests /\ Room(toServer, a)
    /\ requests = 0 => k = "screenshot"
    /\ Send(a, Ask("command", c, k))
    /\ requests' = requests + 1
    /\ UNCHANGED <<present, stopped, toClient, player, server, receivers, torn, gaveUp>>

(* PrepareToReceiveFile *)
HearResponse(a) ==
    LET m   == Head(toClient[a])
        key == <<a, m.who>>
    IN  /\ Hears(a, "response")
        /\ receivers' = IF key \in DOMAIN receivers THEN receivers
                        ELSE With(receivers, key, [kind |-> m.kind, total |-> Unset,
                                                   data |-> <<>>, heard |-> TRUE])
        /\ UNCHANGED <<toServer, player, torn>>

HearData(a) ==
    LET m   == Head(toClient[a])
        key == <<a, m.who>>
    IN  /\ Hears(a, "data")
        /\ IF key \notin DOMAIN receivers
           THEN /\ Send(a, Note("reject", m.who))
                /\ UNCHANGED <<receivers, torn>>
           ELSE LET v == receivers[key]
                IN \E r \in receive_packet(v.total, v.data, m) :
                      IF r.done
                      THEN /\ receivers' = Without(receivers, key)
                           /\ Judge(a, m.who, v.kind, r.data)
                           /\ UNCHANGED toServer
                      ELSE /\ receivers' = [receivers EXCEPT ![key] =
                                 [kind |-> v.kind, total |-> r.total, data |-> r.data,
                                  heard |-> v.heard \/ r.heard]]
                           /\ UNCHANGED <<toServer, torn>>
        /\ UNCHANGED player

(* client_site::stop_receive_file *)
StopReceiver(key) ==
    /\ receivers' = Without(receivers, key)
    /\ \E complete \in MayBeComplete(receivers[key].total, receivers[key].data) :
          IF complete THEN UNCHANGED toServer ELSE Send(key[1], Note("reject", key[2]))

HearAbort(a) ==
    LET key == <<a, Head(toClient[a]).who>>
    IN  /\ Hears(a, "abort")
        /\ IF key \in DOMAIN receivers THEN StopReceiver(key)
           ELSE UNCHANGED <<receivers, toServer>>
        /\ UNCHANGED <<player, torn>>

ReceiverTimesOut(a, c) ==
    /\ Runs(a) /\ Room(toServer, a)
    /\ <<a, c>> \in DOMAIN receivers /\ Obsolete(receivers[<<a, c>>])
    /\ StopReceiver(<<a, c>>)
    /\ gaveUp' = gaveUp \cup {<<a, c>>}
    /\ UNCHANGED <<present, stopped, toClient, player, server, torn, requests>>

-----------------------------------------------------------------------------
(* Time and clients *)

(* So much time passes without a chunk that the next look at the receiver   *)
(* finds it obsolete.                                                       *)
DownloadQuiet(c) ==
    /\ c \in DOMAIN downloads /\ downloads[c].heard
    /\ downloads' = [downloads EXCEPT ![c].heard = FALSE]
    /\ UNCHANGED <<network, player, proxy, relays, receivers, torn, gaveUp, requests>>
ReceiverQuiet(a, c) ==
    /\ <<a, c>> \in DOMAIN receivers /\ receivers[<<a, c>>].heard
    /\ receivers' = [receivers EXCEPT ![<<a, c>>].heard = FALSE]
    /\ UNCHANGED <<network, player, server, torn, gaveUp, requests>>

(* CLevel::net_Stop deletes the client_site, whose destructor stops the     *)
(* upload of a player.                                                      *)
StopGame(c) ==
    /\ Runs(c) /\ Room(toServer, c)
    /\ stopped' = stopped \cup {c}
    /\ IF upload[c] = Idle THEN UNCHANGED toServer ELSE Send(c, Note("abort", c))
    /\ upload' = [upload EXCEPT ![c] = Idle]
    /\ collecting' = [collecting EXCEPT ![c] = {}]
    /\ UNCHANGED <<present, toClient, made, memory, server, receivers, torn, gaveUp, requests>>

(* The connection ends; client_Destroy purges the client's packets. *)
Leave(x) ==
    /\ x \in present
    /\ present' = present \ {x}
    /\ toServer' = [toServer EXCEPT ![x] = <<>>]
    /\ toClient' = [toClient EXCEPT ![x] = <<>>]
    /\ receivers' = Restrict(receivers, {k \in DOMAIN receivers : k[1] # x})
    /\ upload' = [c \in Cheaters |-> IF c = x THEN Idle ELSE upload[c]]
    /\ collecting' = [c \in Cheaters |-> IF c = x THEN {} ELSE collecting[c]]
    /\ UNCHANGED <<stopped, made, memory, server, torn, gaveUp, requests>>

-----------------------------------------------------------------------------
OnMessage == \/ \E a \in Admins : HandleCommand(a) \/ ReceiveReject(a)
             \/ \E c \in Cheaters : ReceiveData(c) \/ ReceiveAbort(c)
PlayerStep(c) == \/ HearRequest(c) \/ HearReject(c) \/ UpdateUpload(c)
                 \/ \E k \in Kinds : Collected(c, k)
AdminStep(a) == HearResponse(a) \/ HearData(a) \/ HearAbort(a)

Next == \/ OnMessage
        \/ \E c \in Cheaters : \/ PlayerStep(c) \/ DownloadQuiet(c) \/ DownloadTimesOut(c)
                               \/ StopGame(c)
        \/ \E a \in Admins : \/ AdminStep(a)
                             \/ \E c \in Cheaters : \/ UpdateRelay(a, c) \/ ReceiverQuiet(a, c)
                                                    \/ ReceiverTimesOut(a, c)
                                                    \/ \E k \in Kinds : Request(a, c, k)
        \/ \E x \in Clients : Leave(x)

Spec == Init /\ [][Next]_vars

(* The main loops of all games run and handle what has arrived, every       *)
(* collection finishes, and what is not heard from becomes obsolete.        *)
Fairness ==
    /\ WF_vars(OnMessage)
    /\ \A c \in Cheaters : /\ WF_vars(PlayerStep(c))
                           /\ WF_vars(DownloadQuiet(c) \/ DownloadTimesOut(c))
                           /\ WF_vars(c \in stopped /\ Leave(c))
    /\ \A a \in Admins : /\ WF_vars(AdminStep(a))
                         /\ \A c \in Cheaters :
                               /\ WF_vars(UpdateRelay(a, c))
                               /\ WF_vars(ReceiverQuiet(a, c) \/ ReceiverTimesOut(a, c))
FairSpec == Spec /\ Fairness

-----------------------------------------------------------------------------
Part     == [file : Nat, part : 0 .. FileSize]
Notes(t) == [type : t, who : Cheaters]
Asks(t)  == [type : t, who : Cheaters, kind : Kinds]
Chunks   == [type : {"data"}, who : Cheaters, size : Int, parts : Seq(Part)]

NetworkOK ==
    /\ present \subseteq Clients /\ stopped \subseteq Cheaters
    /\ toServer \in [Clients -> Seq(Chunks \cup Notes({"abort", "reject"})
                                           \cup Asks({"command"}))]
    /\ toClient \in [Clients -> Seq(Chunks \cup Notes({"abort", "reject"})
                                           \cup Asks({"request", "response"}))]
PlayerOK ==
    /\ made \in Seq([who : Cheaters, kind : Kinds])
    /\ collecting \in [Cheaters -> SUBSET Kinds]
    /\ memory \in [Cheaters -> 0 .. Len(made)]
    /\ upload \in [Cheaters -> {Idle} \cup 0 .. FileSize - 1]
    /\ \A c \in Cheaters : upload[c] # Idle => memory[c] # 0
ProxyOK ==
    proxy \in [Proxies -> [admin : Admins \cup {NoClient}, cheater : Cheaters \cup {NoClient},
                           first : BOOLEAN, content : Seq(Part)]]
SessionsOK ==
    /\ DOMAIN downloads \subseteq Cheaters
    /\ downloads \in [DOMAIN downloads -> [proxy : Proxies, kind : Kinds, total : Int,
                                           heard : BOOLEAN]]
    /\ DOMAIN relays \subseteq Admins \X Cheaters
    /\ relays \in [DOMAIN relays -> [proxy : Proxies, max : Int, pos : Nat]]
ReceiversOK ==
    /\ DOMAIN receivers \subseteq Admins \X Cheaters
    /\ receivers \in [DOMAIN receivers -> [kind : Kinds, total : Int, data : Seq(Part),
                                           heard : BOOLEAN]]
TypeOK == NetworkOK /\ PlayerOK /\ ProxyOK /\ SessionsOK /\ ReceiversOK

(* Every file that a receiver took for complete, at the server or at the    *)
(* administrator, is one collected file of that player and of the kind      *)
(* asked for, however requests, chunks, aborts and departures interleave,   *)
(* unless that receiver or the download has once given up waiting: messages *)
(* do not say which transfer they belong to (see Judge).                    *)
FilesAreWhole == torn = {}

(* A relay never reads past what its proxy holds, so that the unsigned      *)
(* difference "elapsed" of memory_writer_reader does not wrap: no proxy is  *)
(* given to another request while its buffer is being relayed.              *)
RelaysStayInBuffer ==
    \A k \in DOMAIN relays : relays[k].pos <= Len(proxy[relays[k].proxy].content)

(* A player is not blocked for good by an old download.                     *)
DownloadsEnd == \A c \in Cheaters : c \in DOMAIN downloads ~> c \notin DOMAIN downloads

(* The download of a relay has ended before all of it came, or the relay    *)
(* was started by a chunk too short for a header, and is one of no bytes.   *)
Starved(key) ==
    /\ key \in DOMAIN relays
    /\ \/ relays[key].max # Len(proxy[relays[key].proxy].content)
       \/ relays[key].max = 0
    /\ \A c \in DOMAIN downloads : downloads[c].proxy # relays[key].proxy

(* A relay and its receiver end, whoever leaves, rejects or is silent,      *)
(* unless the download ends without being complete: then the relay goes on  *)
(* sending chunks without data, which keep the receiver alive.              *)
RelaysEnd ==
    \A k \in Admins \X Cheaters :
        k \in DOMAIN relays \cup DOMAIN receivers ~>
            k \notin DOMAIN relays \cup DOMAIN receivers \/ Starved(k)

(* Neither half of a transfer goes on for ever.                             *)
TransfersEnd == DownloadsEnd /\ RelaysEnd
=============================================================================
