------------------------- MODULE FileTransferProofs -------------------------
(***************************************************************************)
(* Proofs about FileTransfer, for all sets of clients and proxies and every *)
(* size of a file: its types, that a session and its proxy agree, that a    *)
(* relay stays inside its buffer, and that what a receiver takes for        *)
(* complete is a whole file of the player.                                  *)
(***************************************************************************)
EXTENDS FileTransfer, SequenceTheorems, WellFoundedInduction, TLAPS

ToServer == Chunks \cup Notes({"abort", "reject"}) \cup Asks({"command"})
ToClient == Chunks \cup Notes({"abort", "reject"}) \cup Asks({"request", "response"})

(* The proxy of a session is the one that holds its clients. *)
Owned ==
    /\ \A c \in DOMAIN downloads :
          /\ proxy[downloads[c].proxy].cheater = c
          /\ proxy[downloads[c].proxy].admin \in Admins
    /\ \A k \in DOMAIN relays :
          k = <<proxy[relays[k].proxy].admin, proxy[relays[k].proxy].cheater>>

IInv == TypeOK /\ Owned /\ RelaysStayInBuffer

-----------------------------------------------------------------------------
(* Numbers and sequences. *)
LEMMA MinIsMember ==
    ASSUME NEW S \in SUBSET Nat, S # {}
    PROVE  Min(S) \in S
<1>1. \E x \in S : \A y \in S : ~ (<<y, x>> \in OpToRel(<, Nat))
  BY NatLessThanWellFounded, WFMin
<1>2. \A x, y \in Nat : y < x => <<y, x>> \in OpToRel(<, Nat)
  BY DEF OpToRel
<1>3. \A x, y \in S : ~ (y < x) => x =< y
  OBVIOUS
<1>4. \E x \in S : \A y \in S : x =< y
  <2>1. PICK x \in S : \A y \in S : ~ (<<y, x>> \in OpToRel(<, Nat))
    BY <1>1
  <2>2. \A y \in S : ~ (y < x)
    BY <2>1, <1>2
  <2> QED BY <2>1, <2>2, <1>3
<1> QED BY <1>4 DEF Min

(* A stretch of a file is a sequence of parts. *)
LEMMA PartsType ==
    ASSUME NEW f \in Nat, NEW i \in 0 .. FileSize, NEW j \in i .. FileSize
    PROVE  Parts(f, i, j) \in Seq(Part)
<1>1. j - i \in Nat /\ i \in Nat /\ FileSize \in Nat
  BY SizesAssumption
<1>2. \A n \in 1 .. j - i : [file |-> f, part |-> i + n] \in Part
  BY <1>1 DEF Part
<1> QED BY <1>1, <1>2, IsASeq DEF Parts

LEMMA HeaderType == HeaderPart \in Part
  BY SizesAssumption DEF HeaderPart, Part

(* What receive_packet makes of a chunk: nothing that was there is lost.    *)
LEMMA ReceivePacketType ==
    ASSUME NEW total \in Int, NEW data \in Seq(Part), NEW m \in Chunks,
           NEW r \in receive_packet(total, data, m)
    PROVE  /\ r.total \in Int
           /\ r.data \in Seq(Part)
           /\ r.heard \in BOOLEAN
           /\ Len(data) <= Len(r.data)
<1>1. m.parts \in Seq(Part) /\ m.size \in Int
  BY DEF Chunks
<1>2. CASE data # <<>>
  <2> DEFINE h == IF m.size = NoHeader THEN <<>> ELSE <<HeaderPart>>
  <2>1. h \in Seq(Part)
    BY HeaderType
  <2>2. data \o h \in Seq(Part) /\ Len(data \o h) = Len(data) + Len(h)
    BY <2>1, ConcatProperties
  <2>3. /\ data \o h \o m.parts \in Seq(Part)
        /\ Len(data \o h \o m.parts) = Len(data) + Len(h) + Len(m.parts)
    BY <2>2, <1>1, ConcatProperties
  <2>4. Len(data) \in Nat /\ Len(h) \in Nat /\ Len(m.parts) \in Nat
    BY <2>1, <1>1, LenProperties
  <2>5. r = Result(total, data \o h \o m.parts, TRUE)
    BY <1>2 DEF receive_packet
  <2>6. r.total = total /\ r.data = data \o h \o m.parts /\ r.heard = TRUE
    BY <2>5 DEF Result
  <2> HIDE DEF h
  <2>7. \A x, y, z \in Nat : x <= x + y + z
    OBVIOUS
  <2>8. Len(data) <= Len(data) + Len(h) + Len(m.parts)
    BY <2>4, <2>7, Zenon
  <2> QED BY <1>1, <2>3, <2>6, <2>8, Zenon
<1>3. CASE data = <<>>
  <2>1. Len(data) = 0
    BY <1>3
  <2>2. PICK t \in Int, d \in {m.parts, <<>>}, b \in BOOLEAN : r = Result(t, d, b)
    <3>1. CASE m.size # NoHeader
      BY <1>3, <3>1, <1>1 DEF receive_packet
    <3>2. CASE m.size = NoHeader
      <4>1. \/ \E t \in GarbageSizes : r = Result(t, m.parts, TRUE)
            \/ r = Result(0, <<>>, FALSE)
        BY <1>3, <3>2 DEF receive_packet
      <4>2. GarbageSizes \subseteq Int /\ 0 \in Int /\ {TRUE, FALSE} \subseteq BOOLEAN
        BY SizesAssumption
      <4>3. CASE \E t \in GarbageSizes : r = Result(t, m.parts, TRUE)
        BY <4>2, <4>3
      <4>4. CASE r = Result(0, <<>>, FALSE)
        BY <4>2, <4>4
      <4> QED BY <4>1, <4>3, <4>4
    <3> QED BY <3>1, <3>2
  <2>3. r.total = t /\ r.data = d /\ r.heard = b
    BY <2>2 DEF Result
  <2>4. d \in Seq(Part) /\ Len(d) \in Nat
    BY <1>1, EmptySeq, LenProperties
  <2> QED BY <2>1, <2>3, <2>4
<1> QED BY <1>2, <1>3

-----------------------------------------------------------------------------
(* Channels: what is sent and what is left after a message is handled. *)
LEMMA SendType ==
    ASSUME NetworkOK, NEW x \in Clients, NEW m \in ToServer, Send(x, m)
    PROVE  toServer' \in [Clients -> Seq(ToServer)]
<1>1. toServer \in [Clients -> Seq(ToServer)]
  BY DEF NetworkOK, ToServer
<1>2. Append(toServer[x], m) \in Seq(ToServer)
  BY <1>1, AppendProperties
<1> QED BY <1>1, <1>2 DEF Send

LEMMA PutType ==
    ASSUME NetworkOK, NEW x \in Clients, NEW m \in ToClient
    PROVE  Put(x, m) \in [Clients -> Seq(ToClient)]
<1>1. toClient \in [Clients -> Seq(ToClient)]
  BY DEF NetworkOK, ToClient
<1>2. Append(toClient[x], m) \in Seq(ToClient)
  BY <1>1, AppendProperties
<1> QED BY <1>1, <1>2 DEF Put

LEMMA ServerHearsType ==
    ASSUME NetworkOK, NEW x \in Clients, NEW t, ServerHears(x, t)
    PROVE  /\ toServer' \in [Clients -> Seq(ToServer)]
           /\ Head(toServer[x]) \in ToServer
           /\ Head(toServer[x]).type = t
<1>1. toServer \in [Clients -> Seq(ToServer)]
  BY DEF NetworkOK, ToServer
<1>2. /\ toServer[x] # <<>> /\ Head(toServer[x]).type = t
      /\ toServer' = [toServer EXCEPT ![x] = Tail(@)]
  BY DEF ServerHears
<1>3. Head(toServer[x]) \in ToServer /\ Tail(toServer[x]) \in Seq(ToServer)
  BY <1>1, <1>2, HeadTailProperties
<1> QED BY <1>1, <1>2, <1>3

LEMMA HearsType ==
    ASSUME NetworkOK, NEW x \in Clients, NEW t, Hears(x, t)
    PROVE  /\ toClient' \in [Clients -> Seq(ToClient)]
           /\ Head(toClient[x]) \in ToClient
           /\ Head(toClient[x]).type = t
<1>1. toClient \in [Clients -> Seq(ToClient)]
  BY DEF NetworkOK, ToClient
<1>2. /\ toClient[x] # <<>> /\ Head(toClient[x]).type = t
      /\ toClient' = [toClient EXCEPT ![x] = Tail(@)]
  BY DEF Hears
<1>3. Head(toClient[x]) \in ToClient /\ Tail(toClient[x]) \in Seq(ToClient)
  BY <1>1, <1>2, HeadTailProperties
<1> QED BY <1>1, <1>2, <1>3

(* A message's sort tells its fields. *)
LEMMA MessageTypes ==
    ASSUME NEW m \in ToServer \cup ToClient
    PROVE  /\ m.who \in Cheaters
           /\ m.type = "data" => m \in Chunks
           /\ m.type \in {"command", "request", "response"} => m.kind \in Kinds
  BY DEF ToServer, ToClient, Chunks, Notes, Asks

LEMMA NoteType ==
    ASSUME NEW c \in Cheaters
    PROVE  /\ {Note("reject", c), Note("abort", c)} \subseteq ToServer \cap ToClient
           /\ \A k \in Kinds : /\ Ask("command", c, k) \in ToServer
                              /\ Ask("request", c, k) \in ToClient
                              /\ Ask("response", c, k) \in ToClient
  BY DEF Note, Ask, ToServer, ToClient, Notes, Asks

LEMMA DataType ==
    ASSUME NEW c \in Cheaters, NEW first \in BOOLEAN, NEW size \in Int,
           NEW parts \in Seq(Part)
    PROVE  Data(c, first, size, parts) \in ToServer \cap ToClient
<1>1. Data(c, first, size, parts) \in Chunks
  BY DEF Data, Chunks, NoHeader
<1> QED BY <1>1 DEF ToServer, ToClient

-----------------------------------------------------------------------------
(* The records of sessions and proxies. *)
Download == [proxy : Proxies, kind : Kinds, total : Int, heard : BOOLEAN]
Relay    == [proxy : Proxies, max : Int, pos : Nat]
Receiver == [kind : Kinds, total : Int, data : Seq(Part), heard : BOOLEAN]
ProxyRec == [admin : Admins \cup {NoClient}, cheater : Cheaters \cup {NoClient},
             first : BOOLEAN, content : Seq(Part)]

-----------------------------------------------------------------------------
(* The actions, one lemma each. *)

(* A proxy that is not active belongs to no session, so that a new request  *)
(* may empty it.                                                            *)
LEMMA FreeProxy ==
    ASSUME IInv, NEW p \in Proxies, ~ is_active(p)
    PROVE  /\ \A c \in DOMAIN downloads : downloads[c].proxy # p
           /\ \A k \in DOMAIN relays : relays[k].proxy # p
  BY DEF IInv, Owned, is_active

LEMMA MakeDataKeepsInv ==
    ASSUME IInv, NEW p \in Proxies, ~ is_active(p), NEW a \in Admins, NEW c \in Cheaters,
           NEW k \in Kinds, MakeData(p, a, c, k), relays' = relays
    PROVE  /\ toClient' \in [Clients -> Seq(ToClient)]
           /\ ProxyOK' /\ SessionsOK' /\ Owned' /\ RelaysStayInBuffer'
<1>1. /\ proxy \in [Proxies -> ProxyRec]
      /\ downloads \in [DOMAIN downloads -> Download] /\ DOMAIN downloads \subseteq Cheaters
      /\ relays \in [DOMAIN relays -> Relay] /\ DOMAIN relays \subseteq Admins \X Cheaters
      /\ toClient \in [Clients -> Seq(ToClient)]
      /\ NetworkOK
  BY DEF IInv, TypeOK, NetworkOK, ProxyOK, SessionsOK, ProxyRec, Download, Relay, ToClient
<1>2. /\ \A x \in DOMAIN downloads : downloads[x].proxy # p
      /\ \A x \in DOMAIN relays : relays[x].proxy # p
  BY FreeProxy
<1>3. CASE c \notin present \/ c \in DOMAIN downloads
  <2>1. /\ proxy' = [proxy EXCEPT ![p].admin = a, ![p].cheater = c]
        /\ downloads' = downloads /\ toClient' = toClient
    BY <1>3 DEF MakeData
  <2>2. proxy' \in [Proxies -> ProxyRec] /\ \A q \in Proxies \ {p} : proxy'[q] = proxy[q]
    BY <2>1, <1>1 DEF ProxyRec
  <2>3. ProxyOK' /\ SessionsOK'
    BY <2>1, <2>2, <1>1 DEF ProxyOK, SessionsOK, ProxyRec, Download, Relay
  <2>4. /\ \A x \in DOMAIN downloads : proxy'[downloads[x].proxy] = proxy[downloads[x].proxy]
        /\ \A x \in DOMAIN relays : proxy'[relays[x].proxy] = proxy[relays[x].proxy]
    BY <2>2, <1>2, <1>1 DEF Download, Relay
  <2>5. Owned' /\ RelaysStayInBuffer'
    <3>1. downloads' = downloads /\ relays' = relays
      BY <2>1
    <3> QED BY <3>1, <2>4 DEF IInv, Owned, RelaysStayInBuffer
  <2> QED BY <2>1, <2>3, <2>5, <1>1
<1>4. CASE ~ (c \notin present \/ c \in DOMAIN downloads)
  <2> DEFINE new == [proxy |-> p, kind |-> k, total |-> Unset, heard |-> TRUE]
  <2>1. /\ proxy' = [proxy EXCEPT ![p] = [admin |-> a, cheater |-> c, first |-> TRUE,
                                           content |-> <<>>]]
        /\ downloads' = With(downloads, c, new)
        /\ toClient' = Put(c, Ask("request", c, k))
    BY <1>4 DEF MakeData
  <2>2. /\ proxy' \in [Proxies -> ProxyRec]
        /\ \A q \in Proxies \ {p} : proxy'[q] = proxy[q]
        /\ proxy'[p].cheater = c /\ proxy'[p].admin = a
    BY <2>1, <1>1, EmptySeq DEF ProxyRec
  <2>3. new \in Download /\ new.proxy = p
    BY DEF Download, Unset
  <2> HIDE DEF new
  <2>4. /\ DOMAIN downloads' = DOMAIN downloads \cup {c}
        /\ downloads' \in [DOMAIN downloads' -> Download]
        /\ downloads'[c] = new
        /\ \A x \in DOMAIN downloads : x # c => downloads'[x] = downloads[x]
    BY <2>1, <2>3, <1>1 DEF With
  <2>5. ProxyOK' /\ SessionsOK'
    BY <2>2, <2>4, <1>1 DEF ProxyOK, SessionsOK, ProxyRec, Download, Relay
  <2>6. /\ \A x \in DOMAIN downloads : proxy'[downloads[x].proxy] = proxy[downloads[x].proxy]
        /\ \A x \in DOMAIN relays : proxy'[relays[x].proxy] = proxy[relays[x].proxy]
    BY <2>2, <1>2, <1>1 DEF Download, Relay
  <2>7. Owned' /\ RelaysStayInBuffer'
    <3>1. \A x \in DOMAIN downloads' : /\ proxy'[downloads'[x].proxy].cheater = x
                                      /\ proxy'[downloads'[x].proxy].admin \in Admins
      <4>1. ASSUME NEW x \in DOMAIN downloads, x # c
            PROVE  /\ proxy'[downloads'[x].proxy].cheater = x
                   /\ proxy'[downloads'[x].proxy].admin \in Admins
        BY <4>1, <2>4, <2>6 DEF IInv, Owned
      <4>2. proxy'[downloads'[c].proxy].cheater = c /\ proxy'[downloads'[c].proxy].admin \in Admins
        BY <2>2, <2>3, <2>4
      <4> QED BY <4>1, <4>2, <2>4
    <3>2. relays' = relays
      OBVIOUS
    <3> QED BY <3>1, <3>2, <2>6 DEF IInv, Owned, RelaysStayInBuffer
  <2>8. toClient' \in [Clients -> Seq(ToClient)]
    BY <2>1, <1>1, NoteType, PutType DEF Clients
  <2> QED BY <2>5, <2>7, <2>8
<1> QED BY <1>3, <1>4

LEMMA HandleCommandKeepsInv ==
    ASSUME IInv, NEW a \in Admins, HandleCommand(a)
    PROVE  IInv'
<1> DEFINE m    == Head(toServer[a])
           free == {p \in Proxies : ~ is_active(p)}
<1>1. ServerHears(a, "command") /\ relays' = relays
  BY DEF HandleCommand
<1>2. /\ toServer' \in [Clients -> Seq(ToServer)]
      /\ m.who \in Cheaters /\ m.kind \in Kinds
  BY <1>1, ServerHearsType, MessageTypes DEF IInv, TypeOK, Clients
<1>3. /\ present' = present /\ stopped' = stopped
      /\ PlayerOK' /\ ReceiversOK'
  BY <1>1 DEF IInv, TypeOK, PlayerOK, ReceiversOK, ServerHears, player
<1>4. CASE free = {}
  <2>1. proxy' = proxy /\ downloads' = downloads /\ toClient' = toClient
    BY <1>4 DEF HandleCommand
  <2> QED BY <2>1, <1>1, <1>2, <1>3 DEF IInv, TypeOK, NetworkOK, ProxyOK, SessionsOK, Owned,
                RelaysStayInBuffer, ToServer
<1>5. CASE free # {}
  <2>1. Min(free) \in free
    BY <1>5, MinIsMember, ProxiesAssumption
  <2>2. MakeData(Min(free), a, m.who, m.kind)
    BY <1>5 DEF HandleCommand
  <2>3. /\ toClient' \in [Clients -> Seq(ToClient)]
        /\ ProxyOK' /\ SessionsOK' /\ Owned' /\ RelaysStayInBuffer'
    BY <2>1, <2>2, <1>1, <1>2, MakeDataKeepsInv
  <2>4. NetworkOK'
    BY <2>3, <1>2, <1>3 DEF IInv, TypeOK, NetworkOK, ToServer, ToClient
  <2> QED BY <2>3, <2>4, <1>3 DEF IInv, TypeOK
<1> QED BY <1>4, <1>5

(* A download that ends leaves its proxy as it is: others may relay from it. *)
LEMMA DownloadEnds ==
    ASSUME IInv, NEW c \in Cheaters, downloads' = Without(downloads, c),
           proxy' = proxy, relays' = relays
    PROVE  ProxyOK' /\ SessionsOK' /\ Owned' /\ RelaysStayInBuffer'
<1>1. /\ DOMAIN downloads \subseteq Cheaters
      /\ downloads \in [DOMAIN downloads -> Download]
  BY DEF IInv, TypeOK, SessionsOK, Download
<1>2. /\ DOMAIN downloads' \subseteq DOMAIN downloads
      /\ downloads' \in [DOMAIN downloads' -> Download]
      /\ \A x \in DOMAIN downloads' : downloads'[x] = downloads[x]
  BY <1>1 DEF Without, Restrict
<1>3. ProxyOK' /\ SessionsOK'
  BY <1>1, <1>2 DEF IInv, TypeOK, ProxyOK, SessionsOK, Download
<1>4. Owned' /\ RelaysStayInBuffer'
  BY <1>2 DEF IInv, Owned, RelaysStayInBuffer
<1> QED BY <1>3, <1>4

LEMMA StopDownloadKeepsInv ==
    ASSUME IInv, NEW c \in Cheaters, StopDownload(c), proxy' = proxy, relays' = relays
    PROVE  /\ toClient' \in [Clients -> Seq(ToClient)]
           /\ ProxyOK' /\ SessionsOK' /\ Owned' /\ RelaysStayInBuffer'
<1>1. /\ downloads' = Without(downloads, c)
      /\ toClient' \in {toClient, Put(c, Note("reject", c))}
  BY DEF StopDownload
<1>2. NetworkOK /\ toClient \in [Clients -> Seq(ToClient)]
  BY DEF IInv, TypeOK, NetworkOK, ToClient
<1>3. Put(c, Note("reject", c)) \in [Clients -> Seq(ToClient)]
  BY <1>2, NoteType, PutType DEF Clients
<1> QED BY <1>1, <1>2, <1>3, DownloadEnds

LEMMA ReceiveAbortKeepsInv ==
    ASSUME IInv, NEW c \in Cheaters, ReceiveAbort(c)
    PROVE  IInv'
<1>1. ServerHears(c, "abort") /\ proxy' = proxy /\ relays' = relays
  BY DEF ReceiveAbort
<1>2. toServer' \in [Clients -> Seq(ToServer)]
  BY <1>1, ServerHearsType DEF IInv, TypeOK, Clients
<1>3. /\ present' = present /\ stopped' = stopped
      /\ PlayerOK' /\ ReceiversOK'
  BY <1>1 DEF IInv, TypeOK, PlayerOK, ReceiversOK, ServerHears, player
<1>4. CASE c \in DOMAIN downloads
  <2>1. /\ toClient' \in [Clients -> Seq(ToClient)]
        /\ ProxyOK' /\ SessionsOK' /\ Owned' /\ RelaysStayInBuffer'
    BY <1>1, <1>4, StopDownloadKeepsInv DEF ReceiveAbort
  <2>2. NetworkOK'
    BY <2>1, <1>2, <1>3 DEF IInv, TypeOK, NetworkOK, ToServer, ToClient
  <2> QED BY <2>1, <2>2, <1>3 DEF IInv, TypeOK
<1>5. CASE c \notin DOMAIN downloads
  <2>1. downloads' = downloads /\ toClient' = toClient
    BY <1>5 DEF ReceiveAbort
  <2> QED BY <2>1, <1>1, <1>2, <1>3 DEF IInv, TypeOK, NetworkOK, ProxyOK, SessionsOK, Owned,
                RelaysStayInBuffer, ToServer
<1> QED BY <1>4, <1>5

LEMMA DownloadTimesOutKeepsInv ==
    ASSUME IInv, NEW c \in Cheaters, DownloadTimesOut(c)
    PROVE  IInv'
<1>1. /\ StopDownload(c)
      /\ UNCHANGED <<present, stopped, toServer, player, proxy, relays, receivers>>
  BY DEF DownloadTimesOut
<1>2. /\ toClient' \in [Clients -> Seq(ToClient)]
      /\ ProxyOK' /\ SessionsOK' /\ Owned' /\ RelaysStayInBuffer'
  BY <1>1, StopDownloadKeepsInv
<1>3. NetworkOK' /\ PlayerOK' /\ ReceiversOK'
  BY <1>1, <1>2 DEF IInv, TypeOK, NetworkOK, PlayerOK, ReceiversOK, ToClient, player
<1> QED BY <1>2, <1>3 DEF IInv, TypeOK

LEMMA ReceiveRejectKeepsInv ==
    ASSUME IInv, NEW a \in Admins, ReceiveReject(a)
    PROVE  IInv'
<1> DEFINE m   == Head(toServer[a])
           key == <<a, m.who>>
<1>1. ServerHears(a, "reject") /\ proxy' = proxy /\ downloads' = downloads
  BY DEF ReceiveReject
<1>2. toServer' \in [Clients -> Seq(ToServer)] /\ m.who \in Cheaters
  BY <1>1, ServerHearsType, MessageTypes DEF IInv, TypeOK, Clients
<1>3. /\ present' = present /\ stopped' = stopped
      /\ PlayerOK' /\ ReceiversOK' /\ ProxyOK'
  BY <1>1 DEF IInv, TypeOK, PlayerOK, ReceiversOK, ProxyOK, ServerHears, player
<1>4. CASE key \in DOMAIN relays
  <2>1. /\ relays' = Without(relays, key)
        /\ toClient' \in {toClient, Put(a, Note("abort", m.who))}
    BY <1>4 DEF ReceiveReject
  <2>2. /\ DOMAIN relays \subseteq Admins \X Cheaters
        /\ relays \in [DOMAIN relays -> Relay]
        /\ NetworkOK /\ toClient \in [Clients -> Seq(ToClient)]
    BY DEF IInv, TypeOK, SessionsOK, NetworkOK, Relay, ToClient
  <2>3. /\ DOMAIN relays' \subseteq DOMAIN relays
        /\ relays' \in [DOMAIN relays' -> Relay]
        /\ \A x \in DOMAIN relays' : relays'[x] = relays[x]
    BY <2>1, <2>2 DEF Without, Restrict
  <2>4. Put(a, Note("abort", m.who)) \in [Clients -> Seq(ToClient)]
    BY <2>2, <1>2, NoteType, PutType DEF Clients
  <2>5. NetworkOK'
    BY <2>1, <2>2, <2>4, <1>2, <1>3 DEF NetworkOK, ToServer, ToClient
  <2>6. SessionsOK'
    BY <2>2, <2>3, <1>1 DEF IInv, TypeOK, SessionsOK, Relay
  <2>7. Owned' /\ RelaysStayInBuffer'
    BY <2>3, <1>1 DEF IInv, Owned, RelaysStayInBuffer
  <2> QED BY <2>5, <2>6, <2>7, <1>3 DEF IInv, TypeOK
<1>5. CASE key \notin DOMAIN relays
  <2>1. relays' = relays /\ toClient' = toClient
    BY <1>5 DEF ReceiveReject
  <2> QED BY <2>1, <1>1, <1>2, <1>3 DEF IInv, TypeOK, NetworkOK, SessionsOK, Owned,
                RelaysStayInBuffer, ToServer
<1> QED BY <1>4, <1>5

(* A chunk is read from what the proxy holds, and the relay moves past it.  *)
LEMMA UpdateRelayKeepsInv ==
    ASSUME IInv, NEW a \in Admins, NEW c \in Cheaters, UpdateRelay(a, c)
    PROVE  IInv'
<1> DEFINE key  == <<a, c>>
           r    == relays[key]
           held == proxy[r.proxy].content
           left == Len(held) - r.pos
<1>1. /\ key \in DOMAIN relays
      /\ UNCHANGED <<present, stopped, toServer, player, proxy, downloads, receivers>>
  BY DEF UpdateRelay
<1>2. /\ DOMAIN relays \subseteq Admins \X Cheaters
      /\ relays \in [DOMAIN relays -> Relay]
      /\ proxy \in [Proxies -> ProxyRec]
      /\ NetworkOK /\ toClient \in [Clients -> Seq(ToClient)]
  BY DEF IInv, TypeOK, SessionsOK, ProxyOK, NetworkOK, Relay, ProxyRec, ToClient
<1>3. /\ r.proxy \in Proxies /\ r.max \in Int /\ r.pos \in Nat
      /\ held \in Seq(Part) /\ Len(held) \in Nat /\ r.pos <= Len(held)
  BY <1>1, <1>2, LenProperties DEF Relay, ProxyRec, IInv, RelaysStayInBuffer
<1>4. PlayerOK' /\ ReceiversOK' /\ ProxyOK'
  BY <1>1 DEF IInv, TypeOK, PlayerOK, ReceiversOK, ProxyOK, player
<1>5. SUFFICES /\ toClient' \in [Clients -> Seq(ToClient)]
               /\ DOMAIN relays' \subseteq DOMAIN relays
               /\ relays' \in [DOMAIN relays' -> Relay]
               /\ \A k \in DOMAIN relays' : /\ relays'[k].proxy = relays[k].proxy
                                            /\ relays'[k].pos <=
                                                  Len(proxy[relays[k].proxy].content)
  <2>1. NetworkOK' /\ SessionsOK'
    BY <1>1, <1>2, <1>5 DEF IInv, TypeOK, NetworkOK, SessionsOK, ToClient, Relay
  <2>2. Owned' /\ RelaysStayInBuffer'
    BY <1>1, <1>5 DEF IInv, Owned, RelaysStayInBuffer
  <2> QED BY <2>1, <2>2, <1>4 DEF IInv, TypeOK
<1>6. ASSUME relays' = Without(relays, key)
      PROVE  /\ DOMAIN relays' \subseteq DOMAIN relays
             /\ relays' \in [DOMAIN relays' -> Relay]
             /\ \A k \in DOMAIN relays' : /\ relays'[k].proxy = relays[k].proxy
                                          /\ relays'[k].pos <=
                                                Len(proxy[relays[k].proxy].content)
  <2>1. /\ DOMAIN relays' \subseteq DOMAIN relays
        /\ relays' \in [DOMAIN relays' -> Relay]
        /\ \A k \in DOMAIN relays' : relays'[k] = relays[k]
    BY <1>6, <1>2 DEF Without, Restrict
  <2> QED BY <2>1 DEF IInv, RelaysStayInBuffer
<1>7. CASE a \notin present
  <2>1. relays' = Without(relays, key) /\ toClient' = toClient
    BY <1>7 DEF UpdateRelay
  <2> QED BY <2>1, <1>2, <1>6
<1>8. CASE a \in present
  <2>1. PICK n \in ChunkSizes(left) :
            /\ toClient' = Put(a, Data(c, r.pos = 0, r.max,
                                       SubSeq(held, r.pos + 1, r.pos + n)))
            /\ relays' = IF r.pos + n = r.max THEN Without(relays, key)
                         ELSE [relays EXCEPT ![key].pos = @ + n]
    BY <1>8 DEF UpdateRelay
  <2>2. n \in Nat /\ r.pos + n \in Nat /\ r.pos + n <= Len(held)
    BY <2>1, <1>3 DEF ChunkSizes
  <2>3. SubSeq(held, r.pos + 1, r.pos + n) \in Seq(Part)
    <3>1. \A i \in r.pos + 1 .. r.pos + n : held[i] \in Part
      <4>1. \A i \in r.pos + 1 .. r.pos + n : i \in 1 .. Len(held)
        BY <2>2, <1>3
      <4> QED BY <4>1, <1>3, ElementOfSeq
    <3>2. r.pos + 1 \in Int /\ r.pos + n \in Int
      BY <2>2, <1>3
    <3> QED BY <3>1, <3>2, SubSeqProperties
  <2>4. Data(c, r.pos = 0, r.max, SubSeq(held, r.pos + 1, r.pos + n)) \in ToClient
    BY <2>3, <1>3, DataType
  <2>5. toClient' \in [Clients -> Seq(ToClient)]
    BY <2>1, <2>4, <1>2, PutType DEF Clients
  <2>6. CASE r.pos + n = r.max
    BY <2>1, <2>5, <2>6, <1>6
  <2>7. CASE r.pos + n # r.max
    <3>1. relays' = [relays EXCEPT ![key].pos = @ + n]
      BY <2>1, <2>7
    <3>2. /\ DOMAIN relays' = DOMAIN relays
          /\ relays' \in [DOMAIN relays -> Relay]
          /\ relays'[key].proxy = r.proxy /\ relays'[key].pos = r.pos + n
          /\ \A k \in DOMAIN relays \ {key} : relays'[k] = relays[k]
      BY <3>1, <2>2, <1>1, <1>2, <1>3 DEF Relay
    <3>3. \A k \in DOMAIN relays : /\ relays'[k].proxy = relays[k].proxy
                                   /\ relays'[k].pos <= Len(proxy[relays[k].proxy].content)
      BY <3>2, <2>2 DEF IInv, RelaysStayInBuffer
    <3> QED BY <3>2, <3>3, <2>5
  <2> QED BY <2>6, <2>7
<1> QED BY <1>7, <1>8

(* A chunk of a download only ever adds to what its proxy holds, and the    *)
(* relay it may start is of the proxy's two clients.                        *)
LEMMA ReceiveDataKeepsInv ==
    ASSUME IInv, NEW c \in Cheaters, ReceiveData(c)
    PROVE  IInv'
<1> DEFINE m == Head(toServer[c])
<1>1. ServerHears(c, "data")
  BY DEF ReceiveData
<1>2. toServer' \in [Clients -> Seq(ToServer)] /\ m \in Chunks
  BY <1>1, ServerHearsType, MessageTypes DEF IInv, TypeOK, Clients
<1>3. /\ present' = present /\ stopped' = stopped
      /\ PlayerOK' /\ ReceiversOK'
  BY <1>1 DEF IInv, TypeOK, PlayerOK, ReceiversOK, ServerHears, player
<1>4. /\ DOMAIN downloads \subseteq Cheaters
      /\ downloads \in [DOMAIN downloads -> Download]
      /\ DOMAIN relays \subseteq Admins \X Cheaters
      /\ relays \in [DOMAIN relays -> Relay]
      /\ proxy \in [Proxies -> ProxyRec]
      /\ NetworkOK /\ toClient \in [Clients -> Seq(ToClient)]
  BY DEF IInv, TypeOK, SessionsOK, ProxyOK, NetworkOK, Download, Relay, ProxyRec, ToClient
<1>5. CASE c \notin DOMAIN downloads
  <2>1. toClient' = Put(c, Note("reject", c)) /\ UNCHANGED <<proxy, downloads, relays>>
    BY <1>5 DEF ReceiveData, server
  <2>2. toClient' \in [Clients -> Seq(ToClient)]
    BY <2>1, <1>4, NoteType, PutType DEF Clients
  <2>3. NetworkOK'
    BY <2>2, <1>2, <1>3, <1>4 DEF NetworkOK, ToServer, ToClient
  <2>4. ProxyOK' /\ SessionsOK' /\ Owned' /\ RelaysStayInBuffer'
    BY <2>1 DEF IInv, TypeOK, ProxyOK, SessionsOK, Owned, RelaysStayInBuffer
  <2> QED BY <2>3, <2>4, <1>3 DEF IInv, TypeOK
<1>6. CASE c \in DOMAIN downloads
  <2> DEFINE d   == downloads[c]
             p   == d.proxy
             a   == proxy[p].admin
             key == <<a, c>>
  <2>1. /\ p \in Proxies /\ d.kind \in Kinds /\ d.total \in Int
        /\ proxy[p].content \in Seq(Part)
        /\ proxy[p].cheater = c /\ a \in Admins
    BY <1>4, <1>6 DEF Download, ProxyRec, IInv, Owned
  <2>2. PICK r \in receive_packet(d.total, proxy[p].content, m) :
            /\ proxy' = [proxy EXCEPT ![p].content = r.data, ![p].first = FALSE]
            /\ IF proxy[p].first
               THEN /\ toClient' = Put(a, Ask("response", c, d.kind))
                    /\ StartRelay(key, p, r.total)
               ELSE UNCHANGED <<toClient, relays>>
            /\ IF r.done
               THEN downloads' = Without(downloads, c)
               ELSE downloads' = [downloads EXCEPT ![c] =
                          [@ EXCEPT !.total = r.total, !.heard = @ \/ r.heard]]
    BY <1>6, Zenon DEF ReceiveData
  <2>3. /\ r.total \in Int /\ r.data \in Seq(Part) /\ r.heard \in BOOLEAN
        /\ Len(proxy[p].content) <= Len(r.data)
    BY <2>1, <1>2, ReceivePacketType
  <2>4. /\ proxy' \in [Proxies -> ProxyRec]
        /\ proxy'[p].admin = a /\ proxy'[p].cheater = c /\ proxy'[p].content = r.data
        /\ \A q \in Proxies \ {p} : proxy'[q] = proxy[q]
    <3>1. proxy' = [proxy EXCEPT ![p].content = r.data, ![p].first = FALSE]
      BY <2>2
    <3> QED BY <3>1, <2>1, <2>3, <1>4 DEF ProxyRec
  <2>5. /\ toClient' \in [Clients -> Seq(ToClient)]
        /\ DOMAIN relays' \subseteq Admins \X Cheaters
        /\ relays' \in [DOMAIN relays' -> Relay]
        /\ \A k \in DOMAIN relays' :
              \/ k \in DOMAIN relays /\ relays'[k] = relays[k]
              \/ k = key /\ relays'[k].proxy = p /\ relays'[k].pos = 0
    <3>1. CASE proxy[p].first
      <4>1. toClient' = Put(a, Ask("response", c, d.kind)) /\ StartRelay(key, p, r.total)
        BY <3>1, <2>2
      <4>2. toClient' \in [Clients -> Seq(ToClient)]
        BY <4>1, <2>1, <1>4, NoteType, PutType DEF Clients
      <4>3. CASE key \in DOMAIN relays
        <5>1. relays' = relays
          BY <4>1, <4>3 DEF StartRelay, RelayOf
        <5> QED BY <5>1, <4>2, <1>4
      <4>4. CASE key \notin DOMAIN relays
        <5> DEFINE new == [proxy |-> p, max |-> r.total, pos |-> 0]
        <5>1. relays' = With(relays, key, new)
          BY <4>1, <4>4 DEF StartRelay, RelayOf
        <5>2. new \in Relay /\ new.proxy = p /\ new.pos = 0
          BY <2>1, <2>3 DEF Relay
        <5>3. key \in Admins \X Cheaters
          BY <2>1
        <5> HIDE DEF new, key
        <5>4. /\ DOMAIN relays' = DOMAIN relays \cup {key}
              /\ relays' \in [DOMAIN relays' -> Relay]
              /\ relays'[key] = new
              /\ \A k \in DOMAIN relays : k # key => relays'[k] = relays[k]
          BY <5>1, <5>2, <1>4 DEF With
        <5> QED BY <5>2, <5>3, <5>4, <4>2, <1>4
      <4> QED BY <4>3, <4>4
    <3>2. CASE ~ proxy[p].first
      <4>1. toClient' = toClient /\ relays' = relays
        BY <3>2, <2>2
      <4> QED BY <4>1, <1>4
    <3> QED BY <3>1, <3>2
  <2>6. /\ DOMAIN downloads' \subseteq DOMAIN downloads
        /\ downloads' \in [DOMAIN downloads' -> Download]
        /\ \A x \in DOMAIN downloads' : downloads'[x].proxy = downloads[x].proxy
    <3>1. CASE r.done
      <4>1. downloads' = Without(downloads, c)
        BY <3>1, <2>2
      <4> QED BY <4>1, <1>4 DEF Without, Restrict
    <3>2. CASE ~ r.done
      <4>1. downloads' = [downloads EXCEPT ![c] =
                              [@ EXCEPT !.total = r.total, !.heard = @ \/ r.heard]]
        BY <3>2, <2>2
      <4>2. (d.heard \/ r.heard) \in BOOLEAN
        OBVIOUS
      <4> QED BY <4>1, <4>2, <2>3, <1>4, <1>6 DEF Download
    <3> QED BY <3>1, <3>2
  <2>7. NetworkOK' /\ ProxyOK' /\ SessionsOK'
    BY <2>4, <2>5, <2>6, <1>2, <1>3, <1>4
    DEF NetworkOK, ProxyOK, SessionsOK, ToServer, ToClient, ProxyRec, Download, Relay
  <2>8. \A q \in Proxies : /\ proxy'[q].admin = proxy[q].admin
                           /\ proxy'[q].cheater = proxy[q].cheater
                           /\ Len(proxy[q].content) <= Len(proxy'[q].content)
    <3>1. ASSUME NEW q \in Proxies \ {p}
          PROVE  Len(proxy[q].content) <= Len(proxy[q].content)
      BY <1>4, LenProperties DEF ProxyRec
    <3> QED BY <3>1, <2>1, <2>3, <2>4
  <2>9. Owned'
    <3>1. \A x \in DOMAIN downloads' : /\ proxy'[downloads'[x].proxy].cheater = x
                                       /\ proxy'[downloads'[x].proxy].admin \in Admins
      BY <2>6, <2>8, <1>4 DEF IInv, Owned, Download
    <3>2. ASSUME NEW k \in DOMAIN relays'
          PROVE  k = <<proxy'[relays'[k].proxy].admin, proxy'[relays'[k].proxy].cheater>>
      <4>1. CASE k \in DOMAIN relays /\ relays'[k] = relays[k]
        BY <4>1, <2>8, <1>4 DEF IInv, Owned, Relay
      <4>2. CASE k = key /\ relays'[k].proxy = p /\ relays'[k].pos = 0
        BY <4>2, <2>4
      <4> QED BY <4>1, <4>2, <2>5
    <3> QED BY <3>1, <3>2 DEF Owned
  <2>10. RelaysStayInBuffer'
    <3>1. ASSUME NEW k \in DOMAIN relays'
          PROVE  relays'[k].pos <= Len(proxy'[relays'[k].proxy].content)
      <4>1. CASE k \in DOMAIN relays /\ relays'[k] = relays[k]
        <5>1. /\ relays[k].proxy \in Proxies /\ relays[k].pos \in Nat
              /\ relays[k].pos <= Len(proxy[relays[k].proxy].content)
          BY <4>1, <1>4 DEF Relay, IInv, RelaysStayInBuffer
        <5>2. /\ Len(proxy[relays[k].proxy].content) \in Nat
              /\ Len(proxy'[relays[k].proxy].content) \in Nat
          BY <5>1, <1>4, <2>4, LenProperties DEF ProxyRec
        <5>3. Len(proxy[relays[k].proxy].content) <= Len(proxy'[relays[k].proxy].content)
          BY <5>1, <2>8
        <5> QED BY <5>1, <5>2, <5>3, <4>1
      <4>2. CASE k = key /\ relays'[k].proxy = p /\ relays'[k].pos = 0
        BY <4>2, <2>1, <2>4, LenProperties DEF ProxyRec
      <4> QED BY <4>1, <4>2, <2>5
    <3> QED BY <3>1 DEF RelaysStayInBuffer
  <2> QED BY <2>7, <2>9, <2>10, <1>3 DEF IInv, TypeOK
<1> QED BY <1>5, <1>6

(* The other actions leave the server's sessions and proxies alone. *)
LEMMA ServerUnchanged ==
    ASSUME IInv, UNCHANGED server
    PROVE  ProxyOK' /\ SessionsOK' /\ Owned' /\ RelaysStayInBuffer'
  BY DEF IInv, TypeOK, ProxyOK, SessionsOK, Owned, RelaysStayInBuffer, server

LEMMA HearRequestKeepsInv ==
    ASSUME IInv, NEW c \in Cheaters, HearRequest(c)
    PROVE  IInv'
<1>1. /\ Hears(c, "request")
      /\ collecting' = [collecting EXCEPT ![c] = @ \cup {Head(toClient[c]).kind}]
      /\ UNCHANGED <<toServer, made, memory, upload, receivers>>
  BY DEF HearRequest
<1>2. toClient' \in [Clients -> Seq(ToClient)] /\ Head(toClient[c]).kind \in Kinds
  BY <1>1, HearsType, MessageTypes DEF IInv, TypeOK, Clients
<1>3. UNCHANGED server /\ present' = present /\ stopped' = stopped
  BY <1>1 DEF Hears
<1>4. NetworkOK' /\ PlayerOK' /\ ReceiversOK'
  BY <1>1, <1>2, <1>3 DEF IInv, TypeOK, NetworkOK, PlayerOK, ReceiversOK, ToClient
<1> QED BY <1>3, <1>4, ServerUnchanged DEF IInv, TypeOK

LEMMA HearRejectKeepsInv ==
    ASSUME IInv, NEW c \in Cheaters, HearReject(c)
    PROVE  IInv'
<1>1. /\ Hears(c, "reject") /\ UNCHANGED <<made, collecting, memory, receivers>>
      /\ \/ UNCHANGED <<toServer, upload>>
         \/ upload' = [upload EXCEPT ![c] = Idle] /\ Send(c, Note("abort", c))
  BY DEF HearReject
<1>2. toClient' \in [Clients -> Seq(ToClient)]
  BY <1>1, HearsType DEF IInv, TypeOK, Clients
<1>3. UNCHANGED server /\ present' = present /\ stopped' = stopped
  BY <1>1 DEF Hears
<1>4. toServer' \in [Clients -> Seq(ToServer)]
  <2>1. ASSUME Send(c, Note("abort", c)) PROVE toServer' \in [Clients -> Seq(ToServer)]
    BY <2>1, NoteType, SendType DEF IInv, TypeOK, Clients
  <2> QED BY <2>1, <1>1 DEF IInv, TypeOK, NetworkOK, ToServer
<1>5. PlayerOK'
  BY <1>1 DEF IInv, TypeOK, PlayerOK
<1>6. NetworkOK' /\ ReceiversOK'
  BY <1>1, <1>2, <1>3, <1>4 DEF IInv, TypeOK, NetworkOK, ReceiversOK, ToClient, ToServer
<1> QED BY <1>3, <1>5, <1>6, ServerUnchanged DEF IInv, TypeOK

LEMMA CollectedKeepsInv ==
    ASSUME IInv, NEW c \in Cheaters, NEW k \in Kinds, Collected(c, k)
    PROVE  IInv'
<1> DEFINE new == [who |-> c, kind |-> k]
<1>1. /\ collecting' = [collecting EXCEPT ![c] = @ \ {k}]
      /\ made' = Append(made, new)
      /\ memory' = [memory EXCEPT ![c] = Len(made')]
      /\ upload' = [upload EXCEPT ![c] = IF @ = Idle THEN 0 ELSE @]
      /\ UNCHANGED <<network, server, receivers>>
  BY DEF Collected
<1>2. /\ made \in Seq([who : Cheaters, kind : Kinds])
      /\ collecting \in [Cheaters -> SUBSET Kinds]
      /\ memory \in [Cheaters -> 0 .. Len(made)]
      /\ upload \in [Cheaters -> {Idle} \cup 0 .. FileSize - 1]
      /\ \A x \in Cheaters : upload[x] # Idle => memory[x] # 0
  BY DEF IInv, TypeOK, PlayerOK
<1>3. new \in [who : Cheaters, kind : Kinds]
  OBVIOUS
<1>4. /\ made' \in Seq([who : Cheaters, kind : Kinds])
      /\ Len(made') = Len(made) + 1 /\ Len(made) \in Nat
  BY <1>1, <1>2, <1>3, AppendProperties, LenProperties
<1>5. /\ memory' \in [Cheaters -> 0 .. Len(made')] /\ memory'[c] # 0
      /\ \A x \in Cheaters \ {c} : memory'[x] = memory[x] /\ upload'[x] = upload[x]
  BY <1>1, <1>2, <1>4
<1>6. upload' \in [Cheaters -> {Idle} \cup 0 .. FileSize - 1]
  BY <1>1, <1>2, SizesAssumption
<1>7. PlayerOK'
  BY <1>1, <1>2, <1>4, <1>5, <1>6 DEF PlayerOK
<1>8. NetworkOK' /\ ReceiversOK'
  BY <1>1 DEF IInv, TypeOK, NetworkOK, ReceiversOK, network
<1> QED BY <1>1, <1>7, <1>8, ServerUnchanged DEF IInv, TypeOK

(* An upload sends a stretch of the file that is in memory. *)
LEMMA UpdateUploadKeepsInv ==
    ASSUME IInv, NEW c \in Cheaters, UpdateUpload(c)
    PROVE  IInv'
<1>1. /\ upload[c] # Idle
      /\ UNCHANGED <<present, stopped, toClient, made, collecting, memory, server, receivers>>
  BY DEF UpdateUpload
<1>2. PICK next \in upload[c] + 1 .. FileSize :
          /\ Send(c, Data(c, upload[c] = 0, FileSize, Parts(memory[c], upload[c], next)))
          /\ upload' = [upload EXCEPT ![c] = Uploaded(next)]
  BY DEF UpdateUpload
<1>3. /\ upload \in [Cheaters -> {Idle} \cup 0 .. FileSize - 1]
      /\ memory \in [Cheaters -> 0 .. Len(made)]
      /\ \A x \in Cheaters : upload[x] # Idle => memory[x] # 0
      /\ Len(made) \in Nat
  BY LenProperties DEF IInv, TypeOK, PlayerOK
<1>4. memory[c] \in Nat /\ upload[c] \in 0 .. FileSize /\ next \in upload[c] .. FileSize
  BY <1>1, <1>2, <1>3, SizesAssumption
<1>5. Data(c, upload[c] = 0, FileSize, Parts(memory[c], upload[c], next)) \in ToServer
  <2>1. Parts(memory[c], upload[c], next) \in Seq(Part)
    BY <1>4, PartsType
  <2>2. (upload[c] = 0) \in BOOLEAN /\ FileSize \in Int
    BY SizesAssumption
  <2> QED BY <2>1, <2>2, DataType
<1>6. toServer' \in [Clients -> Seq(ToServer)]
  BY <1>2, <1>5, SendType DEF IInv, TypeOK, Clients
<1>7. Uploaded(next) \in {Idle} \cup 0 .. FileSize - 1
  BY <1>2, <1>4, SizesAssumption DEF Uploaded
<1>8. PlayerOK'
  <2>1. /\ upload' \in [Cheaters -> {Idle} \cup 0 .. FileSize - 1]
        /\ \A x \in Cheaters \ {c} : upload'[x] = upload[x]
    BY <1>2, <1>3, <1>7
  <2>2. \A x \in Cheaters : upload'[x] # Idle => memory[x] # 0
    BY <2>1, <1>1, <1>3
  <2> QED BY <2>1, <2>2, <1>1 DEF IInv, TypeOK, PlayerOK
<1>9. NetworkOK' /\ ReceiversOK'
  BY <1>1, <1>6 DEF IInv, TypeOK, NetworkOK, ReceiversOK, ToServer
<1> QED BY <1>1, <1>8, <1>9, ServerUnchanged DEF IInv, TypeOK

LEMMA RequestKeepsInv ==
    ASSUME IInv, NEW a \in Admins, NEW c \in Cheaters, NEW k \in Kinds, Request(a, c, k)
    PROVE  IInv'
<1>1. /\ Send(a, Ask("command", c, k))
      /\ UNCHANGED <<present, stopped, toClient, player, server, receivers>>
  BY DEF Request
<1>2. toServer' \in [Clients -> Seq(ToServer)]
  BY <1>1, NoteType, SendType DEF IInv, TypeOK, Clients
<1>3. NetworkOK' /\ PlayerOK' /\ ReceiversOK'
  BY <1>1, <1>2 DEF IInv, TypeOK, NetworkOK, PlayerOK, ReceiversOK, ToServer, player
<1> QED BY <1>1, <1>3, ServerUnchanged DEF IInv, TypeOK

LEMMA HearResponseKeepsInv ==
    ASSUME IInv, NEW a \in Admins, HearResponse(a)
    PROVE  IInv'
<1> DEFINE m   == Head(toClient[a])
           key == <<a, m.who>>
           new == [kind |-> m.kind, total |-> Unset, data |-> <<>>, heard |-> TRUE]
<1>1. /\ Hears(a, "response")
      /\ receivers' = IF key \in DOMAIN receivers THEN receivers ELSE With(receivers, key, new)
      /\ UNCHANGED <<toServer, player>>
  BY DEF HearResponse
<1>2. /\ toClient' \in [Clients -> Seq(ToClient)]
      /\ m.who \in Cheaters /\ m.kind \in Kinds
  BY <1>1, HearsType, MessageTypes DEF IInv, TypeOK, Clients
<1>3. UNCHANGED server /\ present' = present /\ stopped' = stopped
  BY <1>1 DEF Hears
<1>4. /\ DOMAIN receivers \subseteq Admins \X Cheaters
      /\ receivers \in [DOMAIN receivers -> Receiver]
  BY DEF IInv, TypeOK, ReceiversOK, Receiver
<1>5. new \in Receiver /\ key \in Admins \X Cheaters
  BY <1>2, EmptySeq DEF Receiver, Unset
<1> HIDE DEF new, key
<1>6. ReceiversOK'
  BY <1>1, <1>4, <1>5 DEF ReceiversOK, Receiver, With
<1>7. NetworkOK' /\ PlayerOK'
  BY <1>1, <1>2, <1>3 DEF IInv, TypeOK, NetworkOK, PlayerOK, ToClient, player
<1> QED BY <1>3, <1>6, <1>7, ServerUnchanged DEF IInv, TypeOK

LEMMA HearDataKeepsInv ==
    ASSUME IInv, NEW a \in Admins, HearData(a)
    PROVE  IInv'
<1> DEFINE m   == Head(toClient[a])
           key == <<a, m.who>>
           v   == receivers[key]
<1>1. Hears(a, "data") /\ UNCHANGED player
  BY DEF HearData
<1>2. /\ toClient' \in [Clients -> Seq(ToClient)]
      /\ m.who \in Cheaters /\ m \in Chunks
  BY <1>1, HearsType, MessageTypes DEF IInv, TypeOK, Clients
<1>3. UNCHANGED server /\ present' = present /\ stopped' = stopped
  BY <1>1 DEF Hears
<1>4. /\ DOMAIN receivers \subseteq Admins \X Cheaters
      /\ receivers \in [DOMAIN receivers -> Receiver]
      /\ toServer \in [Clients -> Seq(ToServer)]
  BY DEF IInv, TypeOK, ReceiversOK, NetworkOK, Receiver, ToServer
<1>5. toServer' \in [Clients -> Seq(ToServer)] /\ ReceiversOK'
  <2>1. CASE key \notin DOMAIN receivers
    <3>1. Send(a, Note("reject", m.who)) /\ receivers' = receivers
      BY <2>1 DEF HearData
    <3>2. toServer' \in [Clients -> Seq(ToServer)]
      BY <3>1, <1>2, NoteType, SendType DEF IInv, TypeOK, Clients
    <3> QED BY <3>1, <3>2 DEF IInv, TypeOK, ReceiversOK
  <2>2. CASE key \in DOMAIN receivers
    <3>1. PICK r \in receive_packet(v.total, v.data, m) :
              /\ toServer' = toServer
              /\ \/ receivers' = Without(receivers, key)
                 \/ receivers' = [receivers EXCEPT ![key] =
                         [kind |-> v.kind, total |-> r.total, data |-> r.data,
                          heard |-> v.heard \/ r.heard]]
      BY <2>2, Zenon DEF HearData
    <3>2. v \in Receiver
      BY <2>2, <1>4
    <3>3. /\ v.kind \in Kinds /\ v.total \in Int /\ v.data \in Seq(Part)
      BY <3>2 DEF Receiver
    <3>4. r.total \in Int /\ r.data \in Seq(Part) /\ r.heard \in BOOLEAN
      BY <3>3, <1>2, ReceivePacketType
    <3> DEFINE new == [kind |-> v.kind, total |-> r.total, data |-> r.data,
                       heard |-> v.heard \/ r.heard]
    <3>5. new \in Receiver
      BY <3>3, <3>4 DEF Receiver
    <3> HIDE DEF new, v
    <3>6. ASSUME receivers' = Without(receivers, key) PROVE ReceiversOK'
      BY <3>6, <1>4 DEF ReceiversOK, Receiver, Without, Restrict
    <3>7. ASSUME receivers' = [receivers EXCEPT ![key] = new] PROVE ReceiversOK'
      BY <3>5, <3>7, <1>4 DEF ReceiversOK, Receiver
    <3> QED BY <3>1, <3>6, <3>7, <1>4 DEF new
  <2> QED BY <2>1, <2>2
<1>6. NetworkOK' /\ PlayerOK'
  BY <1>1, <1>2, <1>3, <1>5
  DEF IInv, TypeOK, NetworkOK, PlayerOK, ToClient, ToServer, player
<1> QED BY <1>3, <1>5, <1>6, ServerUnchanged DEF IInv, TypeOK

LEMMA StopReceiverType ==
    ASSUME IInv, NEW a \in Admins, NEW c \in Cheaters, StopReceiver(<<a, c>>)
    PROVE  toServer' \in [Clients -> Seq(ToServer)] /\ ReceiversOK'
<1> DEFINE key == <<a, c>>
<1>1. /\ receivers' = Without(receivers, key)
      /\ toServer' = toServer \/ Send(a, Note("reject", c))
  BY DEF StopReceiver
<1>2. /\ DOMAIN receivers \subseteq Admins \X Cheaters
      /\ receivers \in [DOMAIN receivers -> Receiver]
      /\ toServer \in [Clients -> Seq(ToServer)]
  BY DEF IInv, TypeOK, ReceiversOK, NetworkOK, Receiver, ToServer
<1>3. ReceiversOK'
  BY <1>1, <1>2 DEF ReceiversOK, Receiver, Without, Restrict
<1>4. ASSUME Send(a, Note("reject", c)) PROVE toServer' \in [Clients -> Seq(ToServer)]
  BY <1>4, NoteType, SendType DEF IInv, TypeOK, Clients
<1> QED BY <1>1, <1>2, <1>3, <1>4

LEMMA HearAbortKeepsInv ==
    ASSUME IInv, NEW a \in Admins, HearAbort(a)
    PROVE  IInv'
<1> DEFINE m == Head(toClient[a])
<1>1. /\ Hears(a, "abort") /\ UNCHANGED player
      /\ StopReceiver(<<a, m.who>>) \/ UNCHANGED <<receivers, toServer>>
  BY DEF HearAbort
<1>2. toClient' \in [Clients -> Seq(ToClient)] /\ m.who \in Cheaters
  BY <1>1, HearsType, MessageTypes DEF IInv, TypeOK, Clients
<1>3. UNCHANGED server /\ present' = present /\ stopped' = stopped
  BY <1>1 DEF Hears
<1>4. toServer' \in [Clients -> Seq(ToServer)] /\ ReceiversOK'
  <2>1. CASE StopReceiver(<<a, m.who>>)
    BY <2>1, <1>2, StopReceiverType
  <2>2. CASE UNCHANGED <<receivers, toServer>>
    BY <2>2 DEF IInv, TypeOK, NetworkOK, ReceiversOK, ToServer
  <2> QED BY <2>1, <2>2, <1>1
<1>5. NetworkOK' /\ PlayerOK'
  BY <1>1, <1>2, <1>3, <1>4
  DEF IInv, TypeOK, NetworkOK, PlayerOK, ToClient, ToServer, player
<1> QED BY <1>3, <1>4, <1>5, ServerUnchanged DEF IInv, TypeOK

LEMMA ReceiverTimesOutKeepsInv ==
    ASSUME IInv, NEW a \in Admins, NEW c \in Cheaters, ReceiverTimesOut(a, c)
    PROVE  IInv'
<1>1. /\ StopReceiver(<<a, c>>)
      /\ UNCHANGED <<present, stopped, toClient, player, server>>
  BY DEF ReceiverTimesOut
<1>2. toServer' \in [Clients -> Seq(ToServer)] /\ ReceiversOK'
  BY <1>1, StopReceiverType
<1>3. NetworkOK' /\ PlayerOK'
  BY <1>1, <1>2 DEF IInv, TypeOK, NetworkOK, PlayerOK, ToServer, player
<1> QED BY <1>1, <1>2, <1>3, ServerUnchanged DEF IInv, TypeOK

LEMMA DownloadQuietKeepsInv ==
    ASSUME IInv, NEW c \in Cheaters, DownloadQuiet(c)
    PROVE  IInv'
<1>1. /\ c \in DOMAIN downloads
      /\ downloads' = [downloads EXCEPT ![c].heard = FALSE]
      /\ UNCHANGED <<network, player, proxy, relays, receivers>>
  BY DEF DownloadQuiet
<1>2. /\ DOMAIN downloads \subseteq Cheaters
      /\ downloads \in [DOMAIN downloads -> Download]
  BY DEF IInv, TypeOK, SessionsOK, Download
<1>3. /\ DOMAIN downloads' = DOMAIN downloads
      /\ downloads' \in [DOMAIN downloads -> Download]
      /\ \A x \in DOMAIN downloads : downloads'[x].proxy = downloads[x].proxy
  BY <1>1, <1>2 DEF Download
<1>4. NetworkOK' /\ PlayerOK' /\ ProxyOK' /\ ReceiversOK'
  BY <1>1 DEF IInv, TypeOK, NetworkOK, PlayerOK, ProxyOK, ReceiversOK, network, player
<1>5. SessionsOK'
  BY <1>1, <1>2, <1>3 DEF IInv, TypeOK, SessionsOK, Download
<1>6. Owned' /\ RelaysStayInBuffer'
  BY <1>1, <1>3 DEF IInv, Owned, RelaysStayInBuffer
<1> QED BY <1>4, <1>5, <1>6 DEF IInv, TypeOK

LEMMA ReceiverQuietKeepsInv ==
    ASSUME IInv, NEW a \in Admins, NEW c \in Cheaters, ReceiverQuiet(a, c)
    PROVE  IInv'
<1>1. /\ receivers' = [receivers EXCEPT ![<<a, c>>].heard = FALSE]
      /\ UNCHANGED <<network, player, server>>
  BY DEF ReceiverQuiet
<1>2. ReceiversOK'
  <2>1. /\ DOMAIN receivers \subseteq Admins \X Cheaters
        /\ receivers \in [DOMAIN receivers -> Receiver]
    BY DEF IInv, TypeOK, ReceiversOK, Receiver
  <2> QED BY <1>1, <2>1 DEF ReceiversOK, Receiver
<1>3. NetworkOK' /\ PlayerOK'
  BY <1>1 DEF IInv, TypeOK, NetworkOK, PlayerOK, network, player
<1> QED BY <1>1, <1>2, <1>3, ServerUnchanged DEF IInv, TypeOK

LEMMA StopGameKeepsInv ==
    ASSUME IInv, NEW c \in Cheaters, StopGame(c)
    PROVE  IInv'
<1>1. /\ stopped' = stopped \cup {c}
      /\ toServer' = toServer \/ Send(c, Note("abort", c))
      /\ upload' = [upload EXCEPT ![c] = Idle]
      /\ collecting' = [collecting EXCEPT ![c] = {}]
      /\ UNCHANGED <<present, toClient, made, memory, server, receivers>>
  BY DEF StopGame
<1>2. toServer' \in [Clients -> Seq(ToServer)]
  <2>1. ASSUME Send(c, Note("abort", c)) PROVE toServer' \in [Clients -> Seq(ToServer)]
    BY <2>1, NoteType, SendType DEF IInv, TypeOK, Clients
  <2> QED BY <2>1, <1>1 DEF IInv, TypeOK, NetworkOK, ToServer
<1>3. PlayerOK'
  BY <1>1 DEF IInv, TypeOK, PlayerOK
<1>4. NetworkOK' /\ ReceiversOK'
  BY <1>1, <1>2 DEF IInv, TypeOK, NetworkOK, ReceiversOK, ToServer
<1> QED BY <1>1, <1>3, <1>4, ServerUnchanged DEF IInv, TypeOK

LEMMA LeaveKeepsInv ==
    ASSUME IInv, NEW x \in Clients, Leave(x)
    PROVE  IInv'
<1>1. /\ present' = present \ {x}
      /\ toServer' = [toServer EXCEPT ![x] = <<>>]
      /\ toClient' = [toClient EXCEPT ![x] = <<>>]
      /\ receivers' = Restrict(receivers, {k \in DOMAIN receivers : k[1] # x})
      /\ upload' = [c \in Cheaters |-> IF c = x THEN Idle ELSE upload[c]]
      /\ collecting' = [c \in Cheaters |-> IF c = x THEN {} ELSE collecting[c]]
      /\ UNCHANGED <<stopped, made, memory, server>>
  BY DEF Leave
<1>2. NetworkOK'
  <2>1. \A S : <<>> \in Seq(S)
    BY EmptySeq
  <2> QED BY <1>1, <2>1 DEF IInv, TypeOK, NetworkOK
<1>3. PlayerOK'
  BY <1>1 DEF IInv, TypeOK, PlayerOK
<1>4. ReceiversOK'
  <2>1. /\ DOMAIN receivers \subseteq Admins \X Cheaters
        /\ receivers \in [DOMAIN receivers -> Receiver]
    BY DEF IInv, TypeOK, ReceiversOK, Receiver
  <2> QED BY <1>1, <2>1 DEF ReceiversOK, Receiver, Restrict
<1> QED BY <1>1, <1>2, <1>3, <1>4, ServerUnchanged DEF IInv, TypeOK

-----------------------------------------------------------------------------
LEMMA InitInv == Init => IInv
<1> SUFFICES ASSUME Init PROVE IInv
  OBVIOUS
<1> USE DEF Init
<1>1. \A S : <<>> \in Seq(S)
  BY EmptySeq
<1>2. NetworkOK
  BY <1>1 DEF NetworkOK
<1>3. PlayerOK
  BY <1>1 DEF PlayerOK
<1>4. ProxyOK
  BY <1>1 DEF ProxyOK
<1>5. SessionsOK /\ ReceiversOK
  BY DEF SessionsOK, ReceiversOK
<1>6. Owned /\ RelaysStayInBuffer
  BY DEF Owned, RelaysStayInBuffer
<1> QED BY <1>2, <1>3, <1>4, <1>5, <1>6 DEF IInv, TypeOK

LEMMA NextKeepsInv == IInv /\ [Next]_vars => IInv'
<1> SUFFICES ASSUME IInv, [Next]_vars PROVE IInv'
  OBVIOUS
<1>1. CASE OnMessage
  BY <1>1, HandleCommandKeepsInv, ReceiveRejectKeepsInv, ReceiveDataKeepsInv,
     ReceiveAbortKeepsInv DEF OnMessage
<1>2. ASSUME NEW c \in Cheaters, PlayerStep(c)
      PROVE  IInv'
  BY <1>2, HearRequestKeepsInv, HearRejectKeepsInv, UpdateUploadKeepsInv, CollectedKeepsInv
  DEF PlayerStep
<1>3. ASSUME NEW c \in Cheaters, DownloadQuiet(c) \/ DownloadTimesOut(c) \/ StopGame(c)
      PROVE  IInv'
  BY <1>3, DownloadQuietKeepsInv, DownloadTimesOutKeepsInv, StopGameKeepsInv
<1>4. ASSUME NEW a \in Admins, AdminStep(a)
      PROVE  IInv'
  BY <1>4, HearResponseKeepsInv, HearDataKeepsInv, HearAbortKeepsInv DEF AdminStep
<1>5. ASSUME NEW a \in Admins, NEW c \in Cheaters,
             \/ UpdateRelay(a, c) \/ ReceiverQuiet(a, c) \/ ReceiverTimesOut(a, c)
             \/ \E k \in Kinds : Request(a, c, k)
      PROVE  IInv'
  BY <1>5, UpdateRelayKeepsInv, ReceiverQuietKeepsInv, ReceiverTimesOutKeepsInv,
     RequestKeepsInv
<1>6. ASSUME NEW x \in Clients, Leave(x)
      PROVE  IInv'
  BY <1>6, LeaveKeepsInv
<1>7. CASE UNCHANGED vars
  BY <1>7 DEF vars, network, player, server, IInv, TypeOK, NetworkOK, PlayerOK, ProxyOK,
     SessionsOK, ReceiversOK, Owned, RelaysStayInBuffer
<1> QED BY <1>1, <1>2, <1>3, <1>4, <1>5, <1>6, <1>7 DEF Next

(* What no step may lose, for the two theorems below and for the reason why *)
(* a proxy that is being relayed is never given away.                       *)
LEMMA Invariance == Spec => []IInv
<1>1. Init => IInv
  BY InitInv
<1>2. IInv /\ [Next]_vars => IInv'
  BY NextKeepsInv
<1> QED BY <1>1, <1>2, PTL DEF Spec

(* Sessions are of clients that play their parts and use proxies that       *)
(* exist, messages in flight are well formed, and an upload never counts    *)
(* past the end of the file in memory, for all clients and proxies.         *)
THEOREM TypeCorrect == Spec => []TypeOK
<1>1. IInv => TypeOK
  BY DEF IInv
<1> QED BY <1>1, Invariance, PTL

(* The callback of a download only starts a relay for the two clients of    *)
(* its proxy, MakeScreenshot only takes a proxy whose two clients have      *)
(* neither a download nor a relay, and chunks only add to a buffer: so the  *)
(* position of a relay is never beyond the bytes of its proxy.              *)
THEOREM RelaysInBuffer == Spec => []RelaysStayInBuffer
<1>1. IInv => RelaysStayInBuffer
  BY DEF IInv
<1> QED BY <1>1, Invariance, PTL

(* The proxy of a session names the session's own clients, however requests *)
(* for the same player interleave: the callback of a download, which takes  *)
(* the administrator from the proxy, answers the one that asked for it.     *)
THEOREM SessionsOwnTheirProxy == Spec => []Owned
<1>1. IInv => Owned
  BY DEF IInv
<1> QED BY <1>1, Invariance, PTL

-----------------------------------------------------------------------------
(* Whole files.  While neither side has given up, what a channel holds of a *)
(* player's file carries on where its receiver stopped, chunk by chunk, up  *)
(* to where its sender is.  A place is a file of mk and how much of it is   *)
(* through; None, that no file is under way.                                *)
None       == [file |-> 0, pos |-> 0]
Places(mk) == [file : DOMAIN mk, pos : 0 .. FileSize - 1] \cup {None}
At(f, n)   == IF n = FileSize THEN None ELSE [file |-> f, pos |-> n]

(* What a message about c does to the place of its stream. *)
CarriesData(m, p, t) ==
    /\ p # None
    /\ \E hi \in p.pos .. FileSize :
          /\ hi # 0 /\ t = At(p.file, hi)
          /\ m.size = (IF p.pos = 0 THEN FileSize ELSE NoHeader)
          /\ m.parts = Parts(p.file, p.pos, hi)
Opens(mk, m, c, p, t) ==
    IF p # None THEN t = p
    ELSE /\ t \in Places(mk) \ {None}
         /\ t.pos = 0 /\ mk[t.file] = [who |-> c, kind |-> m.kind]
Carries(mk, m, c, p, t) ==
    \/ m.who # c /\ t = p
    \/ m.who = c /\ m.type = "data" /\ CarriesData(m, p, t)
    \/ m.who = c /\ m.type = "response" /\ Opens(mk, m, c, p, t)
    \/ m.who = c /\ m.type \notin {"data", "response"} /\ t = None

(* The messages of q take the stream of c from place p to place t. *)
Flow(mk, q, c, p, t) ==
    \E s \in [0 .. Len(q) -> Places(mk)] :
        /\ s[0] = p /\ s[Len(q)] = t
        /\ \A i \in 1 .. Len(q) : Carries(mk, q[i], c, s[i - 1], s[i])

(* What a receiver of c's file has at place p. *)
Holds(mk, p, c, k, total, data) ==
    /\ p \in Places(mk) \ {None} /\ mk[p.file] = [who |-> c, kind |-> k]
    /\ total = (IF p.pos = 0 THEN Unset ELSE FileSize)
    /\ data = Parts(p.file, 0, p.pos)

(* The upload of c, from the server's download to the player's game. *)
Uploads(c) == {m \in ToServer : m.who = c /\ m.type \in {"data", "abort"}}
Steady(c)  == {m \in Uploads(c) : m.type # "abort"}
DownloadAt(c, p) ==
    IF c \notin DOMAIN downloads THEN p = None
    ELSE LET d == downloads[c]
             r == proxy[d.proxy]
         IN  /\ r.first <=> r.content = <<>>
             /\ \/ p = None /\ r.content = <<>> /\ d.total = Unset
                \/ Holds(made, p, c, d.kind, d.total, r.content)
Unasked(c) == collecting[c] = {} /\ toClient[c] = <<>>
Asked(c) ==
    /\ c \in DOMAIN downloads
    /\ \/ collecting[c] = {downloads[c].kind} /\ toClient[c] = <<>>
       \/ collecting[c] = {} /\ toClient[c] = <<Ask("request", c, downloads[c].kind)>>
PlayerAt(c, p, t) ==
    IF upload[c] # Idle
    THEN Unasked(c) /\ t = [file |-> memory[c], pos |-> upload[c]]
    ELSE t = None /\ (Unasked(c) \/ (p = None /\ Asked(c)))
UploadFlows(c) ==
    /\ toServer[c] \in Seq(Uploads(c))
    /\ Runs(c) => toServer[c] \in Seq(Steady(c))
    /\ \E p, t \in Places(made) :
          /\ Flow(made, toServer[c], c, p, t)
          /\ DownloadAt(c, p)
          /\ Runs(c) => PlayerAt(c, p, t)

(* The relay of c's file to a, from the administrator's receiver to the     *)
(* server's relay.                                                          *)
NoReject(c) == {m \in ToServer : m.who # c \/ m.type # "reject"}
NoAbort(c)  == {m \in ToClient : m.who # c \/ m.type \in {"data", "response"}}
ReceiverAt(a, c, p) ==
    IF <<a, c>> \notin DOMAIN receivers THEN p = None
    ELSE LET v == receivers[<<a, c>>] IN Holds(made, p, c, v.kind, v.total, v.data)
RelayAt(a, c, t) ==
    IF <<a, c>> \notin DOMAIN relays THEN t = None
    ELSE LET r       == relays[<<a, c>>]
             content == proxy[r.proxy].content
         IN  /\ t # None
             /\ r.pos = t.pos /\ r.max = FileSize
             /\ Len(content) \in 1 .. FileSize
             /\ content = Parts(t.file, 0, Len(content))
RelayFlows(a, c) ==
    /\ toServer[a] \in Seq(NoReject(c)) /\ toClient[a] \in Seq(NoAbort(c))
    /\ \E p, t \in Places(made) :
          /\ Flow(made, toClient[a], c, p, t)
          /\ ReceiverAt(a, c, p)
          /\ RelayAt(a, c, t)

Patient(at, c) == {<<at, c>>, <<Server, c>>} \cap gaveUp = {}
Flows ==
    /\ \A c \in Cheaters : Patient(Server, c) => UploadFlows(c)
    /\ \A a \in Admins, c \in Cheaters :
          a \in present /\ Patient(a, c) => RelayFlows(a, c)

-----------------------------------------------------------------------------
(* Stretches of a file, and what receive_packet makes of one that carries   *)
(* on where its data ends.                                                  *)
LEMMA PartsLength ==
    ASSUME NEW f \in Nat, NEW i \in 0 .. FileSize, NEW j \in i .. FileSize
    PROVE  /\ Parts(f, i, j) \in Seq(Part) /\ Len(Parts(f, i, j)) = j - i
           /\ DOMAIN Parts(f, i, j) = 1 .. j - i
           /\ \A n \in 1 .. j - i : Parts(f, i, j)[n] = [file |-> f, part |-> i + n]
<1>1. Parts(f, i, j) \in Seq(Part)
  BY PartsType
<1>2. DOMAIN Parts(f, i, j) = 1 .. j - i /\ j - i \in Nat
  BY SizesAssumption DEF Parts
<1>3. Len(Parts(f, i, j)) = j - i
  BY <1>1, <1>2, LenProperties
<1> QED BY <1>1, <1>2, <1>3 DEF Parts

LEMMA PartsNone ==
    ASSUME NEW f \in Nat, NEW i \in 0 .. FileSize
    PROVE  Parts(f, i, i) = <<>>
<1>1. Len(Parts(f, i, i)) = 0 /\ Parts(f, i, i) \in Seq(Part)
  BY PartsLength, SizesAssumption
<1> QED BY <1>1, EmptySeq

LEMMA PartsJoin ==
    ASSUME NEW f \in Nat, NEW i \in 0 .. FileSize, NEW j \in i .. FileSize,
           NEW k \in j .. FileSize
    PROVE  Parts(f, i, j) \o Parts(f, j, k) = Parts(f, i, k)
<1> DEFINE a == Parts(f, i, j)
           b == Parts(f, j, k)
           d == Parts(f, i, k)
<1>0. i \in Nat /\ j \in Nat /\ k \in Nat /\ i <= j /\ j <= k /\ j \in 0 .. FileSize /\ k \in i .. FileSize
  BY SizesAssumption
<1>1. /\ a \in Seq(Part) /\ Len(a) = j - i
      /\ \A n \in 1 .. j - i : a[n] = [file |-> f, part |-> i + n]
  BY PartsLength
<1>2. /\ b \in Seq(Part) /\ Len(b) = k - j
      /\ \A n \in 1 .. k - j : b[n] = [file |-> f, part |-> j + n]
  BY <1>0, PartsLength
<1>3. /\ d \in Seq(Part) /\ Len(d) = k - i
      /\ \A n \in 1 .. k - i : d[n] = [file |-> f, part |-> i + n]
  BY <1>0, PartsLength
<1> HIDE DEF a, b, d
<1>4. /\ a \o b \in Seq(Part) /\ Len(a \o b) = Len(a) + Len(b)
      /\ \A n \in 1 .. Len(a) + Len(b) : (a \o b)[n] = IF n <= Len(a) THEN a[n] ELSE b[n - Len(a)]
  BY <1>1, <1>2, ConcatProperties
<1>5. Len(a \o b) = Len(d)
  BY <1>0, <1>1, <1>2, <1>3, <1>4
<1>6. ASSUME NEW n \in 1 .. Len(d) PROVE (a \o b)[n] = d[n]
  <2>1. CASE n <= Len(a)
    <3>1. n \in 1 .. j - i /\ n \in 1 .. k - i /\ n \in 1 .. Len(a) + Len(b)
      BY <2>1, <1>0, <1>1, <1>2, <1>3, <1>6
    <3>2. (a \o b)[n] = a[n]
      BY <2>1, <3>1, <1>4
    <3> QED BY <3>1, <3>2, <1>1, <1>3
  <2>2. CASE ~ (n <= Len(a))
    <3>1. n - Len(a) \in 1 .. k - j /\ j + (n - Len(a)) = i + n
      BY <2>2, <1>0, <1>1, <1>3, <1>6
    <3>2. (a \o b)[n] = b[n - Len(a)]
      BY <2>2, <1>0, <1>1, <1>2, <1>3, <1>4, <1>6
    <3>3. n \in 1 .. k - i
      BY <1>3, <1>6
    <3> QED BY <3>1, <3>2, <3>3, <1>2, <1>3
  <2> QED BY <2>1, <2>2
<1>7. a \o b = d
  BY <1>3, <1>4, <1>5, <1>6, SeqEqual
<1> QED BY <1>7 DEF a, b, d

LEMMA PartsWithin ==
    ASSUME NEW f \in Nat, NEW l \in 0 .. FileSize, NEW i \in 0 .. l, NEW j \in i .. l
    PROVE  SubSeq(Parts(f, 0, l), i + 1, j) = Parts(f, i, j)
<1> DEFINE a == Parts(f, 0, l)
           b == SubSeq(a, i + 1, j)
           d == Parts(f, i, j)
<1>0. /\ i \in Nat /\ j \in Nat /\ l \in Nat /\ i <= j /\ j <= l
      /\ 0 \in 0 .. FileSize /\ i \in 0 .. FileSize /\ j \in i .. FileSize
  BY SizesAssumption
<1>1. /\ a \in Seq(Part) /\ Len(a) = l
      /\ \A n \in 1 .. l : a[n] = [file |-> f, part |-> 0 + n]
  <2>1. l - 0 = l
    BY <1>0
  <2> QED BY <1>0, <2>1, PartsLength
<1>2. /\ d \in Seq(Part) /\ Len(d) = j - i
      /\ \A n \in 1 .. j - i : d[n] = [file |-> f, part |-> i + n]
  BY <1>0, PartsLength
<1> HIDE DEF a, d
<1>3. \A n \in i + 1 .. j : a[n] \in Part
  <2>1. \A n \in i + 1 .. j : n \in 1 .. Len(a)
    BY <1>0, <1>1
  <2> QED BY <2>1, <1>1, ElementOfSeq
<1>4. /\ b \in Seq(Part) /\ Len(b) = IF i + 1 <= j THEN j - (i + 1) + 1 ELSE 0
      /\ \A n \in 1 .. j - (i + 1) + 1 : b[n] = a[i + 1 + n - 1]
  BY <1>0, <1>3, SubSeqProperties
<1>5. Len(b) = Len(d)
  BY <1>0, <1>2, <1>4
<1> HIDE DEF b
<1>6. ASSUME NEW n \in 1 .. Len(d) PROVE b[n] = d[n]
  <2>1. n \in 1 .. j - (i + 1) + 1 /\ n \in 1 .. j - i /\ i + 1 + n - 1 = 0 + (i + n) /\ i + n \in 1 .. l
    BY <1>0, <1>2, <1>6
  <2> QED BY <2>1, <1>1, <1>2, <1>4
<1>7. b = d
  BY <1>2, <1>4, <1>5, <1>6, SeqEqual
<1> QED BY <1>7 DEF a, b, d

LEMMA PartsTell ==
    ASSUME NEW f \in Nat, NEW g \in Nat, NEW l \in 1 .. FileSize, NEW n \in 0 .. FileSize,
           Parts(f, 0, l) = Parts(g, 0, n)
    PROVE  f = g /\ l = n
<1>1. 0 \in 0 .. FileSize /\ l \in 0 .. FileSize /\ l - 0 = l /\ n - 0 = n
  BY SizesAssumption
<1>2. Len(Parts(f, 0, l)) = l /\ Len(Parts(g, 0, n)) = n
  BY <1>1, PartsLength
<1>3. l = n /\ 1 \in 1 .. l
  BY <1>2
<1>4. Parts(f, 0, l)[1] = [file |-> f, part |-> 0 + 1]
  <2>1. 1 \in 1 .. l - 0 /\ l \in 0 .. FileSize
    BY <1>1, <1>3
  <2> QED BY <2>1, <1>1, PartsLength DEF Parts
<1>5. Parts(g, 0, n)[1] = [file |-> g, part |-> 0 + 1]
  <2>1. 1 \in 1 .. n - 0
    BY <1>1, <1>3
  <2> QED BY <2>1, <1>1, PartsLength
<1> QED BY <1>3, <1>4, <1>5

(* A chunk that carries on from place p brings its receiver to place t, or  *)
(* completes a whole file.                                                  *)
LEMMA PlaceType ==
    ASSUME NEW mk \in Seq([who : Cheaters, kind : Kinds]), NEW p \in Places(mk), p # None
    PROVE  /\ p.file \in DOMAIN mk /\ p.file \in Nat \ {0} /\ p.pos \in 0 .. FileSize - 1
           /\ p.pos \in Nat /\ p.pos \in 0 .. FileSize /\ p = [file |-> p.file, pos |-> p.pos]
<1>1. DOMAIN mk = 1 .. Len(mk) /\ Len(mk) \in Nat
  BY LenProperties
<1>2. p \in [file : DOMAIN mk, pos : 0 .. FileSize - 1]
  BY DEF Places
<1> QED BY <1>1, <1>2, SizesAssumption

LEMMA AtType ==
    ASSUME NEW mk \in Seq([who : Cheaters, kind : Kinds]), NEW f \in DOMAIN mk,
           NEW n \in 0 .. FileSize
    PROVE  /\ At(f, n) \in Places(mk)
           /\ n # FileSize => At(f, n) # None /\ At(f, n) = [file |-> f, pos |-> n]
<1>1. DOMAIN mk = 1 .. Len(mk) /\ Len(mk) \in Nat
  BY LenProperties
<1>2. n # FileSize => n \in 0 .. FileSize - 1
  BY SizesAssumption
<1> QED BY <1>1, <1>2 DEF At, Places, None

(* What receive_packet makes of the chunk that takes c's stream from p to t. *)
Took(mk, p, t, c, k, r) ==
    /\ t \in Places(mk)
    /\ r.heard = TRUE /\ r.total = FileSize
    /\ r.done <=> t = None
    /\ r.data # <<>>
    /\ Len(r.data) \in 1 .. FileSize /\ r.data = Parts(p.file, 0, Len(r.data))
    /\ r.done => /\ mk[p.file] = [who |-> c, kind |-> k]
                 /\ r.data = Parts(p.file, 0, FileSize)
    /\ ~ r.done => Holds(mk, t, c, k, r.total, r.data)
    /\ t # None => t.file = p.file
LEMMA ChunkIsTaken ==
    ASSUME NEW mk \in Seq([who : Cheaters, kind : Kinds]), NEW p \in Places(mk), NEW t,
           NEW c, NEW k, NEW total, NEW data, Holds(mk, p, c, k, total, data),
           NEW m \in Chunks, CarriesData(m, p, t), NEW r \in receive_packet(total, data, m)
    PROVE  Took(mk, p, t, c, k, r)
<1>1. /\ p.file \in DOMAIN mk /\ p.file \in Nat /\ p.pos \in 0 .. FileSize - 1
      /\ p.pos \in Nat /\ p.pos \in 0 .. FileSize
      /\ 0 \in 0 .. FileSize /\ FileSize \in Nat \ {0}
  <2>1. p # None
    BY DEF CarriesData
  <2>2. /\ p.file \in DOMAIN mk /\ p.file \in Nat \ {0} /\ p.pos \in 0 .. FileSize - 1
        /\ p.pos \in Nat /\ p.pos \in 0 .. FileSize
    BY <2>1, PlaceType
  <2> QED BY <2>2, SizesAssumption
<1>2. PICK hi \in p.pos .. FileSize :
          /\ hi # 0 /\ t = At(p.file, hi)
          /\ m.size = (IF p.pos = 0 THEN FileSize ELSE NoHeader)
          /\ m.parts = Parts(p.file, p.pos, hi)
  BY DEF CarriesData
<1>3. /\ mk[p.file] = [who |-> c, kind |-> k]
      /\ total = (IF p.pos = 0 THEN Unset ELSE FileSize)
      /\ data = Parts(p.file, 0, p.pos)
  BY DEF Holds
<1>4. hi \in 1 .. FileSize /\ hi \in 0 .. FileSize /\ p.pos \in 0 .. hi /\ hi - 0 = hi
      /\ p.pos - 0 = p.pos
  BY <1>1, <1>2
<1>5. /\ data \in Seq(Part) /\ Len(data) = p.pos
      /\ m.parts \in Seq(Part)
      /\ Parts(p.file, 0, hi) \in Seq(Part) /\ Len(Parts(p.file, 0, hi)) = hi
  <2>1. data \in Seq(Part) /\ Len(data) = p.pos
    BY <1>1, <1>3, <1>4, PartsLength
  <2>2. m.parts \in Seq(Part)
    BY DEF Chunks
  <2>3. Parts(p.file, 0, hi) \in Seq(Part) /\ Len(Parts(p.file, 0, hi)) = hi
    BY <1>1, <1>4, PartsLength
  <2> QED BY <2>1, <2>2, <2>3
<1>6. r = Result(FileSize, Parts(p.file, 0, hi), TRUE)
  <2>1. CASE p.pos = 0
    <3>1. data = <<>> /\ m.size # NoHeader /\ m.size = FileSize
      BY <2>1, <1>1, <1>2, <1>5, EmptySeq DEF NoHeader
    <3>2. m.parts = Parts(p.file, 0, hi)
      BY <2>1, <1>2
    <3> QED BY <3>1, <3>2 DEF receive_packet
  <2>2. CASE p.pos # 0
    <3>1. data # <<>> /\ m.size = NoHeader /\ total = FileSize
      BY <2>2, <1>1, <1>2, <1>3, <1>5
    <3>2. data \o <<>> = data
      BY <1>5, ConcatEmptySeq
    <3>3. data \o m.parts = Parts(p.file, 0, hi)
      <4>1. Parts(p.file, 0, p.pos) \o Parts(p.file, p.pos, hi) = Parts(p.file, 0, hi)
        BY <1>1, <1>2, PartsJoin
      <4> QED BY <4>1, <1>2, <1>3
    <3>4. r = Result(total, data \o <<>> \o m.parts, TRUE)
      BY <3>1 DEF receive_packet
    <3> QED BY <3>1, <3>2, <3>3, <3>4
  <2> QED BY <2>1, <2>2
<1>7. /\ r.total = FileSize /\ r.data = Parts(p.file, 0, hi) /\ r.heard = TRUE
      /\ r.done <=> hi = FileSize
  BY <1>5, <1>6 DEF Result
<1>8. Len(r.data) = hi /\ r.data # <<>>
  BY <1>4, <1>5, <1>7
<1>9. /\ t \in Places(mk)
      /\ hi # FileSize => t # None /\ t = [file |-> p.file, pos |-> hi]
      /\ hi = FileSize => t = None
  BY <1>1, <1>2, <1>4, AtType DEF At
<1>10. ~ r.done => Holds(mk, t, c, k, r.total, r.data)
  BY <1>3, <1>4, <1>7, <1>9 DEF Holds
<1> QED BY <1>3, <1>4, <1>7, <1>8, <1>9, <1>10 DEF Took

-----------------------------------------------------------------------------
(* Streams: what is taken from a channel, put into it, and added to the     *)
(* files there are.                                                         *)
LEMMA FlowEmpty ==
    ASSUME NEW mk, NEW c, NEW p \in Places(mk)
    PROVE  Flow(mk, <<>>, c, p, p)
<1> DEFINE s == [i \in 0 .. 0 |-> p]
<1>1. s \in [0 .. Len(<<>>) -> Places(mk)] /\ s[0] = p /\ s[Len(<<>>)] = p
  OBVIOUS
<1>2. 1 .. Len(<<>>) = {}
  OBVIOUS
<1> HIDE DEF s
<1> QED BY <1>1, <1>2 DEF Flow

LEMMA FlowOfEmpty ==
    ASSUME NEW mk, NEW c, NEW p, NEW t, Flow(mk, <<>>, c, p, t)
    PROVE  p = t
  BY DEF Flow

LEMMA FlowTail ==
    ASSUME NEW M, NEW q \in Seq(M), q # <<>>, NEW mk, NEW c, NEW p, NEW t,
           Flow(mk, q, c, p, t)
    PROVE  \E p1 \in Places(mk) : Carries(mk, Head(q), c, p, p1) /\ Flow(mk, Tail(q), c, p1, t)
<1>1. PICK s \in [0 .. Len(q) -> Places(mk)] :
          /\ s[0] = p /\ s[Len(q)] = t
          /\ \A i \in 1 .. Len(q) : Carries(mk, q[i], c, s[i - 1], s[i])
  BY DEF Flow
<1>2. /\ Len(q) \in Nat \ {0} /\ Head(q) = q[1]
      /\ Tail(q) \in Seq(M) /\ Len(Tail(q)) = Len(q) - 1
      /\ \A i \in 1 .. Len(Tail(q)) : Tail(q)[i] = q[i + 1]
  <2>1. Len(q) \in Nat /\ Len(q) # 0
    BY EmptySeq, LenProperties
  <2> QED BY <2>1, HeadTailProperties
<1> DEFINE n == Len(Tail(q))
           u == [i \in 0 .. n |-> s[i + 1]]
<1>3. n \in Nat /\ n + 1 = Len(q) /\ \A i \in 0 .. n : i + 1 \in 0 .. Len(q)
  BY <1>2
<1>4. u \in [0 .. n -> Places(mk)] /\ u[0] = s[1] /\ u[n] = t
  BY <1>1, <1>3
<1>5. ASSUME NEW i \in 1 .. n PROVE Carries(mk, Tail(q)[i], c, u[i - 1], u[i])
  <2>1. i + 1 \in 1 .. Len(q) /\ i + 1 - 1 = i /\ i - 1 \in 0 .. n /\ i \in 0 .. n /\ i - 1 + 1 = i
    BY <1>3, <1>5
  <2>2. Carries(mk, q[i + 1], c, s[i], s[i + 1])
    BY <2>1, <1>1
  <2>3. u[i - 1] = s[i] /\ u[i] = s[i + 1] /\ Tail(q)[i] = q[i + 1]
    BY <2>1, <1>2
  <2> QED BY <2>2, <2>3
<1>6. Flow(mk, Tail(q), c, s[1], t)
  <2> HIDE DEF u
  <2> QED BY <1>4, <1>5 DEF Flow
<1>7. Carries(mk, Head(q), c, p, s[1]) /\ s[1] \in Places(mk)
  <2>1. 1 \in 1 .. Len(q) /\ 1 - 1 = 0 /\ 1 \in 0 .. Len(q)
    BY <1>2
  <2>2. Carries(mk, q[1], c, s[1 - 1], s[1])
    BY <2>1, <1>1
  <2> QED BY <2>1, <2>2, <1>1, <1>2
<1> QED BY <1>6, <1>7

LEMMA FlowAppend ==
    ASSUME NEW M, NEW q \in Seq(M), NEW m \in M, NEW mk, NEW c, NEW p, NEW t,
           NEW t1 \in Places(mk), Flow(mk, q, c, p, t), Carries(mk, m, c, t, t1)
    PROVE  Flow(mk, Append(q, m), c, p, t1)
<1>1. PICK s \in [0 .. Len(q) -> Places(mk)] :
          /\ s[0] = p /\ s[Len(q)] = t
          /\ \A i \in 1 .. Len(q) : Carries(mk, q[i], c, s[i - 1], s[i])
  BY DEF Flow
<1>2. /\ Len(q) \in Nat
      /\ Append(q, m) \in Seq(M) /\ Len(Append(q, m)) = Len(q) + 1
      /\ \A i \in 1 .. Len(q) : Append(q, m)[i] = q[i]
      /\ Append(q, m)[Len(q) + 1] = m
  BY LenProperties, AppendProperties
<1> DEFINE n == Len(q)
           u == [i \in 0 .. n + 1 |-> IF i = n + 1 THEN t1 ELSE s[i]]
<1>3. \A i \in 0 .. n + 1 : i # n + 1 => i \in 0 .. n
  BY <1>2
<1>4. /\ u \in [0 .. n + 1 -> Places(mk)] /\ u[0] = p /\ u[n + 1] = t1 /\ u[n] = t
      /\ \A i \in 0 .. n : u[i] = s[i]
  BY <1>1, <1>2, <1>3
<1>5. ASSUME NEW i \in 1 .. n + 1 PROVE Carries(mk, Append(q, m)[i], c, u[i - 1], u[i])
  <2> HIDE DEF u
  <2>1. CASE i = n + 1
    <3>1. i - 1 = n
      BY <2>1, <1>2
    <3> QED BY <2>1, <3>1, <1>2, <1>4
  <2>2. CASE i # n + 1
    <3>1. i \in 1 .. n /\ i - 1 \in 0 .. n /\ i \in 0 .. n
      BY <2>2, <1>2, <1>5
    <3> QED BY <3>1, <1>1, <1>2, <1>4
  <2> QED BY <2>1, <2>2
<1> HIDE DEF u
<1>6. Len(Append(q, m)) = n + 1
  BY <1>2
<1> QED BY <1>4, <1>5, <1>6, Zenon DEF Flow

LEMMA PlacesGrow ==
    ASSUME NEW mk \in Seq([who : Cheaters, kind : Kinds]), NEW e \in [who : Cheaters, kind : Kinds]
    PROVE  /\ Places(mk) \subseteq Places(Append(mk, e))
           /\ \A f \in DOMAIN mk : f \in DOMAIN Append(mk, e) /\ Append(mk, e)[f] = mk[f]
           /\ \A p \in Places(mk) \ {None} : p.file \in DOMAIN mk
<1>1. /\ DOMAIN mk = 1 .. Len(mk) /\ DOMAIN Append(mk, e) = 1 .. Len(mk) + 1
      /\ Len(mk) \in Nat
      /\ \A f \in 1 .. Len(mk) : Append(mk, e)[f] = mk[f]
  BY AppendProperties, LenProperties
<1> QED BY <1>1, PlaceType DEF Places

LEMMA CarriesGrows ==
    ASSUME NEW mk \in Seq([who : Cheaters, kind : Kinds]), NEW e \in [who : Cheaters, kind : Kinds],
           NEW m, NEW c, NEW p, NEW t, Carries(mk, m, c, p, t)
    PROVE  Carries(Append(mk, e), m, c, p, t)
<1>1. Opens(mk, m, c, p, t) => Opens(Append(mk, e), m, c, p, t)
  BY PlacesGrow DEF Opens
<1> QED BY <1>1 DEF Carries

LEMMA FilesGrow ==
    ASSUME NEW mk \in Seq([who : Cheaters, kind : Kinds]), NEW e \in [who : Cheaters, kind : Kinds]
    PROVE  /\ Places(mk) \subseteq Places(Append(mk, e))
           /\ \A f \in DOMAIN mk : f \in DOMAIN Append(mk, e) /\ Append(mk, e)[f] = mk[f]
           /\ \A p, c, k, total, data :
                  Holds(mk, p, c, k, total, data) => Holds(Append(mk, e), p, c, k, total, data)
           /\ \A q, c, p, t : Flow(mk, q, c, p, t) => Flow(Append(mk, e), q, c, p, t)
<1>1. /\ Places(mk) \subseteq Places(Append(mk, e))
      /\ \A f \in DOMAIN mk : f \in DOMAIN Append(mk, e) /\ Append(mk, e)[f] = mk[f]
  BY PlacesGrow
<1>2. ASSUME NEW p, NEW c, NEW k, NEW total, NEW data, Holds(mk, p, c, k, total, data)
      PROVE  Holds(Append(mk, e), p, c, k, total, data)
  <2>1. p \in Places(mk) \ {None} /\ p.file \in DOMAIN mk
    BY <1>2, PlacesGrow DEF Holds
  <2> QED BY <1>1, <1>2, <2>1 DEF Holds
<1>3. ASSUME NEW q, NEW c, NEW p, NEW t, Flow(mk, q, c, p, t)
      PROVE  Flow(Append(mk, e), q, c, p, t)
  <2>1. PICK s \in [0 .. Len(q) -> Places(mk)] :
          /\ s[0] = p /\ s[Len(q)] = t
          /\ \A i \in 1 .. Len(q) : Carries(mk, q[i], c, s[i - 1], s[i])
    BY <1>3 DEF Flow
  <2>2. s \in [0 .. Len(q) -> Places(Append(mk, e))]
    BY <2>1, <1>1
  <2>3. \A i \in 1 .. Len(q) : Carries(Append(mk, e), q[i], c, s[i - 1], s[i])
    BY <2>1, CarriesGrows
  <2> QED BY <2>1, <2>2, <2>3 DEF Flow
<1> QED BY <1>1, <1>2, <1>3

-----------------------------------------------------------------------------
(* What a step leaves alone goes on flowing. *)
MadeGrows ==
    \/ made' = made
    \/ \E e \in [who : Cheaters, kind : Kinds] : made' = Append(made, e)
DownloadKept(c) ==
    /\ c \in DOMAIN downloads' <=> c \in DOMAIN downloads
    /\ c \in DOMAIN downloads =>
          /\ downloads'[c].kind = downloads[c].kind
          /\ downloads'[c].total = downloads[c].total
          /\ downloads'[c].proxy = downloads[c].proxy
          /\ proxy'[downloads[c].proxy].first = proxy[downloads[c].proxy].first
          /\ proxy'[downloads[c].proxy].content = proxy[downloads[c].proxy].content
PlayerKept(c) ==
    Runs(c)' => /\ Runs(c)
                /\ collecting'[c] = collecting[c] /\ toClient'[c] = toClient[c]
                /\ upload'[c] = upload[c] /\ memory'[c] = memory[c]
ReceiverKept(a, c) ==
    /\ <<a, c>> \in DOMAIN receivers' <=> <<a, c>> \in DOMAIN receivers
    /\ <<a, c>> \in DOMAIN receivers =>
          /\ receivers'[<<a, c>>].kind = receivers[<<a, c>>].kind
          /\ receivers'[<<a, c>>].total = receivers[<<a, c>>].total
          /\ receivers'[<<a, c>>].data = receivers[<<a, c>>].data
RelayKept(a, c) ==
    /\ <<a, c>> \in DOMAIN relays' <=> <<a, c>> \in DOMAIN relays
    /\ <<a, c>> \in DOMAIN relays =>
          /\ relays'[<<a, c>>] = relays[<<a, c>>]
          /\ proxy'[relays[<<a, c>>].proxy].content = proxy[relays[<<a, c>>].proxy].content

LEMMA MadeMonotonic ==
    ASSUME PlayerOK, MadeGrows
    PROVE  /\ Places(made) \subseteq Places(made')
           /\ \A p, c, k, total, data :
                  Holds(made, p, c, k, total, data) => Holds(made', p, c, k, total, data)
           /\ \A q, c, p, t : Flow(made, q, c, p, t) => Flow(made', q, c, p, t)
<1>1. made \in Seq([who : Cheaters, kind : Kinds])
  BY DEF PlayerOK
<1>2. CASE made' = made
  BY <1>2
<1>3. CASE \E e \in [who : Cheaters, kind : Kinds] : made' = Append(made, e)
  <2>1. PICK e \in [who : Cheaters, kind : Kinds] : made' = Append(made, e)
    BY <1>3
  <2>2. /\ Places(made) \subseteq Places(Append(made, e))
        /\ \A p, c, k, total, data :
             Holds(made, p, c, k, total, data) => Holds(Append(made, e), p, c, k, total, data)
        /\ \A q, c, p, t : Flow(made, q, c, p, t) => Flow(Append(made, e), q, c, p, t)
    BY <1>1, FilesGrow
  <2> QED BY <2>1, <2>2
<1> QED BY <1>2, <1>3 DEF MadeGrows

LEMMA DownloadAtKept ==
    ASSUME PlayerOK, MadeGrows, NEW c \in Cheaters, DownloadKept(c), NEW p, DownloadAt(c, p)
    PROVE  DownloadAt(c, p)'
<1>1. \A x, y, k, total, data :
          Holds(made, x, y, k, total, data) => Holds(made', x, y, k, total, data)
  BY MadeMonotonic
<1> QED BY <1>1 DEF DownloadAt, DownloadKept

LEMMA PlayerAtKept ==
    ASSUME NEW c \in Cheaters, DownloadKept(c), PlayerKept(c), Runs(c)',
           NEW p, NEW t, PlayerAt(c, p, t)
    PROVE  PlayerAt(c, p, t)'
  BY DEF DownloadKept, PlayerKept, PlayerAt, Unasked, Asked

LEMMA UploadStays ==
    ASSUME PlayerOK, MadeGrows, NEW c \in Cheaters, UploadFlows(c),
           toServer'[c] = toServer[c], DownloadKept(c), PlayerKept(c)
    PROVE  UploadFlows(c)'
<1>1. PICK p \in Places(made), t \in Places(made) :
          /\ Flow(made, toServer[c], c, p, t)
          /\ DownloadAt(c, p)
          /\ Runs(c) => PlayerAt(c, p, t)
  BY DEF UploadFlows
<1>2. p \in Places(made') /\ t \in Places(made') /\ Flow(made', toServer'[c], c, p, t)
  BY <1>1, MadeMonotonic
<1>3. DownloadAt(c, p)'
  BY <1>1, DownloadAtKept
<1>4. Runs(c)' => Runs(c)
  BY DEF PlayerKept
<1>5. Runs(c)' => PlayerAt(c, p, t)'
  BY <1>1, <1>4, PlayerAtKept
<1>6. toServer'[c] \in Seq(Uploads(c)) /\ (Runs(c)' => toServer'[c] \in Seq(Steady(c)))
  BY <1>4 DEF UploadFlows
<1> QED BY <1>2, <1>3, <1>5, <1>6 DEF UploadFlows

LEMMA ReceiverAtKept ==
    ASSUME PlayerOK, MadeGrows, NEW a \in Admins, NEW c \in Cheaters, ReceiverKept(a, c),
           NEW p, ReceiverAt(a, c, p)
    PROVE  ReceiverAt(a, c, p)'
<1>1. \A x, y, k, total, data :
          Holds(made, x, y, k, total, data) => Holds(made', x, y, k, total, data)
  BY MadeMonotonic
<1> QED BY <1>1 DEF ReceiverAt, ReceiverKept

LEMMA RelayAtKept ==
    ASSUME NEW a \in Admins, NEW c \in Cheaters, RelayKept(a, c), NEW t, RelayAt(a, c, t)
    PROVE  RelayAt(a, c, t)'
  BY DEF RelayAt, RelayKept

(* What the server puts for a, or a hears, about other players than c.      *)
OthersOnly(a, c) ==
    \/ toClient'[a] = toClient[a]
    \/ /\ toClient[a] # <<>> /\ Head(toClient[a]).who # c
       /\ toClient'[a] = Tail(toClient[a])
    \/ \E m \in ToClient : m.who # c /\ toClient'[a] = Append(toClient[a], m)

LEMMA OthersPass ==
    ASSUME NEW a \in Admins, NEW c \in Cheaters, toClient[a] \in Seq(NoAbort(c)),
           OthersOnly(a, c), NEW p \in Places(made), NEW t \in Places(made),
           Flow(made, toClient[a], c, p, t)
    PROVE  toClient'[a] \in Seq(NoAbort(c)) /\ Flow(made, toClient'[a], c, p, t)
<1>1. CASE toClient'[a] = toClient[a]
  BY <1>1
<1>2. CASE /\ toClient[a] # <<>> /\ Head(toClient[a]).who # c
           /\ toClient'[a] = Tail(toClient[a])
  <2>1. Tail(toClient[a]) \in Seq(NoAbort(c))
    BY <1>2, HeadTailProperties
  <2>2. PICK p1 \in Places(made) : /\ Carries(made, Head(toClient[a]), c, p, p1)
                                   /\ Flow(made, Tail(toClient[a]), c, p1, t)
    BY <1>2, FlowTail
  <2>3. p1 = p
    BY <2>2, <1>2 DEF Carries
  <2> QED BY <2>1, <2>2, <2>3, <1>2
<1>3. ASSUME NEW m \in ToClient, m.who # c, toClient'[a] = Append(toClient[a], m)
      PROVE  toClient'[a] \in Seq(NoAbort(c)) /\ Flow(made, toClient'[a], c, p, t)
  <2>1. m \in NoAbort(c) /\ Carries(made, m, c, t, t)
    BY <1>3 DEF NoAbort, Carries
  <2>2. Append(toClient[a], m) \in Seq(NoAbort(c))
    BY <2>1, AppendProperties
  <2>3. Flow(made, Append(toClient[a], m), c, p, t)
    BY <2>1, FlowAppend
  <2> QED BY <2>2, <2>3, <1>3
<1> QED BY <1>1, <1>2, <1>3 DEF OthersOnly

LEMMA RelayStays ==
    ASSUME PlayerOK, MadeGrows, NEW a \in Admins, NEW c \in Cheaters, RelayFlows(a, c),
           toServer'[a] \in Seq(NoReject(c)), OthersOnly(a, c),
           ReceiverKept(a, c), RelayKept(a, c)
    PROVE  RelayFlows(a, c)'
<1>1. PICK p \in Places(made), t \in Places(made) :
          /\ Flow(made, toClient[a], c, p, t)
          /\ ReceiverAt(a, c, p)
          /\ RelayAt(a, c, t)
  BY DEF RelayFlows
<1>2. toClient'[a] \in Seq(NoAbort(c)) /\ Flow(made, toClient'[a], c, p, t)
  BY <1>1, OthersPass DEF RelayFlows
<1>3. p \in Places(made') /\ t \in Places(made') /\ Flow(made', toClient'[a], c, p, t)
  BY <1>1, <1>2, MadeMonotonic
<1>4. ReceiverAt(a, c, p)' /\ RelayAt(a, c, t)'
  BY <1>1, ReceiverAtKept, RelayAtKept
<1> QED BY <1>2, <1>3, <1>4 DEF RelayFlows

(* A step keeps the flows if it keeps each one that is still patient. *)
LEMMA FlowsStep ==
    ASSUME Flows, gaveUp \subseteq gaveUp', present' \subseteq present,
           \A c \in Cheaters : UploadFlows(c) /\ Patient(Server, c)' => UploadFlows(c)',
           \A a \in Admins, c \in Cheaters :
               a \in present' /\ RelayFlows(a, c) /\ UploadFlows(c) /\ Patient(a, c)'
                   => RelayFlows(a, c)'
    PROVE  Flows'
<1>1. \A a, c : Patient(a, c)' => Patient(a, c) /\ Patient(Server, c)
  BY DEF Patient
<1>2. \A c \in Cheaters : Patient(Server, c) => UploadFlows(c)
  BY DEF Flows
<1>3. \A a \in Admins, c \in Cheaters : a \in present' /\ Patient(a, c)' => RelayFlows(a, c)
  BY <1>1 DEF Flows
<1> QED BY <1>1, <1>2, <1>3 DEF Flows

-----------------------------------------------------------------------------
(* Who a message reaches. *)
LEMMA PutReaches ==
    ASSUME NetworkOK, NEW x \in Clients, NEW m, toClient' = Put(x, m)
    PROVE  /\ \A y \in Clients \ {x} : toClient'[y] = toClient[y]
           /\ toClient'[x] = IF x \in present THEN Append(toClient[x], m) ELSE toClient[x]
  BY DEF NetworkOK, Put

LEMMA SendReaches ==
    ASSUME NetworkOK, NEW x \in Clients, NEW m, Send(x, m)
    PROVE  /\ \A y \in Clients \ {x} : toServer'[y] = toServer[y]
           /\ toServer'[x] = Append(toServer[x], m)
  BY DEF NetworkOK, Send

LEMMA ServerTakes ==
    ASSUME NetworkOK, NEW x \in Clients, NEW type, ServerHears(x, type)
    PROVE  /\ \A y \in Clients \ {x} : toServer'[y] = toServer[y]
           /\ toServer[x] # <<>> /\ toServer'[x] = Tail(toServer[x])
           /\ Head(toServer[x]).type = type
           /\ UNCHANGED <<present, stopped, player, receivers, gaveUp>>
  BY DEF NetworkOK, ServerHears

LEMMA ClientTakes ==
    ASSUME NetworkOK, NEW x \in Clients, NEW type, Hears(x, type)
    PROVE  /\ \A y \in Clients \ {x} : toClient'[y] = toClient[y]
           /\ toClient[x] # <<>> /\ toClient'[x] = Tail(toClient[x])
           /\ Head(toClient[x]).type = type
           /\ Runs(x) /\ UNCHANGED <<present, stopped, server, gaveUp>>
  BY DEF NetworkOK, Hears

LEMMA Apart ==
    /\ Admins \subseteq Clients /\ Cheaters \subseteq Clients
    /\ \A a \in Admins, c \in Cheaters : a # c
  BY RolesAssumption DEF Clients

(* What goes to the server when a message is taken or another is sent. *)
LEMMA NoRejectKept ==
    ASSUME NEW a \in Admins, NEW c \in Cheaters, RelayFlows(a, c),
           \/ toServer'[a] = toServer[a]
           \/ toServer[a] # <<>> /\ toServer'[a] = Tail(toServer[a])
           \/ \E m \in NoReject(c) : toServer'[a] = Append(toServer[a], m)
    PROVE  toServer'[a] \in Seq(NoReject(c))
<1>1. toServer[a] \in Seq(NoReject(c))
  BY DEF RelayFlows
<1>2. CASE toServer[a] # <<>> /\ toServer'[a] = Tail(toServer[a])
  BY <1>1, <1>2, HeadTailProperties
<1>3. ASSUME NEW m \in NoReject(c), toServer'[a] = Append(toServer[a], m)
      PROVE  toServer'[a] \in Seq(NoReject(c))
  BY <1>1, <1>3, AppendProperties
<1> QED BY <1>1, <1>2, <1>3

(* Steps that touch no more than heard flags and messages of no account.    *)
LEMMA DownloadQuietFlows ==
    ASSUME IInv, Flows, NEW x \in Cheaters, DownloadQuiet(x)
    PROVE  Flows'
<1>1. /\ x \in DOMAIN downloads
      /\ downloads' = [downloads EXCEPT ![x].heard = FALSE]
      /\ UNCHANGED <<network, player, proxy, relays, receivers, gaveUp>>
  BY DEF DownloadQuiet
<1>2. \A c \in Cheaters : DownloadKept(c)
  <2>1. downloads \in [DOMAIN downloads -> Download]
    BY DEF IInv, TypeOK, SessionsOK, Download
  <2> QED BY <1>1, <2>1 DEF DownloadKept, Download
<1>3. \A c \in Cheaters : PlayerKept(c)
  BY <1>1 DEF PlayerKept, network, player, Runs
<1>4. \A a \in Admins, c \in Cheaters : ReceiverKept(a, c) /\ RelayKept(a, c)
  BY <1>1 DEF ReceiverKept, RelayKept
<1>5. MadeGrows /\ PlayerOK /\ UNCHANGED <<toServer, toClient, present, gaveUp>>
  BY <1>1 DEF MadeGrows, player, network, IInv, TypeOK
<1>6. \A a \in Admins, c \in Cheaters : RelayFlows(a, c) => toServer'[a] \in Seq(NoReject(c))
  BY <1>5, NoRejectKept
<1>7. \A c \in Cheaters : UploadFlows(c) => UploadFlows(c)'
  BY <1>2, <1>3, <1>5, UploadStays
<1>8. \A a \in Admins, c \in Cheaters : RelayFlows(a, c) => RelayFlows(a, c)'
  BY <1>4, <1>5, <1>6, RelayStays DEF OthersOnly
<1> QED BY <1>5, <1>7, <1>8, FlowsStep

LEMMA ReceiverQuietFlows ==
    ASSUME IInv, Flows, NEW b \in Admins, NEW x \in Cheaters, ReceiverQuiet(b, x)
    PROVE  Flows'
<1>1. /\ <<b, x>> \in DOMAIN receivers
      /\ receivers' = [receivers EXCEPT ![<<b, x>>].heard = FALSE]
      /\ UNCHANGED <<network, player, server, gaveUp>>
  BY DEF ReceiverQuiet
<1>2. \A c \in Cheaters : DownloadKept(c) /\ PlayerKept(c)
  BY <1>1 DEF PlayerKept, DownloadKept, network, player, server, Runs
<1>3. \A a \in Admins, c \in Cheaters : ReceiverKept(a, c)
  <2>1. receivers \in [DOMAIN receivers -> Receiver]
    BY DEF IInv, TypeOK, ReceiversOK, Receiver
  <2> QED BY <1>1, <2>1 DEF ReceiverKept, Receiver
<1>4. \A a \in Admins, c \in Cheaters : RelayKept(a, c)
  BY <1>1 DEF RelayKept, server
<1>5. MadeGrows /\ PlayerOK /\ UNCHANGED <<toServer, toClient, present, gaveUp>>
  BY <1>1 DEF MadeGrows, player, network, IInv, TypeOK
<1>6. \A a \in Admins, c \in Cheaters : RelayFlows(a, c) => toServer'[a] \in Seq(NoReject(c))
  BY <1>5, NoRejectKept
<1>7. \A c \in Cheaters : UploadFlows(c) => UploadFlows(c)'
  BY <1>2, <1>5, UploadStays
<1>8. \A a \in Admins, c \in Cheaters : RelayFlows(a, c) => RelayFlows(a, c)'
  BY <1>3, <1>4, <1>5, <1>6, RelayStays DEF OthersOnly
<1> QED BY <1>5, <1>7, <1>8, FlowsStep

LEMMA RequestFlows ==
    ASSUME IInv, Flows, NEW b \in Admins, NEW x \in Cheaters, NEW k \in Kinds,
           Request(b, x, k)
    PROVE  Flows'
<1>1. /\ Send(b, Ask("command", x, k))
      /\ UNCHANGED <<present, stopped, toClient, player, server, receivers, gaveUp>>
  BY DEF Request
<1>2. \A c \in Cheaters : DownloadKept(c) /\ PlayerKept(c)
  BY <1>1 DEF PlayerKept, DownloadKept, player, server, Runs
<1>3. \A a \in Admins, c \in Cheaters : ReceiverKept(a, c) /\ RelayKept(a, c)
  BY <1>1 DEF ReceiverKept, RelayKept, server
<1>4. MadeGrows /\ PlayerOK /\ NetworkOK /\ UNCHANGED <<toClient, present, gaveUp>>
  BY <1>1 DEF MadeGrows, player, IInv, TypeOK
<1>5. /\ \A y \in Clients \ {b} : toServer'[y] = toServer[y]
      /\ toServer'[b] = Append(toServer[b], Ask("command", x, k))
  BY <1>1, <1>4, SendReaches DEF Clients
<1>6. \A a \in Admins, c \in Cheaters : RelayFlows(a, c) => toServer'[a] \in Seq(NoReject(c))
  <2>1. \A c \in Cheaters : Ask("command", x, k) \in NoReject(c)
    BY NoteType DEF NoReject, Ask
  <2> QED BY <1>5, <2>1, Apart, NoRejectKept
<1>7. \A c \in Cheaters : UploadFlows(c) => UploadFlows(c)'
  BY <1>2, <1>4, <1>5, Apart, UploadStays
<1>8. \A a \in Admins, c \in Cheaters : RelayFlows(a, c) => RelayFlows(a, c)'
  BY <1>3, <1>4, <1>6, RelayStays DEF OthersOnly
<1> QED BY <1>4, <1>7, <1>8, FlowsStep

(* A request is put to a player that has no upload under way.               *)
LEMMA NothingUnderWay ==
    ASSUME PlayerOK, NEW c \in Cheaters, Runs(c), toServer[c] \in Seq(Steady(c)),
           NEW p \in Places(made), NEW t, p = None,
           Flow(made, toServer[c], c, p, t), PlayerAt(c, p, t)
    PROVE  toServer[c] = <<>> /\ t = None /\ upload[c] = Idle
<1>1. toServer[c] = <<>>
  <2> SUFFICES ASSUME toServer[c] # <<>> PROVE FALSE
    OBVIOUS
  <2>1. Head(toServer[c]) \in Steady(c)
    BY HeadTailProperties
  <2>2. PICK p1 \in Places(made) : Carries(made, Head(toServer[c]), c, p, p1)
    BY FlowTail
  <2>3. Head(toServer[c]).who = c /\ Head(toServer[c]).type = "data"
    BY <2>1 DEF Steady, Uploads
  <2> QED BY <2>2, <2>3 DEF Carries, CarriesData
<1>2. t = None
  BY <1>1, FlowOfEmpty
<1>3. upload[c] = Idle
  <2>1. upload[c] # Idle => memory[c] # 0
    BY DEF PlayerOK
  <2> QED BY <1>2, <2>1 DEF PlayerAt, None
<1> QED BY <1>1, <1>2, <1>3

LEMMA MakeDataFlows ==
    ASSUME IInv, NEW q \in Proxies, ~ is_active(q), NEW b \in Admins, NEW x \in Cheaters,
           NEW k \in Kinds, MakeData(q, b, x, k), relays' = relays,
           UNCHANGED <<present, stopped, player>>, toServer'[x] = toServer[x]
    PROVE  /\ \A c \in Clients \ {x} : toClient'[c] = toClient[c]
           /\ \A c \in Cheaters \ {x} : DownloadKept(c)
           /\ \A a \in Admins, c \in Cheaters : RelayKept(a, c)
           /\ UploadFlows(x) => UploadFlows(x)'
<1>1. /\ \A c \in DOMAIN downloads : downloads[c].proxy # q /\ downloads[c].proxy \in Proxies
      /\ \A key \in DOMAIN relays : relays[key].proxy # q /\ relays[key].proxy \in Proxies
      /\ proxy \in [Proxies -> ProxyRec] /\ NetworkOK /\ PlayerOK
  BY FreeProxy DEF IInv, TypeOK, SessionsOK, ProxyOK, ProxyRec
<1>2. \A y \in Proxies \ {q} : proxy'[y] = proxy[y]
  BY <1>1 DEF MakeData
<1>3. \A a \in Admins, c \in Cheaters : RelayKept(a, c)
  BY <1>1, <1>2 DEF RelayKept
<1>4. CASE x \notin present \/ x \in DOMAIN downloads
  <2>1. UNCHANGED <<downloads, toClient>>
    BY <1>4 DEF MakeData
  <2>2. \A c \in Cheaters : DownloadKept(c)
    BY <2>1, <1>1, <1>2 DEF DownloadKept
  <2>3. PlayerKept(x) /\ MadeGrows
    BY <2>1 DEF PlayerKept, MadeGrows, player, Runs
  <2>4. UploadFlows(x) => UploadFlows(x)'
    BY <2>2, <2>3, <1>1, UploadStays
  <2> QED BY <2>1, <2>2, <2>4, <1>3
<1>5. CASE ~ (x \notin present \/ x \in DOMAIN downloads)
  <2> DEFINE new == [proxy |-> q, kind |-> k, total |-> Unset, heard |-> TRUE]
             ask == Ask("request", x, k)
  <2>1. /\ proxy' = [proxy EXCEPT ![q] = [admin |-> b, cheater |-> x, first |-> TRUE,
                                           content |-> <<>>]]
        /\ downloads' = With(downloads, x, new)
        /\ toClient' = Put(x, ask)
    BY <1>5 DEF MakeData
  <2>2. /\ DOMAIN downloads' = DOMAIN downloads \cup {x} /\ downloads'[x] = new
        /\ \A c \in DOMAIN downloads \ {x} : downloads'[c] = downloads[c]
    BY <2>1 DEF With
  <2>3. \A c \in Cheaters \ {x} : DownloadKept(c)
    BY <2>2, <1>1, <1>2 DEF DownloadKept
  <2>4. /\ \A c \in Clients \ {x} : toClient'[c] = toClient[c]
        /\ toClient'[x] = Append(toClient[x], ask)
    BY <2>1, <1>1, <1>5, PutReaches DEF Clients
  <2>5. /\ proxy'[q].first = TRUE /\ proxy'[q].content = <<>>
    BY <2>1, <1>1
  <2>6. DownloadAt(x, None)'
    BY <2>2, <2>5 DEF DownloadAt
  <2>7. ASSUME UploadFlows(x) PROVE UploadFlows(x)'
    <3>1. PICK p \in Places(made), t \in Places(made) :
              /\ Flow(made, toServer[x], x, p, t) /\ DownloadAt(x, p)
              /\ Runs(x) => PlayerAt(x, p, t)
      BY <2>7 DEF UploadFlows
    <3>2. p = None
      BY <3>1, <1>5 DEF DownloadAt
    <3>3. ASSUME Runs(x) PROVE PlayerAt(x, p, t)'
      <4>1. toServer[x] = <<>> /\ t = None /\ upload[x] = Idle
        BY <3>1, <3>2, <3>3, <2>7, <1>1, NothingUnderWay DEF UploadFlows
      <4>2. Unasked(x)
        BY <3>1, <3>3, <4>1, <1>5 DEF PlayerAt, Asked
      <4>3. collecting'[x] = {} /\ toClient'[x] = <<Ask("request", x, k)>>
        BY <4>2, <2>4 DEF Unasked, player
      <4>4. x \in DOMAIN downloads' /\ downloads'[x].kind = k
        BY <2>2
      <4> HIDE DEF ask, new
      <4>5. Asked(x)'
        BY <4>3, <4>4 DEF Asked
      <4>6. upload'[x] = Idle
        BY <4>1 DEF player
      <4> QED BY <3>2, <4>1, <4>5, <4>6 DEF PlayerAt
    <3>4. made' = made /\ (Runs(x)' <=> Runs(x))
      BY DEF player, Runs
    <3>5. DownloadAt(x, p)'
      BY <2>6, <3>2
    <3> QED BY <3>1, <3>3, <3>4, <3>5, <2>7 DEF UploadFlows
  <2> QED BY <2>3, <2>4, <2>7, <1>3
<1> QED BY <1>4, <1>5

LEMMA HandleCommandFlows ==
    ASSUME IInv, Flows, NEW b \in Admins, HandleCommand(b)
    PROVE  Flows'
<1> DEFINE m    == Head(toServer[b])
           free == {q \in Proxies : ~ is_active(q)}
<1>1. ServerHears(b, "command") /\ relays' = relays /\ NetworkOK /\ PlayerOK
  BY DEF HandleCommand, IInv, TypeOK
<1>2. /\ \A y \in Clients \ {b} : toServer'[y] = toServer[y]
      /\ toServer[b] # <<>> /\ toServer'[b] = Tail(toServer[b])
      /\ UNCHANGED <<present, stopped, player, receivers, gaveUp>>
  BY <1>1, ServerTakes DEF Clients
<1>3. PICK x \in Cheaters, k \in Kinds : x = m.who /\ k = m.kind
  <2>1. m.who \in Cheaters /\ m.kind \in Kinds
    BY <1>1, ServerHearsType, MessageTypes DEF Clients
  <2> QED BY <2>1
<1>4. /\ \A c \in Clients \ {x} : toClient'[c] = toClient[c]
      /\ \A c \in Cheaters \ {x} : DownloadKept(c)
      /\ \A a \in Admins, c \in Cheaters : RelayKept(a, c)
      /\ UploadFlows(x) => UploadFlows(x)'
  <2>1. CASE free = {}
    <3>1. UNCHANGED <<proxy, downloads, toClient>>
      BY <2>1 DEF HandleCommand
    <3>2. \A c \in Cheaters : DownloadKept(c) /\ PlayerKept(c)
      BY <3>1, <1>2 DEF DownloadKept, PlayerKept, Runs, player
    <3>3. MadeGrows /\ toServer'[x] = toServer[x]
      BY <1>2, <1>3, Apart DEF MadeGrows, player
    <3>4. UploadFlows(x) => UploadFlows(x)'
      BY <3>2, <3>3, <1>1, <1>3, UploadStays
    <3> QED BY <3>1, <3>2, <3>4, <1>1 DEF RelayKept
  <2>2. CASE free # {}
    <3>1. Min(free) \in free
      BY <2>2, MinIsMember, ProxiesAssumption
    <3>2. MakeData(Min(free), b, x, k)
      BY <2>2, <1>3 DEF HandleCommand
    <3>3. toServer'[x] = toServer[x]
      BY <1>2, <1>3, Apart
    <3>4. Min(free) \in Proxies /\ ~ is_active(Min(free))
      BY <3>1
    <3> HIDE DEF free
    <3> QED BY <3>2, <3>3, <3>4, <1>1, <1>2, <1>3, MakeDataFlows
  <2> QED BY <2>1, <2>2
<1> HIDE DEF m
<1>5. MadeGrows /\ \A a \in Admins, c \in Cheaters : ReceiverKept(a, c)
  BY <1>2 DEF MadeGrows, player, ReceiverKept
<1>6. \A a \in Admins, c \in Cheaters : RelayFlows(a, c) => toServer'[a] \in Seq(NoReject(c))
  BY <1>2, Apart, NoRejectKept
<1>7. \A c \in Cheaters \ {x} : PlayerKept(c) /\ toServer'[c] = toServer[c]
  BY <1>2, <1>4, Apart DEF PlayerKept, Runs, player
<1>8. \A c \in Cheaters : UploadFlows(c) => UploadFlows(c)'
  <2>1. ASSUME NEW c \in Cheaters \ {x}, UploadFlows(c) PROVE UploadFlows(c)'
    BY <2>1, <1>1, <1>4, <1>5, <1>7, UploadStays
  <2> QED BY <2>1, <1>4
<1>9. \A a \in Admins, c \in Cheaters : RelayFlows(a, c) => RelayFlows(a, c)'
  BY <1>1, <1>3, <1>4, <1>5, <1>6, Apart, RelayStays DEF OthersOnly
<1> QED BY <1>2, <1>8, <1>9, FlowsStep

(* A reject, and the abort it brings about, is a matter of those who have   *)
(* given up.                                                                *)
LEMMA ReceiveRejectFlows ==
    ASSUME IInv, Flows, NEW b \in Admins, ReceiveReject(b)
    PROVE  Flows'
<1> DEFINE m == Head(toServer[b])
<1>1. /\ ServerHears(b, "reject") /\ proxy' = proxy /\ downloads' = downloads
      /\ NetworkOK /\ PlayerOK
  BY DEF ReceiveReject, IInv, TypeOK
<1>2. /\ \A y \in Clients \ {b} : toServer'[y] = toServer[y]
      /\ toServer[b] # <<>> /\ toServer'[b] = Tail(toServer[b]) /\ m.type = "reject"
      /\ UNCHANGED <<present, stopped, player, receivers, gaveUp>>
  BY <1>1, ServerTakes DEF Clients
<1>3. PICK x \in Cheaters : x = m.who
  BY <1>1, ServerHearsType, MessageTypes DEF Clients
<1>4. /\ \A a \in Admins, c \in Cheaters : <<a, c>> # <<b, x>> => RelayKept(a, c)
      /\ toClient' = toClient \/ toClient' = Put(b, Note("abort", x))
  <2>1. CASE <<b, x>> \in DOMAIN relays
    <3>1. /\ relays' = Without(relays, <<b, x>>)
          /\ toClient' = toClient \/ toClient' = Put(b, Note("abort", x))
      BY <2>1, <1>3 DEF ReceiveReject
    <3> QED BY <3>1, <1>1 DEF RelayKept, Without, Restrict
  <2>2. CASE <<b, x>> \notin DOMAIN relays
    BY <2>2, <1>1, <1>3 DEF ReceiveReject, RelayKept
  <2> QED BY <2>1, <2>2
<1>5. /\ \A y \in Clients \ {b} : toClient'[y] = toClient[y]
      /\ \A c \in Cheaters \ {x} : OthersOnly(b, c)
  <2>1. ASSUME toClient' = Put(b, Note("abort", x))
        PROVE  /\ \A y \in Clients \ {b} : toClient'[y] = toClient[y]
               /\ \/ toClient'[b] = toClient[b]
                  \/ toClient'[b] = Append(toClient[b], Note("abort", x))
    BY <2>1, <1>1, PutReaches DEF Clients
  <2>2. Note("abort", x) \in ToClient /\ Note("abort", x).who = x
    BY NoteType DEF Note
  <2> QED BY <2>1, <2>2, <1>4 DEF OthersOnly
<1>6. ~ RelayFlows(b, x)
  <2> SUFFICES ASSUME RelayFlows(b, x) PROVE FALSE
    OBVIOUS
  <2>1. Head(toServer[b]) \in NoReject(x)
    BY <1>2, HeadTailProperties DEF RelayFlows
  <2> QED BY <2>1, <1>2, <1>3 DEF NoReject
<1>7. \A c \in Cheaters : DownloadKept(c) /\ PlayerKept(c) /\ toServer'[c] = toServer[c]
  BY <1>1, <1>2, <1>5, Apart DEF DownloadKept, PlayerKept, Runs, player
<1>8. MadeGrows /\ \A a \in Admins, c \in Cheaters : ReceiverKept(a, c)
  BY <1>2 DEF MadeGrows, player, ReceiverKept
<1>9. \A c \in Cheaters : UploadFlows(c) => UploadFlows(c)'
  BY <1>1, <1>7, <1>8, UploadStays
<1>10. ASSUME NEW a \in Admins, NEW c \in Cheaters, RelayFlows(a, c)
       PROVE  RelayFlows(a, c)'
  <2>1. <<a, c>> # <<b, x>>
    BY <1>6, <1>10
  <2>2. toServer'[a] \in Seq(NoReject(c))
    BY <1>2, <1>10, Apart, NoRejectKept
  <2>3. OthersOnly(a, c)
    BY <2>1, <1>5, Apart DEF OthersOnly
  <2> QED BY <2>1, <2>2, <2>3, <1>1, <1>4, <1>8, <1>10, RelayStays
<1> QED BY <1>2, <1>9, <1>10, FlowsStep

(* A download that stops is no other player's. *)
LEMMA StopDownloadKeeps ==
    ASSUME IInv, NEW x \in Cheaters, StopDownload(x), proxy' = proxy, relays' = relays
    PROVE  /\ x \notin DOMAIN downloads'
           /\ \A c \in Cheaters \ {x} : DownloadKept(c)
           /\ \A y \in Clients \ {x} : toClient'[y] = toClient[y]
           /\ \A a \in Admins, c \in Cheaters : RelayKept(a, c)
<1>1. /\ downloads' = Without(downloads, x) /\ NetworkOK
      /\ toClient' = toClient \/ toClient' = Put(x, Note("reject", x))
  BY DEF StopDownload, IInv, TypeOK
<1>2. \A y \in Clients \ {x} : toClient'[y] = toClient[y]
  BY <1>1, PutReaches DEF Clients
<1> QED BY <1>1, <1>2 DEF Without, Restrict, DownloadKept, RelayKept

LEMMA ReceiveAbortFlows ==
    ASSUME IInv, Flows, NEW x \in Cheaters, ReceiveAbort(x)
    PROVE  Flows'
<1>1. /\ ServerHears(x, "abort") /\ proxy' = proxy /\ relays' = relays
      /\ NetworkOK /\ PlayerOK
  BY DEF ReceiveAbort, IInv, TypeOK
<1>2. /\ \A y \in Clients \ {x} : toServer'[y] = toServer[y]
      /\ toServer[x] # <<>> /\ toServer'[x] = Tail(toServer[x])
      /\ Head(toServer[x]).type = "abort"
      /\ UNCHANGED <<present, stopped, player, receivers, gaveUp>>
  BY <1>1, ServerTakes DEF Clients
<1>3. /\ x \notin DOMAIN downloads'
      /\ \A c \in Cheaters \ {x} : DownloadKept(c)
      /\ \A y \in Clients \ {x} : toClient'[y] = toClient[y]
      /\ \A a \in Admins, c \in Cheaters : RelayKept(a, c)
  <2>1. CASE x \in DOMAIN downloads
    BY <2>1, <1>1, StopDownloadKeeps DEF ReceiveAbort
  <2>2. CASE x \notin DOMAIN downloads
    BY <2>2, <1>1 DEF ReceiveAbort, DownloadKept, RelayKept
  <2> QED BY <2>1, <2>2
<1>4. \A c \in Cheaters \ {x} : PlayerKept(c) /\ toServer'[c] = toServer[c]
  BY <1>2, <1>3, Apart DEF PlayerKept, Runs, player
<1>5. MadeGrows /\ \A a \in Admins, c \in Cheaters : ReceiverKept(a, c)
  BY <1>2 DEF MadeGrows, player, ReceiverKept
<1>6. ASSUME UploadFlows(x) PROVE UploadFlows(x)'
  <2>1. PICK p \in Places(made), t \in Places(made) : Flow(made, toServer[x], x, p, t)
    BY <1>6 DEF UploadFlows
  <2>2. /\ toServer[x] \in Seq(Uploads(x)) /\ Head(toServer[x]) \in Uploads(x)
        /\ toServer'[x] \in Seq(Uploads(x))
    BY <1>2, <1>6, HeadTailProperties DEF UploadFlows
  <2>3. PICK p1 \in Places(made) : /\ Carries(made, Head(toServer[x]), x, p, p1)
                                  /\ Flow(made, toServer'[x], x, p1, t)
    BY <2>1, <2>2, <1>2, FlowTail
  <2>4. p1 = None
    BY <2>2, <2>3, <1>2 DEF Carries, Uploads
  <2>5. ~ Runs(x)
    <3> SUFFICES ASSUME Runs(x) PROVE FALSE
      OBVIOUS
    <3>1. Head(toServer[x]) \in Steady(x)
      BY <1>2, <1>6, HeadTailProperties DEF UploadFlows
    <3> QED BY <3>1, <1>2 DEF Steady
  <2>6. made' = made /\ ~ Runs(x)'
    BY <2>5, <1>2 DEF player, Runs
  <2>7. DownloadAt(x, p1)'
    BY <2>4, <1>3 DEF DownloadAt
  <2> QED BY <2>1, <2>2, <2>3, <2>6, <2>7 DEF UploadFlows
<1>7. ASSUME NEW c \in Cheaters, UploadFlows(c) PROVE UploadFlows(c)'
  <2>1. CASE c = x
    BY <2>1, <1>6, <1>7
  <2>2. CASE c # x
    BY <2>2, <1>1, <1>3, <1>4, <1>5, <1>7, UploadStays
  <2> QED BY <2>1, <2>2
<1>8. ASSUME NEW a \in Admins, NEW c \in Cheaters, RelayFlows(a, c) PROVE RelayFlows(a, c)'
  <2>1. toServer'[a] \in Seq(NoReject(c)) /\ OthersOnly(a, c)
    BY <1>2, <1>3, <1>8, Apart, NoRejectKept DEF OthersOnly
  <2> QED BY <2>1, <1>1, <1>3, <1>5, <1>8, RelayStays
<1> QED BY <1>2, <1>7, <1>8, FlowsStep

LEMMA DownloadTimesOutFlows ==
    ASSUME IInv, Flows, NEW x \in Cheaters, DownloadTimesOut(x)
    PROVE  Flows'
<1>1. /\ StopDownload(x) /\ gaveUp' = gaveUp \cup {<<Server, x>>}
      /\ UNCHANGED <<present, stopped, toServer, player, proxy, relays, receivers>>
      /\ NetworkOK /\ PlayerOK
  BY DEF DownloadTimesOut, IInv, TypeOK
<1>2. /\ \A c \in Cheaters \ {x} : DownloadKept(c)
      /\ \A y \in Clients \ {x} : toClient'[y] = toClient[y]
      /\ \A a \in Admins, c \in Cheaters : RelayKept(a, c)
  BY <1>1, StopDownloadKeeps
<1>3. \A a : ~ Patient(a, x)'
  BY <1>1 DEF Patient
<1>4. \A c \in Cheaters \ {x} : PlayerKept(c)
  BY <1>1, <1>2, Apart DEF PlayerKept, Runs, player
<1>5. MadeGrows /\ \A a \in Admins, c \in Cheaters : ReceiverKept(a, c)
  BY <1>1 DEF MadeGrows, player, ReceiverKept
<1>6. ASSUME NEW c \in Cheaters, UploadFlows(c), Patient(Server, c)' PROVE UploadFlows(c)'
  <2>1. c # x
    BY <1>3, <1>6
  <2> QED BY <2>1, <1>1, <1>2, <1>4, <1>5, <1>6, UploadStays
<1>7. ASSUME NEW a \in Admins, NEW c \in Cheaters, RelayFlows(a, c) PROVE RelayFlows(a, c)'
  <2>1. toServer'[a] \in Seq(NoReject(c)) /\ OthersOnly(a, c)
    BY <1>1, <1>2, <1>7, Apart, NoRejectKept DEF OthersOnly
  <2> QED BY <2>1, <1>1, <1>2, <1>5, <1>7, RelayStays
<1> QED BY <1>1, <1>6, <1>7, FlowsStep

(* A player that has been asked, and nothing more, is not told to stop.     *)
LEMMA HearRejectFlows ==
    ASSUME IInv, Flows, NEW x \in Cheaters, HearReject(x)
    PROVE  Flows'
<1>1. /\ Hears(x, "reject") /\ UNCHANGED <<made, collecting, memory, receivers>>
      /\ \/ UNCHANGED <<toServer, upload>>
         \/ upload' = [upload EXCEPT ![x] = Idle] /\ Send(x, Note("abort", x))
      /\ NetworkOK /\ PlayerOK
  BY DEF HearReject, IInv, TypeOK
<1>2. /\ \A y \in Clients \ {x} : toClient'[y] = toClient[y]
      /\ toClient[x] # <<>> /\ Head(toClient[x]).type = "reject"
      /\ Runs(x) /\ UNCHANGED <<present, stopped, server, gaveUp>>
  BY <1>1, ClientTakes DEF Clients
<1>3. ~ UploadFlows(x)
  <2> SUFFICES ASSUME UploadFlows(x) PROVE FALSE
    OBVIOUS
  <2>1. PICK p, t : PlayerAt(x, p, t)
    BY <1>2 DEF UploadFlows
  <2>2. toClient[x] = <<Ask("request", x, downloads[x].kind)>>
    BY <2>1, <1>2 DEF PlayerAt, Unasked, Asked
  <2>3. Head(toClient[x]).type = "request"
    BY <2>2 DEF Ask
  <2> QED BY <2>3, <1>2
<1>4. \A y \in Clients \ {x} : toServer'[y] = toServer[y]
  BY <1>1, SendReaches DEF Clients
<1>5. \A c \in Cheaters \ {x} : PlayerKept(c) /\ toServer'[c] = toServer[c]
  <2>1. upload \in [Cheaters -> {Idle} \cup 0 .. FileSize - 1]
    BY <1>1 DEF PlayerOK
  <2> QED BY <2>1, <1>1, <1>2, <1>4, Apart DEF PlayerKept, Runs
<1>6. /\ MadeGrows
      /\ \A c \in Cheaters : DownloadKept(c)
      /\ \A a \in Admins, c \in Cheaters : ReceiverKept(a, c) /\ RelayKept(a, c)
  BY <1>1, <1>2 DEF MadeGrows, ReceiverKept, RelayKept, DownloadKept, server
<1>7. ASSUME NEW c \in Cheaters, UploadFlows(c) PROVE UploadFlows(c)'
  <2>1. c # x
    BY <1>3, <1>7
  <2> QED BY <2>1, <1>1, <1>5, <1>6, <1>7, UploadStays
<1>8. ASSUME NEW a \in Admins, NEW c \in Cheaters, RelayFlows(a, c) PROVE RelayFlows(a, c)'
  <2>1. toServer'[a] \in Seq(NoReject(c)) /\ OthersOnly(a, c)
    BY <1>2, <1>4, <1>8, Apart, NoRejectKept DEF OthersOnly
  <2> QED BY <2>1, <1>1, <1>6, <1>8, RelayStays
<1> QED BY <1>2, <1>7, <1>8, FlowsStep

(* The receiver of an administrator stops: the player it is from apart,     *)
(* nothing of this is heard elsewhere.                                      *)
LEMMA StopReceiverKeeps ==
    ASSUME NetworkOK, NEW b \in Admins, NEW x \in Cheaters,
           StopReceiver(<<b, x>>) \/ UNCHANGED <<receivers, toServer>>
    PROVE  /\ \A a \in Admins, c \in Cheaters : <<a, c>> # <<b, x>> => ReceiverKept(a, c)
           /\ \A y \in Clients \ {b} : toServer'[y] = toServer[y]
           /\ \A a \in Admins, c \in Cheaters :
                 <<a, c>> # <<b, x>> /\ RelayFlows(a, c) => toServer'[a] \in Seq(NoReject(c))
<1>1. CASE UNCHANGED <<receivers, toServer>>
  BY <1>1, NoRejectKept DEF ReceiverKept
<1>2. CASE StopReceiver(<<b, x>>)
  <2>1. /\ receivers' = Without(receivers, <<b, x>>)
        /\ toServer' = toServer \/ Send(b, Note("reject", x))
    BY <1>2 DEF StopReceiver
  <2>2. \A a \in Admins, c \in Cheaters : <<a, c>> # <<b, x>> => ReceiverKept(a, c)
    BY <2>1 DEF ReceiverKept, Without, Restrict
  <2>3. /\ \A y \in Clients \ {b} : toServer'[y] = toServer[y]
        /\ \/ toServer'[b] = toServer[b]
           \/ toServer'[b] = Append(toServer[b], Note("reject", x))
    BY <2>1, SendReaches DEF Clients
  <2>4. \A c \in Cheaters \ {x} : Note("reject", x) \in NoReject(c)
    BY NoteType DEF NoReject, Note
  <2>5. ASSUME NEW a \in Admins, NEW c \in Cheaters, <<a, c>> # <<b, x>>, RelayFlows(a, c)
        PROVE  toServer'[a] \in Seq(NoReject(c))
    BY <2>3, <2>4, <2>5, Apart, NoRejectKept
  <2> QED BY <2>2, <2>3, <2>5
<1> QED BY <1>1, <1>2

LEMMA HearAbortFlows ==
    ASSUME IInv, Flows, NEW b \in Admins, HearAbort(b)
    PROVE  Flows'
<1> DEFINE m == Head(toClient[b])
<1>1. Hears(b, "abort") /\ UNCHANGED player /\ NetworkOK /\ PlayerOK
  BY DEF HearAbort, IInv, TypeOK
<1>2. /\ \A y \in Clients \ {b} : toClient'[y] = toClient[y]
      /\ toClient[b] # <<>> /\ toClient'[b] = Tail(toClient[b]) /\ m.type = "abort"
      /\ UNCHANGED <<present, stopped, server, gaveUp>>
  BY <1>1, ClientTakes DEF Clients
<1>3. PICK x \in Cheaters : x = m.who
  BY <1>1, HearsType, MessageTypes DEF Clients
<1>4. StopReceiver(<<b, x>>) \/ UNCHANGED <<receivers, toServer>>
  BY <1>3 DEF HearAbort
<1>5. ~ RelayFlows(b, x)
  <2> SUFFICES ASSUME RelayFlows(b, x) PROVE FALSE
    OBVIOUS
  <2>1. Head(toClient[b]) \in NoAbort(x)
    BY <1>2, HeadTailProperties DEF RelayFlows
  <2> QED BY <2>1, <1>2, <1>3 DEF NoAbort
<1>6. \A c \in Cheaters : DownloadKept(c) /\ PlayerKept(c) /\ toServer'[c] = toServer[c]
  <2>1. \A c \in Cheaters : toServer'[c] = toServer[c]
    BY <1>1, <1>4, StopReceiverKeeps, Apart
  <2> QED BY <2>1, <1>1, <1>2, Apart DEF DownloadKept, PlayerKept, Runs, player, server
<1>7. MadeGrows /\ \A a \in Admins, c \in Cheaters : RelayKept(a, c)
  BY <1>1, <1>2 DEF MadeGrows, player, server, RelayKept
<1>8. \A c \in Cheaters : UploadFlows(c) => UploadFlows(c)'
  BY <1>1, <1>6, <1>7, UploadStays
<1>9. ASSUME NEW a \in Admins, NEW c \in Cheaters, RelayFlows(a, c) PROVE RelayFlows(a, c)'
  <2>1. <<a, c>> # <<b, x>>
    BY <1>5, <1>9
  <2>2. toServer'[a] \in Seq(NoReject(c)) /\ ReceiverKept(a, c)
    BY <2>1, <1>1, <1>4, <1>9, StopReceiverKeeps
  <2>3. OthersOnly(a, c)
    BY <2>1, <1>2, <1>3, Apart DEF OthersOnly
  <2> QED BY <2>2, <2>3, <1>1, <1>7, <1>9, RelayStays
<1> QED BY <1>2, <1>8, <1>9, FlowsStep

LEMMA ReceiverTimesOutFlows ==
    ASSUME IInv, Flows, NEW b \in Admins, NEW x \in Cheaters, ReceiverTimesOut(b, x)
    PROVE  Flows'
<1>1. /\ StopReceiver(<<b, x>>) /\ gaveUp' = gaveUp \cup {<<b, x>>}
      /\ UNCHANGED <<present, stopped, toClient, player, server>>
      /\ NetworkOK /\ PlayerOK
  BY DEF ReceiverTimesOut, IInv, TypeOK
<1>2. ~ Patient(b, x)'
  BY <1>1 DEF Patient
<1>3. \A c \in Cheaters : DownloadKept(c) /\ PlayerKept(c) /\ toServer'[c] = toServer[c]
  <2>1. \A c \in Cheaters : toServer'[c] = toServer[c]
    BY <1>1, StopReceiverKeeps, Apart
  <2> QED BY <2>1, <1>1, Apart DEF DownloadKept, PlayerKept, Runs, player, server
<1>4. /\ MadeGrows
      /\ \A a \in Admins, c \in Cheaters : RelayKept(a, c) /\ OthersOnly(a, c)
  BY <1>1 DEF MadeGrows, player, server, RelayKept, OthersOnly
<1>5. \A c \in Cheaters : UploadFlows(c) => UploadFlows(c)'
  BY <1>1, <1>3, <1>4, UploadStays
<1>6. ASSUME NEW a \in Admins, NEW c \in Cheaters, RelayFlows(a, c), Patient(a, c)'
      PROVE  RelayFlows(a, c)'
  <2>1. <<a, c>> # <<b, x>>
    BY <1>2, <1>6
  <2>2. toServer'[a] \in Seq(NoReject(c)) /\ ReceiverKept(a, c)
    BY <2>1, <1>1, <1>6, StopReceiverKeeps
  <2> QED BY <2>2, <1>1, <1>4, <1>6, RelayStays
<1> QED BY <1>1, <1>5, <1>6, FlowsStep

(* Who has left or stopped sends and hears no more. *)
LEMMA StopGameFlows ==
    ASSUME IInv, Flows, NEW x \in Cheaters, StopGame(x)
    PROVE  Flows'
<1>1. /\ stopped' = stopped \cup {x}
      /\ toServer' = toServer \/ Send(x, Note("abort", x))
      /\ upload' = [upload EXCEPT ![x] = Idle]
      /\ collecting' = [collecting EXCEPT ![x] = {}]
      /\ UNCHANGED <<present, toClient, made, memory, server, receivers, gaveUp>>
      /\ NetworkOK /\ PlayerOK
  BY DEF StopGame, IInv, TypeOK
<1>2. /\ \A y \in Clients \ {x} : toServer'[y] = toServer[y]
      /\ \/ toServer'[x] = toServer[x]
         \/ toServer'[x] = Append(toServer[x], Note("abort", x))
  BY <1>1, SendReaches DEF Clients
<1>3. ~ Runs(x)' /\ \A c \in Cheaters : PlayerKept(c) /\ DownloadKept(c)
  <2>1. /\ upload \in [Cheaters -> {Idle} \cup 0 .. FileSize - 1]
        /\ collecting \in [Cheaters -> SUBSET Kinds]
    BY <1>1 DEF PlayerOK
  <2> QED BY <2>1, <1>1 DEF PlayerKept, DownloadKept, Runs, server
<1>4. /\ MadeGrows
      /\ \A a \in Admins, c \in Cheaters :
            ReceiverKept(a, c) /\ RelayKept(a, c) /\ OthersOnly(a, c)
  BY <1>1 DEF MadeGrows, server, RelayKept, ReceiverKept, OthersOnly
<1>5. ASSUME UploadFlows(x), toServer'[x] = Append(toServer[x], Note("abort", x))
      PROVE  UploadFlows(x)'
  <2> DEFINE m == Note("abort", x)
  <2>1. PICK p \in Places(made), t \in Places(made) :
            Flow(made, toServer[x], x, p, t) /\ DownloadAt(x, p)
    BY <1>5 DEF UploadFlows
  <2>2. m \in Uploads(x) /\ Carries(made, m, x, t, None) /\ None \in Places(made)
    BY NoteType DEF Uploads, Note, Carries, Places
  <2>3. Append(toServer[x], m) \in Seq(Uploads(x))
    BY <2>2, <1>5, AppendProperties DEF UploadFlows
  <2>4. Flow(made, Append(toServer[x], m), x, p, None)
    <3>1. toServer[x] \in Seq(Uploads(x))
      BY <1>5 DEF UploadFlows
    <3> QED BY <3>1, <2>1, <2>2, FlowAppend
  <2>5. DownloadAt(x, p)'
    BY <2>1, <1>1, <1>3, <1>4, DownloadAtKept
  <2>6. made' = made
    BY <1>1
  <2> HIDE DEF m
  <2> QED BY <2>1, <2>2, <2>3, <2>4, <2>5, <2>6, <1>3, <1>5 DEF UploadFlows, m
<1>6. ASSUME NEW c \in Cheaters, UploadFlows(c) PROVE UploadFlows(c)'
  <2>1. ASSUME toServer'[c] = toServer[c] PROVE UploadFlows(c)'
    BY <2>1, <1>1, <1>3, <1>4, <1>6, UploadStays
  <2> QED BY <2>1, <1>2, <1>5, <1>6, Apart
<1>7. ASSUME NEW a \in Admins, NEW c \in Cheaters, RelayFlows(a, c) PROVE RelayFlows(a, c)'
  <2>1. toServer'[a] \in Seq(NoReject(c))
    BY <1>2, <1>7, Apart, NoRejectKept
  <2> QED BY <2>1, <1>1, <1>4, <1>7, RelayStays
<1> QED BY <1>1, <1>6, <1>7, FlowsStep

LEMMA LeaveFlows ==
    ASSUME IInv, Flows, NEW x \in Clients, Leave(x)
    PROVE  Flows'
<1>1. /\ present' = present \ {x}
      /\ toServer' = [toServer EXCEPT ![x] = <<>>]
      /\ toClient' = [toClient EXCEPT ![x] = <<>>]
      /\ receivers' = Restrict(receivers, {k \in DOMAIN receivers : k[1] # x})
      /\ upload' = [c \in Cheaters |-> IF c = x THEN Idle ELSE upload[c]]
      /\ collecting' = [c \in Cheaters |-> IF c = x THEN {} ELSE collecting[c]]
      /\ UNCHANGED <<stopped, made, memory, server, gaveUp>>
      /\ NetworkOK /\ PlayerOK
  BY DEF Leave, IInv, TypeOK
<1>2. /\ \A y \in Clients \ {x} : toServer'[y] = toServer[y] /\ toClient'[y] = toClient[y]
      /\ toServer'[x] = <<>>
  BY <1>1 DEF NetworkOK
<1>3. ~ Runs(x)' /\ \A c \in Cheaters : PlayerKept(c) /\ DownloadKept(c)
  BY <1>1, <1>2, Apart DEF PlayerKept, DownloadKept, Runs, server
<1>4. \A a \in Admins, c \in Cheaters : a # x => ReceiverKept(a, c)
  BY <1>1 DEF ReceiverKept, Restrict
<1>5. MadeGrows /\ \A a \in Admins, c \in Cheaters : RelayKept(a, c)
  BY <1>1 DEF MadeGrows, server, RelayKept
<1>6. ASSUME NEW c \in Cheaters, UploadFlows(c) PROVE UploadFlows(c)'
  <2>1. CASE c # x
    BY <2>1, <1>1, <1>2, <1>3, <1>5, <1>6, Apart, UploadStays
  <2>2. CASE c = x
    <3>1. PICK p \in Places(made) : DownloadAt(c, p)
      BY <1>6 DEF UploadFlows
    <3>2. DownloadAt(c, p)'
      BY <3>1, <1>1, <1>3, <1>5, DownloadAtKept
    <3>3. Flow(made, toServer'[c], c, p, p)
      BY <2>2, <1>2, FlowEmpty
    <3>4. toServer'[c] \in Seq(Uploads(c)) /\ made' = made
      BY <2>2, <1>1, <1>2, EmptySeq
    <3> QED BY <2>2, <3>1, <3>2, <3>3, <3>4, <1>3 DEF UploadFlows
  <2> QED BY <2>1, <2>2
<1>7. ASSUME NEW a \in Admins, NEW c \in Cheaters, RelayFlows(a, c), a \in present'
      PROVE  RelayFlows(a, c)'
  <2>1. a # x /\ a \in Clients
    BY <1>1, <1>7, Apart
  <2>2. toServer'[a] \in Seq(NoReject(c)) /\ OthersOnly(a, c)
    BY <2>1, <1>2, <1>7, NoRejectKept DEF OthersOnly
  <2> QED BY <2>1, <2>2, <1>1, <1>4, <1>5, <1>7, RelayStays
<1> QED BY <1>1, <1>6, <1>7, FlowsStep

(* A request is heard once, and what has been collected starts an upload of *)
(* its own: nothing else of the player is under way.                        *)
LEMMA HearRequestFlows ==
    ASSUME IInv, Flows, NEW x \in Cheaters, HearRequest(x)
    PROVE  Flows'
<1>1. /\ Hears(x, "request")
      /\ collecting' = [collecting EXCEPT ![x] = @ \cup {Head(toClient[x]).kind}]
      /\ UNCHANGED <<toServer, made, memory, upload, receivers>>
      /\ NetworkOK /\ PlayerOK
  BY DEF HearRequest, IInv, TypeOK
<1>2. /\ \A y \in Clients \ {x} : toClient'[y] = toClient[y]
      /\ toClient[x] # <<>> /\ toClient'[x] = Tail(toClient[x])
      /\ Runs(x) /\ UNCHANGED <<present, stopped, server, gaveUp>>
  BY <1>1, ClientTakes DEF Clients
<1>3. collecting \in [Cheaters -> SUBSET Kinds]
  BY <1>1 DEF PlayerOK
<1>4. \A c \in Cheaters \ {x} : PlayerKept(c)
  BY <1>1, <1>2, <1>3, Apart DEF PlayerKept, Runs
<1>5. /\ MadeGrows
      /\ \A c \in Cheaters : DownloadKept(c)
      /\ \A a \in Admins, c \in Cheaters : ReceiverKept(a, c) /\ RelayKept(a, c)
  BY <1>1, <1>2 DEF MadeGrows, ReceiverKept, RelayKept, DownloadKept, server
<1>6. ASSUME UploadFlows(x) PROVE UploadFlows(x)'
  <2>1. /\ toServer[x] \in Seq(Steady(x)) /\ toServer[x] \in Seq(Uploads(x))
        /\ \E p, t \in Places(made) : /\ Flow(made, toServer[x], x, p, t)
                                      /\ DownloadAt(x, p) /\ PlayerAt(x, p, t)
    BY <1>2, <1>6 DEF UploadFlows
  <2>2. PICK p \in Places(made), t \in Places(made) :
            Flow(made, toServer[x], x, p, t) /\ DownloadAt(x, p) /\ PlayerAt(x, p, t)
    BY <2>1
  <2>3. /\ upload[x] = Idle /\ t = None /\ p = None
        /\ x \in DOMAIN downloads /\ collecting[x] = {}
        /\ toClient[x] = <<Ask("request", x, downloads[x].kind)>>
    BY <2>2, <1>2 DEF PlayerAt, Unasked, Asked
  <2>4. Head(toClient[x]).kind = downloads[x].kind /\ Tail(toClient[x]) = <<>>
    BY <2>3 DEF Ask
  <2>5. collecting'[x] = {downloads[x].kind} /\ toClient'[x] = <<>>
    BY <2>3, <2>4, <1>1, <1>2, <1>3
  <2>6. PlayerAt(x, p, t)'
    BY <2>3, <2>5, <1>1, <1>2 DEF PlayerAt, Asked, server
  <2>7. DownloadAt(x, p)'
    BY <2>2, <1>1, <1>5, DownloadAtKept
  <2>8. toServer' = toServer /\ made' = made
    BY <1>1
  <2> QED BY <2>1, <2>2, <2>6, <2>7, <2>8 DEF UploadFlows
<1>7. ASSUME NEW c \in Cheaters, UploadFlows(c) PROVE UploadFlows(c)'
  <2>1. ASSUME c # x PROVE UploadFlows(c)'
    BY <2>1, <1>1, <1>4, <1>5, <1>7, UploadStays
  <2> QED BY <2>1, <1>6, <1>7
<1>8. ASSUME NEW a \in Admins, NEW c \in Cheaters, RelayFlows(a, c) PROVE RelayFlows(a, c)'
  <2>1. toServer'[a] \in Seq(NoReject(c)) /\ OthersOnly(a, c)
    BY <1>1, <1>2, <1>8, Apart, NoRejectKept DEF OthersOnly
  <2> QED BY <2>1, <1>1, <1>5, <1>8, RelayStays
<1> QED BY <1>2, <1>7, <1>8, FlowsStep

LEMMA CollectedFlows ==
    ASSUME IInv, Flows, NEW x \in Cheaters, NEW k \in Kinds, Collected(x, k)
    PROVE  Flows'
<1> DEFINE new == [who |-> x, kind |-> k]
<1>1. /\ Runs(x) /\ k \in collecting[x]
      /\ collecting' = [collecting EXCEPT ![x] = @ \ {k}]
      /\ made' = Append(made, new)
      /\ memory' = [memory EXCEPT ![x] = Len(made')]
      /\ upload' = [upload EXCEPT ![x] = IF @ = Idle THEN 0 ELSE @]
      /\ UNCHANGED <<network, server, receivers, gaveUp>>
      /\ NetworkOK /\ PlayerOK
  BY DEF Collected, IInv, TypeOK
<1>2. /\ made \in Seq([who : Cheaters, kind : Kinds])
      /\ collecting \in [Cheaters -> SUBSET Kinds]
      /\ memory \in [Cheaters -> 0 .. Len(made)]
      /\ upload \in [Cheaters -> {Idle} \cup 0 .. FileSize - 1]
  BY <1>1 DEF PlayerOK
<1>3. new \in [who : Cheaters, kind : Kinds]
  OBVIOUS
<1>4. UNCHANGED <<present, stopped, toServer, toClient, downloads, proxy, relays>>
  BY <1>1 DEF network, server
<1>5. \A c \in Cheaters \ {x} : PlayerKept(c)
  BY <1>1, <1>2, <1>4 DEF PlayerKept, Runs
<1>6. /\ MadeGrows
      /\ \A c \in Cheaters : DownloadKept(c)
      /\ \A a \in Admins, c \in Cheaters :
            ReceiverKept(a, c) /\ RelayKept(a, c) /\ OthersOnly(a, c)
  BY <1>1, <1>3, <1>4 DEF MadeGrows, ReceiverKept, RelayKept, DownloadKept, OthersOnly
<1>7. ASSUME UploadFlows(x) PROVE UploadFlows(x)'
  <2>1. /\ toServer[x] \in Seq(Steady(x)) /\ toServer[x] \in Seq(Uploads(x))
        /\ \E p, t \in Places(made) : /\ Flow(made, toServer[x], x, p, t)
                                      /\ DownloadAt(x, p) /\ PlayerAt(x, p, t)
    BY <1>1, <1>7 DEF UploadFlows
  <2>2. PICK p \in Places(made), t \in Places(made) :
            Flow(made, toServer[x], x, p, t) /\ DownloadAt(x, p) /\ PlayerAt(x, p, t)
    BY <2>1
  <2>3. /\ upload[x] = Idle /\ t = None /\ p = None /\ x \in DOMAIN downloads
        /\ collecting[x] = {downloads[x].kind} /\ toClient[x] = <<>>
    BY <2>2, <1>1 DEF PlayerAt, Unasked, Asked
  <2>4. toServer[x] = <<>> /\ k = downloads[x].kind
    BY <2>1, <2>2, <2>3, <1>1, NothingUnderWay
  <2> DEFINE f == Len(made) + 1
  <2>5. /\ DOMAIN made' = 1 .. f /\ made'[f] = new /\ f \in Nat \ {0} /\ Len(made') = f
        /\ f \in DOMAIN made'
    BY <1>1, <1>2, <1>3, AppendProperties, LenProperties
  <2>6. PICK u \in Places(made') : u = [file |-> f, pos |-> 0] /\ u # None
    <3>1. [file |-> f, pos |-> 0] \in Places(made') /\ [file |-> f, pos |-> 0] # None
      BY <2>5, SizesAssumption DEF Places, None
    <3> QED BY <3>1
  <2>7. /\ upload'[x] = 0 /\ memory'[x] = f
        /\ collecting'[x] = {}
    BY <2>3, <2>4, <2>5, <1>1, <1>2
  <2>8. Flow(made', toServer'[x], x, u, u)
    BY <2>4, <2>6, <1>4, FlowEmpty
  <2>9. DownloadAt(x, u)'
    <3>1. /\ proxy[downloads[x].proxy].first <=> proxy[downloads[x].proxy].content = <<>>
          /\ proxy[downloads[x].proxy].content = <<>> /\ downloads[x].total = Unset
      BY <2>2, <2>3 DEF DownloadAt, Holds
    <3>2. Parts(f, 0, 0) = <<>>
      BY <2>5, PartsNone, SizesAssumption
    <3>3. Holds(made', u, x, downloads[x].kind, downloads[x].total,
                proxy[downloads[x].proxy].content)
      BY <2>4, <2>5, <2>6, <3>1, <3>2 DEF Holds
    <3> QED BY <3>1, <3>3, <2>3, <1>4 DEF DownloadAt
  <2>10. PlayerAt(x, u, u)'
    BY <2>3, <2>6, <2>7, <1>4 DEF PlayerAt, Unasked, Idle
  <2>11. toServer'[x] \in Seq(Uploads(x)) /\ toServer'[x] \in Seq(Steady(x))
    BY <2>1, <1>4
  <2> QED BY <2>6, <2>8, <2>9, <2>10, <2>11 DEF UploadFlows
<1>8. ASSUME NEW c \in Cheaters, UploadFlows(c) PROVE UploadFlows(c)'
  <2>1. ASSUME c # x PROVE UploadFlows(c)'
    BY <2>1, <1>1, <1>4, <1>5, <1>6, <1>8, UploadStays
  <2> QED BY <2>1, <1>7, <1>8
<1>9. ASSUME NEW a \in Admins, NEW c \in Cheaters, RelayFlows(a, c) PROVE RelayFlows(a, c)'
  <2>1. toServer'[a] \in Seq(NoReject(c))
    BY <1>4, <1>9, NoRejectKept
  <2> QED BY <2>1, <1>1, <1>6, <1>9, RelayStays
<1> QED BY <1>1, <1>4, <1>8, <1>9, FlowsStep

(* A chunk carries on where the upload was. *)
LEMMA UpdateUploadFlows ==
    ASSUME IInv, Flows, NEW x \in Cheaters, UpdateUpload(x)
    PROVE  Flows'
<1>1. /\ Runs(x) /\ upload[x] # Idle
      /\ UNCHANGED <<present, stopped, toClient, made, collecting, memory, server, receivers,
                     gaveUp>>
      /\ NetworkOK /\ PlayerOK
  BY DEF UpdateUpload, IInv, TypeOK
<1>2. PICK next \in upload[x] + 1 .. FileSize :
          /\ Send(x, Data(x, upload[x] = 0, FileSize, Parts(memory[x], upload[x], next)))
          /\ upload' = [upload EXCEPT ![x] = Uploaded(next)]
  BY DEF UpdateUpload
<1> DEFINE m == Data(x, upload[x] = 0, FileSize, Parts(memory[x], upload[x], next))
<1>3. /\ made \in Seq([who : Cheaters, kind : Kinds]) /\ Len(made) \in Nat
      /\ DOMAIN made = 1 .. Len(made)
      /\ upload \in [Cheaters -> {Idle} \cup 0 .. FileSize - 1]
      /\ memory[x] \in 1 .. Len(made)
  <2>1. /\ memory \in [Cheaters -> 0 .. Len(made)] /\ memory[x] # 0
        /\ upload \in [Cheaters -> {Idle} \cup 0 .. FileSize - 1]
        /\ made \in Seq([who : Cheaters, kind : Kinds])
    BY <1>1 DEF PlayerOK
  <2>2. Len(made) \in Nat /\ DOMAIN made = 1 .. Len(made)
    BY <2>1, LenProperties
  <2> QED BY <2>1, <2>2
<1>4. /\ upload[x] \in 0 .. FileSize - 1 /\ upload[x] \in 0 .. FileSize
      /\ next \in upload[x] .. FileSize /\ next # 0 /\ next \in 0 .. FileSize
      /\ memory[x] \in Nat
  BY <1>1, <1>2, <1>3, SizesAssumption
<1>5. m \in ToServer
  <2>1. Parts(memory[x], upload[x], next) \in Seq(Part)
    BY <1>4, PartsType
  <2>2. FileSize \in Int
    BY SizesAssumption
  <2> QED BY <2>1, <2>2, DataType
<1>6. m \in Steady(x) /\ m \in Uploads(x)
  BY <1>5 DEF Steady, Uploads, Data
<1>7. /\ \A y \in Clients \ {x} : toServer'[y] = toServer[y]
      /\ toServer'[x] = Append(toServer[x], m)
  BY <1>1, <1>2, SendReaches DEF Clients
<1>8. \A c \in Cheaters \ {x} : PlayerKept(c) /\ toServer'[c] = toServer[c]
  BY <1>1, <1>2, <1>3, <1>7, Apart DEF PlayerKept, Runs
<1>9. /\ MadeGrows
      /\ \A c \in Cheaters : DownloadKept(c)
      /\ \A a \in Admins, c \in Cheaters :
            ReceiverKept(a, c) /\ RelayKept(a, c) /\ OthersOnly(a, c)
  BY <1>1 DEF MadeGrows, ReceiverKept, RelayKept, DownloadKept, OthersOnly, server
<1>10. ASSUME UploadFlows(x) PROVE UploadFlows(x)'
  <2>1. /\ toServer[x] \in Seq(Steady(x)) /\ toServer[x] \in Seq(Uploads(x))
        /\ \E p, t \in Places(made) : /\ Flow(made, toServer[x], x, p, t)
                                      /\ DownloadAt(x, p) /\ PlayerAt(x, p, t)
    BY <1>1, <1>10 DEF UploadFlows
  <2>2. PICK p \in Places(made), t \in Places(made) :
            Flow(made, toServer[x], x, p, t) /\ DownloadAt(x, p) /\ PlayerAt(x, p, t)
    BY <2>1
  <2>3. Unasked(x) /\ t = [file |-> memory[x], pos |-> upload[x]] /\ t # None
    BY <2>2, <1>1, <1>3 DEF PlayerAt, None
  <2>4. PICK u \in Places(made) : u = At(memory[x], next)
    BY <1>3, <1>4, AtType
  <2>5. CarriesData(m, t, u)
    BY <2>3, <2>4, <1>4 DEF CarriesData, Data
  <2>6. Carries(made, m, x, t, u)
    <3>1. m.who = x /\ m.type = "data"
      BY DEF Data
    <3> HIDE DEF m
    <3> QED BY <2>5, <3>1 DEF Carries
  <2> HIDE DEF m
  <2>7. Flow(made, toServer'[x], x, p, u)
    BY <2>1, <2>2, <2>4, <2>6, <1>6, <1>7, FlowAppend
  <2>8. PlayerAt(x, p, u)'
    <3>1. Unasked(x)'
      BY <2>3, <1>1 DEF Unasked
    <3>2. upload'[x] = IF next = FileSize THEN Idle ELSE next
      BY <1>2, <1>3 DEF Uploaded
    <3>3. u = (IF next = FileSize THEN None ELSE [file |-> memory[x], pos |-> next])
      BY <2>4 DEF At
    <3>4. memory' = memory /\ next # Idle
      BY <1>1, <1>4, SizesAssumption DEF Idle
    <3> QED BY <3>1, <3>2, <3>3, <3>4 DEF PlayerAt
  <2>9. DownloadAt(x, p)'
    BY <2>2, <1>1, <1>9, DownloadAtKept
  <2>10. toServer'[x] \in Seq(Uploads(x)) /\ toServer'[x] \in Seq(Steady(x))
    BY <2>1, <1>6, <1>7, AppendProperties
  <2>11. made' = made
    BY <1>1
  <2> QED BY <2>2, <2>4, <2>7, <2>8, <2>9, <2>10, <2>11 DEF UploadFlows
<1> HIDE DEF m
<1>11. ASSUME NEW c \in Cheaters, UploadFlows(c) PROVE UploadFlows(c)'
  <2>1. ASSUME c # x PROVE UploadFlows(c)'
    BY <2>1, <1>1, <1>8, <1>9, <1>11, UploadStays
  <2> QED BY <2>1, <1>10, <1>11
<1>12. ASSUME NEW a \in Admins, NEW c \in Cheaters, RelayFlows(a, c) PROVE RelayFlows(a, c)'
  <2>1. toServer'[a] \in Seq(NoReject(c))
    BY <1>7, <1>12, Apart, NoRejectKept
  <2> QED BY <2>1, <1>1, <1>9, <1>12, RelayStays
<1> QED BY <1>1, <1>11, <1>12, FlowsStep

(* A response opens a receiver if there is none: what comes before it in    *)
(* the channel has by then ended the last one.                              *)
LEMMA HearResponseFlows ==
    ASSUME IInv, Flows, NEW b \in Admins, HearResponse(b)
    PROVE  Flows'
<1> DEFINE m == Head(toClient[b])
<1>1. /\ Hears(b, "response") /\ UNCHANGED <<toServer, player>>
      /\ NetworkOK /\ PlayerOK
  BY DEF HearResponse, IInv, TypeOK
<1>2. /\ \A y \in Clients \ {b} : toClient'[y] = toClient[y]
      /\ toClient[b] # <<>> /\ toClient'[b] = Tail(toClient[b]) /\ m.type = "response"
      /\ UNCHANGED <<present, stopped, server, gaveUp>>
  BY <1>1, ClientTakes DEF Clients
<1>3. PICK x \in Cheaters : x = m.who
  BY <1>1, HearsType, MessageTypes DEF Clients
<1>4. receivers' = IF <<b, x>> \in DOMAIN receivers THEN receivers
                   ELSE With(receivers, <<b, x>>, [kind |-> m.kind, total |-> Unset,
                                                   data |-> <<>>, heard |-> TRUE])
  BY <1>3 DEF HearResponse
<1>5. \A a \in Admins, c \in Cheaters : <<a, c>> # <<b, x>> => ReceiverKept(a, c)
  BY <1>4 DEF ReceiverKept, With
<1>6. \A c \in Cheaters : DownloadKept(c) /\ PlayerKept(c) /\ toServer'[c] = toServer[c]
  BY <1>1, <1>2, Apart DEF DownloadKept, PlayerKept, Runs, player, server
<1>7. MadeGrows /\ \A a \in Admins, c \in Cheaters : RelayKept(a, c)
  BY <1>1, <1>2 DEF MadeGrows, player, server, RelayKept
<1>8. \A c \in Cheaters : UploadFlows(c) => UploadFlows(c)'
  BY <1>1, <1>6, <1>7, UploadStays
<1>9. ASSUME RelayFlows(b, x) PROVE RelayFlows(b, x)'
  <2>1. PICK p \in Places(made), t \in Places(made) :
            Flow(made, toClient[b], x, p, t) /\ ReceiverAt(b, x, p) /\ RelayAt(b, x, t)
    BY <1>9 DEF RelayFlows
  <2>2. toClient[b] \in Seq(NoAbort(x)) /\ toClient'[b] \in Seq(NoAbort(x))
    BY <1>2, <1>9, HeadTailProperties DEF RelayFlows
  <2>3. PICK p1 \in Places(made) : Carries(made, m, x, p, p1) /\ Flow(made, toClient'[b], x, p1, t)
    BY <2>1, <2>2, <1>2, FlowTail
  <2>4. Opens(made, m, x, p, p1)
    BY <2>3, <1>2, <1>3 DEF Carries
  <2>5. ReceiverAt(b, x, p1)'
    <3>1. CASE p # None
      <4>1. p1 = p /\ receivers' = receivers
        BY <3>1, <2>1, <2>4, <1>4 DEF Opens, ReceiverAt
      <4> QED BY <4>1, <2>1, <1>1 DEF ReceiverAt, player
    <3>2. CASE p = None
      <4>1. <<b, x>> \notin DOMAIN receivers
        BY <3>2, <2>1 DEF ReceiverAt, Holds
      <4>2. /\ <<b, x>> \in DOMAIN receivers'
            /\ receivers'[<<b, x>>].kind = m.kind /\ receivers'[<<b, x>>].total = Unset
            /\ receivers'[<<b, x>>].data = <<>>
        BY <4>1, <1>4 DEF With
      <4>3. /\ p1 \in Places(made) \ {None} /\ p1.pos = 0
            /\ made[p1.file] = [who |-> x, kind |-> m.kind]
        BY <3>2, <2>4 DEF Opens
      <4>4. Parts(p1.file, 0, 0) = <<>>
        <5>1. p1.file \in Nat
          BY <4>3, <1>1, PlaceType DEF PlayerOK
        <5> QED BY <5>1, PartsNone, SizesAssumption
      <4>5. Holds(made', p1, x, m.kind, Unset, <<>>)
        BY <4>3, <4>4, <1>1 DEF Holds, player
      <4> QED BY <4>2, <4>5 DEF ReceiverAt
    <3> QED BY <3>1, <3>2
  <2>6. RelayAt(b, x, t)'
    BY <2>1, <1>7, RelayAtKept
  <2>7. made' = made /\ toServer'[b] \in Seq(NoReject(x))
    BY <1>1, <1>9, NoRejectKept DEF player
  <2> QED BY <2>1, <2>2, <2>3, <2>5, <2>6, <2>7 DEF RelayFlows
<1>10. ASSUME NEW a \in Admins, NEW c \in Cheaters, RelayFlows(a, c) PROVE RelayFlows(a, c)'
  <2>1. ASSUME <<a, c>> # <<b, x>> PROVE RelayFlows(a, c)'
    <3>1. toServer'[a] \in Seq(NoReject(c)) /\ OthersOnly(a, c)
      BY <2>1, <1>1, <1>2, <1>3, <1>10, Apart, NoRejectKept DEF OthersOnly
    <3> QED BY <2>1, <3>1, <1>1, <1>5, <1>7, <1>10, RelayStays
  <2> QED BY <2>1, <1>9, <1>10
<1> QED BY <1>2, <1>8, <1>10, FlowsStep

LEMMA ChunkSizesType ==
    ASSUME NEW left \in Nat, NEW n \in ChunkSizes(left)
    PROVE  n \in Nat /\ n <= left /\ (n = 0 => left = 0)
  BY DEF ChunkSizes

(* What a relay reads carries on where it was, however little there is.     *)
LEMMA UpdateRelayFlows ==
    ASSUME IInv, Flows, NEW b \in Admins, NEW x \in Cheaters, UpdateRelay(b, x)
    PROVE  Flows'
<1> DEFINE key  == <<b, x>>
           r    == relays[key]
           held == proxy[r.proxy].content
           left == Len(held) - r.pos
<1>1. /\ key \in DOMAIN relays
      /\ UNCHANGED <<present, stopped, toServer, player, proxy, downloads, receivers, gaveUp>>
      /\ NetworkOK /\ PlayerOK
  BY DEF UpdateRelay, IInv, TypeOK
<1>2. /\ toClient' = toClient \/ \E n \in ChunkSizes(left) :
            toClient' = Put(b, Data(x, r.pos = 0, r.max, SubSeq(held, r.pos + 1, r.pos + n)))
      /\ \/ relays' = Without(relays, key)
         \/ \E n : relays' = [relays EXCEPT ![key].pos = @ + n]
  BY DEF UpdateRelay
<1>3. \A y \in Clients \ {b} : toClient'[y] = toClient[y]
  BY <1>1, <1>2, PutReaches DEF Clients
<1>4. \A a \in Admins, c \in Cheaters : <<a, c>> # <<b, x>> => RelayKept(a, c)
  BY <1>1, <1>2 DEF RelayKept, Without, Restrict
<1>5. \A c \in Cheaters : DownloadKept(c) /\ PlayerKept(c) /\ toServer'[c] = toServer[c]
  BY <1>1, <1>3, Apart DEF DownloadKept, PlayerKept, Runs, player
<1>6. MadeGrows /\ \A a \in Admins, c \in Cheaters : ReceiverKept(a, c)
  BY <1>1 DEF MadeGrows, player, ReceiverKept
<1>7. \A c \in Cheaters : UploadFlows(c) => UploadFlows(c)'
  BY <1>1, <1>5, <1>6, UploadStays
<1>8. ASSUME b \in present
      PROVE  \E n \in ChunkSizes(left) :
               LET m == Data(x, r.pos = 0, r.max, SubSeq(held, r.pos + 1, r.pos + n))
               IN  /\ toClient'[b] = Append(toClient[b], m)
                   /\ relays' = IF r.pos + n = r.max THEN Without(relays, key)
                                ELSE [relays EXCEPT ![key].pos = @ + n]
  <2>1. PICK n \in ChunkSizes(left) :
            /\ toClient' = Put(b, Data(x, r.pos = 0, r.max, SubSeq(held, r.pos + 1, r.pos + n)))
            /\ relays' = IF r.pos + n = r.max THEN Without(relays, key)
                         ELSE [relays EXCEPT ![key].pos = @ + n]
    BY <1>8 DEF UpdateRelay
  <2> QED BY <2>1, <1>1, <1>8, PutReaches DEF Clients
<1>9. /\ relays \in [DOMAIN relays -> Relay] /\ r \in Relay
      /\ proxy \in [Proxies -> ProxyRec] /\ held \in Seq(Part) /\ Len(held) \in Nat
      /\ r.pos \in Nat /\ r.pos <= Len(held) /\ r.max \in Int
  <2>1. relays \in [DOMAIN relays -> Relay] /\ proxy \in [Proxies -> ProxyRec]
    BY DEF IInv, TypeOK, SessionsOK, ProxyOK, Relay, ProxyRec
  <2>2. r \in Relay /\ r.pos <= Len(held)
    BY <2>1, <1>1 DEF IInv, RelaysStayInBuffer
  <2>3. held \in Seq(Part) /\ Len(held) \in Nat
    BY <2>1, <2>2, LenProperties DEF Relay, ProxyRec
  <2> QED BY <2>1, <2>2, <2>3 DEF Relay
<1>10. left \in Nat /\ Len(held) = r.pos + left
  <2>1. \A i, j \in Nat : j <= i => i - j \in Nat /\ i = j + (i - j)
    OBVIOUS
  <2>2. Len(held) \in Nat /\ r.pos \in Nat /\ r.pos <= Len(held)
    BY <1>9
  <2> HIDE DEF held, r
  <2> QED BY <2>1, <2>2
<1>11. ASSUME RelayFlows(b, x), b \in present PROVE RelayFlows(b, x)'
  <2>1. PICK p \in Places(made), t \in Places(made) :
            Flow(made, toClient[b], x, p, t) /\ ReceiverAt(b, x, p) /\ RelayAt(b, x, t)
    BY <1>11 DEF RelayFlows
  <2>2. PICK n \in ChunkSizes(left) :
            /\ toClient'[b] = Append(toClient[b], Data(x, r.pos = 0, r.max,
                                          SubSeq(held, r.pos + 1, r.pos + n)))
            /\ relays' = IF r.pos + n = r.max THEN Without(relays, key)
                         ELSE [relays EXCEPT ![key].pos = @ + n]
    BY <1>8, <1>11
  <2> DEFINE m  == Data(x, r.pos = 0, r.max, SubSeq(held, r.pos + 1, r.pos + n))
             hi == r.pos + n
  <2>3. /\ t # None /\ r.pos = t.pos /\ r.max = FileSize
        /\ Len(held) \in 1 .. FileSize /\ held = Parts(t.file, 0, Len(held))
    BY <2>1, <1>1 DEF RelayAt
  <2>4. /\ t.file \in DOMAIN made /\ t.file \in Nat
        /\ t.pos \in 0 .. FileSize - 1 /\ t.pos \in Nat /\ FileSize \in Nat \ {0}
    BY <2>1, <2>3, <1>1, PlaceType, SizesAssumption DEF PlayerOK
  <2>5. /\ n \in Nat /\ hi \in t.pos .. FileSize /\ hi # 0 /\ hi \in 0 .. FileSize
        /\ hi \in t.pos .. Len(held) /\ t.pos \in 0 .. Len(held)
        /\ Len(held) \in 0 .. FileSize
    <3>2. n \in Nat /\ n <= left /\ (n = 0 => left = 0)
      BY <1>10, <2>2, ChunkSizesType
    <3>3. hi <= Len(held) /\ (hi = 0 => left = 0 /\ Len(held) = 0)
      <4>1. r.pos \in Nat
        BY <1>9
      <4> HIDE DEF held, r, left
      <4> QED BY <3>2, <4>1, <1>10
    <3> QED BY <3>2, <3>3, <2>3, <2>4, <1>9
  <2>6. SubSeq(held, r.pos + 1, hi) = Parts(t.file, t.pos, hi)
    <3>1. SubSeq(Parts(t.file, 0, Len(held)), t.pos + 1, hi) = Parts(t.file, t.pos, hi)
      BY <2>4, <2>5, PartsWithin
    <3> QED BY <3>1, <2>3
  <2>7. PICK u \in Places(made) :
            /\ u = At(t.file, hi)
            /\ hi # FileSize => u # None /\ u = [file |-> t.file, pos |-> hi]
    BY <2>4, <2>5, <1>1, AtType DEF PlayerOK
  <2>8. CarriesData(m, t, u)
    BY <2>3, <2>5, <2>6, <2>7 DEF CarriesData, Data
  <2>9. m \in NoAbort(x) /\ m.who = x /\ m.type = "data"
    <3>1. SubSeq(held, r.pos + 1, r.pos + n) \in Seq(Part)
      <4>1. t.pos \in 0 .. FileSize
        BY <2>4
      <4>2. Parts(t.file, t.pos, hi) \in Seq(Part)
        BY <4>1, <2>4, <2>5, PartsType
      <4> QED BY <4>2, <2>6
    <3>2. m \in ToClient
      BY <3>1, <1>9, DataType
    <3> QED BY <3>2 DEF NoAbort, Data
  <2> HIDE DEF m
  <2>10. Flow(made, toClient'[b], x, p, u) /\ toClient'[b] \in Seq(NoAbort(x))
    <3>1. toClient[b] \in Seq(NoAbort(x)) /\ toClient'[b] = Append(toClient[b], m)
      BY <2>2, <1>11 DEF RelayFlows, m
    <3>2. Carries(made, m, x, t, u)
      BY <2>8, <2>9 DEF Carries
    <3>3. Flow(made, Append(toClient[b], m), x, p, u)
      BY <3>1, <3>2, <2>1, <2>9, FlowAppend
    <3> QED BY <3>1, <3>3, <2>9, AppendProperties
  <2>11. RelayAt(b, x, u)'
    <3>1. CASE hi = FileSize
      <4>1. u = None /\ key \notin DOMAIN relays'
        BY <3>1, <2>2, <2>3, <2>7 DEF At, Without, Restrict
      <4> QED BY <4>1 DEF RelayAt
    <3>2. CASE hi # FileSize
      <4>1. relays' = [relays EXCEPT ![key].pos = @ + n]
        BY <3>2, <2>2, <2>3
      <4>2. /\ key \in DOMAIN relays' /\ relays'[key].pos = hi
            /\ relays'[key].max = r.max /\ relays'[key].proxy = r.proxy
        BY <4>1, <1>1, <1>9 DEF Relay
      <4>3. u # None /\ u.pos = hi /\ u.file = t.file
        BY <3>2, <2>7
      <4>4. proxy' = proxy
        BY <1>1
      <4> HIDE DEF hi
      <4> QED BY <4>2, <4>3, <4>4, <2>3 DEF RelayAt
    <3> QED BY <3>1, <3>2
  <2>12. ReceiverAt(b, x, p)'
    BY <2>1, <1>1, <1>6, ReceiverAtKept
  <2>13. made' = made /\ toServer'[b] \in Seq(NoReject(x))
    BY <1>1, <1>11, NoRejectKept DEF player
  <2> QED BY <2>1, <2>7, <2>10, <2>11, <2>12, <2>13 DEF RelayFlows
<1>12. ASSUME NEW a \in Admins, NEW c \in Cheaters, RelayFlows(a, c), a \in present'
       PROVE  RelayFlows(a, c)'
  <2>1. ASSUME <<a, c>> # <<b, x>> PROVE RelayFlows(a, c)'
    <3>1. toServer'[a] \in Seq(NoReject(c))
      BY <1>1, <1>12, NoRejectKept
    <3>2. OthersOnly(a, c)
      <4>1. CASE a # b
        BY <4>1, <1>3, Apart DEF OthersOnly
      <4>2. CASE a = b
        <5>1. PICK n \in ChunkSizes(left) : toClient'[b] = Append(toClient[b],
                     Data(x, r.pos = 0, r.max, SubSeq(held, r.pos + 1, r.pos + n)))
          BY <4>2, <1>1, <1>8, <1>12
        <5>2. SubSeq(held, r.pos + 1, r.pos + n) \in Seq(Part)
          <6>1. n \in Nat /\ r.pos + n \in Int /\ r.pos + 1 \in Int
                /\ \A i \in r.pos + 1 .. r.pos + n : i \in 1 .. Len(held)
            <7>1. n \in Nat /\ n <= left
              BY <1>10, ChunkSizesType
            <7>2. r.pos \in Nat
              BY <1>9
            <7> HIDE DEF held, r, left
            <7> QED BY <7>1, <7>2, <1>10
          <6>2. \A i \in r.pos + 1 .. r.pos + n : held[i] \in Part
            BY <6>1, <1>9, ElementOfSeq
          <6> QED BY <6>1, <6>2, SubSeqProperties
        <5>3. Data(x, r.pos = 0, r.max, SubSeq(held, r.pos + 1, r.pos + n)) \in ToClient
          BY <5>2, <1>9, DataType
        <5>4. Data(x, r.pos = 0, r.max, SubSeq(held, r.pos + 1, r.pos + n)).who # c
          BY <2>1, <4>2 DEF Data
        <5> QED BY <4>2, <5>1, <5>3, <5>4 DEF OthersOnly
      <4> QED BY <4>1, <4>2
    <3> QED BY <2>1, <3>1, <3>2, <1>1, <1>4, <1>6, <1>12, RelayStays
  <2> QED BY <2>1, <1>1, <1>11, <1>12
<1> QED BY <1>1, <1>7, <1>12, FlowsStep

(* A receiver that is patient completes with a whole file.                  *)
LEMMA HearDataFlows ==
    ASSUME IInv, Flows, NEW b \in Admins, HearData(b)
    PROVE  Flows' /\ torn' = torn
<1> DEFINE m == Head(toClient[b])
<1>1. Hears(b, "data") /\ UNCHANGED player /\ NetworkOK /\ PlayerOK
  BY DEF HearData, IInv, TypeOK
<1>2. /\ \A y \in Clients \ {b} : toClient'[y] = toClient[y]
      /\ toClient[b] # <<>> /\ toClient'[b] = Tail(toClient[b]) /\ m.type = "data"
      /\ Runs(b) /\ UNCHANGED <<present, stopped, server, gaveUp>>
  BY <1>1, ClientTakes DEF Clients
<1>3. PICK x \in Cheaters : x = m.who /\ m \in Chunks
  BY <1>1, HearsType, MessageTypes DEF Clients
<1> DEFINE key == <<b, x>>
           v   == receivers[key]
<1>4. \/ /\ key \notin DOMAIN receivers
         /\ Send(b, Note("reject", x)) /\ UNCHANGED <<receivers, torn>>
      \/ /\ key \in DOMAIN receivers /\ toServer' = toServer
         /\ \E r \in receive_packet(v.total, v.data, m) :
               IF r.done
               THEN receivers' = Without(receivers, key) /\ Judge(b, x, v.kind, r.data)
               ELSE /\ receivers' = [receivers EXCEPT ![key] =
                           [kind |-> v.kind, total |-> r.total, data |-> r.data,
                            heard |-> v.heard \/ r.heard]]
                    /\ torn' = torn
  BY <1>3, Zenon DEF HearData
<1>5. /\ \A a \in Admins, c \in Cheaters : <<a, c>> # <<b, x>> => ReceiverKept(a, c)
      /\ toServer' = toServer \/ Send(b, Note("reject", x))
  BY <1>4 DEF ReceiverKept, Without, Restrict
<1>6. /\ \A y \in Clients \ {b} : toServer'[y] = toServer[y]
      /\ \A c \in Cheaters \ {x} :
            \/ toServer'[b] = toServer[b]
            \/ \E n \in NoReject(c) : toServer'[b] = Append(toServer[b], n)
  <2>1. \A c \in Cheaters \ {x} : Note("reject", x) \in NoReject(c)
    BY NoteType DEF NoReject, Note
  <2> QED BY <2>1, <1>1, <1>5, SendReaches DEF Clients
<1>7. \A c \in Cheaters : DownloadKept(c) /\ PlayerKept(c) /\ toServer'[c] = toServer[c]
  BY <1>1, <1>2, <1>6, Apart DEF DownloadKept, PlayerKept, Runs, player, server
<1>8. MadeGrows /\ \A a \in Admins, c \in Cheaters : RelayKept(a, c)
  BY <1>1, <1>2 DEF MadeGrows, player, server, RelayKept
<1>9. \A c \in Cheaters : UploadFlows(c) => UploadFlows(c)'
  BY <1>1, <1>7, <1>8, UploadStays
<1>10. ASSUME RelayFlows(b, x) PROVE RelayFlows(b, x)' /\ torn' = torn
  <2>1. PICK p \in Places(made), t \in Places(made) :
            Flow(made, toClient[b], x, p, t) /\ ReceiverAt(b, x, p) /\ RelayAt(b, x, t)
    BY <1>10 DEF RelayFlows
  <2>2. toClient[b] \in Seq(NoAbort(x)) /\ toClient'[b] \in Seq(NoAbort(x))
    BY <1>2, <1>10, HeadTailProperties DEF RelayFlows
  <2>3. PICK p1 \in Places(made) : Carries(made, m, x, p, p1) /\ Flow(made, toClient'[b], x, p1, t)
    BY <2>1, <2>2, <1>2, FlowTail
  <2>4. CarriesData(m, p, p1) /\ p # None
    BY <2>3, <1>2, <1>3 DEF Carries, CarriesData
  <2>5. /\ key \in DOMAIN receivers
        /\ Holds(made, p, x, v.kind, v.total, v.data)
    BY <2>1, <2>4 DEF ReceiverAt
  <2>6. PICK r \in receive_packet(v.total, v.data, m) :
               IF r.done
               THEN receivers' = Without(receivers, key) /\ Judge(b, x, v.kind, r.data)
               ELSE /\ receivers' = [receivers EXCEPT ![key] =
                           [kind |-> v.kind, total |-> r.total, data |-> r.data,
                            heard |-> v.heard \/ r.heard]]
                    /\ torn' = torn
    BY <2>5, <1>4
  <2>7. toServer' = toServer
    BY <2>5, <1>4
  <2>8. /\ r.done <=> p1 = None
        /\ r.done => /\ made[p.file] = [who |-> x, kind |-> v.kind]
                     /\ r.data = Parts(p.file, 0, FileSize)
        /\ ~ r.done => Holds(made, p1, x, v.kind, r.total, r.data)
    <3>1. made \in Seq([who : Cheaters, kind : Kinds])
      BY <1>1 DEF PlayerOK
    <3>2. Holds(made, p, x, v.kind, v.total, v.data)
      BY <2>5
    <3> DEFINE took == receive_packet(v.total, v.data, m)
    <3>3. r \in took
      BY <2>6
    <3>4. CarriesData(m, p, p1) /\ m \in Chunks
      BY <2>4, <1>3
    <3>5. Took(made, p, p1, x, v.kind, r)
      <4> HIDE DEF m, v
      <4> QED BY <3>1, <3>2, <3>3, <3>4, ChunkIsTaken
    <3> QED BY <3>5 DEF Took
  <2>9. ReceiverAt(b, x, p1)' /\ torn' = torn
    <3>1. CASE r.done
      <4>1. receivers' = Without(receivers, key) /\ Judge(b, x, v.kind, r.data)
        BY <3>1, <2>6
      <4>2. Whole(x, v.kind, r.data)
        <5>1. p.file \in DOMAIN made
          BY <2>4, <1>1, PlaceType DEF PlayerOK
        <5> QED BY <3>1, <5>1, <2>8 DEF Whole
      <4>3. torn' = torn
        BY <4>1, <4>2 DEF Judge
      <4>4. key \notin DOMAIN receivers'
        BY <4>1 DEF Without, Restrict
      <4> QED BY <3>1, <4>3, <4>4, <2>8 DEF ReceiverAt
    <3>2. CASE ~ r.done
      <4>1. /\ torn' = torn
            /\ receivers' = [receivers EXCEPT ![key] =
                   [kind |-> v.kind, total |-> r.total, data |-> r.data,
                    heard |-> v.heard \/ r.heard]]
        BY <3>2, <2>6
      <4>2. receivers \in [DOMAIN receivers -> Receiver]
        BY DEF IInv, TypeOK, ReceiversOK, Receiver
      <4>3. /\ key \in DOMAIN receivers' /\ receivers'[key].kind = v.kind
            /\ receivers'[key].total = r.total /\ receivers'[key].data = r.data
        BY <4>1, <4>2, <2>5
      <4>4. Holds(made', p1, x, v.kind, r.total, r.data)
        BY <3>2, <2>8, <1>1 DEF player
      <4> QED BY <4>1, <4>3, <4>4 DEF ReceiverAt
    <3> QED BY <3>1, <3>2
  <2>10. RelayAt(b, x, t)'
    BY <2>1, <1>8, RelayAtKept
  <2>11. made' = made /\ toServer'[b] \in Seq(NoReject(x))
    BY <2>7, <1>1, <1>10, NoRejectKept DEF player
  <2> QED BY <2>1, <2>2, <2>3, <2>9, <2>10, <2>11 DEF RelayFlows
<1>11. ASSUME NEW a \in Admins, NEW c \in Cheaters, RelayFlows(a, c) PROVE RelayFlows(a, c)'
  <2>1. ASSUME <<a, c>> # <<b, x>> PROVE RelayFlows(a, c)'
    <3>1. toServer'[a] \in Seq(NoReject(c))
      BY <2>1, <1>6, <1>11, Apart, NoRejectKept
    <3>2. OthersOnly(a, c)
      BY <2>1, <1>2, <1>3, Apart DEF OthersOnly
    <3> QED BY <2>1, <3>1, <3>2, <1>1, <1>5, <1>8, <1>11, RelayStays
  <2> QED BY <2>1, <1>10, <1>11
<1>12. torn' = torn
  <2>1. CASE Patient(b, x)
    <3>1. RelayFlows(b, x)
      BY <2>1, <1>2 DEF Flows, Runs
    <3> QED BY <3>1, <1>10
  <2>2. CASE ~ Patient(b, x)
    <3>1. \A k, data : Judge(b, x, k, data) => torn' = torn
      BY <2>2 DEF Judge, Patient
    <3> QED BY <3>1, <1>4
  <2> QED BY <2>1, <2>2
<1>13. present' \subseteq present /\ gaveUp \subseteq gaveUp'
  BY <1>2
<1> QED BY <1>9, <1>11, <1>12, <1>13, FlowsStep

(* The download of a patient server completes with a whole file, and the    *)
(* relay its first chunk starts is of the same file.                        *)
LEMMA ReceiveDataFlows ==
    ASSUME IInv, Flows, NEW x \in Cheaters, ReceiveData(x)
    PROVE  Flows' /\ torn' = torn
<1> DEFINE m == Head(toServer[x])
<1>1. ServerHears(x, "data") /\ NetworkOK /\ PlayerOK
  BY DEF ReceiveData, IInv, TypeOK
<1>2. /\ \A y \in Clients \ {x} : toServer'[y] = toServer[y]
      /\ toServer[x] # <<>> /\ toServer'[x] = Tail(toServer[x]) /\ m.type = "data"
      /\ UNCHANGED <<present, stopped, player, receivers, gaveUp>>
  BY <1>1, ServerTakes DEF Clients
<1>3. m \in Chunks
  BY <1>1, ServerHearsType, MessageTypes DEF Clients
<1>4. MadeGrows /\ made' = made /\ \A a \in Admins, c \in Cheaters : ReceiverKept(a, c)
  BY <1>2 DEF MadeGrows, player, ReceiverKept
<1>5. ASSUME NEW a \in Admins, NEW c \in Cheaters, RelayFlows(a, c)
      PROVE  toServer'[a] \in Seq(NoReject(c))
  BY <1>2, <1>5, Apart, NoRejectKept
<1>6. ASSUME UploadFlows(x)
      PROVE  /\ toServer'[x] \in Seq(Uploads(x))
             /\ Runs(x) => toServer'[x] \in Seq(Steady(x))
             /\ \E p, p1, t \in Places(made) :
                   /\ DownloadAt(x, p) /\ CarriesData(m, p, p1) /\ p # None
                   /\ Flow(made, toServer'[x], x, p1, t)
                   /\ Runs(x) => PlayerAt(x, p, t)
  <2>1. PICK p \in Places(made), t \in Places(made) :
            /\ Flow(made, toServer[x], x, p, t) /\ DownloadAt(x, p)
            /\ Runs(x) => PlayerAt(x, p, t)
    BY <1>6 DEF UploadFlows
  <2>2. /\ toServer[x] \in Seq(Uploads(x)) /\ m \in Uploads(x)
        /\ toServer'[x] \in Seq(Uploads(x))
    BY <1>2, <1>6, HeadTailProperties DEF UploadFlows
  <2>3. Runs(x) => toServer'[x] \in Seq(Steady(x))
    BY <1>2, <1>6, HeadTailProperties DEF UploadFlows
  <2>4. PICK p1 \in Places(made) : Carries(made, m, x, p, p1) /\ Flow(made, toServer'[x], x, p1, t)
    BY <2>1, <2>2, <1>2, FlowTail
  <2>5. CarriesData(m, p, p1) /\ p # None
    BY <2>2, <2>4, <1>2 DEF Carries, Uploads, CarriesData
  <2> HIDE DEF m
  <2> QED BY <2>1, <2>2, <2>3, <2>4, <2>5
<1>7. CASE x \notin DOMAIN downloads
  <2>1. /\ toClient' = Put(x, Note("reject", x))
        /\ UNCHANGED <<proxy, downloads, relays, torn>>
    BY <1>7 DEF ReceiveData, server
  <2>2. ~ UploadFlows(x)
    BY <1>6, <1>7 DEF DownloadAt
  <2>3. \A y \in Clients \ {x} : toClient'[y] = toClient[y]
    BY <2>1, <1>1, PutReaches DEF Clients
  <2>4. \A c \in Cheaters \ {x} : PlayerKept(c) /\ toServer'[c] = toServer[c]
    BY <2>3, <1>2, Apart DEF PlayerKept, Runs, player
  <2>5. /\ \A c \in Cheaters : DownloadKept(c)
        /\ \A a \in Admins, c \in Cheaters : RelayKept(a, c) /\ OthersOnly(a, c)
    BY <2>1, <2>3, Apart DEF DownloadKept, RelayKept, OthersOnly
  <2>6. ASSUME NEW c \in Cheaters, UploadFlows(c) PROVE UploadFlows(c)'
    <3>1. c # x
      BY <2>2, <2>6
    <3> QED BY <3>1, <2>4, <2>5, <2>6, <1>1, <1>4, UploadStays
  <2>7. \A a \in Admins, c \in Cheaters : RelayFlows(a, c) => RelayFlows(a, c)'
    BY <2>5, <1>1, <1>4, <1>5, RelayStays
  <2>8. present' \subseteq present /\ gaveUp \subseteq gaveUp'
    BY <1>2
  <2> QED BY <2>1, <2>6, <2>7, <2>8, FlowsStep
<1>8. CASE x \in DOMAIN downloads
  <2> DEFINE d   == downloads[x]
             q   == d.proxy
             key == <<proxy[q].admin, x>>
  <2>1. /\ downloads \in [DOMAIN downloads -> Download] /\ DOMAIN downloads \subseteq Cheaters
        /\ proxy \in [Proxies -> ProxyRec]
        /\ q \in Proxies /\ proxy[q].cheater = x
        /\ \A c \in DOMAIN downloads \ {x} : downloads[c].proxy # q
        /\ \A k \in DOMAIN relays : relays[k].proxy = q => k = key
    BY <1>8 DEF IInv, TypeOK, SessionsOK, ProxyOK, Download, ProxyRec, Owned
  <2>2. PICK b \in Admins : b = proxy[q].admin
    BY <1>8 DEF IInv, Owned
  <2>3. PICK r \in receive_packet(d.total, proxy[q].content, m) :
            /\ proxy' = [proxy EXCEPT ![q].content = r.data, ![q].first = FALSE]
            /\ IF proxy[q].first
               THEN /\ toClient' = Put(b, Ask("response", x, d.kind))
                    /\ StartRelay(<<b, x>>, q, r.total)
               ELSE UNCHANGED <<toClient, relays>>
            /\ IF r.done
               THEN downloads' = Without(downloads, x) /\ Judge(Server, x, d.kind, r.data)
               ELSE /\ downloads' = [downloads EXCEPT ![x] =
                           [@ EXCEPT !.total = r.total, !.heard = @ \/ r.heard]]
                    /\ torn' = torn
    BY <1>8, <2>2, Zenon DEF ReceiveData
  <2>4. /\ \A y \in Proxies \ {q} : proxy'[y] = proxy[y]
        /\ proxy'[q].content = r.data /\ proxy'[q].first = FALSE
    BY <2>1, <2>3 DEF ProxyRec
  <2>5. \A c \in Cheaters \ {x} : DownloadKept(c)
    <3>1. \A c \in DOMAIN downloads : downloads[c].proxy \in Proxies
      BY <2>1 DEF Download
    <3>2. /\ \A c \in Cheaters \ {x} : c \in DOMAIN downloads' <=> c \in DOMAIN downloads
          /\ \A c \in DOMAIN downloads \ {x} : downloads'[c] = downloads[c]
      BY <2>1, <2>3 DEF Without, Restrict
    <3> QED BY <3>1, <3>2, <2>1, <2>4 DEF DownloadKept
  <2>6. /\ \A y \in Clients \ {b} : toClient'[y] = toClient[y]
        /\ \A c \in Cheaters \ {x} : OthersOnly(b, c)
    <3>1. CASE ~ proxy[q].first
      BY <3>1, <2>3 DEF OthersOnly
    <3>2. CASE proxy[q].first
      <4>1. toClient' = Put(b, Ask("response", x, d.kind))
        BY <3>2, <2>3
      <4>2. d.kind \in Kinds
        BY <2>1, <1>8 DEF Download
      <4>3. Ask("response", x, d.kind) \in ToClient /\ Ask("response", x, d.kind).who = x
        BY <4>2, NoteType DEF Ask
      <4> QED BY <4>1, <4>3, <1>1, PutReaches DEF Clients, OthersOnly
    <3> QED BY <3>1, <3>2
  <2>7. \A a \in Admins, c \in Cheaters : <<a, c>> # <<b, x>> => RelayKept(a, c)
    <3>1. \A k \in DOMAIN relays : k # <<b, x>> =>
              relays[k].proxy \in Proxies /\ relays[k].proxy # q
      BY <2>1, <2>2 DEF IInv, TypeOK, SessionsOK
    <3>2. \/ relays' = relays
          \/ relays' = With(relays, <<b, x>>, [proxy |-> q, max |-> r.total, pos |-> 0])
      BY <2>3 DEF StartRelay, RelayOf
    <3> QED BY <3>1, <3>2, <2>4 DEF RelayKept, With
  <2>8. \A c \in Cheaters \ {x} : PlayerKept(c) /\ toServer'[c] = toServer[c]
    BY <2>6, <1>2, Apart DEF PlayerKept, Runs, player
  <2>9. ASSUME UploadFlows(x)
        PROVE  /\ UploadFlows(x)' /\ torn' = torn
               /\ \E p \in Places(made) :
                     /\ p # None /\ Holds(made, p, x, d.kind, d.total, proxy[q].content)
                     /\ proxy[q].first <=> proxy[q].content = <<>>
                     /\ r.total = FileSize /\ Len(r.data) \in 1 .. FileSize
                     /\ r.data = Parts(p.file, 0, Len(r.data))
    <3>1. PICK p \in Places(made), p1 \in Places(made), t \in Places(made) :
              /\ DownloadAt(x, p) /\ CarriesData(m, p, p1) /\ p # None
              /\ Flow(made, toServer'[x], x, p1, t)
              /\ Runs(x) => PlayerAt(x, p, t)
      BY <2>9, <1>6
    <3>2. /\ Holds(made, p, x, d.kind, d.total, proxy[q].content)
          /\ proxy[q].first <=> proxy[q].content = <<>>
      BY <3>1, <1>8 DEF DownloadAt
    <3>3. /\ r.total = FileSize /\ r.data # <<>>
          /\ r.done <=> p1 = None
          /\ Len(r.data) \in 1 .. FileSize /\ r.data = Parts(p.file, 0, Len(r.data))
          /\ r.done => /\ made[p.file] = [who |-> x, kind |-> d.kind]
                       /\ r.data = Parts(p.file, 0, FileSize)
          /\ ~ r.done => Holds(made, p1, x, d.kind, r.total, r.data)
      <4>1. made \in Seq([who : Cheaters, kind : Kinds])
        BY <1>1 DEF PlayerOK
      <4>2. r \in receive_packet(d.total, proxy[q].content, m)
        BY <2>3
      <4>3. CarriesData(m, p, p1) /\ m \in Chunks
        BY <3>1, <1>3
      <4>4. Took(made, p, p1, x, d.kind, r)
        <5> HIDE DEF d, q, m
        <5> QED BY <4>1, <4>2, <4>3, <3>1, <3>2, ChunkIsTaken
      <4> QED BY <4>4 DEF Took
    <3>4. DownloadAt(x, p1)' /\ torn' = torn
      <4>1. CASE r.done
        <5>1. downloads' = Without(downloads, x) /\ Judge(Server, x, d.kind, r.data)
          BY <4>1, <2>3
        <5>2. Whole(x, d.kind, r.data)
          <6>1. p.file \in DOMAIN made
            BY <3>1, <1>1, PlaceType DEF PlayerOK
          <6> QED BY <4>1, <6>1, <3>3 DEF Whole
        <5>3. torn' = torn
          BY <5>1, <5>2 DEF Judge
        <5>4. x \notin DOMAIN downloads'
          BY <5>1 DEF Without, Restrict
        <5> QED BY <4>1, <5>3, <5>4, <3>3 DEF DownloadAt
      <4>2. CASE ~ r.done
        <5>1. /\ torn' = torn
              /\ downloads' = [downloads EXCEPT ![x] =
                     [@ EXCEPT !.total = r.total, !.heard = @ \/ r.heard]]
          BY <4>2, <2>3
        <5>2. /\ x \in DOMAIN downloads' /\ downloads'[x].kind = d.kind
              /\ downloads'[x].total = r.total /\ downloads'[x].proxy = q
          BY <5>1, <2>1, <1>8 DEF Download
        <5>3. Holds(made', p1, x, d.kind, r.total, r.data)
          BY <4>2, <3>3, <1>4
        <5> HIDE DEF d, q
        <5> QED BY <5>1, <5>2, <5>3, <2>4, <3>3 DEF DownloadAt
      <4> QED BY <4>1, <4>2
    <3>5. Runs(x)' => PlayerAt(x, p1, t)'
      <4>1. toClient'[x] = toClient[x] /\ (Runs(x)' <=> Runs(x))
        BY <2>6, <1>2, Apart DEF Runs
      <4>2. ASSUME Runs(x) PROVE PlayerAt(x, p1, t)'
        <5>1. PlayerAt(x, p, t) /\ p # None
          BY <4>2, <3>1
        <5>2. Unasked(x)' /\ upload'[x] = upload[x] /\ memory'[x] = memory[x]
          BY <4>1, <5>1, <1>2 DEF PlayerAt, Unasked, player
        <5>3. IF upload[x] # Idle THEN t = [file |-> memory[x], pos |-> upload[x]] ELSE t = None
          BY <5>1 DEF PlayerAt
        <5> QED BY <5>2, <5>3 DEF PlayerAt
      <4> QED BY <4>1, <4>2
    <3>6. UploadFlows(x)'
      <4>1. Runs(x)' => Runs(x)
        BY <1>2 DEF Runs
      <4> HIDE DEF m
      <4> QED BY <4>1, <3>1, <3>4, <3>5, <2>9, <1>4, <1>6 DEF UploadFlows
    <3> HIDE DEF d, q, m
    <3> QED BY <3>1, <3>2, <3>3, <3>4, <3>6
  <2> HIDE DEF m
  <2>10. ASSUME UploadFlows(x), RelayFlows(b, x), b \in present PROVE RelayFlows(b, x)'
    <3>1. PICK p \in Places(made) :
              /\ p # None /\ Holds(made, p, x, d.kind, d.total, proxy[q].content)
              /\ proxy[q].first <=> proxy[q].content = <<>>
              /\ r.total = FileSize /\ Len(r.data) \in 1 .. FileSize
              /\ r.data = Parts(p.file, 0, Len(r.data))
      BY <2>9, <2>10
    <3>2. PICK s \in Places(made), t \in Places(made) :
              Flow(made, toClient[b], x, s, t) /\ ReceiverAt(b, x, s) /\ RelayAt(b, x, t)
      BY <2>10 DEF RelayFlows
    <3>3. /\ p.file \in Nat /\ p.pos \in 0 .. FileSize - 1 /\ p.pos \in 0 .. FileSize
          /\ made[p.file] = [who |-> x, kind |-> d.kind]
          /\ proxy[q].content = Parts(p.file, 0, p.pos)
      BY <3>1, <1>1, PlaceType DEF PlayerOK, Holds
    <3>4. ReceiverAt(b, x, s)' /\ toServer'[b] \in Seq(NoReject(x))
      BY <3>2, <2>10, <1>1, <1>4, <1>5, ReceiverAtKept
    <3>5. SUFFICES \E u \in Places(made) : /\ Flow(made, toClient'[b], x, s, u)
                                           /\ toClient'[b] \in Seq(NoAbort(x))
                                           /\ RelayAt(b, x, u)'
      BY <3>2, <3>4, <3>5, <1>4 DEF RelayFlows
    <3>6. ASSUME <<b, x>> \in DOMAIN relays, relays' = relays PROVE RelayAt(b, x, t)'
      <4>1. /\ t # None /\ relays[<<b, x>>].pos = t.pos /\ relays[<<b, x>>].max = FileSize
            /\ Len(proxy[relays[<<b, x>>].proxy].content) \in 1 .. FileSize
            /\ proxy[relays[<<b, x>>].proxy].content
                  = Parts(t.file, 0, Len(proxy[relays[<<b, x>>].proxy].content))
        BY <3>2, <3>6 DEF RelayAt
      <4>2. CASE relays[<<b, x>>].proxy = q
        <5>1. t.file = p.file
          <6>1. t.file \in Nat
            BY <4>1, <1>1, PlaceType DEF PlayerOK
          <6>2. Parts(t.file, 0, Len(proxy[q].content)) = Parts(p.file, 0, p.pos)
            BY <4>1, <4>2, <3>3
          <6>3. Len(proxy[q].content) \in 1 .. FileSize
            BY <4>1, <4>2
          <6> HIDE DEF q
          <6> QED BY <6>1, <6>2, <6>3, <3>3, PartsTell
        <5> HIDE DEF q
        <5> QED BY <4>1, <4>2, <5>1, <3>1, <3>6, <2>4 DEF RelayAt
      <4>3. CASE relays[<<b, x>>].proxy # q
        <5>1. relays[<<b, x>>].proxy \in Proxies
          BY <3>6 DEF IInv, TypeOK, SessionsOK
        <5> HIDE DEF q
        <5> QED BY <4>1, <4>3, <5>1, <3>6, <2>4 DEF RelayAt
      <4> QED BY <4>2, <4>3
    <3>7. ASSUME <<b, x>> \notin DOMAIN relays, relays' = relays PROVE RelayAt(b, x, t)'
      BY <3>2, <3>7 DEF RelayAt
    <3>8. CASE ~ proxy[q].first
      <4>1. toClient' = toClient /\ relays' = relays
        BY <3>8, <2>3
      <4> QED BY <4>1, <3>2, <3>6, <3>7, <2>10 DEF RelayFlows
    <3>9. CASE proxy[q].first
      <4> DEFINE n == Ask("response", x, d.kind)
      <4>1. toClient'[b] = Append(toClient[b], n) /\ StartRelay(<<b, x>>, q, r.total)
        BY <3>9, <2>3, <2>10, <1>1, PutReaches DEF Clients
      <4>2. d.kind \in Kinds
        BY <2>1, <1>8 DEF Download
      <4>3. n \in NoAbort(x) /\ n.who = x /\ n.type = "response" /\ n.kind = d.kind
        BY <4>2, NoteType DEF NoAbort, Ask
      <4>4. toClient[b] \in Seq(NoAbort(x))
        BY <2>10 DEF RelayFlows
      <4>5. p.pos = 0
        <5>1. Len(Parts(p.file, 0, p.pos)) = p.pos - 0
          <6>1. 0 \in 0 .. FileSize
            BY SizesAssumption
          <6> QED BY <6>1, <3>3, PartsLength
        <5>2. Parts(p.file, 0, p.pos) = <<>>
          BY <3>1, <3>3, <3>9
        <5> QED BY <5>1, <5>2, <3>3
      <4> HIDE DEF n
      <4>6. CASE <<b, x>> \in DOMAIN relays
        <5>1. relays' = relays
          BY <4>1, <4>6 DEF StartRelay, RelayOf
        <5>2. t # None
          BY <4>6, <3>2 DEF RelayAt
        <5>3. Carries(made, n, x, t, t)
          BY <5>2, <4>3 DEF Carries, Opens
        <5>4. Flow(made, toClient'[b], x, s, t) /\ toClient'[b] \in Seq(NoAbort(x))
          BY <5>3, <4>1, <4>3, <4>4, <3>2, FlowAppend, AppendProperties
        <5> QED BY <5>1, <5>4, <4>6, <3>2, <3>6
      <4>7. CASE <<b, x>> \notin DOMAIN relays
        <5>1. relays' = With(relays, <<b, x>>, [proxy |-> q, max |-> r.total, pos |-> 0])
          BY <4>1, <4>7 DEF StartRelay, RelayOf
        <5>2. /\ <<b, x>> \in DOMAIN relays' /\ relays'[<<b, x>>].proxy = q
              /\ relays'[<<b, x>>].max = FileSize /\ relays'[<<b, x>>].pos = 0
          BY <5>1, <3>1 DEF With
        <5>3. t = None
          BY <4>7, <3>2 DEF RelayAt
        <5>4. Carries(made, n, x, t, p)
          BY <5>3, <4>3, <4>5, <3>1, <3>3 DEF Carries, Opens
        <5>5. Flow(made, toClient'[b], x, s, p) /\ toClient'[b] \in Seq(NoAbort(x))
          BY <5>4, <4>1, <4>3, <4>4, <3>1, <3>2, FlowAppend, AppendProperties
        <5> HIDE DEF q, d
        <5>6. RelayAt(b, x, p)'
          BY <5>2, <4>5, <3>1, <2>4 DEF RelayAt
        <5> QED BY <5>5, <5>6
      <4> QED BY <4>6, <4>7
    <3> QED BY <3>8, <3>9
  <2>11. ASSUME NEW c \in Cheaters, UploadFlows(c) PROVE UploadFlows(c)'
    <3>1. ASSUME c # x PROVE UploadFlows(c)'
      BY <3>1, <2>5, <2>8, <2>11, <1>1, <1>4, UploadStays
    <3> QED BY <3>1, <2>9, <2>11
  <2>12. ASSUME NEW a \in Admins, NEW c \in Cheaters, RelayFlows(a, c), UploadFlows(c),
                a \in present'
         PROVE  RelayFlows(a, c)'
    <3>1. ASSUME <<a, c>> # <<b, x>> PROVE RelayFlows(a, c)'
      <4>1. toServer'[a] \in Seq(NoReject(c))
        BY <1>5, <2>12
      <4>2. OthersOnly(a, c)
        BY <3>1, <2>6, Apart DEF OthersOnly
      <4> QED BY <3>1, <4>1, <4>2, <2>7, <2>12, <1>1, <1>4, RelayStays
    <3> QED BY <3>1, <2>10, <2>12, <1>2
  <2>13. torn' = torn
    <3>1. CASE Patient(Server, x)
      BY <3>1, <2>9 DEF Flows
    <3>2. CASE ~ Patient(Server, x)
      <4>1. \A k, data : Judge(Server, x, k, data) => torn' = torn
        BY <3>2 DEF Judge, Patient
      <4> QED BY <4>1, <2>3
    <3> QED BY <3>1, <3>2
  <2>14. present' \subseteq present /\ gaveUp \subseteq gaveUp'
    BY <1>2
  <2> QED BY <2>11, <2>12, <2>13, <2>14, FlowsStep
<1> QED BY <1>7, <1>8

-----------------------------------------------------------------------------
(* FilesAreWhole holds because the channels are Flows; torn is only written *)
(* by the two actions that hear a chunk.                                    *)
WInv == IInv /\ Flows /\ FilesAreWhole

LEMMA InitFlows == Init => Flows /\ FilesAreWhole
<1> SUFFICES ASSUME Init PROVE Flows /\ FilesAreWhole
  OBVIOUS
<1>1. None \in Places(made)
  BY DEF Places
<1>2. /\ DOMAIN downloads = {} /\ DOMAIN relays = {} /\ DOMAIN receivers = {}
  BY DEF Init
<1>3. /\ \A x \in Clients : toServer[x] = <<>> /\ toClient[x] = <<>>
      /\ \A c \in Cheaters : collecting[c] = {} /\ upload[c] = Idle
  BY DEF Init
<1>4. \A c : Flow(made, <<>>, c, None, None)
  BY <1>1, FlowEmpty
<1>5. ASSUME NEW c \in Cheaters PROVE UploadFlows(c)
  <2>1. toServer[c] = <<>>
    BY <1>3 DEF Clients
  <2>2. toServer[c] \in Seq(Uploads(c)) /\ toServer[c] \in Seq(Steady(c))
    BY <2>1, EmptySeq
  <2>3. DownloadAt(c, None)
    BY <1>2 DEF DownloadAt
  <2>4. PlayerAt(c, None, None)
    BY <1>3 DEF PlayerAt, Unasked, Clients
  <2>5. Flow(made, toServer[c], c, None, None)
    BY <2>1, <1>4
  <2> QED BY <1>1, <2>2, <2>3, <2>4, <2>5 DEF UploadFlows
<1>6. ASSUME NEW a \in Admins, NEW c \in Cheaters PROVE RelayFlows(a, c)
  <2>1. toServer[a] = <<>> /\ toClient[a] = <<>>
    BY <1>3 DEF Clients
  <2>2. toServer[a] \in Seq(NoReject(c)) /\ toClient[a] \in Seq(NoAbort(c))
    BY <2>1, EmptySeq
  <2>3. ReceiverAt(a, c, None) /\ RelayAt(a, c, None)
    BY <1>2 DEF ReceiverAt, RelayAt
  <2>4. Flow(made, toClient[a], c, None, None)
    BY <2>1, <1>4
  <2> QED BY <1>1, <2>2, <2>3, <2>4 DEF RelayFlows
<1>7. FilesAreWhole
  BY DEF Init, FilesAreWhole
<1> QED BY <1>5, <1>6, <1>7 DEF Flows

LEMMA NextKeepsWhole == WInv /\ [Next]_vars => WInv'
<1> SUFFICES ASSUME IInv, Flows, FilesAreWhole, [Next]_vars PROVE WInv'
  BY DEF WInv
<1>1. IInv'
  BY NextKeepsInv
<1>2. CASE OnMessage
  <2>1. ASSUME NEW a \in Admins, HandleCommand(a) \/ ReceiveReject(a)
        PROVE  Flows' /\ torn' = torn
    BY <2>1, HandleCommandFlows, ReceiveRejectFlows DEF HandleCommand, ReceiveReject
  <2>2. ASSUME NEW c \in Cheaters, ReceiveData(c) \/ ReceiveAbort(c)
        PROVE  Flows' /\ torn' = torn
    BY <2>2, ReceiveDataFlows, ReceiveAbortFlows DEF ReceiveAbort
  <2> QED BY <1>2, <2>1, <2>2, <1>1 DEF OnMessage, WInv, FilesAreWhole
<1>3. ASSUME NEW c \in Cheaters, PlayerStep(c)
      PROVE  Flows' /\ torn' = torn
  <2>1. CASE HearRequest(c) \/ HearReject(c)
    BY <2>1, HearRequestFlows, HearRejectFlows DEF HearRequest, HearReject
  <2>2. CASE UpdateUpload(c)
    BY <2>2, UpdateUploadFlows DEF UpdateUpload
  <2>3. ASSUME NEW k \in Kinds, Collected(c, k) PROVE Flows' /\ torn' = torn
    BY <2>3, CollectedFlows DEF Collected
  <2> QED BY <1>3, <2>1, <2>2, <2>3 DEF PlayerStep
<1>4. ASSUME NEW c \in Cheaters, DownloadQuiet(c) \/ DownloadTimesOut(c) \/ StopGame(c)
      PROVE  Flows' /\ torn' = torn
  BY <1>4, DownloadQuietFlows, DownloadTimesOutFlows, StopGameFlows
  DEF DownloadQuiet, DownloadTimesOut, StopGame
<1>5. ASSUME NEW a \in Admins, AdminStep(a)
      PROVE  Flows' /\ torn' = torn
  BY <1>5, HearResponseFlows, HearDataFlows, HearAbortFlows
  DEF AdminStep, HearResponse, HearAbort
<1>6. ASSUME NEW a \in Admins, NEW c \in Cheaters,
             \/ UpdateRelay(a, c) \/ ReceiverQuiet(a, c) \/ ReceiverTimesOut(a, c)
             \/ \E k \in Kinds : Request(a, c, k)
      PROVE  Flows' /\ torn' = torn
  <2>1. CASE UpdateRelay(a, c)
    BY <2>1, UpdateRelayFlows DEF UpdateRelay
  <2>2. CASE ReceiverQuiet(a, c) \/ ReceiverTimesOut(a, c)
    BY <2>2, ReceiverQuietFlows, ReceiverTimesOutFlows DEF ReceiverQuiet, ReceiverTimesOut
  <2>3. ASSUME NEW k \in Kinds, Request(a, c, k) PROVE Flows' /\ torn' = torn
    BY <2>3, RequestFlows DEF Request
  <2> QED BY <1>6, <2>1, <2>2, <2>3
<1>7. ASSUME NEW x \in Clients, Leave(x)
      PROVE  Flows' /\ torn' = torn
  BY <1>7, LeaveFlows DEF Leave
<1>8. CASE UNCHANGED vars
  BY <1>8, <1>1 DEF vars, network, player, server, WInv, FilesAreWhole, Flows, Patient,
     UploadFlows, RelayFlows, DownloadAt, PlayerAt, Unasked, Asked, ReceiverAt, RelayAt, Runs
<1> QED BY <1>1, <1>2, <1>3, <1>4, <1>5, <1>6, <1>7, <1>8 DEF Next, WInv, FilesAreWhole

(* Every file a receiver takes for complete, at the server or at an         *)
(* administrator, is one file that player collected, of the kind asked for, *)
(* for all clients, proxies and file sizes and however requests, chunks,    *)
(* rejections, aborts and departures interleave, unless that receiver or    *)
(* the download has once given up waiting: a player is not asked again      *)
(* before its download is gone (make_screenshot), every upload starts with  *)
(* its header at the beginning of the memory (start_transfer_file), and a   *)
(* relay reads the bytes of one download in order (update_transfer).        *)
THEOREM WholeFiles == Spec => []FilesAreWhole
<1>1. Init => WInv
  BY InitInv, InitFlows DEF WInv
<1>2. WInv /\ [Next]_vars => WInv'
  BY NextKeepsWhole
<1>3. WInv => FilesAreWhole
  BY DEF WInv
<1> QED BY <1>1, <1>2, <1>3, PTL DEF Spec
=============================================================================
