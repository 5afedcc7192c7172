------------------------- MODULE UpdatesCompressor --------------------------
(***************************************************************************)
(* How the state of the entities gets to the clients, some thirty times a   *)
(* second: MakeUpdatePackets writes an update for every entity into an      *)
(* accumulating buffer, which is flushed, compressed or as it is, into a    *)
(* row of packets; these are broadcast without guarantee.  A cache of the   *)
(* last updates keeps what has not changed for a while from being sent.     *)
(*                                                                          *)
(* A packet is the sequence of its fields with their widths in bytes.       *)
(* Clients are independent of each other: one is modelled, and what is sent *)
(* to it is received or lost before the next pass.                          *)
(*   source: xrGame/xrServer_updates_compressor.cpp, xrServer.cpp,          *)
(*   Level_network_compressed_updates.cpp                                   *)
(***************************************************************************)
EXTENDS Integers, SequencesExt

CONSTANTS
    Entities,         \* how many entities there are; their ids start at 0
    Values,           \* states of an entity: v takes v bytes in an update
    Levels,           \* settings of sv_traffic_optimization_level
    Limit,            \* NET_PacketSizeLimit
    MaxEq,            \* max_eq_packets
    EqValues,         \* the range of the u16 m_eq_count
    CacheSize         \* cache_entities_size

ASSUME SizesAssumption == {Entities, Limit, MaxEq, EqValues, CacheSize} \subseteq Nat \ {0}
ASSUME ValuesAssumption == Values \subseteq Nat \ {0}
ASSUME CacheAssumption == CacheSize > 1 /\ MaxEq < EqValues

(* An update has at most 255 bytes and its header, a packet 16384.           *)
ASSUME RoomAssumption == \A v \in Values : v + 10 < Limit

Flags == {"ppmd", "lzo", "last_change"}
ASSUME LevelsAssumption == Levels \subseteq SUBSET Flags

EntityIds == 0 .. Entities - 1

VARIABLES
    level,      \* g_sv_traffic_optimization_level in the present pass
    value,      \* value[e]: the state of entity e on the server
    cache,      \* m_cache
    acc,        \* m_acc_buff: its bytes and the updates in them
    packets,    \* m_ready_for_send, up to m_current_update
    stage,      \* where the game thread is in a pass
    next,       \* the next entity to be written, or packet to be sent
    written,    \* the updates of this pass that were not suppressed
    view,       \* view[e]: the state of e the client has
    missed,     \* history, missed[e]: updates of e lost since the last received one
    withheld    \* the entities whose update was suppressed in this pass

UpdatesVars == <<level, value, cache, acc, packets, stage, next, written, view, missed,
                 withheld>>

Compresses == level \cap {"ppmd", "lzo"} # {}

-----------------------------------------------------------------------------
(* Fields of packets. *)
Field(kind, bytes, data) == [kind |-> kind, bytes |-> bytes, data |-> data]
Begin(type)  == Field(type, 2, <<>>)
LevelByte    == Field("level", 1, <<>>)
SizeField    == Field("size", 2, <<>>)
ZeroEnd      == Field("zero", 2, <<>>)
Block(n, us) == Field("block", n, us)

TotalBytes(p) == FoldLeft(LAMBDA n, f : n + f.bytes, 0, p)

(* An update: the id, the size of what follows (w_chunk_open8), the state.  *)
Update(e)      == [id |-> e, state |-> value[e]]
UpdateBytes(u) == 3 + u.state

(* What a compressor (external) may make of n bytes: it saves one at least. *)
CompressedSizes(n) == {n - 1, n \div 2}

(* What is kept free in a packet: w_begin, compress_type, zero_end.         *)
Reserved == 5

-----------------------------------------------------------------------------
(* The cache.  An entry's time is kept as its age: 0 in the present pass,   *)
(* and else its rank among the older ones, which is all that is compared.   *)
NoUpdate == [id |-> -1, state |-> 0]
EmptyEntry == [id |-> 0, eq |-> 0, age |-> 1, update |-> NoUpdate]
Slots == 1 .. CacheSize

EntryBytes(i) == IF cache[i].update = NoUpdate THEN 0 ELSE UpdateBytes(cache[i].update)

SearchEntity(e) == {i \in Slots : cache[i].id = e}

(* The oldest entry, and among those the one with the shortest update.      *)
Expires(i, j) == \/ cache[i].age > cache[j].age
                 \/ cache[i].age = cache[j].age /\ EntryBytes(i) < EntryBytes(j)
MostExpired == Min({i \in Slots : \A j \in Slots : ~ Expires(j, i)})
MayExpire(i, u) == cache[i].age > 0 \/ EntryBytes(i) < UpdateBytes(u)

SlotFor(e, u) == IF SearchEntity(e) # {} THEN {Min(SearchEntity(e))}
                 ELSE {i \in {MostExpired} : MayExpire(i, u)}

(* add_update counts equal updates of the entity, in a u16.                 *)
(* Slips: the counter of the entry's former entity, or update, is kept; the *)
(* counter has no bound.                                                    *)
CountOn(entry, u)    == (entry.eq + 1) % EqValues
CountWide(entry, u)  == IF entry.update = u THEN entry.eq + 1 ELSE 0
CountEqual(entry, u) == IF entry.update = u THEN (entry.eq + 1) % EqValues ELSE 0

AddUpdate(e, u) ==
    cache' = [i \in Slots |->
                 IF i \in SlotFor(e, u)
                 THEN [id |-> e, eq |-> CountEqual(cache[i], u), age |-> 0, update |-> u]
                 ELSE cache[i]]
EqualUpdates(e, u) == IF SlotFor(e, u) = {} THEN 0
                      ELSE CountEqual(cache[Min(SlotFor(e, u))], u)

Aged == [i \in Slots |->
            [cache[i] EXCEPT !.age =
                1 + Cardinality({a \in {cache[j].age : j \in Slots} : a < @})]]

-----------------------------------------------------------------------------
(* The packets. *)
InCurrent(ps, fields) == [ps EXCEPT ![Len(ps)] = @ \o fields]

(* goto_next_dest.  The level is written to the front packet, wherever the  *)
(* new one is; for lzo nothing is written.                                  *)
InFront(ps) == [ps EXCEPT ![1] = Append(@, LevelByte)]
NextDest(ps) == IF "ppmd" \in level
                THEN Append(InFront(ps), <<Begin("compressed")>>)
                ELSE Append(ps, <<>>)

EmptyAcc == [bytes |-> IF Compresses THEN 0 ELSE 2, updates |-> <<>>]

(* flush_accumulative_buffer, with n the size of the compressed buffer.     *)
(* Slip: no room is kept for the end.                                       *)
FitsBarely(p, n) == TotalBytes(p) + n + 2 < Limit
Fits(p, n) == TotalBytes(p) + n + Reserved < Limit
Flush(n) ==
    LET block == <<SizeField, Block(n, acc.updates)>>
        whole == <<Begin("updates"), Block(acc.bytes - 2, acc.updates)>>
    IN  IF ~ Compresses THEN NextDest(InCurrent(packets, whole))
        ELSE IF Fits(Last(packets), n) THEN InCurrent(packets, block)
        ELSE InCurrent(NextDest(InCurrent(packets, <<ZeroEnd>>)), block)

-----------------------------------------------------------------------------
UpdatesInit == /\ level = {}
               /\ value \in [EntityIds -> Values]
               /\ cache = [i \in Slots |-> EmptyEntry]
               /\ acc = [bytes |-> 0, updates |-> <<>>]
               /\ packets = <<>>
               /\ stage = "idle"
               /\ next = 0
               /\ written = <<>>
               /\ view = value
               /\ missed = [e \in EntityIds |-> 0]
               /\ withheld = {}

client == <<view, missed>>

(* The game and the clients between two passes: an entity changes; the      *)
(* client joins, and gets everything with the spawn messages.  What it gets *)
(* may be newer than what the cache has, and may be gone again before the   *)
(* cache sees it: as good as missed.                                        *)
Overtakes(e) == \E i \in Slots : /\ cache[i].update.id = e
                                 /\ cache[i].update.state # value[e]
Change(e) == /\ stage = "idle"
             /\ \E v \in Values \ {value[e]} : value' = [value EXCEPT ![e] = v]
             /\ UNCHANGED <<level, cache, acc, packets, stage, next, written, client,
                            withheld>>
Join == /\ stage = "idle"
        /\ view' = value
        /\ missed' = [e \in EntityIds |-> IF Overtakes(e) THEN MaxEq ELSE 0]
        /\ UNCHANGED <<level, value, cache, acc, packets, stage, next, written, withheld>>

(* begin_updates, at a time after the last pass. *)
BeginUpdates ==
    /\ stage = "idle"
    /\ level' \in Levels
    /\ cache' = Aged
    /\ packets' = << IF Compresses' THEN <<Begin("compressed"), LevelByte>> ELSE <<>> >>
    /\ acc' = EmptyAcc'
    /\ stage' = "write"
    /\ next' = 0
    /\ UNCHANGED <<value, written, client, withheld>>

(* The next entity: it has an owner, is ready, and relevant, or it is left  *)
(* out; its update is suppressed, or written, after a flush if the buffer   *)
(* is full.                                                                 *)
WriteNext == /\ stage = "write"
             /\ next \in EntityIds
             /\ next' = next + 1
             /\ UNCHANGED <<level, value, stage, client>>

LeaveOut == /\ WriteNext
            /\ UNCHANGED <<cache, acc, packets, written, withheld>>

TooManyEqual(e, u) == EqualUpdates(e, u) >= MaxEq
Caches == "last_change" \in level

Suppress == /\ WriteNext
            /\ Caches
            /\ TooManyEqual(next, Update(next))
            /\ AddUpdate(next, Update(next))
            /\ withheld' = withheld \cup {next}
            /\ UNCHANGED <<acc, packets, written>>

(* write_update_for *)
Full(u) == acc.bytes + UpdateBytes(u) + Reserved >= Limit

WriteUpdateFor ==
    LET u == Update(next)
        add(a) == [bytes |-> a.bytes + UpdateBytes(u), updates |-> Append(a.updates, u)]
    IN  /\ WriteNext
        /\ IF Caches THEN ~ TooManyEqual(next, u) /\ AddUpdate(next, u)
                     ELSE UNCHANGED cache
        /\ IF Full(u)
           THEN /\ \E n \in CompressedSizes(acc.bytes) : packets' = Flush(n)
                /\ acc' = add(EmptyAcc)
           ELSE /\ acc' = add(acc)
                /\ UNCHANGED packets
        /\ written' = Append(written, u)
        /\ UNCHANGED withheld

(* end_updates.  Slip: without the zero at the end.                         *)
NotEnded(ps) == ps
Ended(ps) == IF Compresses THEN InCurrent(ps, <<ZeroEnd>>) ELSE ps
EndUpdates ==
    /\ stage = "write"
    /\ next \notin EntityIds
    /\ IF acc.bytes > 2
       THEN \E n \in CompressedSizes(acc.bytes) : packets' = Ended(Flush(n))
       ELSE packets' = Ended(packets)
    /\ acc' = EmptyAcc
    /\ stage' = "made"
    /\ UNCHANGED <<level, value, cache, next, written, client, withheld>>

-----------------------------------------------------------------------------
(* The client: a packet of plain updates, or one whose header is followed   *)
(* by blocks up to the first zero.                                          *)
Zeros(p) == {i \in DOMAIN p : p[i] = ZeroEnd}
Readable(p) == /\ Len(p) > 1
               /\ \/ p[1].kind = "updates"
                  \/ p[1].kind = "compressed" /\ p[2].kind = "level" /\ Zeros(p) # {}
UpToZero(p) == IF Zeros(p) = {} THEN p ELSE SubSeq(p, 1, Min(Zeros(p)))
Carried(p) == FlattenSeq([i \in DOMAIN p |-> p[i].data])
ProcessUpdate(p) == IF Readable(p) THEN Carried(UpToZero(p)) ELSE <<>>

(* SendUpdatePacketsToAll; each packet arrives or is lost. *)
Sent == {i \in DOMAIN packets : TotalBytes(packets[i]) > 2}
SendUpdatePacketsToAll ==
    /\ stage = "made"
    /\ \E lost \in SUBSET Sent :
          LET got  == UNION {ToSet(ProcessUpdate(packets[i])) : i \in Sent \ lost}
              heard(e) == \E u \in got : u.id = e
              sent(e)  == \E i \in DOMAIN written : written[i].id = e
          IN  /\ view' = [e \in EntityIds |-> IF heard(e) THEN value[e] ELSE view[e]]
              /\ missed' = [e \in EntityIds |-> IF heard(e) THEN 0
                                          ELSE IF sent(e) /\ missed[e] < MaxEq
                                          THEN missed[e] + 1 ELSE missed[e]]
    /\ level' = {} /\ packets' = <<>> /\ written' = <<>> /\ withheld' = {}
    /\ acc' = [bytes |-> 0, updates |-> <<>>]
    /\ stage' = "idle"
    /\ next' = 0
    /\ UNCHANGED <<value, cache>>

UpdatesNext == \/ \E e \in EntityIds : Change(e)
               \/ Join
               \/ BeginUpdates \/ LeaveOut \/ Suppress \/ WriteUpdateFor \/ EndUpdates
               \/ SendUpdatePacketsToAll

UpdatesSpec == UpdatesInit /\ [][UpdatesNext]_UpdatesVars

-----------------------------------------------------------------------------
Updates == [id : EntityIds, state : Values]

UpdatesTypeOK == /\ level \in Levels \cup {{}}
                 /\ {value, view} \subseteq [EntityIds -> Values]
                 /\ \A i \in Slots : /\ cache[i].id \in EntityIds
                                     /\ cache[i].eq \in 0 .. EqValues - 1
                                     /\ cache[i].age \in 0 .. CacheSize
                                     /\ cache[i].update \in Updates \cup {NoUpdate}
                 /\ acc.bytes \in 0 .. Limit - 1
                 /\ \A i \in DOMAIN acc.updates : acc.updates[i] \in Updates
                 /\ \A i \in DOMAIN packets : \A j \in DOMAIN packets[i] :
                       LET f == packets[i][j]
                       IN  /\ f.kind \in {"updates", "compressed", "level", "size", "block", "zero"}
                           /\ f.bytes \in 1 .. Limit - 1
                           /\ \A k \in DOMAIN f.data : f.data[k] \in Updates
                 /\ stage \in {"idle", "write", "made"}
                 /\ next \in 0 .. Entities
                 /\ missed \in [EntityIds -> 0 .. MaxEq]
                 /\ withheld \subseteq EntityIds

(* Every update that was written and not suppressed is in exactly one       *)
(* packet, in the order in which it was written, and the client's reader    *)
(* finds it there, wherever the buffer was flushed and whatever its blocks  *)
(* were compressed to.  Compressed updates have to fit into one packet: the *)
(* headers of the others are wrong.                                         *)
UpdatesArriveOnce ==
    stage = "made" /\ (Compresses => Len(packets) = 1) =>
        FlattenSeq([i \in DOMAIN packets |-> ProcessUpdate(packets[i])]) = written

(* The levels that goto_next_dest has written to the front packet for the   *)
(* later ones.                                                              *)
Misplaced(i) == IF i = 1 /\ "ppmd" \in level THEN Len(packets) - 1 ELSE 0

(* No packet grows past its buffer, the end of the updates included and the *)
(* misplaced levels left aside, and no counter or update past its field.    *)
PacketsFit == /\ UpdatesTypeOK
              /\ \A i \in DOMAIN packets : TotalBytes(packets[i]) - Misplaced(i) < Limit

(* An update is kept from the clients only if they have it: each state has  *)
(* been sent max_eq_packets times, so that a client has another one only if *)
(* it lost all of them, or if it joined between two changes of the entity   *)
(* and those between two passes (see Join).                                 *)
SuppressedIsKnown ==
    stage = "made" =>
        \A e \in withheld : view[e] = value[e] \/ missed[e] >= MaxEq
=============================================================================
