------------------------- MODULE ServerEventsProofs -------------------------
(***************************************************************************)
(* Theorems about ServerEvents, for every set of clients, any number of     *)
(* slots, and rounds, hits and events without limit.                        *)
(***************************************************************************)
EXTENDS ServerEvents, FilterProofs, FiniteSetTheorems

-----------------------------------------------------------------------------
(* The queue. *)

Unequal(s) == \A i, j \in DOMAIN s : s[i] = s[j] => i = j
Within(s, x) == \E i \in DOMAIN s : s[i] = x
Apart(s, t) == \A x \in Slots : ~ (Within(s, x) /\ Within(t, x))

ReadyOK   == /\ ready \in Seq(Slots)
             /\ \A i \in DOMAIN ready : content[ready[i]] \in Events
UnusedOK  == unused \in Seq(Slots)
ContentOK == content \in [Slots -> Events \cup {NoEvent}]
OnceOK    == Unequal(ready) /\ Unequal(unused) /\ Apart(ready, unused)
QueueOK   == ReadyOK /\ UnusedOK /\ ContentOK /\ OnceOK

LEMMA QueueOKMeans ==
    QueueOK <=> /\ ready \in Seq(Slots) /\ unused \in Seq(Slots)
                /\ content \in [Slots -> Events \cup {NoEvent}]
                /\ \A i \in DOMAIN ready : content[ready[i]] \in Events
                /\ SlotsOnce
<1>1. ASSUME ready \in Seq(Slots), unused \in Seq(Slots)
      PROVE  SlotsOnce <=> OnceOK
  <2>1. Range(ready) = {x \in Slots : Within(ready, x)}
    BY <1>1 DEF Range, Within
  <2>2. Range(unused) = {x \in Slots : Within(unused, x)}
    BY <1>1 DEF Range, Within
  <2>3. IsInjective(ready) <=> Unequal(ready)
    BY DEF IsInjective, Unequal
  <2>4. IsInjective(unused) <=> Unequal(unused)
    BY DEF IsInjective, Unequal
  <2>5. Range(ready) \cap Range(unused) = {} <=> Apart(ready, unused)
    BY <2>1, <2>2 DEF Apart
  <2> QED BY <2>3, <2>4, <2>5 DEF SlotsOnce, OnceOK
<1> QED BY <1>1 DEF QueueOK, ReadyOK, UnusedOK, ContentOK

LEMMA InitQueueOK == InitQueue => QueueOK
<1> SUFFICES ASSUME InitQueue PROVE QueueOK
  OBVIOUS
<1>1. /\ ready = <<>> /\ unused = FirstUnused
      /\ content = [s \in Slots |-> NoEvent]
  BY DEF InitQueue
<1>2. Unequal(unused)
  BY <1>1, SlotsAssumption DEF Unequal, IsInjective
<1>3. Unequal(ready) /\ Apart(ready, unused)
  BY <1>1 DEF Unequal, Apart, Within
<1>4. unused \in Seq(Slots)
  BY <1>1, SlotsAssumption
<1> QED BY <1>1, <1>2, <1>3, <1>4 DEF QueueOK, ReadyOK, UnusedOK, ContentOK, OnceOK

(* A slot for a new event is neither waiting nor, any more, unused. *)
LEMMA NewSlotIsFree ==
    ASSUME QueueOK, HasSlot
    PROVE  NewSlot \in Slots /\ ~ Within(ready, NewSlot)
<1>0. ready \in Seq(Slots) /\ unused \in Seq(Slots) /\ Apart(ready, unused)
  BY DEF QueueOK, ReadyOK, UnusedOK, OnceOK
<1>1. CASE unused # <<>>
  <2>1. NewSlot = unused[Len(unused)]
    BY <1>1 DEF NewSlot
  <2>2. Len(unused) \in DOMAIN unused
    BY <1>0, <1>1
  <2>3. NewSlot \in Slots /\ Within(unused, NewSlot)
    BY <1>0, <2>1, <2>2 DEF Within
  <2> QED BY <1>0, <2>3 DEF Apart
<1>2. CASE unused = <<>>
  <2>1. \E s \in Slots : s \notin Allocated
    BY <1>2 DEF HasSlot
  <2>2. NewSlot = CHOOSE s \in Slots : s \notin Allocated
    BY <1>2 DEF NewSlot
  <2>3. NewSlot \in Slots /\ NewSlot \notin Allocated
    BY <2>1, <2>2
  <2> QED BY <2>3 DEF Allocated, Range, Within
<1> QED BY <1>1, <1>2

LEMMA CreateKeepsQueue ==
    ASSUME QueueOK, NEW e \in Events, Create(e)
    PROVE  /\ QueueOK'
           /\ \E s \in Slots : /\ ~ Within(ready, s)
                               /\ ready' = Append(ready, s)
                               /\ content' = [content EXCEPT ![s] = e]
<1> DEFINE n == NewSlot
<1>1. /\ n \in Slots /\ ~ Within(ready, n)
      /\ ready' = Append(ready, n)
      /\ unused' = IF unused = <<>> THEN unused ELSE SubSeq(unused, 1, Len(unused) - 1)
      /\ content' = [content EXCEPT ![n] = e]
      /\ unused # <<>> => n = unused[Len(unused)]
  BY NewSlotIsFree DEF Create, NewSlot
<1> HIDE DEF n
<1>0. /\ ready \in Seq(Slots) /\ unused \in Seq(Slots)
      /\ \A i \in DOMAIN ready : content[ready[i]] \in Events
      /\ content \in [Slots -> Events \cup {NoEvent}]
      /\ Unequal(ready) /\ Unequal(unused) /\ Apart(ready, unused)
  BY DEF QueueOK, ReadyOK, UnusedOK, ContentOK, OnceOK
<1>2. /\ ready' \in Seq(Slots)
      /\ DOMAIN ready' = 1 .. Len(ready) + 1 /\ DOMAIN ready = 1 .. Len(ready)
      /\ Len(ready) \in Nat
      /\ \A i \in 1 .. Len(ready) : ready'[i] = ready[i] /\ ready[i] # n
      /\ ready'[Len(ready) + 1] = n
  BY <1>0, <1>1 DEF Within
<1>3. content' \in [Slots -> Events \cup {NoEvent}]
  BY <1>0, <1>1
<1>4. \A i \in DOMAIN ready' : content'[ready'[i]] \in Events
  BY <1>0, <1>1, <1>2
<1>5. /\ unused' \in Seq(Slots)
      /\ \A i \in DOMAIN unused' : i \in DOMAIN unused /\ unused'[i] = unused[i] /\ i < Len(unused)
  BY <1>0, <1>1
<1>6. Unequal(ready')
  BY <1>0, <1>2 DEF Unequal
<1>7. Unequal(unused')
  BY <1>0, <1>5 DEF Unequal
<1>8. ASSUME NEW x \in Slots, Within(ready', x), Within(unused', x) PROVE FALSE
  <2>1. PICK i \in DOMAIN unused' : unused'[i] = x
    BY <1>8 DEF Within
  <2>2. i \in DOMAIN unused /\ unused[i] = x /\ i < Len(unused) /\ unused # <<>>
    BY <1>5, <2>1
  <2>3. x # n
    <3>1. Len(unused) \in DOMAIN unused /\ i # Len(unused) /\ n = unused[Len(unused)]
      BY <1>0, <1>1, <2>2
    <3> QED BY <1>0, <2>2, <3>1 DEF Unequal
  <2>4. PICK j \in DOMAIN ready' : ready'[j] = x
    BY <1>8 DEF Within
  <2>5. j \in DOMAIN ready /\ ready[j] = x
    BY <1>2, <2>3, <2>4
  <2> QED BY <1>0, <2>2, <2>5 DEF Apart, Within
<1>9. QueueOK'
  BY <1>2, <1>3, <1>4, <1>5, <1>6, <1>7, <1>8
     DEF QueueOK, ReadyOK, UnusedOK, ContentOK, OnceOK, Apart
<1> QED BY <1>1, <1>9

(* Reclaimed slots: some of the first, for the rest is deleted. *)
LEMMA ReclaimKeeps ==
    ASSUME unused \in Seq(Slots), Unequal(unused),
           NEW slots \in Seq(Slots), Unequal(slots), Apart(slots, unused),
           NEW idle \in BOOLEAN
    PROVE  /\ Reclaim(slots, idle) \in Seq(Slots)
           /\ Unequal(Reclaim(slots, idle))
           /\ \A x : Within(Reclaim(slots, idle), x) => Within(unused, x) \/ Within(slots, x)
<1> DEFINE r == Reclaim(slots, idle)
<1>1. PICK n \in Nat : n <= Len(slots) /\ r = unused \o SubSeq(slots, 1, n)
  <2> DEFINE room == IF Len(unused) > PruneAbove THEN 0 ELSE PruneAbove + 1 - Len(unused)
  <2>1. room \in Nat
    BY PruneAssumption
  <2>2. CASE idle /\ Len(slots) > room
    <3>1. r = unused \o SubSeq(slots, 1, room)
      BY <2>2 DEF Reclaim
    <3> HIDE DEF r, room
    <3> QED BY <2>1, <2>2, <3>1
  <2>3. CASE ~ (idle /\ Len(slots) > room)
    <3>1. r = unused \o slots
      BY <2>3 DEF Reclaim
    <3> HIDE DEF r
    <3>2. slots = SubSeq(slots, 1, Len(slots))
      OBVIOUS
    <3>3. Len(slots) \in Nat
      OBVIOUS
    <3> QED BY <3>1, <3>2, <3>3
  <2> QED BY <2>2, <2>3
<1> HIDE DEF r
<1> DEFINE t == SubSeq(slots, 1, n)
<1>2. t \in Seq(Slots) /\ Len(t) = n /\ \A i \in 1 .. n : t[i] = slots[i] /\ i \in DOMAIN slots
  BY <1>1
<1> HIDE DEF t
<1>3. /\ r \in Seq(Slots) /\ DOMAIN r = 1 .. Len(unused) + n /\ Len(unused) \in Nat
      /\ \A i \in 1 .. Len(unused) : r[i] = unused[i] /\ i \in DOMAIN unused
      /\ \A i \in 1 .. n : r[Len(unused) + i] = slots[i] /\ i \in DOMAIN slots
  BY <1>1, <1>2 DEF t
<1>4. \A i \in DOMAIN r : \/ i \in DOMAIN unused /\ r[i] = unused[i] /\ i <= Len(unused)
                          \/ /\ i > Len(unused)
                             /\ i - Len(unused) \in DOMAIN slots
                             /\ r[i] = slots[i - Len(unused)]
  <2> TAKE i \in DOMAIN r
  <2>1. CASE i <= Len(unused)
    BY <1>3, <2>1
  <2>2. CASE i > Len(unused)
    <3>1. i - Len(unused) \in 1 .. n /\ Len(unused) + (i - Len(unused)) = i
      BY <1>3, <2>2
    <3> QED BY <1>3, <2>2, <3>1
  <2> QED BY <1>3, <2>1, <2>2
<1>5. ASSUME NEW i \in DOMAIN r, NEW j \in DOMAIN r, r[i] = r[j] PROVE i = j
  <2>1. i \in Nat /\ j \in Nat /\ Len(unused) \in Nat
    BY <1>3
  <2>2. CASE i <= Len(unused) /\ j <= Len(unused)
    BY <1>4, <1>5, <2>1, <2>2 DEF Unequal
  <2>3. CASE i > Len(unused) /\ j > Len(unused)
    <3>1. i - Len(unused) = j - Len(unused)
      BY <1>4, <1>5, <2>1, <2>3 DEF Unequal
    <3> QED BY <2>1, <3>1
  <2>4. ASSUME NEW a \in DOMAIN unused, NEW b \in DOMAIN slots, unused[a] = slots[b]
        PROVE  FALSE
    <3>1. slots[b] \in Slots
      OBVIOUS
    <3> QED BY <2>4, <3>1 DEF Apart, Within
  <2>5. CASE i <= Len(unused) /\ j > Len(unused)
    BY <1>4, <1>5, <2>1, <2>4, <2>5
  <2>6. CASE i > Len(unused) /\ j <= Len(unused)
    BY <1>4, <1>5, <2>1, <2>4, <2>6
  <2> QED BY <2>1, <2>2, <2>3, <2>5, <2>6
<1>6. \A x : Within(r, x) => Within(unused, x) \/ Within(slots, x)
  BY <1>4 DEF Within
<1> QED BY <1>3, <1>5, <1>6 DEF Unequal, r

LEMMA ShorterKeepsQueue ==
    ASSUME QueueOK, UNCHANGED content,
           NEW slots \in Seq(Slots), Unequal(slots),
           NEW idle \in BOOLEAN, unused' = Reclaim(slots, idle),
           ready' \in Seq(Slots), Unequal(ready'),
           \A x \in Slots : ~ (Within(slots, x) /\ Within(ready', x)),
           \A x \in Slots : Within(slots, x) \/ Within(ready', x) => Within(ready, x)
    PROVE  QueueOK'
<1>0. /\ ready \in Seq(Slots) /\ unused \in Seq(Slots)
      /\ \A i \in DOMAIN ready : content[ready[i]] \in Events
      /\ content \in [Slots -> Events \cup {NoEvent}]
      /\ Unequal(ready) /\ Unequal(unused) /\ Apart(ready, unused)
  BY DEF QueueOK, ReadyOK, UnusedOK, ContentOK, OnceOK
<1>1. Apart(slots, unused)
  BY <1>0 DEF Apart
<1>2. /\ unused' \in Seq(Slots) /\ Unequal(unused')
      /\ \A x : Within(unused', x) => Within(unused, x) \/ Within(slots, x)
  BY <1>0, <1>1, ReclaimKeeps
<1>3. ASSUME NEW i \in DOMAIN ready' PROVE content'[ready'[i]] \in Events
  <2>1. ready'[i] \in Slots /\ Within(ready', ready'[i])
    BY DEF Within
  <2>2. Within(ready, ready'[i])
    BY <2>1
  <2> QED BY <1>0, <2>2 DEF Within
<1>4. Apart(ready', unused')
  BY <1>0, <1>2 DEF Apart
<1> QED BY <1>0, <1>2, <1>3, <1>4 DEF QueueOK, ReadyOK, UnusedOK, ContentOK, OnceOK

LEMMA ReleaseKeepsQueue ==
    ASSUME QueueOK, Release
    PROVE  QueueOK'
<1>0. ready \in Seq(Slots) /\ Unequal(ready) /\ ready # <<>>
  BY DEF QueueOK, ReadyOK, OnceOK, Release
<1>1. PICK idle \in BOOLEAN : /\ unused' = Reclaim(<<Head(ready)>>, idle)
                              /\ ready' = Tail(ready)
                              /\ UNCHANGED content
  BY DEF Release
<1> DEFINE h == Head(ready)
<1>2. h \in Slots /\ h = ready[1] /\ 1 \in DOMAIN ready
  BY <1>0
<1>3. /\ ready' \in Seq(Slots)
      /\ \A i \in DOMAIN ready' : i + 1 \in DOMAIN ready /\ ready'[i] = ready[i + 1]
                                  /\ i \in Nat /\ i # 0
  BY <1>0, <1>1
<1> HIDE DEF h
<1>4. Unequal(ready')
  BY <1>0, <1>3 DEF Unequal
<1>5. <<h>> \in Seq(Slots) /\ Unequal(<<h>>) /\ \A x : Within(<<h>>, x) <=> x = h
  BY <1>2 DEF Unequal, Within
<1>6. ~ Within(ready', h)
  <2> SUFFICES ASSUME NEW i \in DOMAIN ready', ready'[i] = h PROVE FALSE
    BY DEF Within
  <2>1. i + 1 = 1
    BY <1>0, <1>2, <1>3 DEF Unequal
  <2> QED BY <1>3, <2>1
<1>7. \A x \in Slots : Within(<<h>>, x) \/ Within(ready', x) => Within(ready, x)
  BY <1>2, <1>3, <1>5 DEF Within
<1>8. unused' = Reclaim(<<h>>, idle)
  BY <1>1 DEF h
<1> QED BY <1>1, <1>3, <1>4, <1>5, <1>6, <1>7, <1>8, ShorterKeepsQueue

LEMMA RetreiveNothingKeepsQueue ==
    ASSUME QueueOK, RetreiveNothing
    PROVE  QueueOK'
<1>0. unused \in Seq(Slots) /\ Unequal(unused) /\ Apart(ready, unused)
  BY DEF QueueOK, UnusedOK, OnceOK
<1>1. UNCHANGED <<ready, content>>
  BY DEF RetreiveNothing
<1>2. \/ unused' = unused
      \/ unused' = SubSeq(unused, 1, Len(unused) - 1) /\ unused # <<>>
  BY <1>0, PruneAssumption DEF RetreiveNothing
<1>3. /\ unused' \in Seq(Slots)
      /\ \A i \in DOMAIN unused' : i \in DOMAIN unused /\ unused'[i] = unused[i]
  BY <1>0, <1>2
<1>4. Unequal(unused') /\ Apart(ready, unused')
  BY <1>0, <1>3 DEF Unequal, Apart, Within
<1> QED BY <1>1, <1>3, <1>4 DEF QueueOK, ReadyOK, UnusedOK, ContentOK, OnceOK

LEMMA EraseKeepsQueue ==
    ASSUME QueueOK, NEW doomed, EraseEvents(doomed)
    PROVE  QueueOK'
<1> DEFINE H == Holding(doomed)
           K == Slots \ H
<1>0. ready \in Seq(Slots) /\ Unequal(ready)
  BY DEF QueueOK, ReadyOK, OnceOK
<1>1. PICK idle \in BOOLEAN : /\ unused' = Reclaim(Only(ready, H), idle)
                              /\ ready' = Only(ready, K)
                              /\ UNCHANGED content
  BY DEF EraseEvents
<1> HIDE DEF H
<1>2. \A T : /\ Only(ready, T) \in Seq(Slots)
             /\ Unequal(Only(ready, T))
             /\ \A x : Within(Only(ready, T), x) => x \in T /\ Within(ready, x)
  <2> TAKE T
  <2>1. /\ Only(ready, T) \in Seq(Slots)
        /\ \A i \in DOMAIN Only(ready, T) :
              /\ Only(ready, T)[i] \in T
              /\ \E k \in DOMAIN ready : ready[k] = Only(ready, T)[i]
    BY <1>0, OnlyElements
  <2>2. Unequal(Only(ready, T))
    BY <1>0, OnlyDistinct DEF Unequal
  <2> QED BY <2>1, <2>2 DEF Within
<1>3. \A x \in Slots : ~ (Within(Only(ready, H), x) /\ Within(Only(ready, K), x))
  BY <1>2
<1> QED BY <1>1, <1>2, <1>3, ShorterKeepsQueue

-----------------------------------------------------------------------------
(* The rest of the state. *)

ClientsOK == /\ conn \in [Clients -> Connections]
             /\ attached \subseteq Clients
             /\ sent \in [Clients -> SUBSET {"auth", "state", "authorized"}]
             /\ hasState \subseteq attached
             /\ kicked \subseteq hasState
             /\ avatar \in [Clients -> {"none", "alive", "dead"}]

ThreadsOK == /\ packet = {} \/ \E c \in Clients : packet = {c}
             /\ pc \in {"loop", "got", "handled", "update", "ending", "starting"}
             /\ cur \in Slots \cup {NoEvent}
             /\ taken \in Events \cup {NoEvent}
             /\ Busy => cur \in Slots /\ taken \in Events
             /\ phase \in {"pending", "inprogress"}
             /\ fault \in {"none", "null client", "client not found", "release"}

CountsOK == /\ told \in [Clients -> Nat]
            /\ plays \in [Clients -> 0 .. MaxPlays]
            /\ hits \in 0 .. MaxHits
            /\ rounds \in 0 .. MaxRounds

(* One "round started" for every round that has ended, one for the round in *)
(* progress, and one for the client's own start.                            *)
One(b) == IF b THEN 1 ELSE 0
Answers == \A c \in Clients :
               told[c] + One(pc = "starting")
                  <= rounds + One(phase = "inprogress") + One(avatar[c] # "none")

(* Whoever has posted a player state, has been attached; slots keep what    *)
(* they held, so that this is said of all of them.                          *)
Stated == \A s \in Slots : \A c \in Clients :
              content[s] = Event("state", c) => c \in attached

HistoryOK == forgotten \subseteq Events /\ blocked \subseteq Clients

Inv == /\ QueueOK /\ ClientsOK /\ ThreadsOK /\ CountsOK
       /\ Answers /\ Stated /\ HistoryOK /\ FrontIsCurrent

LEMMA EventIsEvent == ASSUME NEW k \in Kinds, NEW c \in Clients PROVE Event(k, c) \in Events
BY EventsAssumption DEF Event

LEMMA EventsDiffer ==
    \A k, l, c, d : Event(k, c) = Event(l, d) <=> k = l /\ c = d
<1> SUFFICES ASSUME NEW k, NEW l, NEW c, NEW d, Event(k, c) = Event(l, d)
             PROVE  k = l /\ c = d
  OBVIOUS
<1>1. Event(k, c).kind = k /\ Event(k, c).who = c
  BY DEF Event
<1>2. Event(l, d).kind = l /\ Event(l, d).who = d
  BY DEF Event
<1> QED BY <1>1, <1>2

LEMMA InvMeans == Inv => TypeOK /\ SlotsOnce /\ FrontIsCurrent
<1> SUFFICES ASSUME Inv PROVE TypeOK /\ SlotsOnce
  BY DEF Inv
<1>1. QueueTypeOK /\ SlotsOnce
  BY QueueOKMeans DEF Inv, QueueTypeOK, HistoryOK
<1>2. \A c \in Clients : told[c] <= MaxRounds + 2
  <2> TAKE c \in Clients
  <2>1. /\ told[c] \in Nat /\ rounds \in Nat /\ rounds <= MaxRounds /\ MaxRounds \in Nat
        /\ told[c] + One(pc = "starting")
              <= rounds + One(phase = "inprogress") + One(avatar[c] # "none")
    BY BoundsAssumption DEF Inv, CountsOK, Answers
  <2>2. \A b : One(b) \in 0 .. 1
    BY DEF One
  <2>3. /\ One(pc = "starting") \in 0 .. 1
        /\ One(phase = "inprogress") \in 0 .. 1 /\ One(avatar[c] # "none") \in 0 .. 1
    BY <2>2
  <2> HIDE DEF One
  <2> QED BY <2>1, <2>3
<1>3. told \in [Clients -> 0 .. MaxRounds + 2]
  BY <1>2 DEF Inv, CountsOK
<1>4. packet \subseteq Clients /\ Cardinality(packet) <= 1
  <2>1. CASE packet = {}
    BY <2>1, FS_EmptySet
  <2>2. ASSUME NEW c \in Clients, packet = {c} PROVE packet \subseteq Clients /\ Cardinality(packet) <= 1
    <3>1. Cardinality({c}) = 1
      BY FS_Singleton
    <3> QED BY <2>2, <3>1
  <2> QED BY <2>1, <2>2 DEF Inv, ThreadsOK
<1> QED BY <1>1, <1>3, <1>4 DEF Inv, TypeOK, ClientsOK, ThreadsOK, CountsOK, HistoryOK

LEMMA InitInv == Init => Inv
<1> SUFFICES ASSUME Init PROVE Inv
  OBVIOUS
<1>1. QueueOK /\ content = [s \in Slots |-> NoEvent] /\ blocked = {}
  BY InitQueueOK DEF Init, InitQueue
<1>2. ClientsOK
  BY DEF Init, ClientsOK, Connections
<1>3. ThreadsOK /\ FrontIsCurrent
  BY DEF Init, ThreadsOK, Busy, FrontIsCurrent
<1>4. CountsOK /\ HistoryOK
  BY <1>1, BoundsAssumption DEF Init, CountsOK, HistoryOK
<1>5. Answers
  BY DEF Init, Answers, One
<1>6. Stated
  <2>1. \A c \in Clients : Event("state", c) \in Events
    BY EventIsEvent DEF Kinds
  <2> QED BY <1>1, <2>1, NoEventAssumption DEF Stated
<1> QED BY <1>1, <1>2, <1>3, <1>4, <1>5, <1>6 DEF Inv

-----------------------------------------------------------------------------
(* What the steps have in common. *)

(* A step that does not touch the queue. *)
LEMMA QueueSame ==
    ASSUME Inv, UNCHANGED queue, attached \subseteq attached'
    PROVE  QueueOK' /\ Stated'
<1>1. ready' = ready /\ unused' = unused /\ content' = content
  BY DEF queue
<1>2. QueueOK'
  BY <1>1 DEF Inv, QueueOK, ReadyOK, UnusedOK, ContentOK, OnceOK, Unequal, Apart, Within
<1>3. Stated'
  BY <1>1 DEF Inv, Stated
<1> QED BY <1>2, <1>3

LEMMA FrontSame ==
    ASSUME FrontIsCurrent, UNCHANGED <<queue, cur, taken>>, Busy' => Busy
    PROVE  FrontIsCurrent'
BY DEF FrontIsCurrent, Busy, queue

(* An event is posted, or dropped since its sender is blocked. *)
LEMMA AddIsCreate ==
    ASSUME NEW k, NEW c, AddDelayedEvent(k, c)
    PROVE  Create(Event(k, c)) \/ UNCHANGED queue
BY DEF AddDelayedEvent, CreateSafe

LEMMA PostKeeps ==
    ASSUME Inv, NEW k \in Kinds, NEW c \in Clients,
           Create(Event(k, c)) \/ UNCHANGED queue,
           attached' = attached, k = "state" => c \in attached,
           UNCHANGED <<pc, cur, taken>>
    PROVE  QueueOK' /\ Stated' /\ FrontIsCurrent'
<1>1. CASE UNCHANGED queue
  <2>1. QueueOK' /\ Stated'
    BY <1>1, QueueSame
  <2>2. FrontIsCurrent'
    BY <1>1, FrontSame DEF Inv, Busy
  <2> QED BY <2>1, <2>2
<1>2. CASE Create(Event(k, c))
  <2> DEFINE e == Event(k, c)
  <2>0. e \in Events /\ \A d : e = Event("state", d) => d \in attached
    BY EventIsEvent, EventsDiffer
  <2>1. QueueOK
    BY DEF Inv
  <2>2. QueueOK' /\ \E s \in Slots : /\ ~ Within(ready, s)
                                     /\ ready' = Append(ready, s)
                                     /\ content' = [content EXCEPT ![s] = e]
    BY <1>2, <2>0, <2>1, CreateKeepsQueue
  <2>3. PICK s \in Slots : /\ ~ Within(ready, s)
                           /\ ready' = Append(ready, s)
                           /\ content' = [content EXCEPT ![s] = e]
    BY <2>2
  <2> HIDE DEF e
  <2>4. /\ content \in [Slots -> Events \cup {NoEvent}]
        /\ ready \in Seq(Slots)
    BY <2>1 DEF QueueOK, ContentOK, ReadyOK
  <2>5. Stated'
    <3> SUFFICES ASSUME NEW x \in Slots, NEW d \in Clients, content'[x] = Event("state", d)
                 PROVE  d \in attached
      BY DEF Stated
    <3>1. content'[x] = IF x = s THEN e ELSE content[x]
      BY <2>3, <2>4
    <3> QED BY <2>0, <3>1 DEF Inv, Stated
  <2>6. FrontIsCurrent'
    <3> SUFFICES ASSUME pc \in {"got", "handled"}, taken.kind \notin {"state", "hit"}
                 PROVE  ready' # <<>> /\ Head(ready') = cur /\ content'[cur] = taken
      BY DEF FrontIsCurrent
    <3>1. ready # <<>> /\ Head(ready) = cur /\ content[cur] = taken
      BY DEF Inv, FrontIsCurrent
    <3>2. 1 \in DOMAIN ready /\ ready[1] = cur /\ cur \in Slots
      BY <2>4, <3>1
    <3>3. cur # s
      BY <2>3, <3>2 DEF Within
    <3>4. ready' # <<>> /\ Head(ready') = cur
      BY <2>3, <2>4, <3>1, <3>2
    <3> QED BY <2>3, <2>4, <3>1, <3>2, <3>3, <3>4
  <2> QED BY <2>2, <2>5, <2>6
<1> QED BY <1>1, <1>2

LEMMA EraseKeeps ==
    ASSUME Inv, NEW doomed, EraseEvents(doomed),
           attached \subseteq attached',
           Busy' => /\ Busy /\ UNCHANGED <<cur, taken>>
                    /\ taken.kind \notin {"state", "hit"} => taken \notin doomed
    PROVE  QueueOK' /\ Stated' /\ FrontIsCurrent'
<1>1. QueueOK /\ QueueOK'
  BY EraseKeepsQueue DEF Inv
<1>2. content' = content /\ ready' = Only(ready, Slots \ Holding(doomed))
  BY DEF EraseEvents
<1>3. Stated'
  BY <1>2 DEF Inv, Stated
<1>4. FrontIsCurrent'
  <2> SUFFICES ASSUME Busy', taken'.kind \notin {"state", "hit"}
               PROVE  ready' # <<>> /\ Head(ready') = cur' /\ content'[cur'] = taken'
    BY DEF FrontIsCurrent, Busy
  <2>1. /\ ready # <<>> /\ Head(ready) = cur /\ content[cur] = taken
        /\ cur' = cur /\ taken' = taken /\ taken \notin doomed
    BY DEF Inv, FrontIsCurrent, Busy
  <2>2. ready \in Seq(Slots) /\ ready' \in Seq(Slots)
    BY <1>1 DEF QueueOK, ReadyOK
  <2>3. ready[1] = cur /\ cur \in Slots
    BY <2>1, <2>2
  <2>4. ready[1] \in Slots \ Holding(doomed)
    BY <2>1, <2>3 DEF Holding
  <2>5. ready' # <<>> /\ ready'[1] = ready[1]
    BY <1>2, <2>1, <2>2, <2>4, OnlyFront
  <2> QED BY <1>2, <2>1, <2>2, <2>3, <2>5
<1> QED BY <1>1, <1>3, <1>4

-----------------------------------------------------------------------------
(* The network threads and the frames. *)

LEMMA JoinKeeps ==
    ASSUME Inv, NEW c \in Clients, Join(c)
    PROVE  Inv'
<1>1. QueueOK' /\ Stated' /\ FrontIsCurrent'
  <2>1. UNCHANGED <<queue, attached, pc, cur, taken>>
    BY DEF Join, clients, threads
  <2>2. attached \subseteq attached' /\ (Busy' => Busy) /\ FrontIsCurrent
    BY <2>1 DEF Busy, Inv
  <2> QED BY <2>1, <2>2, QueueSame, FrontSame
<1>2. ClientsOK'
  BY DEF Join, Inv, ClientsOK, Connections, clients, threads, bounds
<1>3. ThreadsOK'
  BY DEF Join, Inv, ThreadsOK, Busy, clients, threads, bounds
<1>4. CountsOK'
  BY BoundsAssumption DEF Join, Inv, CountsOK, clients, threads, bounds
<1>5. Answers'
  BY DEF Join, Inv, Answers, One, clients, threads, bounds, ClientsOK, CountsOK
<1>6. HistoryOK'
  BY DEF Join, Inv, HistoryOK, clients, threads, bounds
<1> QED BY <1>1, <1>2, <1>3, <1>4, <1>5, <1>6 DEF Inv

LEMMA PostCreateKeeps ==
    ASSUME Inv, NEW c \in Clients, PostCreate(c)
    PROVE  Inv'
<1>1. QueueOK' /\ Stated' /\ FrontIsCurrent'
  <2>1. UNCHANGED <<attached, pc, cur, taken>>
    BY DEF PostCreate, clients, threads
  <2>2. Create(Event("create", c)) \/ UNCHANGED queue
    BY AddIsCreate DEF PostCreate
  <2>3. "create" \in Kinds
    BY DEF Kinds, PostCreate
  <2> QED BY <2>1, <2>2, <2>3, PostKeeps
<1>2. ClientsOK'
  BY DEF PostCreate, Inv, ClientsOK, Connections, clients, threads, bounds
<1>3. ThreadsOK'
  BY DEF PostCreate, Inv, ThreadsOK, Busy, clients, threads, bounds
<1>4. CountsOK'
  BY BoundsAssumption DEF PostCreate, Inv, CountsOK, clients, threads, bounds
<1>5. Answers'
  BY DEF PostCreate, Inv, Answers, One, clients, threads, bounds, ClientsOK, CountsOK
<1>6. HistoryOK'
  BY DEF PostCreate, Inv, HistoryOK, clients, threads, bounds
<1> QED BY <1>1, <1>2, <1>3, <1>4, <1>5, <1>6 DEF Inv

LEMMA SendStateKeeps ==
    ASSUME Inv, NEW c \in Clients, SendState(c)
    PROVE  Inv'
<1>1. QueueOK' /\ Stated' /\ FrontIsCurrent'
  <2>1. UNCHANGED <<attached, pc, cur, taken>>
    BY DEF SendState, Handshake, clients, threads
  <2>2. Create(Event("state", c)) \/ UNCHANGED queue
    BY AddIsCreate DEF SendState, Handshake
  <2>3. "state" \in Kinds /\ c \in attached
    BY DEF Kinds, SendState, Handshake
  <2> QED BY <2>1, <2>2, <2>3, PostKeeps
<1>2. ClientsOK'
  BY DEF SendState, Handshake, Inv, ClientsOK, Connections, clients, threads, bounds
<1>3. ThreadsOK'
  BY DEF SendState, Handshake, Inv, ThreadsOK, Busy, clients, threads, bounds
<1>4. CountsOK'
  BY BoundsAssumption DEF SendState, Handshake, Inv, CountsOK, clients, threads, bounds
<1>5. Answers'
  BY DEF SendState, Handshake, Inv, Answers, One, clients, threads, bounds, ClientsOK, CountsOK
<1>6. HistoryOK'
  BY DEF SendState, Handshake, Inv, HistoryOK, clients, threads, bounds
<1> QED BY <1>1, <1>2, <1>3, <1>4, <1>5, <1>6 DEF Inv

LEMMA SendAuthKeeps ==
    ASSUME Inv, NEW c \in Clients, SendAuth(c)
    PROVE  Inv'
<1>1. QueueOK' /\ Stated' /\ FrontIsCurrent'
  <2>1. UNCHANGED <<attached, pc, cur, taken>>
    BY DEF SendAuth, Handshake, clients, threads
  <2>2. Create(Event("auth", c)) \/ UNCHANGED queue
    BY AddIsCreate DEF SendAuth, Handshake
  <2>3. "auth" \in Kinds
    BY DEF Kinds, SendAuth, Handshake
  <2> QED BY <2>1, <2>2, <2>3, PostKeeps
<1>2. ClientsOK'
  BY DEF SendAuth, Handshake, Inv, ClientsOK, Connections, clients, threads, bounds
<1>3. ThreadsOK'
  BY DEF SendAuth, Handshake, Inv, ThreadsOK, Busy, clients, threads, bounds
<1>4. CountsOK'
  BY BoundsAssumption DEF SendAuth, Handshake, Inv, CountsOK, clients, threads, bounds
<1>5. Answers'
  BY DEF SendAuth, Handshake, Inv, Answers, One, clients, threads, bounds, ClientsOK, CountsOK
<1>6. HistoryOK'
  BY DEF SendAuth, Handshake, Inv, HistoryOK, clients, threads, bounds
<1> QED BY <1>1, <1>2, <1>3, <1>4, <1>5, <1>6 DEF Inv

LEMMA ClientReadyKeeps ==
    ASSUME Inv, NEW c \in Clients, ClientReady(c)
    PROVE  Inv'
<1>1. QueueOK' /\ Stated' /\ FrontIsCurrent'
  <2>1. UNCHANGED <<queue, attached, pc, cur, taken>>
    BY DEF ClientReady, clients, threads
  <2>2. attached \subseteq attached' /\ (Busy' => Busy) /\ FrontIsCurrent
    BY <2>1 DEF Busy, Inv
  <2> QED BY <2>1, <2>2, QueueSame, FrontSame
<1>2. ClientsOK'
  BY DEF ClientReady, Inv, ClientsOK, Connections, clients, threads, bounds
<1>3. ThreadsOK'
  BY DEF ClientReady, Inv, ThreadsOK, Busy, clients, threads, bounds
<1>4. CountsOK'
  BY BoundsAssumption DEF ClientReady, Inv, CountsOK, clients, threads, bounds
<1>5. Answers'
  BY DEF ClientReady, Inv, Answers, One, clients, threads, bounds, ClientsOK, CountsOK
<1>6. HistoryOK'
  BY DEF ClientReady, Inv, HistoryOK, clients, threads, bounds
<1> QED BY <1>1, <1>2, <1>3, <1>4, <1>5, <1>6 DEF Inv

LEMMA SendStartedKeeps ==
    ASSUME Inv, NEW c \in Clients, SendStarted(c)
    PROVE  Inv'
<1>1. QueueOK' /\ Stated' /\ FrontIsCurrent'
  <2>1. UNCHANGED <<attached, pc, cur, taken>>
    BY DEF SendStarted, clients, threads
  <2>2. Create(Event("started", c)) \/ UNCHANGED queue
    BY AddIsCreate DEF SendStarted
  <2>3. "started" \in Kinds
    BY DEF Kinds, SendStarted
  <2> QED BY <2>1, <2>2, <2>3, PostKeeps
<1>2. ClientsOK'
  BY DEF SendStarted, Inv, ClientsOK, Connections, clients, threads, bounds
<1>3. ThreadsOK'
  BY DEF SendStarted, Inv, ThreadsOK, Busy, clients, threads, bounds
<1>4. CountsOK'
  BY BoundsAssumption DEF SendStarted, Inv, CountsOK, clients, threads, bounds
<1>5. Answers'
  BY DEF SendStarted, Inv, Answers, One, clients, threads, bounds, ClientsOK, CountsOK
<1>6. HistoryOK'
  BY DEF SendStarted, Inv, HistoryOK, clients, threads, bounds
<1> QED BY <1>1, <1>2, <1>3, <1>4, <1>5, <1>6 DEF Inv

LEMMA CheckPlayKeeps ==
    ASSUME Inv, NEW c \in Clients, CheckPlay(c)
    PROVE  Inv'
<1>1. QueueOK' /\ Stated' /\ FrontIsCurrent'
  <2>1. UNCHANGED <<queue, attached, pc, cur, taken>>
    BY DEF CheckPlay, clients, threads
  <2>2. attached \subseteq attached' /\ (Busy' => Busy) /\ FrontIsCurrent
    BY <2>1 DEF Busy, Inv
  <2> QED BY <2>1, <2>2, QueueSame, FrontSame
<1>2. ClientsOK'
  BY DEF CheckPlay, Inv, ClientsOK, Connections, clients, threads, bounds
<1>3. ThreadsOK'
  BY DEF CheckPlay, Inv, ThreadsOK, Busy, clients, threads, bounds
<1>4. CountsOK'
  BY BoundsAssumption DEF CheckPlay, Inv, CountsOK, clients, threads, bounds
<1>5. Answers'
  BY DEF CheckPlay, Inv, Answers, One, clients, threads, bounds, ClientsOK, CountsOK
<1>6. HistoryOK'
  BY DEF CheckPlay, Inv, HistoryOK, clients, threads, bounds
<1> QED BY <1>1, <1>2, <1>3, <1>4, <1>5, <1>6 DEF Inv

LEMMA PostPlayKeeps ==
    ASSUME Inv, NEW c \in Clients, PostPlay(c)
    PROVE  Inv'
<1>1. QueueOK' /\ Stated' /\ FrontIsCurrent'
  <2>1. UNCHANGED <<attached, pc, cur, taken>>
    BY DEF PostPlay, clients, threads
  <2>2. Create(Event("play", c)) \/ UNCHANGED queue
    BY AddIsCreate DEF PostPlay
  <2>3. "play" \in Kinds
    BY DEF Kinds, PostPlay
  <2> QED BY <2>1, <2>2, <2>3, PostKeeps
<1>2. ClientsOK'
  BY DEF PostPlay, Inv, ClientsOK, Connections, clients, threads, bounds
<1>3. ThreadsOK'
  BY DEF PostPlay, Inv, ThreadsOK, Busy, clients, threads, bounds
<1>4. CountsOK'
  BY BoundsAssumption DEF PostPlay, Inv, CountsOK, clients, threads, bounds
<1>5. Answers'
  BY DEF PostPlay, Inv, Answers, One, clients, threads, bounds, ClientsOK, CountsOK
<1>6. HistoryOK'
  BY DEF PostPlay, Inv, HistoryOK, clients, threads, bounds
<1> QED BY <1>1, <1>2, <1>3, <1>4, <1>5, <1>6 DEF Inv

LEMMA LeaveKeeps ==
    ASSUME Inv, NEW c \in Clients, Leave(c)
    PROVE  Inv'
<1>1. QueueOK' /\ Stated' /\ FrontIsCurrent'
  <2>1. UNCHANGED <<attached, pc, cur, taken>>
    BY DEF Leave, clients, threads
  <2>2. Create(Event("gone", c)) \/ UNCHANGED queue
    BY AddIsCreate DEF Leave
  <2>3. "gone" \in Kinds
    BY DEF Kinds, Leave
  <2> QED BY <2>1, <2>2, <2>3, PostKeeps
<1>2. ClientsOK'
  BY DEF Leave, Inv, ClientsOK, Connections, clients, threads, bounds
<1>3. ThreadsOK'
  BY DEF Leave, Inv, ThreadsOK, Busy, clients, threads, bounds
<1>4. CountsOK'
  BY BoundsAssumption DEF Leave, Inv, CountsOK, clients, threads, bounds
<1>5. Answers'
  BY DEF Leave, Inv, Answers, One, clients, threads, bounds, ClientsOK, CountsOK
<1>6. HistoryOK'
  BY DEF Leave, Inv, HistoryOK, clients, threads, bounds
<1> QED BY <1>1, <1>2, <1>3, <1>4, <1>5, <1>6 DEF Inv

LEMMA ClientEraseKeeps ==
    ASSUME Inv, NEW c \in Clients, ClientErase(c)
    PROVE  Inv'
<1>1. QueueOK' /\ Stated' /\ FrontIsCurrent'
  <2>1. UNCHANGED <<queue, attached, pc, cur, taken>>
    BY DEF ClientErase, clients, threads
  <2>2. attached \subseteq attached' /\ (Busy' => Busy) /\ FrontIsCurrent
    BY <2>1 DEF Busy, Inv
  <2> QED BY <2>1, <2>2, QueueSame, FrontSame
<1>2. ClientsOK'
  BY DEF ClientErase, Inv, ClientsOK, Connections, clients, threads, bounds
<1>3. ThreadsOK'
  BY DEF ClientErase, Inv, ThreadsOK, Busy, clients, threads, bounds
<1>4. CountsOK'
  BY BoundsAssumption DEF ClientErase, Inv, CountsOK, clients, threads, bounds
<1>5. Answers'
  BY DEF ClientErase, Inv, Answers, One, clients, threads, bounds, ClientsOK, CountsOK
<1>6. HistoryOK'
  BY DEF ClientErase, Inv, HistoryOK, clients, threads, bounds
<1> QED BY <1>1, <1>2, <1>3, <1>4, <1>5, <1>6 DEF Inv

LEMMA ReportHitKeeps ==
    ASSUME Inv, NEW c \in Clients, ReportHit(c)
    PROVE  Inv'
<1>1. QueueOK' /\ Stated' /\ FrontIsCurrent'
  <2>1. UNCHANGED <<attached, pc, cur, taken>>
    BY DEF ReportHit, clients, threads
  <2>2. Create(Event("hit", c)) \/ UNCHANGED queue
    BY AddIsCreate DEF ReportHit
  <2>3. "hit" \in Kinds
    BY DEF Kinds, ReportHit
  <2> QED BY <2>1, <2>2, <2>3, PostKeeps
<1>2. ClientsOK'
  BY DEF ReportHit, Inv, ClientsOK, Connections, clients, threads, bounds
<1>3. ThreadsOK'
  BY DEF ReportHit, Inv, ThreadsOK, Busy, clients, threads, bounds
<1>4. CountsOK'
  BY BoundsAssumption DEF ReportHit, Inv, CountsOK, clients, threads, bounds
<1>5. Answers'
  BY DEF ReportHit, Inv, Answers, One, clients, threads, bounds, ClientsOK, CountsOK
<1>6. HistoryOK'
  BY DEF ReportHit, Inv, HistoryOK, clients, threads, bounds
<1> QED BY <1>1, <1>2, <1>3, <1>4, <1>5, <1>6 DEF Inv

LEMMA NextFrameKeeps ==
    ASSUME Inv, NextFrame
    PROVE  Inv'
<1>1. QueueOK' /\ Stated' /\ FrontIsCurrent'
  <2>1. UNCHANGED <<queue, attached, cur, taken>> /\ pc' = "loop"
    BY DEF NextFrame, clients, threads
  <2>2. attached \subseteq attached' /\ (Busy' => Busy) /\ FrontIsCurrent
    BY <2>1 DEF Busy, Inv
  <2> QED BY <2>1, <2>2, QueueSame, FrontSame
<1>2. ClientsOK'
  BY DEF NextFrame, Inv, ClientsOK, Connections, clients, threads, bounds
<1>3. ThreadsOK'
  BY DEF NextFrame, Inv, ThreadsOK, Busy, clients, threads, bounds
<1>4. CountsOK'
  BY BoundsAssumption DEF NextFrame, Inv, CountsOK, clients, threads, bounds
<1>5. Answers'
  BY DEF NextFrame, Inv, Answers, One, clients, threads, bounds, ClientsOK, CountsOK
<1>6. HistoryOK'
  BY DEF NextFrame, Inv, HistoryOK, clients, threads, bounds
<1> QED BY <1>1, <1>2, <1>3, <1>4, <1>5, <1>6 DEF Inv

LEMMA BlockAllKeeps ==
    ASSUME Inv, BlockAll
    PROVE  Inv'
<1>1. QueueOK' /\ Stated' /\ FrontIsCurrent'
  <2>1. UNCHANGED <<queue, attached, cur, taken>> /\ pc' = "loop"
    BY DEF BlockAll, clients, threads
  <2>2. attached \subseteq attached' /\ (Busy' => Busy) /\ FrontIsCurrent
    BY <2>1 DEF Busy, Inv
  <2> QED BY <2>1, <2>2, QueueSame, FrontSame
<1>2. ClientsOK'
  BY DEF BlockAll, Found, Inv, ClientsOK, Connections, clients, threads, bounds
<1>3. ThreadsOK'
  BY DEF BlockAll, Found, Inv, ThreadsOK, Busy, clients, threads, bounds
<1>4. CountsOK'
  BY BoundsAssumption DEF BlockAll, Found, Inv, CountsOK, clients, threads, bounds
<1>5. Answers'
  BY DEF BlockAll, Found, Inv, Answers, One, clients, threads, bounds, ClientsOK, CountsOK
<1>6. HistoryOK'
  BY DEF BlockAll, Found, Inv, HistoryOK, clients, threads, bounds
<1> QED BY <1>1, <1>2, <1>3, <1>4, <1>5, <1>6 DEF Inv

LEMMA TellStartedKeeps ==
    ASSUME Inv, TellStarted
    PROVE  Inv'
<1>1. QueueOK' /\ Stated' /\ FrontIsCurrent'
  <2>1. UNCHANGED <<queue, attached, cur, taken>> /\ pc' = "loop"
    BY DEF TellStarted, clients, threads
  <2>2. attached \subseteq attached' /\ (Busy' => Busy) /\ FrontIsCurrent
    BY <2>1 DEF Busy, Inv
  <2> QED BY <2>1, <2>2, QueueSame, FrontSame
<1>2. ClientsOK'
  BY DEF TellStarted, Inv, ClientsOK, Connections, clients, threads, bounds
<1>3. ThreadsOK'
  BY DEF TellStarted, Inv, ThreadsOK, Busy, clients, threads, bounds
<1>4. CountsOK'
  BY BoundsAssumption DEF TellStarted, Inv, CountsOK, clients, threads, bounds
<1>5. Answers'
  BY DEF TellStarted, Inv, Answers, One, clients, threads, bounds, ClientsOK, CountsOK
<1>6. HistoryOK'
  BY DEF TellStarted, Inv, HistoryOK, clients, threads, bounds
<1> QED BY <1>1, <1>2, <1>3, <1>4, <1>5, <1>6 DEF Inv

LEMMA EndRoundKeeps ==
    ASSUME Inv, EndRound
    PROVE  Inv'
<1>1. QueueOK' /\ Stated' /\ FrontIsCurrent'
  <2>1. EraseEvents(Events) /\ attached' = attached /\ ~ Busy'
    BY DEF EndRound, clients, Busy
  <2> QED BY <2>1, EraseKeeps
<1>2. ClientsOK'
  BY DEF EndRound, Inv, ClientsOK, Connections, clients, threads, bounds
<1>3. ThreadsOK'
  BY DEF EndRound, Inv, ThreadsOK, Busy, clients, threads, bounds
<1>4. CountsOK'
  BY BoundsAssumption DEF EndRound, Inv, CountsOK, clients, threads, bounds
<1>5. Answers'
  BY DEF EndRound, Inv, Answers, One, clients, threads, bounds, ClientsOK, CountsOK
<1>6. HistoryOK'
  <2>1. \A x \in Range(ready) : content[x] \in Events
    BY DEF Inv, QueueOK, ReadyOK, Range
  <2>2. /\ forgotten' = forgotten \cup {content[x] : x \in Range(ready)}
        /\ blocked' = blocked
    BY DEF EndRound
  <2> QED BY <2>1, <2>2 DEF Inv, HistoryOK
<1> QED BY <1>1, <1>2, <1>3, <1>4, <1>5, <1>6 DEF Inv

LEMMA StartRoundKeeps ==
    ASSUME Inv, StartRound
    PROVE  Inv'
<1>1. QueueOK' /\ Stated' /\ FrontIsCurrent'
  <2>1. EraseEvents(Events) /\ attached' = attached /\ ~ Busy'
    BY DEF StartRound, clients, Busy
  <2> QED BY <2>1, EraseKeeps
<1>2. ClientsOK'
  BY DEF StartRound, Inv, ClientsOK, Connections, clients, threads, bounds
<1>3. ThreadsOK'
  BY DEF StartRound, Inv, ThreadsOK, Busy, clients, threads, bounds
<1>4. CountsOK'
  BY BoundsAssumption DEF StartRound, Inv, CountsOK, clients, threads, bounds
<1>5. Answers'
  BY DEF StartRound, Inv, Answers, One, clients, threads, bounds, ClientsOK, CountsOK
<1>6. HistoryOK'
  <2>1. \A x \in Range(ready) : content[x] \in Events
    BY DEF Inv, QueueOK, ReadyOK, Range
  <2>2. /\ forgotten' = forgotten \cup {content[x] : x \in Range(ready)}
        /\ blocked' = blocked
    BY DEF StartRound
  <2> QED BY <2>1, <2>2 DEF Inv, HistoryOK
<1> QED BY <1>1, <1>2, <1>3, <1>4, <1>5, <1>6 DEF Inv

-----------------------------------------------------------------------------
(* The game thread and its queue. *)

LEMMA ClientCleanKeeps ==
    ASSUME Inv, NEW c \in Clients, ClientClean(c)
    PROVE  Inv'
<1>1. QueueOK' /\ Stated' /\ FrontIsCurrent'
  <2>1. UNCHANGED <<attached, pc, cur, taken>>
    BY DEF ClientClean, threads
  <2>2. CASE UNCHANGED queue
    <3>1. FrontIsCurrent /\ (Busy' => Busy)
      BY <2>1 DEF Inv, Busy
    <3> QED BY <2>1, <2>2, <3>1, QueueSame, FrontSame
  <2>3. CASE EraseEvents({Event("hit", c)})
    <3>1. Event("hit", c).kind = "hit"
      BY DEF Event
    <3>2. taken.kind # "hit" => taken \notin {Event("hit", c)}
      BY <3>1
    <3> QED BY <2>1, <2>3, <3>2, EraseKeeps DEF Busy
  <2> QED BY <2>2, <2>3 DEF ClientClean
<1>2. ClientsOK'
  BY DEF ClientClean, Inv, ClientsOK, Connections, clients, threads, bounds
<1>3. ThreadsOK'
  BY DEF ClientClean, Inv, ThreadsOK, Busy, clients, threads, bounds
<1>4. CountsOK'
  BY BoundsAssumption DEF ClientClean, Inv, CountsOK, clients, threads, bounds
<1>5. Answers'
  BY DEF ClientClean, Inv, Answers, One, clients, threads, bounds, ClientsOK, CountsOK
<1>6. HistoryOK'
  BY DEF ClientClean, Inv, HistoryOK, clients, threads, bounds
<1> QED BY <1>1, <1>2, <1>3, <1>4, <1>5, <1>6 DEF Inv

LEMMA RetreiveKeeps ==
    ASSUME Inv, Retreive
    PROVE  Inv'
<1>0. FrontSlot \in Slots /\ content[FrontSlot] \in Events
  BY DEF Retreive, FrontSlot, Inv, QueueOK, ReadyOK
<1>1. QueueOK' /\ Stated' /\ FrontIsCurrent'
  <2>1. UNCHANGED <<queue, attached>>
    BY DEF Retreive, clients
  <2>2. /\ cur' = FrontSlot /\ taken' = content[FrontSlot] /\ ready # <<>>
        /\ ready' = ready /\ content' = content
    BY DEF Retreive, queue
  <2>3. FrontIsCurrent'
    BY <2>2 DEF FrontIsCurrent, FrontSlot, Inv, QueueOK, ReadyOK
  <2> QED BY <2>1, <2>3, QueueSame
<1>2. ClientsOK'
  BY DEF Retreive, Inv, ClientsOK, Connections, clients, threads, bounds
<1>3. ThreadsOK'
  BY <1>0 DEF Retreive, Inv, ThreadsOK, Busy, clients, threads, bounds
<1>4. CountsOK'
  BY BoundsAssumption DEF Retreive, Inv, CountsOK, clients, threads, bounds
<1>5. Answers'
  BY DEF Retreive, Inv, Answers, One, clients, threads, bounds, ClientsOK, CountsOK
<1>6. HistoryOK'
  BY DEF Retreive, Inv, HistoryOK, clients, threads, bounds
<1> QED BY <1>1, <1>2, <1>3, <1>4, <1>5, <1>6 DEF Inv

LEMMA EndLoopKeeps ==
    ASSUME Inv, EndLoop
    PROVE  Inv'
<1>1. QueueOK' /\ Stated' /\ FrontIsCurrent'
  <2>1. QueueOK'
    BY RetreiveNothingKeepsQueue DEF EndLoop, Inv
  <2>2. content' = content /\ attached' = attached /\ ~ Busy'
    BY DEF EndLoop, RetreiveNothing, clients, Busy
  <2>3. Stated'
    BY <2>2 DEF Inv, Stated
  <2>4. FrontIsCurrent'
    BY <2>2 DEF FrontIsCurrent, Busy
  <2> QED BY <2>1, <2>3, <2>4
<1>2. ClientsOK'
  BY DEF EndLoop, Inv, ClientsOK, Connections, clients, threads, bounds
<1>3. ThreadsOK'
  BY DEF EndLoop, Inv, ThreadsOK, Busy, clients, threads, bounds
<1>4. CountsOK'
  BY BoundsAssumption DEF EndLoop, Inv, CountsOK, clients, threads, bounds
<1>5. Answers'
  BY DEF EndLoop, Inv, Answers, One, clients, threads, bounds, ClientsOK, CountsOK
<1>6. HistoryOK'
  BY DEF EndLoop, Inv, HistoryOK, clients, threads, bounds
<1> QED BY <1>1, <1>2, <1>3, <1>4, <1>5, <1>6 DEF Inv

LEMMA ReleaseEventKeeps ==
    ASSUME Inv, ReleaseEvent
    PROVE  Inv'
<1>1. QueueOK' /\ Stated' /\ FrontIsCurrent'
  <2>1. CASE Release /\ pc' = "loop"
    <3>1. QueueOK'
      BY <2>1, ReleaseKeepsQueue DEF Inv
    <3>2. content' = content /\ attached' = attached /\ ~ Busy'
      BY <2>1 DEF ReleaseEvent, Release, clients, Busy
    <3>3. Stated'
      BY <3>2 DEF Inv, Stated
    <3>4. FrontIsCurrent'
      BY <3>2 DEF FrontIsCurrent, Busy
    <3> QED BY <3>1, <3>3, <3>4
  <2>2. CASE UNCHANGED <<queue, pc, cur, taken>>
    <3>1. attached \subseteq attached' /\ FrontIsCurrent /\ (Busy' => Busy)
      BY <2>2 DEF ReleaseEvent, clients, Inv, Busy
    <3> QED BY <2>2, <3>1, QueueSame, FrontSame
  <2> QED BY <2>1, <2>2 DEF ReleaseEvent
<1>2. ClientsOK'
  BY DEF ReleaseEvent, Inv, ClientsOK, Connections, clients, threads, bounds
<1>3. ThreadsOK'
  BY DEF ReleaseEvent, Inv, ThreadsOK, Busy, clients, threads, bounds
<1>4. CountsOK'
  BY BoundsAssumption DEF ReleaseEvent, Inv, CountsOK, clients, threads, bounds
<1>5. Answers'
  BY DEF ReleaseEvent, Inv, Answers, One, clients, threads, bounds, ClientsOK, CountsOK
<1>6. HistoryOK'
  BY DEF ReleaseEvent, Inv, HistoryOK, clients, threads, bounds
<1> QED BY <1>1, <1>2, <1>3, <1>4, <1>5, <1>6 DEF Inv

LEMMA HandleCreateKeeps ==
    ASSUME Inv, NEW c \in Clients, HandleCreate(c)
    PROVE  Inv'
<1>1. QueueOK' /\ Stated' /\ FrontIsCurrent'
  <2>1. UNCHANGED <<queue, cur, taken>> /\ attached \subseteq attached' /\ (Busy' => Busy)
    BY DEF HandleCreate, Handling, Proceed, Crash, clients, threads, Busy
  <2>2. FrontIsCurrent
    BY DEF Inv
  <2> QED BY <2>1, <2>2, QueueSame, FrontSame
<1>2. ClientsOK'
  BY DEF HandleCreate, Handling, Proceed, Crash, Inv, ClientsOK, Connections, clients, threads, bounds
<1>3. ThreadsOK'
  BY DEF HandleCreate, Handling, Proceed, Crash, Inv, ThreadsOK, Busy, clients, threads, bounds
<1>4. CountsOK'
  BY BoundsAssumption DEF HandleCreate, Handling, Proceed, Crash, Inv, CountsOK, clients, threads, bounds
<1>5. Answers'
  BY DEF HandleCreate, Handling, Proceed, Crash, Inv, Answers, One, clients, threads, bounds, ClientsOK, CountsOK
<1>6. HistoryOK'
  BY DEF HandleCreate, Handling, Proceed, Crash, Inv, HistoryOK, clients, threads, bounds
<1> QED BY <1>1, <1>2, <1>3, <1>4, <1>5, <1>6 DEF Inv

LEMMA HandleAuthKeeps ==
    ASSUME Inv, NEW c \in Clients, HandleAuth(c)
    PROVE  Inv'
<1>1. QueueOK' /\ Stated' /\ FrontIsCurrent'
  <2>1. UNCHANGED <<queue, cur, taken>> /\ attached \subseteq attached' /\ (Busy' => Busy)
    BY DEF HandleAuth, Handling, Proceed, Crash, clients, threads, Busy
  <2>2. FrontIsCurrent
    BY DEF Inv
  <2> QED BY <2>1, <2>2, QueueSame, FrontSame
<1>2. ClientsOK'
  <2>1. /\ UNCHANGED <<conn, attached, hasState, avatar, kicked>>
        /\ sent' = sent \/ sent' = [sent EXCEPT ![c] = @ \cup {"authorized"}]
    BY DEF HandleAuth, Crash, clients
  <2>2. sent' \in [Clients -> SUBSET {"auth", "state", "authorized"}]
    BY <2>1 DEF Inv, ClientsOK
  <2> QED BY <2>1, <2>2 DEF Inv, ClientsOK
<1>3. ThreadsOK'
  BY DEF HandleAuth, Handling, Proceed, Crash, Inv, ThreadsOK, Busy, clients, threads, bounds
<1>4. CountsOK'
  BY BoundsAssumption DEF HandleAuth, Handling, Proceed, Crash, Inv, CountsOK, clients, threads, bounds
<1>5. Answers'
  BY DEF HandleAuth, Handling, Proceed, Crash, Inv, Answers, One, clients, threads, bounds, ClientsOK, CountsOK
<1>6. HistoryOK'
  BY DEF HandleAuth, Handling, Proceed, Crash, Inv, HistoryOK, clients, threads, bounds
<1> QED BY <1>1, <1>2, <1>3, <1>4, <1>5, <1>6 DEF Inv

LEMMA HandleStartedKeeps ==
    ASSUME Inv, NEW c \in Clients, HandleStarted(c)
    PROVE  Inv'
<1>1. QueueOK' /\ Stated' /\ FrontIsCurrent'
  <2>1. UNCHANGED <<queue, cur, taken>> /\ attached \subseteq attached' /\ (Busy' => Busy)
    BY DEF HandleStarted, Handling, Proceed, Crash, clients, threads, Busy
  <2>2. FrontIsCurrent
    BY DEF Inv
  <2> QED BY <2>1, <2>2, QueueSame, FrontSame
<1>2. ClientsOK'
  BY DEF HandleStarted, Handling, Proceed, Crash, Inv, ClientsOK, Connections, clients, threads, bounds
<1>3. ThreadsOK'
  BY DEF HandleStarted, Handling, Proceed, Crash, Inv, ThreadsOK, Busy, clients, threads, bounds
<1>4. CountsOK'
  BY BoundsAssumption DEF HandleStarted, Handling, Proceed, Crash, Inv, CountsOK, clients, threads, bounds
<1>5. Answers'
  BY DEF HandleStarted, Handling, Proceed, Crash, Inv, Answers, One, clients, threads, bounds, ClientsOK, CountsOK
<1>6. HistoryOK'
  BY DEF HandleStarted, Handling, Proceed, Crash, Inv, HistoryOK, clients, threads, bounds
<1> QED BY <1>1, <1>2, <1>3, <1>4, <1>5, <1>6 DEF Inv

LEMMA HandleGoneKeeps ==
    ASSUME Inv, NEW c \in Clients, HandleGone(c)
    PROVE  Inv'
<1>1. QueueOK' /\ Stated' /\ FrontIsCurrent'
  <2>1. UNCHANGED <<queue, cur, taken>> /\ attached \subseteq attached' /\ (Busy' => Busy)
    BY DEF HandleGone, Handling, Proceed, Crash, clients, threads, Busy
  <2>2. FrontIsCurrent
    BY DEF Inv
  <2> QED BY <2>1, <2>2, QueueSame, FrontSame
<1>2. ClientsOK'
  BY DEF HandleGone, Handling, Proceed, Crash, Inv, ClientsOK, Connections, clients, threads, bounds
<1>3. ThreadsOK'
  BY DEF HandleGone, Handling, Proceed, Crash, Inv, ThreadsOK, Busy, clients, threads, bounds
<1>4. CountsOK'
  BY BoundsAssumption DEF HandleGone, Handling, Proceed, Crash, Inv, CountsOK, clients, threads, bounds
<1>5. Answers'
  BY DEF HandleGone, Handling, Proceed, Crash, Inv, Answers, One, clients, threads, bounds, ClientsOK, CountsOK
<1>6. HistoryOK'
  BY DEF HandleGone, Handling, Proceed, Crash, Inv, HistoryOK, clients, threads, bounds
<1> QED BY <1>1, <1>2, <1>3, <1>4, <1>5, <1>6 DEF Inv

LEMMA HandleOtherKeeps ==
    ASSUME Inv, NEW c \in Clients, HandleOther(c)
    PROVE  Inv'
<1>1. QueueOK' /\ Stated' /\ FrontIsCurrent'
  <2>1. UNCHANGED <<queue, cur, taken>> /\ attached \subseteq attached' /\ (Busy' => Busy)
    BY DEF HandleOther, Handling, Proceed, Crash, clients, threads, Busy
  <2>2. FrontIsCurrent
    BY DEF Inv
  <2> QED BY <2>1, <2>2, QueueSame, FrontSame
<1>2. ClientsOK'
  BY DEF HandleOther, Handling, Proceed, Crash, Inv, ClientsOK, Connections, clients, threads, bounds
<1>3. ThreadsOK'
  BY DEF HandleOther, Handling, Proceed, Crash, Inv, ThreadsOK, Busy, clients, threads, bounds
<1>4. CountsOK'
  BY BoundsAssumption DEF HandleOther, Handling, Proceed, Crash, Inv, CountsOK, clients, threads, bounds
<1>5. Answers'
  BY DEF HandleOther, Handling, Proceed, Crash, Inv, Answers, One, clients, threads, bounds, ClientsOK, CountsOK
<1>6. HistoryOK'
  BY DEF HandleOther, Handling, Proceed, Crash, Inv, HistoryOK, clients, threads, bounds
<1> QED BY <1>1, <1>2, <1>3, <1>4, <1>5, <1>6 DEF Inv

LEMMA HandleStateKeeps ==
    ASSUME Inv, NEW c \in Clients, HandleState(c)
    PROVE  Inv'
<1>0. /\ c \in attached /\ Busy /\ pc = "got" /\ content[cur] = Event("state", c)
      /\ UNCHANGED <<attached, cur, taken>>
  <2>1. /\ content[cur] = Event("state", c) /\ pc = "got"
        /\ UNCHANGED <<attached, cur, taken>>
    BY DEF HandleState, Handling, Crash, clients
  <2>2. cur \in Slots
    BY <2>1 DEF Inv, ThreadsOK, Busy
  <2> QED BY <2>1, <2>2 DEF Inv, Stated, Busy
<1>1. QueueOK' /\ Stated' /\ FrontIsCurrent'
  <2>1. CASE UNCHANGED queue
    <3>1. FrontIsCurrent /\ (Busy' => Busy)
      BY <1>0 DEF Inv
    <3> QED BY <1>0, <2>1, <3>1, QueueSame, FrontSame
  <2>2. CASE EraseEvents({Event(k, c) : k \in Kinds \ {"hit", "gone"}})
    <3>1. taken.kind \in {"state", "hit"}
      <4>1. taken.kind \notin {"state", "hit"} => taken = Event("state", c)
        BY <1>0 DEF Inv, FrontIsCurrent, Busy
      <4>2. Event("state", c).kind = "state"
        BY DEF Event
      <4> QED BY <4>1, <4>2
    <3> HIDE DEF Busy
    <3> QED BY <1>0, <2>2, <3>1, EraseKeeps
  <2> QED BY <2>1, <2>2 DEF HandleState, Crash
<1>2. ClientsOK'
  BY <1>0 DEF HandleState, Handling, Proceed, Crash, Inv, ClientsOK, Connections, clients, threads, bounds
<1>3. ThreadsOK'
  BY DEF HandleState, Handling, Proceed, Crash, Inv, ThreadsOK, Busy, clients, threads, bounds
<1>4. CountsOK'
  BY BoundsAssumption DEF HandleState, Handling, Proceed, Crash, Inv, CountsOK, clients, threads, bounds
<1>5. Answers'
  BY DEF HandleState, Handling, Proceed, Crash, Inv, Answers, One, clients, threads, bounds, ClientsOK, CountsOK
<1>6. HistoryOK'
  BY DEF HandleState, Handling, Proceed, Crash, Inv, HistoryOK, clients, threads, bounds
<1> QED BY <1>1, <1>2, <1>3, <1>4, <1>5, <1>6 DEF Inv

-----------------------------------------------------------------------------

LEMMA StutterKeeps ==
    ASSUME Inv, UNCHANGED vars
    PROVE  Inv'
<1>1. /\ UNCHANGED <<queue, blocked, fault>>
      /\ UNCHANGED <<conn, attached, sent, hasState, avatar, kicked, told, plays>>
      /\ UNCHANGED <<packet, pc, cur, taken, phase>>
      /\ UNCHANGED <<hits, rounds, forgotten>>
  BY DEF vars, clients, threads, bounds
<1>2. QueueOK' /\ Stated'
  BY <1>1, QueueSame
<1>3. FrontIsCurrent'
  BY <1>1, FrontSame DEF Inv, Busy
<1>4. ClientsOK' /\ ThreadsOK'
  BY <1>1 DEF Inv, ClientsOK, ThreadsOK, Busy
<1>5. CountsOK' /\ Answers' /\ HistoryOK'
  BY <1>1 DEF Inv, CountsOK, Answers, HistoryOK
<1> QED BY <1>2, <1>3, <1>4, <1>5 DEF Inv

LEMMA NextKeeps == Inv /\ [Next]_vars => Inv'
<1> SUFFICES ASSUME Inv, [Next]_vars PROVE Inv'
  OBVIOUS
<1>1. ASSUME NEW c \in Clients, Network(c) PROVE Inv'
  BY <1>1, JoinKeeps, PostCreateKeeps, SendAuthKeeps, SendStateKeeps, ClientReadyKeeps,
     SendStartedKeeps, CheckPlayKeeps, PostPlayKeeps, LeaveKeeps, ClientEraseKeeps,
     ClientCleanKeeps DEF Network
<1>2. ASSUME NEW c \in Clients,
             \/ HandleCreate(c) \/ HandleAuth(c) \/ HandleState(c)
             \/ HandleStarted(c) \/ HandleGone(c) \/ HandleOther(c)
      PROVE  Inv'
  BY <1>2, HandleCreateKeeps, HandleAuthKeeps, HandleStateKeeps, HandleStartedKeeps,
     HandleGoneKeeps, HandleOtherKeeps
<1>3. CASE ProcessDelayedEvent
  BY <1>2, <1>3, RetreiveKeeps, EndLoopKeeps, ReleaseEventKeeps DEF ProcessDelayedEvent, Handle
<1>4. CASE Update
  BY <1>4, ReportHitKeeps, EndRoundKeeps, BlockAllKeeps, NextFrameKeeps, StartRoundKeeps,
     TellStartedKeeps DEF Update
<1>5. CASE UNCHANGED vars
  BY <1>5, StutterKeeps
<1> QED BY <1>1, <1>3, <1>4, <1>5 DEF Next

LEMMA Invariant == Spec => []Inv
<1>1. Init => Inv
  BY InitInv
<1>2. Inv /\ [Next]_vars => Inv'
  BY NextKeeps
<1> QED BY <1>1, <1>2, PTL DEF Spec

(* The types of the queue and of the threads around it.                     *)
THEOREM TypeCorrect == Spec => []TypeOK
<1>1. Inv => TypeOK
  BY InvMeans
<1> QED BY <1>1, Invariant, PTL

(* A slot of the queue holds one event at a time: whatever is posted, erased *)
(* and released in between, it waits once or is unused once.                *)
THEOREM SlotsHoldOneEvent == Spec => []SlotsOnce
<1>1. Inv => SlotsOnce
  BY InvMeans
<1> QED BY <1>1, Invariant, PTL

(* Release takes out the event that was handled, except where the handler    *)
(* of a player state or a client that leaves has erased it.                 *)
THEOREM ReleaseTakesItsEvent == Spec => []FrontIsCurrent
<1>1. Inv => FrontIsCurrent
  BY InvMeans
<1> QED BY <1>1, Invariant, PTL

-----------------------------------------------------------------------------
(* The queue implements the log of events. *)

pend == IF Busy THEN Tail(Waiting) ELSE Waiting
curr == IF Busy THEN taken ELSE NoEvent

LEMMA SameOnly == \A s, T : Log!Only(s, T) = Only(s, T)
BY Zenon DEF Log!Only, Only

LEMMA LogVars == UNCHANGED <<pend, curr>> => UNCHANGED Log!vars
BY DEF Log!vars, pend, curr

LEMMA LogPost ==
    ASSUME NEW e \in Events, pend' = Append(pend, e), curr' = curr
    PROVE  Log!Next
<1>1. Log!Post(e)
  BY DEF Log!Post, pend, curr
<1> QED BY <1>1 DEF Log!Next

LEMMA LogBegin ==
    ASSUME curr = NoEvent, pend # <<>>, curr' = Head(pend), pend' = Tail(pend)
    PROVE  Log!Next
BY DEF Log!Next, Log!Begin, pend, curr

LEMMA LogEnd ==
    ASSUME curr # NoEvent, curr' = NoEvent, pend' = pend
    PROVE  Log!Next
BY DEF Log!Next, Log!End, pend, curr

LEMMA LogForget ==
    ASSUME NEW S, pend \in Seq(S), NEW T, pend' = Only(pend, T), curr' = curr
    PROVE  Log!Next
<1> DEFINE K == T \cap Log!Range(pend)
<1>1. Log!Range(pend) = {pend[i] : i \in DOMAIN pend}
  BY DEF Log!Range
<1>2. \A k \in 1 .. Len(pend) : pend[k] \in T <=> pend[k] \in K
  BY <1>1
<1>3. K \in SUBSET Log!Range(pend)
  OBVIOUS
<1> HIDE DEF K
<1>4. Only(pend, T) = Only(pend, K)
  BY <1>2, OnlyAgree
<1>5. pend' = Log!Only(pend, K)
  BY <1>4, SameOnly
<1>6. Log!Forget
  BY <1>3, <1>5 DEF Log!Forget, pend, curr
<1> QED BY <1>6 DEF Log!Next

LEMMA LogSame ==
    ASSUME UNCHANGED <<ready, content, taken>>, Busy' <=> Busy
    PROVE  UNCHANGED Log!vars
<1>1. Waiting' = Waiting
  BY DEF Waiting
<1>2. UNCHANGED <<pend, curr>>
  BY <1>1 DEF pend, curr
<1> QED BY <1>2, LogVars

LEMMA WaitingType ==
    ASSUME QueueOK
    PROVE  /\ Waiting \in Seq(Events) /\ Len(Waiting) = Len(ready)
           /\ \A i \in 1 .. Len(ready) : Waiting[i] = content[ready[i]]
           /\ ready # <<>> => Waiting # <<>> /\ Head(Waiting) = content[Head(ready)]
<1>1. ready \in Seq(Slots) /\ \A i \in DOMAIN ready : content[ready[i]] \in Events
  BY DEF QueueOK, ReadyOK
<1>2. /\ Waiting \in Seq(Events) /\ Len(Waiting) = Len(ready)
      /\ \A i \in 1 .. Len(ready) : Waiting[i] = content[ready[i]]
  BY <1>1 DEF Waiting
<1>3. ready # <<>> => Waiting # <<>> /\ Head(Waiting) = content[Head(ready)]
  BY <1>1, <1>2
<1> QED BY <1>2, <1>3

LEMMA LogCreated ==
    ASSUME Inv, InStep, NEW e \in Events, Create(e), UNCHANGED <<pc, cur, taken>>
    PROVE  Log!Next
<1>1. QueueOK
  BY DEF Inv
<1>2. QueueOK' /\ \E s \in Slots : /\ ~ Within(ready, s)
                                   /\ ready' = Append(ready, s)
                                   /\ content' = [content EXCEPT ![s] = e]
  BY <1>1, CreateKeepsQueue
<1>3. PICK s \in Slots : /\ ~ Within(ready, s)
                         /\ ready' = Append(ready, s)
                         /\ content' = [content EXCEPT ![s] = e]
  BY <1>2
<1>4. /\ ready \in Seq(Slots) /\ content \in [Slots -> Events \cup {NoEvent}]
  BY <1>1 DEF QueueOK, ReadyOK, ContentOK
<1>5. Waiting \in Seq(Events) /\ Len(Waiting) = Len(ready)
      /\ \A i \in 1 .. Len(ready) : Waiting[i] = content[ready[i]]
  BY <1>1, WaitingType
<1>6. /\ Waiting' \in Seq(Events) /\ Len(Waiting') = Len(ready')
      /\ \A i \in 1 .. Len(ready') : Waiting'[i] = content'[ready'[i]]
  <2>1. (/\ Waiting \in Seq(Events) /\ Len(Waiting) = Len(ready)
         /\ \A i \in 1 .. Len(ready) : Waiting[i] = content[ready[i]])'
    BY <1>2, WaitingType, PTL
  <2> QED BY <2>1
<1>7. /\ Len(ready') = Len(ready) + 1 /\ Len(ready) \in Nat
      /\ ready'[Len(ready) + 1] = s
      /\ \A i \in 1 .. Len(ready) : ready'[i] = ready[i] /\ ready[i] # s /\ ready[i] \in Slots
  BY <1>3, <1>4 DEF Within
<1>8. Waiting' = Append(Waiting, e)
  <2> DEFINE w == Waiting
             v == Waiting'
  <2>1. v \in Seq(Events) /\ Append(w, e) \in Seq(Events) /\ Len(v) = Len(w) + 1
    BY <1>5, <1>6, <1>7
  <2>2. \A i \in 1 .. Len(w) : v[i] = w[i]
    BY <1>3, <1>4, <1>5, <1>6, <1>7
  <2>3. v[Len(w) + 1] = e
    BY <1>3, <1>4, <1>5, <1>6, <1>7
  <2>4. w \in Seq(Events) /\ Len(w) \in Nat
    BY <1>5
  <2> HIDE DEF w, v
  <2>5. \A i \in 1 .. Len(v) : v[i] = Append(w, e)[i]
    BY <2>1, <2>2, <2>3, <2>4
  <2>6. v = Append(w, e)
    BY <2>1, <2>4, <2>5, SeqEqual
  <2> QED BY <2>6 DEF w, v
<1>9. pend' = Append(pend, e) /\ curr' = curr
  <2>1. CASE Busy
    <3>1. Waiting # <<>>
      BY <1>1, <2>1, WaitingType DEF InStep
    <3>2. Tail(Append(Waiting, e)) = Append(Tail(Waiting), e)
      BY <1>5, <3>1
    <3> QED BY <1>8, <2>1, <3>2 DEF pend, curr, Busy
  <2>2. CASE ~ Busy
    BY <1>8, <2>2 DEF pend, curr, Busy
  <2> QED BY <2>1, <2>2
<1> QED BY <1>9, LogPost

LEMMA LogErased ==
    ASSUME Inv, InStep, InStep', NEW D, EraseEvents(D),
           UNCHANGED <<cur, taken>>, Busy' <=> Busy
    PROVE  Log!Next
<1> DEFINE T == Slots \ Holding(D)
           U == Events \ D
<1>1. QueueOK /\ ready \in Seq(Slots) /\ \A i \in 1 .. Len(ready) : content[ready[i]] \in Events
  BY DEF Inv, QueueOK, ReadyOK
<1>2. ready' = Only(ready, T) /\ content' = content
  BY DEF EraseEvents
<1>3. \A k \in 1 .. Len(ready) : ready[k] \in T <=> content[ready[k]] \in U
  BY <1>1 DEF Holding
<1> HIDE DEF T, U
<1>4. /\ Waiting \in Seq(Events) /\ Len(Waiting) = Len(ready)
      /\ \A i \in 1 .. Len(ready) : Waiting[i] = content[ready[i]]
  BY <1>1, WaitingType
<1>6. Waiting \in Seq(Events)
  BY <1>4
<1>5. Waiting' = Only(Waiting, U)
  <2>1. QueueOK'
    BY <1>1, EraseKeepsQueue
  <2>2. (/\ Waiting \in Seq(Events) /\ Len(Waiting) = Len(ready)
         /\ \A i \in 1 .. Len(ready) : Waiting[i] = content[ready[i]])'
    BY <2>1, WaitingType, PTL
  <2> DEFINE q == Waiting'
             r == Only(ready, T)
             w == Waiting
  <2>3. Stands(r, content, q, Events)
    BY <1>2, <2>2 DEF Stands
  <2>4. Stands(ready, content, w, Events) /\ Alike(ready, T, w, U)
    BY <1>3, <1>4 DEF Stands, Alike
  <2>5. ready \in Seq(Slots)
    BY <1>1
  <2> HIDE DEF q, w
  <2>6. q = Only(w, U)
    BY <2>3, <2>4, <2>5, OnlyMapped
  <2> QED BY <2>6 DEF q, w
<1>7. CASE ~ Busy
  <2>1. pend' = Only(pend, U) /\ curr' = curr /\ pend \in Seq(Events)
    BY <1>5, <1>6, <1>7 DEF pend, curr
  <2> QED BY <2>1, LogForget
<1>8. CASE Busy
  <2>1. Waiting # <<>> /\ Head(Waiting) = content[Head(ready)] /\ Head(ready) = cur
    BY <1>1, <1>8, WaitingType DEF InStep
  <2>2. ready' # <<>> /\ Head(ready') = cur
    BY <1>8 DEF InStep
  <2>3. /\ Only(ready, T) \in Seq(Slots)
        /\ \A i \in DOMAIN Only(ready, T) : Only(ready, T)[i] \in T
    BY <1>1, OnlyElements
  <2>4. cur \in T
    <3>1. 1 \in DOMAIN ready' /\ ready'[1] = cur
      BY <1>2, <2>2, <2>3
    <3> QED BY <1>2, <2>3, <3>1
  <2>5. Waiting[1] \in U
    <3>1. 1 \in 1 .. Len(ready) /\ ready[1] = cur /\ Waiting[1] = content[cur]
      BY <1>1, <1>6, <1>8, <2>1 DEF InStep
    <3> QED BY <1>3, <2>4, <3>1
  <2>6. Tail(Only(Waiting, U)) = Only(Tail(Waiting), U)
    BY <1>6, <2>1, <2>5, OnlyTail
  <2>7. pend' = Only(pend, U) /\ curr' = curr /\ pend \in Seq(Events)
    BY <1>5, <1>6, <1>8, <2>1, <2>6 DEF pend, curr
  <2> QED BY <2>7, LogForget
<1> QED BY <1>7, <1>8

(* A step in which an event is posted, or dropped. *)
LEMMA LogAdded ==
    ASSUME Inv, InStep, NEW k \in Kinds, NEW c \in Clients,
           Create(Event(k, c)) \/ UNCHANGED queue, UNCHANGED <<pc, cur, taken>>
    PROVE  Log!Next \/ UNCHANGED Log!vars
<1>1. CASE UNCHANGED queue
  BY <1>1, LogSame DEF queue, Busy
<1>2. CASE Create(Event(k, c))
  BY <1>2, EventIsEvent, LogCreated
<1> QED BY <1>1, <1>2

LEMMA LogNetwork ==
    ASSUME Inv, InStep, InStep', NEW c \in Clients, Network(c)
    PROVE  Log!Next \/ UNCHANGED Log!vars
<1>0. {"create", "state", "auth", "started", "play", "gone"} \subseteq Kinds
  BY DEF Kinds
<1>1. CASE Join(c) \/ ClientReady(c) \/ CheckPlay(c) \/ ClientErase(c)
  <2>1. UNCHANGED <<queue, pc, taken>>
    BY <1>1 DEF Join, ClientReady, CheckPlay, ClientErase, threads
  <2> QED BY <2>1, LogSame DEF queue, Busy
<1>2. CASE PostCreate(c) \/ SendState(c) \/ SendAuth(c) \/ SendStarted(c)
  <2>1. UNCHANGED <<pc, cur, taken>>
    BY <1>2 DEF PostCreate, SendState, SendAuth, Handshake, SendStarted, threads
  <2>2. \E k \in {"create", "state", "auth", "started"} : AddDelayedEvent(k, c)
    BY <1>2 DEF PostCreate, SendState, SendAuth, Handshake, SendStarted
  <2> QED BY <1>0, <2>1, <2>2, AddIsCreate, LogAdded
<1>3. CASE PostPlay(c)
  BY <1>0, <1>3, LogAdded DEF PostPlay
<1>4. CASE Leave(c)
  <2>1. UNCHANGED <<pc, cur, taken>>
    BY <1>4 DEF Leave, threads
  <2>2. Create(Event("gone", c)) \/ UNCHANGED queue
    BY <1>4 DEF Leave
  <2> QED BY <1>0, <2>1, <2>2, LogAdded
<1>5. CASE ClientClean(c)
  <2>1. UNCHANGED <<pc, cur, taken>> /\ (Busy' <=> Busy)
    BY <1>5 DEF ClientClean, threads, Busy
  <2>2. CASE UNCHANGED queue
    BY <2>1, <2>2, LogSame DEF queue
  <2>3. CASE EraseEvents({Event("hit", c)})
    BY <2>1, <2>3, LogErased
  <2> QED BY <1>5, <2>2, <2>3 DEF ClientClean
<1> QED BY <1>1, <1>2, <1>3, <1>4, <1>5 DEF Network

LEMMA LogHandle ==
    ASSUME Inv, InStep, InStep', Handle
    PROVE  Log!Next \/ UNCHANGED Log!vars
<1>1. PICK c \in Clients : \/ HandleCreate(c) \/ HandleAuth(c) \/ HandleState(c)
                           \/ HandleStarted(c) \/ HandleGone(c) \/ HandleOther(c)
  BY DEF Handle
<1>2. UNCHANGED <<cur, taken>> /\ (Busy' <=> Busy)
  BY <1>1 DEF HandleCreate, HandleAuth, HandleState, HandleStarted, HandleGone, HandleOther,
              Handling, Proceed, Crash, Busy
<1>3. \/ UNCHANGED queue
      \/ EraseEvents({Event(k, c) : k \in Kinds \ {"hit", "gone"}})
  BY <1>1 DEF HandleCreate, HandleAuth, HandleState, HandleStarted, HandleGone, HandleOther,
              Crash
<1>4. CASE UNCHANGED queue
  BY <1>2, <1>4, LogSame DEF queue
<1>5. CASE EraseEvents({Event(k, c) : k \in Kinds \ {"hit", "gone"}})
  BY <1>2, <1>5, LogErased
<1> QED BY <1>3, <1>4, <1>5

LEMMA LogProcess ==
    ASSUME Inv, InStep, InStep', ProcessDelayedEvent
    PROVE  Log!Next \/ UNCHANGED Log!vars
<1>1. CASE Retreive
  <2>1. /\ ready' = ready /\ content' = content /\ ~ Busy /\ Busy'
        /\ ready # <<>> /\ taken' = content[ready[1]]
    BY <1>1 DEF Retreive, FrontSlot, queue, Busy
  <2>2. Waiting # <<>> /\ Head(Waiting) = content[Head(ready)] /\ ready \in Seq(Slots)
    BY <2>1, WaitingType DEF Inv, QueueOK, ReadyOK
  <2>3. Waiting' = Waiting
    BY <2>1 DEF Waiting
  <2>4. curr = NoEvent /\ pend # <<>> /\ curr' = Head(pend) /\ pend' = Tail(pend)
    BY <2>1, <2>2, <2>3 DEF curr, pend
  <2> QED BY <2>4, LogBegin
<1>2. CASE EndLoop
  <2>1. UNCHANGED <<ready, content, taken>> /\ (Busy' <=> Busy)
    BY <1>2 DEF EndLoop, RetreiveNothing, Busy
  <2> QED BY <2>1, LogSame
<1>3. CASE ReleaseEvent
  <2>1. Busy /\ ready # <<>>
    BY <1>3 DEF ReleaseEvent, Busy, InStep
  <2>2. /\ ready' = Tail(ready) /\ content' = content /\ ~ Busy'
    BY <1>3, <2>1 DEF ReleaseEvent, Release, Busy
  <2>3. ready \in Seq(Slots) /\ taken \in Events
    BY <2>1 DEF Inv, QueueOK, ReadyOK, ThreadsOK
  <2>4. Waiting' = Tail(Waiting)
    <3>1. /\ Waiting \in Seq(Events) /\ Len(Waiting) = Len(ready)
          /\ \A i \in 1 .. Len(ready) : Waiting[i] = content[ready[i]]
          /\ Waiting # <<>>
      BY <2>1, WaitingType DEF Inv
    <3>2. QueueOK'
      BY <1>3, <2>1, ReleaseKeepsQueue DEF ReleaseEvent, Inv
    <3>3. (/\ Waiting \in Seq(Events) /\ Len(Waiting) = Len(ready)
           /\ \A i \in 1 .. Len(ready) : Waiting[i] = content[ready[i]])'
      BY <3>2, WaitingType, PTL
    <3> DEFINE w == Waiting
               v == Waiting'
    <3>4. /\ v \in Seq(Events) /\ Len(v) = Len(ready) - 1
          /\ \A i \in 1 .. Len(v) : v[i] = content[ready[i + 1]]
      BY <2>1, <2>2, <2>3, <3>3
    <3>5. /\ w \in Seq(Events) /\ Len(w) = Len(ready) /\ w # <<>>
          /\ \A i \in 1 .. Len(ready) : w[i] = content[ready[i]]
      BY <3>1
    <3> HIDE DEF v, w
    <3>6. Tail(w) \in Seq(Events) /\ Len(Tail(w)) = Len(w) - 1
      BY <3>5
    <3>7. \A i \in 1 .. Len(v) : v[i] = Tail(w)[i]
      BY <2>1, <2>3, <3>4, <3>5
    <3>8. v = Tail(w)
      BY <3>4, <3>5, <3>6, <3>7, SeqEqual
    <3> QED BY <3>8 DEF v, w
  <2>5. curr # NoEvent /\ curr' = NoEvent /\ pend' = pend
    BY <2>1, <2>2, <2>3, <2>4, NoEventAssumption DEF curr, pend
  <2> QED BY <2>5, LogEnd
<1> QED BY <1>1, <1>2, <1>3, LogHandle DEF ProcessDelayedEvent

LEMMA LogUpdate ==
    ASSUME Inv, InStep, InStep', Update
    PROVE  Log!Next \/ UNCHANGED Log!vars
<1>1. ASSUME NEW c \in Clients, ReportHit(c) PROVE Log!Next \/ UNCHANGED Log!vars
  <2>1. "hit" \in Kinds /\ Create(Event("hit", c)) /\ UNCHANGED <<pc, cur, taken>>
    BY <1>1 DEF ReportHit, Kinds, threads
  <2> QED BY <2>1, LogAdded
<1>2. CASE EndRound \/ StartRound
  <2>1. EraseEvents(Events) /\ UNCHANGED <<cur, taken>> /\ (Busy' <=> Busy)
    BY <1>2 DEF EndRound, StartRound, Busy
  <2> QED BY <2>1, LogErased
<1>3. CASE BlockAll \/ NextFrame \/ TellStarted
  <2>1. UNCHANGED queue /\ taken' = taken /\ (Busy' <=> Busy)
    BY <1>3 DEF BlockAll, NextFrame, TellStarted, Busy
  <2> QED BY <2>1, LogSame DEF queue
<1> QED BY <1>1, <1>2, <1>3 DEF Update

LEMMA LogStep ==
    Inv /\ [Next]_vars => (InStep /\ InStep' => Log!Next \/ UNCHANGED Log!vars)
<1> SUFFICES ASSUME Inv, [Next]_vars, InStep, InStep'
             PROVE  Log!Next \/ UNCHANGED Log!vars
  OBVIOUS
<1>1. CASE UNCHANGED vars
  <2>1. UNCHANGED <<queue, pc, taken>>
    BY <1>1 DEF vars, threads
  <2> QED BY <2>1, LogSame DEF queue, Busy
<1>2. CASE Next
  BY <1>2, LogNetwork, LogProcess, LogUpdate DEF Next
<1> QED BY <1>1, <1>2

(* The queue is the log of events: while nothing erases the event in         *)
(* progress, each is handled once, to its end, in the order of posting.      *)
THEOREM QueueImplementsLog == Spec => ImplementsLog
<1>1. Init => Log!Init
  BY DEF Init, InitQueue, Log!Init, Busy, Waiting
<1>2. Inv /\ [Next]_vars => [InStep /\ InStep' => Log!Next \/ UNCHANGED Log!vars]_vars
  BY LogStep
<1> QED BY <1>1, <1>2, Invariant, PTL DEF Spec, ImplementsLog
=============================================================================
