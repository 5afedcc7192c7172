------------------------ MODULE IdsAndUpdatesProofs -------------------------
(***************************************************************************)
(* Proofs about the two components that count in fields of a fixed width:   *)
(* IdGenerator, for every range of ids and every block size, and            *)
(* UpdatesCompressor, for every number of entities and every size of their  *)
(* updates, of the cache and of the packets.                                *)
(***************************************************************************)
EXTENDS IdGenerator, UpdatesCompressor, FilterProofs, FiniteSetTheorems

-----------------------------------------------------------------------------
(* The bytes of a packet. *)
LEMMA LeastIs ==
    ASSUME NEW S \in SUBSET Nat, S # {}
    PROVE  Min(S) \in S /\ \A x \in S : Min(S) <= x
<1>1. \E x \in S : \A y \in S : x <= y
  BY LeastOf
<1> QED BY <1>1 DEF Min

LEMMA MaxIs ==
    ASSUME NEW S, NEW x \in S, \A y \in S : x >= y, S \subseteq Nat
    PROVE  Max(S) = x
<1>1. Max(S) \in S /\ \A y \in S : Max(S) >= y
  BY DEF Max
<1>2. Max(S) \in Nat /\ x \in Nat /\ Max(S) >= x /\ x >= Max(S)
  BY <1>1
<1> QED BY <1>2

Sums(p, S, h) ==
    h = [s \in SUBSET S |-> IF s = {} THEN 0 ELSE h[s \ {Max(s)}] + p[Max(s)].bytes]

LEMMA SumsUnfold ==
    ASSUME NEW p, NEW n \in Nat, NEW h, Sums(p, 1 .. n, h)
    PROVE  /\ h[1 .. 0] = 0
           /\ \A k \in 1 .. n : h[1 .. k] = h[1 .. k - 1] + p[k].bytes
<1>1. \A s \in SUBSET (1 .. n) :
          h[s] = IF s = {} THEN 0 ELSE h[s \ {Max(s)}] + p[Max(s)].bytes
  BY DEF Sums
<1>2. h[1 .. 0] = 0
  <2>1. 1 .. 0 = {} /\ {} \in SUBSET (1 .. n)
    OBVIOUS
  <2> QED BY <2>1, <1>1
<1>3. ASSUME NEW k \in 1 .. n PROVE h[1 .. k] = h[1 .. k - 1] + p[k].bytes
  <2>1. k \in 1 .. k /\ 1 .. k \subseteq Nat /\ \A y \in 1 .. k : k >= y
    OBVIOUS
  <2>2. Max(1 .. k) = k
    <3> DEFINE S == 1 .. k
    <3> HIDE DEF S
    <3>1. k \in S /\ S \subseteq Nat /\ \A y \in S : k >= y
      BY <2>1 DEF S
    <3> QED BY <3>1, MaxIs DEF S
  <2>4. 1 .. k \in SUBSET (1 .. n) /\ 1 .. k # {}
    <3>1. \A y \in 1 .. k : y \in 1 .. n
      OBVIOUS
    <3> QED BY <2>1, <3>1
  <2>3. (1 .. k) \ {k} = 1 .. k - 1
    OBVIOUS
  <2> QED BY <1>1, <2>4, <2>2, <2>3
<1> QED BY <1>2, <1>3

LEMMA SumsExist == ASSUME NEW p PROVE \A n \in Nat : \E h : Sums(p, 1 .. n, h)
<1> DEFINE S == {n \in Nat : \E h : Sums(p, 1 .. n, h)}
<1>1. 0 \in S
  <2> DEFINE h == [s \in SUBSET (1 .. 0) |-> 0]
  <2>1. h = [s \in SUBSET (1 .. 0) |->
                IF s = {} THEN 0 ELSE h[s \ {Max(s)}] + p[Max(s)].bytes]
    OBVIOUS
  <2> HIDE DEF h
  <2>2. Sums(p, 1 .. 0, h)
    BY <2>1 DEF Sums
  <2> QED BY <2>2
<1>2. ASSUME NEW n \in Nat, n \in S PROVE n + 1 \in S
  <2>1. PICK h : Sums(p, 1 .. n, h)
    BY <1>2
  <2>2. \A s \in SUBSET (1 .. n) :
            h[s] = IF s = {} THEN 0 ELSE h[s \ {Max(s)}] + p[Max(s)].bytes
    BY <2>1 DEF Sums
  <2> DEFINE g == [s \in SUBSET (1 .. n + 1) |->
                      IF n + 1 \in s THEN h[s \ {n + 1}] + p[n + 1].bytes ELSE h[s]]
  <2>3. ASSUME NEW s \in SUBSET (1 .. n + 1)
        PROVE  g[s] = IF s = {} THEN 0 ELSE g[s \ {Max(s)}] + p[Max(s)].bytes
    <3>1. CASE n + 1 \in s
      <4>1. Max(s) = n + 1
        <5>1. \A y \in s : n + 1 >= y /\ y \in Nat
          OBVIOUS
        <5> QED BY <3>1, <5>1, MaxIs
      <4>2. s \ {n + 1} \in SUBSET (1 .. n + 1) /\ n + 1 \notin s \ {n + 1}
        OBVIOUS
      <4>3. g[s \ {n + 1}] = h[s \ {n + 1}]
        BY <4>2
      <4> QED BY <3>1, <4>1, <4>3
    <3>2. CASE n + 1 \notin s
      <4>1. s \in SUBSET (1 .. n)
        BY <3>2
      <4>2. CASE s = {}
        BY <4>1, <4>2, <2>2, <3>2
      <4>3. CASE s # {}
        <5>1. PICK x \in s : \A y \in s : x >= y
          <6> DEFINE T == {m \in Nat : \A y \in s : m >= y}
          <6>1. n \in T /\ T \subseteq Nat
            BY <4>1
          <6>2. PICK m \in T : \A k \in T : m <= k
            BY <6>1, LeastOf
          <6>3. m \in s
            <7> SUFFICES ASSUME m \notin s PROVE FALSE
              OBVIOUS
            <7>1. \A y \in s : y \in Nat /\ y < m
              BY <4>1, <6>2
            <7>2. m # 0
              <8>1. PICK y \in s : TRUE
                BY <4>3
              <8> QED BY <8>1, <7>1, <6>2
            <7>3. m - 1 \in T
              BY <7>1, <7>2, <6>2
            <7> QED BY <7>3, <6>2
          <6> QED BY <6>2, <6>3
        <5>2. Max(s) \in s
          <6>1. s \subseteq Nat
            BY <4>1
          <6> QED BY <5>1, <6>1, MaxIs
        <5>3. s \ {Max(s)} \in SUBSET (1 .. n + 1) /\ n + 1 \notin s \ {Max(s)}
          BY <3>2
        <5>4. g[s \ {Max(s)}] = h[s \ {Max(s)}] /\ g[s] = h[s]
          BY <3>2, <5>3
        <5> QED BY <5>4, <4>1, <4>3, <2>2
      <4> QED BY <4>2, <4>3
    <3> QED BY <3>1, <3>2
  <2>4. g = [s \in SUBSET (1 .. n + 1) |->
                IF s = {} THEN 0 ELSE g[s \ {Max(s)}] + p[Max(s)].bytes]
    <3>1. g = [s \in SUBSET (1 .. n + 1) |-> g[s]]
      OBVIOUS
    <3> HIDE DEF g
    <3> QED BY <3>1, <2>3
  <2> HIDE DEF g
  <2>5. Sums(p, 1 .. n + 1, g)
    BY <2>4 DEF Sums
  <2> QED BY <2>5
<1> HIDE DEF S
<1>3. Nat \subseteq S
  BY <1>1, <1>2, Induction
<1> QED BY <1>3 DEF S

LEMMA TotalBytesSums ==
    ASSUME NEW T, NEW p \in Seq(T)
    PROVE  \E h : Sums(p, 1 .. Len(p), h) /\ TotalBytes(p) = h[1 .. Len(p)]
<1> DEFINE h == CHOOSE h : Sums(p, 1 .. Len(p), h)
<1>1. \E g : Sums(p, 1 .. Len(p), g)
  BY SumsExist, LenProperties
<1>2. Sums(p, 1 .. Len(p), h)
  BY <1>1, Zenon
<1>3. DOMAIN p = 1 .. Len(p)
  BY LenProperties
<1>4. TotalBytes(p) = h[DOMAIN p]
  BY <1>3, Zenon DEF TotalBytes, FoldLeft, MapThenFoldSet, Sums
<1> QED BY <1>2, <1>3, <1>4

LEMMA NoBytes == TotalBytes(<<>>) = 0
<1>1. <<>> \in Seq(Nat) /\ Len(<<>>) = 0
  OBVIOUS
<1>2. PICK h : Sums(<<>>, 1 .. 0, h) /\ TotalBytes(<<>>) = h[1 .. 0]
  BY <1>1, TotalBytesSums
<1> QED BY <1>2, SumsUnfold

LEMMA BytesAppended ==
    ASSUME NEW T, NEW p \in Seq(T), NEW f \in T
    PROVE  TotalBytes(Append(p, f)) = TotalBytes(p) + f.bytes
<1> DEFINE q == Append(p, f)
<1>1. /\ q \in Seq(T) /\ Len(q) = Len(p) + 1 /\ Len(p) \in Nat /\ q[Len(q)] = f
      /\ \A k \in 1 .. Len(p) : q[k] = p[k]
  BY AppendProperties, LenProperties
<1> HIDE DEF q
<1>2. PICK h : Sums(p, 1 .. Len(p), h) /\ TotalBytes(p) = h[1 .. Len(p)]
  BY TotalBytesSums
<1>3. PICK g : Sums(q, 1 .. Len(q), g) /\ TotalBytes(q) = g[1 .. Len(q)]
  BY <1>1, TotalBytesSums
<1>4. /\ h[1 .. 0] = 0 /\ g[1 .. 0] = 0
      /\ \A k \in 1 .. Len(p) : h[1 .. k] = h[1 .. k - 1] + p[k].bytes
      /\ \A k \in 1 .. Len(q) : g[1 .. k] = g[1 .. k - 1] + q[k].bytes
  <2>1. Len(q) \in Nat
    BY <1>1
  <2> QED BY <2>1, <1>1, <1>2, <1>3, SumsUnfold
<1> DEFINE S == {k \in Nat : k <= Len(p) => g[1 .. k] = h[1 .. k]}
<1>5. 0 \in S
  BY <1>4
<1>6. ASSUME NEW k \in Nat, k \in S PROVE k + 1 \in S
  <2> SUFFICES ASSUME k + 1 <= Len(p) PROVE g[1 .. k + 1] = h[1 .. k + 1]
    OBVIOUS
  <2>1. g[1 .. k] = h[1 .. k]
    BY <1>1, <1>6
  <2>2. k + 1 \in 1 .. Len(p) /\ k + 1 \in 1 .. Len(q) /\ (k + 1) - 1 = k
    BY <1>1
  <2>3. /\ h[1 .. k + 1] = h[1 .. k] + p[k + 1].bytes
        /\ g[1 .. k + 1] = g[1 .. k] + q[k + 1].bytes
    BY <2>2, <1>4
  <2> QED BY <2>1, <2>2, <2>3, <1>1
<1> HIDE DEF S
<1>7. Nat \subseteq S
  BY <1>5, <1>6, Induction
<1>8. g[1 .. Len(p)] = h[1 .. Len(p)]
  BY <1>1, <1>7 DEF S
<1>9. Len(q) \in 1 .. Len(q) /\ Len(q) - 1 = Len(p)
  BY <1>1
<1>10. g[1 .. Len(q)] = g[1 .. Len(p)] + f.bytes
  BY <1>1, <1>4, <1>9
<1> QED BY <1>2, <1>3, <1>8, <1>10 DEF q

LEMMA BytesNat ==
    ASSUME NEW T, NEW p \in Seq(T), \A f \in T : f.bytes \in Nat
    PROVE  TotalBytes(p) \in Nat
<1>1. PICK h : Sums(p, 1 .. Len(p), h) /\ TotalBytes(p) = h[1 .. Len(p)]
  BY TotalBytesSums
<1>2. Len(p) \in Nat /\ \A k \in 1 .. Len(p) : p[k] \in T
  OBVIOUS
<1>3. /\ h[1 .. 0] = 0
      /\ \A k \in 1 .. Len(p) : h[1 .. k] = h[1 .. k - 1] + p[k].bytes
  BY <1>1, <1>2, SumsUnfold
<1> DEFINE S == {k \in Nat : k <= Len(p) => h[1 .. k] \in Nat}
<1>4. 0 \in S
  BY <1>3
<1>5. ASSUME NEW k \in Nat, k \in S PROVE k + 1 \in S
  <2> SUFFICES ASSUME k + 1 <= Len(p) PROVE h[1 .. k + 1] \in Nat
    OBVIOUS
  <2>1. h[1 .. k] \in Nat
    BY <1>2, <1>5
  <2>2. k + 1 \in 1 .. Len(p) /\ (k + 1) - 1 = k
    BY <1>2
  <2>3. h[1 .. k + 1] = h[1 .. k] + p[k + 1].bytes /\ p[k + 1].bytes \in Nat
    BY <2>2, <1>2, <1>3
  <2> QED BY <2>1, <2>3
<1> HIDE DEF S
<1>6. Nat \subseteq S
  BY <1>4, <1>5, Induction
<1> QED BY <1>1, <1>2, <1>6 DEF S

-----------------------------------------------------------------------------
(* Sequences of sequences. *)
Flat(ss, n, f) ==
    f = [i \in 1 .. n |-> IF i = 1 THEN ss[i] ELSE f[i - 1] \o ss[i]]

LEMMA FlatExists == ASSUME NEW ss PROVE \A n \in Nat : \E f : Flat(ss, n, f)
<1> DEFINE S == {n \in Nat : \E f : Flat(ss, n, f)}
<1>1. 0 \in S
  <2>1. Flat(ss, 0, [i \in 1 .. 0 |-> ss])
    BY DEF Flat
  <2> QED BY <2>1
<1>2. ASSUME NEW n \in Nat, n \in S PROVE n + 1 \in S
  <2>1. PICK f : Flat(ss, n, f)
    BY <1>2
  <2>2. \A i \in 1 .. n : f[i] = IF i = 1 THEN ss[i] ELSE f[i - 1] \o ss[i]
    BY <2>1 DEF Flat
  <2> DEFINE g == [i \in 1 .. n + 1 |-> IF i <= n THEN f[i]
                                        ELSE IF i = 1 THEN ss[i] ELSE f[i - 1] \o ss[i]]
  <2>3. ASSUME NEW i \in 1 .. n + 1
        PROVE  g[i] = IF i = 1 THEN ss[i] ELSE g[i - 1] \o ss[i]
    <3>1. CASE i = 1
      BY <3>1, <2>2
    <3>2. CASE i # 1
      <4>1. i - 1 \in 1 .. n /\ i - 1 \in 1 .. n + 1 /\ i - 1 <= n
        BY <3>2
      <4>2. g[i - 1] = f[i - 1]
        BY <4>1
      <4>3. g[i] = f[i - 1] \o ss[i]
        <5>1. CASE i <= n
          <6>1. i \in 1 .. n
            BY <5>1
          <6>2. g[i] = f[i]
            BY <5>1
          <6> QED BY <6>1, <6>2, <3>2, <2>2
        <5>2. CASE ~ (i <= n)
          BY <3>2, <5>2
        <5> QED BY <5>1, <5>2
      <4> QED BY <3>2, <4>2, <4>3
    <3> QED BY <3>1, <3>2
  <2>4. g = [i \in 1 .. n + 1 |-> g[i]]
    OBVIOUS
  <2> HIDE DEF g
  <2>5. Flat(ss, n + 1, g)
    BY <2>3, <2>4 DEF Flat
  <2> QED BY <2>5
<1> HIDE DEF S
<1>3. Nat \subseteq S
  BY <1>1, <1>2, Induction
<1> QED BY <1>3 DEF S

LEMMA FlattenUnfolds ==
    ASSUME NEW T, NEW ss \in Seq(T), ss # <<>>
    PROVE  \E f : Flat(ss, Len(ss), f) /\ FlattenSeq(ss) = f[Len(ss)]
<1> DEFINE f == CHOOSE f : Flat(ss, Len(ss), f)
<1>1. Len(ss) \in Nat /\ Len(ss) # 0
  BY EmptySeq
<1>2. \E g : Flat(ss, Len(ss), g)
  BY <1>1, FlatExists
<1>3. Flat(ss, Len(ss), f)
  BY <1>2, Zenon
<1>4. FlattenSeq(ss) = f[Len(ss)]
  BY <1>1, Zenon DEF FlattenSeq, Flat
<1> QED BY <1>3, <1>4

LEMMA FlattenNothing == FlattenSeq(<<>>) = <<>>
BY DEF FlattenSeq

LEMMA FlattenAppended ==
    ASSUME NEW T, NEW ss \in Seq(Seq(T)), NEW s \in Seq(T)
    PROVE  /\ FlattenSeq(ss) \in Seq(T)
           /\ FlattenSeq(Append(ss, s)) = FlattenSeq(ss) \o s
<1> DEFINE q == Append(ss, s)
<1>1. /\ q \in Seq(Seq(T)) /\ q # <<>> /\ Len(q) = Len(ss) + 1 /\ Len(ss) \in Nat
      /\ q[Len(q)] = s /\ \A k \in 1 .. Len(ss) : q[k] = ss[k]
  BY AppendProperties, LenProperties
<1> HIDE DEF q
<1>2. PICK g : Flat(q, Len(q), g) /\ FlattenSeq(q) = g[Len(q)]
  BY <1>1, FlattenUnfolds
<1>3. \A i \in 1 .. Len(q) : g[i] = IF i = 1 THEN q[i] ELSE g[i - 1] \o q[i]
  BY <1>2 DEF Flat
<1>4. CASE ss = <<>>
  <2>1. Len(q) = 1
    BY <1>1, <1>4
  <2>2. g[1] = s
    BY <2>1, <1>1, <1>3
  <2>3. <<>> \o s = s /\ <<>> \in Seq(T)
    BY ConcatEmptySeq
  <2> QED BY <1>2, <1>4, <2>1, <2>2, <2>3, FlattenNothing DEF q
<1>5. CASE ss # <<>>
  <2>1. PICK f : Flat(ss, Len(ss), f) /\ FlattenSeq(ss) = f[Len(ss)]
    BY <1>5, FlattenUnfolds
  <2>2. \A i \in 1 .. Len(ss) : f[i] = IF i = 1 THEN ss[i] ELSE f[i - 1] \o ss[i]
    BY <2>1 DEF Flat
  <2> DEFINE S == {k \in Nat : k + 1 <= Len(ss) => g[k + 1] = f[k + 1] /\ f[k + 1] \in Seq(T)}
  <2>3. 0 \in S
    BY <1>1, <1>3, <2>2
  <2>4. ASSUME NEW k \in Nat, k \in S PROVE k + 1 \in S
    <3> DEFINE n == (k + 1) + 1
    <3> SUFFICES ASSUME n <= Len(ss) PROVE g[n] = f[n] /\ f[n] \in Seq(T)
      OBVIOUS
    <3>1. /\ n \in 1 .. Len(ss) /\ n \in 1 .. Len(q) /\ n # 1 /\ n - 1 = k + 1
          /\ k + 1 <= Len(ss)
      BY <1>1
    <3>2. g[k + 1] = f[k + 1] /\ f[k + 1] \in Seq(T)
      BY <2>4, <3>1
    <3> HIDE DEF n
    <3>3. q[n] = ss[n] /\ ss[n] \in Seq(T)
      BY <3>1, <1>1
    <3>4. g[n] = g[k + 1] \o q[n] /\ f[n] = f[k + 1] \o ss[n]
      BY <3>1, <2>2, <1>3
    <3>5. f[k + 1] \o ss[n] \in Seq(T)
      BY <3>2, <3>3, ConcatProperties
    <3> QED BY <3>2, <3>3, <3>4, <3>5
  <2> HIDE DEF S
  <2>5. Nat \subseteq S
    BY <2>3, <2>4, Induction
  <2>6. Len(ss) - 1 \in Nat /\ (Len(ss) - 1) + 1 = Len(ss)
    BY <1>1, <1>5, EmptySeq
  <2>7. g[Len(ss)] = f[Len(ss)] /\ f[Len(ss)] \in Seq(T)
    <3> DEFINE k == Len(ss) - 1
    <3>1. k \in S /\ k + 1 = Len(ss)
      BY <2>5, <2>6
    <3> HIDE DEF k
    <3>2. k + 1 <= Len(ss)
      BY <3>1, <1>1
    <3>3. g[k + 1] = f[k + 1] /\ f[k + 1] \in Seq(T)
      BY <3>1, <3>2 DEF S
    <3> QED BY <3>1, <3>3
  <2>8. Len(q) \in 1 .. Len(q) /\ Len(q) # 1 /\ Len(q) - 1 = Len(ss)
    BY <1>1, <2>6
  <2>9. g[Len(q)] = g[Len(ss)] \o s
    BY <2>8, <1>1, <1>3
  <2> QED BY <1>2, <2>1, <2>7, <2>9 DEF q
<1> QED BY <1>4, <1>5

-----------------------------------------------------------------------------
(* UpdatesCompressor: types.  What is in a packet has been written in this   *)
(* pass.                                                                     *)
FieldKinds == {"updates", "compressed", "level", "size", "block", "zero"}
FieldsOf(T) == [kind : FieldKinds, bytes : 1 .. Limit - 1, data : Seq(T)]
Entries == [id : EntityIds, eq : 0 .. EqValues - 1, age : 0 .. CacheSize,
            update : Updates \cup {NoUpdate}]

ServerOK == /\ level \in Levels \cup {{}}
            /\ value \in [EntityIds -> Values]
            /\ cache \in [Slots -> Entries]
ClientOK == /\ view \in [EntityIds -> Values]
            /\ missed \in [EntityIds -> 0 .. MaxEq]
PassOK ==
    /\ written \in Seq(Updates)
    /\ acc \in [bytes : 0 .. Limit - 1, updates : Seq(ToSet(written))]
    /\ packets \in Seq(Seq(FieldsOf(ToSet(written))))
    /\ stage \in {"idle", "write", "made"} /\ next \in 0 .. Entities
    /\ withheld \subseteq EntityIds
    /\ stage = "idle" => packets = <<>> /\ written = <<>> /\ withheld = {}
    /\ stage # "idle" => packets # <<>> /\ level \in Levels
UpdatesOK == ServerOK /\ ClientOK /\ PassOK

LEMMA FieldsGrow ==
    ASSUME NEW S, NEW T, S \subseteq T
    PROVE  Seq(S) \subseteq Seq(T) /\ Seq(Seq(FieldsOf(S))) \subseteq Seq(Seq(FieldsOf(T)))
<1>1. \A A, B : A \subseteq B => Seq(A) \subseteq Seq(B)
  BY SeqMonotonic
<1>2. Seq(S) \subseteq Seq(T)
  BY <1>1
<1>3. FieldsOf(S) \subseteq FieldsOf(T)
  BY <1>2 DEF FieldsOf
<1>4. Seq(FieldsOf(S)) \subseteq Seq(FieldsOf(T))
  BY <1>1, <1>3
<1> QED BY <1>1, <1>2, <1>4

LEMMA WrittenSet ==
    ASSUME NEW w \in Seq(Updates), NEW u \in Updates
    PROVE  /\ ToSet(w) \subseteq Updates
           /\ ToSet(Append(w, u)) = ToSet(w) \cup {u}
<1>1. /\ w \in [1 .. Len(w) -> Updates] /\ DOMAIN w = 1 .. Len(w) /\ Len(w) \in Nat
      /\ Append(w, u) \in Seq(Updates)
      /\ Len(Append(w, u)) = Len(w) + 1 /\ Append(w, u)[Len(w) + 1] = u
      /\ \A i \in 1 .. Len(w) : Append(w, u)[i] = w[i]
  BY LenProperties, AppendProperties
<1>2. DOMAIN Append(w, u) = 1 .. Len(w) + 1
  BY <1>1, LenProperties
<1>3. 1 .. Len(w) + 1 = (1 .. Len(w)) \cup {Len(w) + 1}
  BY <1>1
<1> QED BY <1>1, <1>2, <1>3 DEF ToSet

LEMMA UpdatesTyped == UpdatesOK => UpdatesTypeOK
<1> SUFFICES ASSUME UpdatesOK PROVE UpdatesTypeOK
  OBVIOUS
<1>1. \A i \in Slots : /\ cache[i].id \in EntityIds
                       /\ cache[i].eq \in 0 .. EqValues - 1
                       /\ cache[i].age \in 0 .. CacheSize
                       /\ cache[i].update \in Updates \cup {NoUpdate}
  BY DEF UpdatesOK, ServerOK, Entries
<1> DEFINE T == ToSet(written)
<1>a. T \subseteq Updates
  <2>1. \A k \in DOMAIN written : written[k] \in Updates
    BY DEF UpdatesOK, PassOK
  <2> QED BY <2>1 DEF ToSet
<1>b. acc.bytes \in 0 .. Limit - 1 /\ acc.updates \in Seq(T) /\ packets \in Seq(Seq(FieldsOf(T)))
  BY DEF UpdatesOK, PassOK
<1> HIDE DEF T
<1>2. acc.bytes \in 0 .. Limit - 1 /\ \A i \in DOMAIN acc.updates : acc.updates[i] \in Updates
  BY <1>a, <1>b
<1>3. \A i \in DOMAIN packets : \A j \in DOMAIN packets[i] :
          /\ packets[i][j].kind \in FieldKinds
          /\ packets[i][j].bytes \in 1 .. Limit - 1
          /\ \A k \in DOMAIN packets[i][j].data : packets[i][j].data[k] \in Updates
  <2> TAKE i \in DOMAIN packets
  <2>1. packets[i] \in Seq(FieldsOf(T))
    BY <1>b
  <2> TAKE j \in DOMAIN packets[i]
  <2>2. packets[i][j] \in FieldsOf(T)
    BY <2>1
  <2>3. packets[i][j].data \in Seq(T)
    BY <2>2 DEF FieldsOf
  <2> QED BY <2>2, <2>3, <1>a DEF FieldsOf
<1> QED BY <1>1, <1>2, <1>3
    DEF UpdatesOK, ServerOK, ClientOK, PassOK, UpdatesTypeOK, FieldKinds

LEMMA LimitIsLarge ==
    ASSUME value \in [EntityIds -> Values]
    PROVE  /\ Limit \in Nat /\ Limit > 10 /\ Entities \in Nat /\ Entities > 0
           /\ MaxEq \in Nat /\ MaxEq > 0 /\ EqValues \in Nat /\ MaxEq < EqValues
           /\ CacheSize \in Nat /\ CacheSize > 1
<1>1. /\ Limit \in Nat /\ Entities \in Nat \ {0} /\ MaxEq \in Nat \ {0}
      /\ EqValues \in Nat /\ CacheSize \in Nat
  BY SizesAssumption
<1>2. 0 \in EntityIds
  BY <1>1 DEF EntityIds
<1>3. value[0] \in Values
  BY <1>2
<1>4. value[0] \in Nat /\ value[0] + 10 < Limit
  BY <1>3, ValuesAssumption, RoomAssumption
<1> QED BY <1>1, <1>4, CacheAssumption

LEMMA UpdateType ==
    ASSUME value \in [EntityIds -> Values], NEW e \in EntityIds
    PROVE  /\ Update(e) \in Updates /\ Update(e) # NoUpdate
           /\ UpdateBytes(Update(e)) \in Nat /\ UpdateBytes(Update(e)) > 3
           /\ UpdateBytes(Update(e)) + 7 < Limit
<1>0. value[e] \in Values
  OBVIOUS
<1>1. value[e] \in Values /\ value[e] \in Nat /\ value[e] > 0 /\ value[e] + 10 < Limit
  <2>1. value[e] \in Nat \ {0}
    BY <1>0, ValuesAssumption
  <2>2. value[e] + 10 < Limit
    BY <1>0, RoomAssumption
  <2> QED BY <1>0, <2>1, <2>2
<1>2. Limit \in Nat /\ e \in Nat
  BY LimitIsLarge DEF EntityIds
<1>3. Update(e) \in Updates
  BY <1>1 DEF Update, Updates
<1>4. Update(e) # NoUpdate
  BY <1>2 DEF Update, NoUpdate
<1>5. UpdateBytes(Update(e)) = 3 + value[e]
  BY DEF Update, UpdateBytes
<1> QED BY <1>1, <1>2, <1>3, <1>4, <1>5

LEMMA FieldTypes ==
    ASSUME value \in [EntityIds -> Values], NEW T
    PROVE  /\ Begin("compressed") \in FieldsOf(T) /\ Begin("updates") \in FieldsOf(T)
           /\ LevelByte \in FieldsOf(T) /\ SizeField \in FieldsOf(T) /\ ZeroEnd \in FieldsOf(T)
           /\ \A n \in 1 .. Limit - 1, us \in Seq(T) : Block(n, us) \in FieldsOf(T)
<1>1. 1 \in 1 .. Limit - 1 /\ 2 \in 1 .. Limit - 1
  BY LimitIsLarge
<1>2. <<>> \in Seq(T)
  BY EmptySeq
<1> QED BY <1>1, <1>2 DEF Begin, LevelByte, SizeField, ZeroEnd, Block, Field, FieldsOf, FieldKinds

(* A row of packets, its last one by name. *)
LEMMA InCurrentIs ==
    ASSUME NEW P, NEW r \in Seq(Seq(P)), NEW p \in Seq(P), NEW fs \in Seq(P)
    PROVE  InCurrent(Append(r, p), fs) = Append(r, p \o fs)
<1> DEFINE ps == Append(r, p)
           q == Append(r, p \o fs)
<1>1. p \o fs \in Seq(P)
  BY ConcatProperties
<1>2. /\ ps \in Seq(Seq(P)) /\ Len(ps) = Len(r) + 1 /\ Len(r) \in Nat /\ ps[Len(r) + 1] = p
      /\ \A i \in 1 .. Len(r) : ps[i] = r[i]
  BY AppendProperties, LenProperties
<1>3. /\ q \in Seq(Seq(P)) /\ Len(q) = Len(r) + 1 /\ q[Len(r) + 1] = p \o fs
      /\ \A i \in 1 .. Len(r) : q[i] = r[i]
  BY <1>1, AppendProperties
<1> HIDE DEF ps, q
<1>4. Len(r) + 1 \in 1 .. Len(ps) /\ 1 .. Len(ps) = (1 .. Len(r)) \cup {Len(r) + 1}
  BY <1>2
<1>5. InCurrent(ps, fs) = [ps EXCEPT ![Len(r) + 1] = p \o fs]
  BY <1>2 DEF InCurrent
<1>6. /\ InCurrent(ps, fs) \in Seq(Seq(P)) /\ Len(InCurrent(ps, fs)) = Len(ps)
      /\ \A j \in 1 .. Len(ps) :
            InCurrent(ps, fs)[j] = IF j = Len(r) + 1 THEN p \o fs ELSE ps[j]
  BY <1>1, <1>2, <1>4, <1>5, ExceptSeq
<1>7. \A j \in 1 .. Len(ps) : InCurrent(ps, fs)[j] = q[j]
  BY <1>2, <1>3, <1>4, <1>6
<1>8. InCurrent(ps, fs) = q
  BY <1>2, <1>3, <1>6, <1>7, SeqEqual
<1> QED BY <1>8 DEF ps, q

(* The front packet with a level more. *)
LEMMA InFrontIs ==
    ASSUME NEW P, LevelByte \in P, NEW ps \in Seq(Seq(P)), ps # <<>>
    PROVE  /\ InFront(ps) \in Seq(Seq(P)) /\ Len(InFront(ps)) = Len(ps)
           /\ \A i \in 1 .. Len(ps) :
                 InFront(ps)[i] = IF i = 1 THEN Append(ps[1], LevelByte) ELSE ps[i]
<1>1. 1 \in 1 .. Len(ps)
  BY EmptySeq
<1>2. ps[1] \in Seq(P)
  BY <1>1
<1>3. Append(ps[1], LevelByte) \in Seq(P)
  BY <1>2, AppendProperties
<1>4. InFront(ps) = [ps EXCEPT ![1] = Append(ps[1], LevelByte)]
  BY DEF InFront
<1> QED BY <1>1, <1>3, <1>4, ExceptSeq

LEMMA LastPacket ==
    ASSUME NEW P, NEW ps \in Seq(P), ps # <<>>
    PROVE  \E r \in Seq(P), p \in P : ps = Append(r, p)
BY SequenceEmptyOrAppend

-----------------------------------------------------------------------------
(* What a flush does to the row of packets. *)
BlockFields(n) == <<SizeField, Block(n, acc.updates)>>
WholeOf    == <<Begin("updates"), Block(acc.bytes - 2, acc.updates)>>

LEMMA SizesCompressed ==
    ASSUME NEW b \in Nat, b >= 3, NEW n \in CompressedSizes(b)
    PROVE  n \in 1 .. b - 1
<1>1. CASE n = b - 1
  BY <1>1
<1>2. CASE n = b \div 2
  BY <1>2
<1> QED BY <1>1, <1>2 DEF CompressedSizes

LEMMA FlushedFields ==
    ASSUME value \in [EntityIds -> Values], NEW T, acc.updates \in Seq(T),
           acc.bytes \in 3 .. Limit - 1, NEW n \in CompressedSizes(acc.bytes)
    PROVE  /\ n \in 1 .. acc.bytes - 1
           /\ Block(n, acc.updates) \in FieldsOf(T) /\ BlockFields(n) \in Seq(FieldsOf(T))
           /\ Block(acc.bytes - 2, acc.updates) \in FieldsOf(T) /\ WholeOf \in Seq(FieldsOf(T))
<1>1. Limit \in Nat
  BY LimitIsLarge
<1>2. acc.bytes \in Nat /\ acc.bytes >= 3 /\ acc.bytes < Limit
  BY <1>1
<1>3. n \in 1 .. acc.bytes - 1
  BY <1>2, SizesCompressed
<1>4. n \in 1 .. Limit - 1 /\ acc.bytes - 2 \in 1 .. Limit - 1
  BY <1>1, <1>2, <1>3
<1>5. /\ Block(n, acc.updates) \in FieldsOf(T) /\ Block(acc.bytes - 2, acc.updates) \in FieldsOf(T)
      /\ SizeField \in FieldsOf(T) /\ Begin("updates") \in FieldsOf(T)
  BY <1>4, FieldTypes
<1> QED BY <1>3, <1>5 DEF BlockFields, WholeOf

LEMMA RowAppended ==
    ASSUME NEW S, NEW r \in Seq(S), NEW p \in S
    PROVE  Append(r, p) \in Seq(S) /\ Append(r, p) # <<>> /\ Len(Append(r, p)) = Len(r) + 1
<1>1. Append(r, p) \in Seq(S) /\ Len(Append(r, p)) = Len(r) + 1 /\ Len(r) \in Nat
  BY AppendProperties, LenProperties
<1> QED BY <1>1

LEMMA FlushIs ==
    ASSUME value \in [EntityIds -> Values], NEW T, acc.updates \in Seq(T),
           acc.bytes \in 3 .. Limit - 1, NEW n \in CompressedSizes(acc.bytes),
           NEW r \in Seq(Seq(FieldsOf(T))), NEW p \in Seq(FieldsOf(T)),
           packets = Append(r, p)
    PROVE  /\ ~ Compresses => Flush(n) = Append(Append(r, p \o WholeOf), <<>>)
           /\ Compresses /\ Fits(p, n) => Flush(n) = Append(r, p \o BlockFields(n))
           /\ Compresses /\ ~ Fits(p, n) =>
                 Flush(n) =
                    IF "ppmd" \in level
                    THEN Append(InFront(Append(r, p \o <<ZeroEnd>>)),
                                <<Begin("compressed")>> \o BlockFields(n))
                    ELSE Append(Append(r, p \o <<ZeroEnd>>), <<>> \o BlockFields(n))
<1> DEFINE P == FieldsOf(T)
<1>1. /\ BlockFields(n) \in Seq(P) /\ WholeOf \in Seq(P) /\ <<>> \in Seq(P)
      /\ ZeroEnd \in P /\ LevelByte \in P /\ Begin("compressed") \in P
  BY FlushedFields, FieldTypes, EmptySeq
<1>2. <<ZeroEnd>> \in Seq(P) /\ <<Begin("compressed")>> \in Seq(P)
  BY <1>1
<1>3. Last(packets) = p
  BY AppendProperties, LenProperties DEF Last
<1> HIDE DEF P
<1>4. CASE ~ Compresses
  <2>1. "ppmd" \notin level
    BY <1>4 DEF Compresses
  <2>2. InCurrent(packets, WholeOf) = Append(r, p \o WholeOf)
    BY <1>1, InCurrentIs DEF P
  <2>3. Flush(n) = NextDest(InCurrent(packets, WholeOf))
    BY <1>4 DEF Flush, WholeOf
  <2> QED BY <1>4, <2>1, <2>2, <2>3 DEF NextDest
<1>5. CASE Compresses /\ Fits(p, n)
  <2>1. InCurrent(packets, BlockFields(n)) = Append(r, p \o BlockFields(n))
    BY <1>1, InCurrentIs DEF P
  <2>2. Flush(n) = InCurrent(packets, BlockFields(n))
    BY <1>3, <1>5 DEF Flush, BlockFields
  <2> QED BY <1>5, <2>1, <2>2
<1>6. CASE Compresses /\ ~ Fits(p, n)
  <2> DEFINE ps == Append(r, p \o <<ZeroEnd>>)
  <2>0. r \in Seq(Seq(P)) /\ p \in Seq(P)
    BY DEF P
  <2>1. InCurrent(packets, <<ZeroEnd>>) = ps
    BY <1>2, <2>0, InCurrentIs
  <2>2. ps \in Seq(Seq(P)) /\ ps # <<>>
    <3>1. p \o <<ZeroEnd>> \in Seq(P)
      BY <1>2, <2>0, ConcatProperties
    <3> QED BY <3>1, <2>0, RowAppended
  <2> HIDE DEF ps
  <2>3. Flush(n) = InCurrent(NextDest(ps), BlockFields(n))
    BY <1>3, <1>6, <2>1 DEF Flush, BlockFields
  <2>4. CASE "ppmd" \in level
    <3>1. InFront(ps) \in Seq(Seq(P))
      BY <1>1, <2>2, InFrontIs
    <3>2. InCurrent(Append(InFront(ps), <<Begin("compressed")>>), BlockFields(n))
             = Append(InFront(ps), <<Begin("compressed")>> \o BlockFields(n))
      BY <1>1, <1>2, <3>1, InCurrentIs
    <3> QED BY <1>6, <2>3, <2>4, <3>2 DEF NextDest, ps
  <2>5. CASE "ppmd" \notin level
    <3>1. InCurrent(Append(ps, <<>>), BlockFields(n)) = Append(ps, <<>> \o BlockFields(n))
      BY <1>1, <2>2, InCurrentIs
    <3> QED BY <1>6, <2>3, <2>5, <3>1 DEF NextDest, ps
  <2> QED BY <2>4, <2>5
<1> QED BY <1>4, <1>5, <1>6

LEMMA FieldsAppended ==
    ASSUME NEW P, NEW p \in Seq(P), NEW f \in P, NEW g \in P
    PROVE  p \o <<f>> = Append(p, f) /\ p \o <<f, g>> = Append(Append(p, f), g)
<1>1. p \o <<f>> = Append(p, f)
  BY AppendIsConcat
<1>2. Append(p, f) \in Seq(P)
  BY AppendProperties
<1>3. Append(Append(p, f), g) = (p \o <<f>>) \o <<g>>
  BY <1>1, <1>2, AppendIsConcat
<1>4. <<f>> \in Seq(P) /\ <<g>> \in Seq(P) /\ <<f>> \o <<g>> = <<f, g>>
  <2>1. <<f>> \in Seq(P) /\ <<g>> \in Seq(P) /\ Len(<<f>>) = 1 /\ <<f>>[1] = f
    OBVIOUS
  <2>3. /\ Append(<<f>>, g) \in Seq(P) /\ Len(Append(<<f>>, g)) = 2
        /\ Append(<<f>>, g)[1] = f /\ Append(<<f>>, g)[2] = g
    BY <2>1, AppendProperties
  <2>4. /\ <<f, g>> \in Seq(P) /\ Len(<<f, g>>) = 2
        /\ <<f, g>>[1] = f /\ <<f, g>>[2] = g
    OBVIOUS
  <2>5. \A i \in 1 .. 2 : Append(<<f>>, g)[i] = <<f, g>>[i]
    <3>1. 1 .. 2 = {1, 2}
      OBVIOUS
    <3> QED BY <3>1, <2>3, <2>4
  <2>6. Append(<<f>>, g) = <<f, g>>
    BY <2>3, <2>4, <2>5, SeqEqual
  <2>2. Append(<<f>>, g) = <<f>> \o <<g>>
    BY <2>1, AppendIsConcat
  <2> QED BY <2>1, <2>2, <2>6
<1>5. (p \o <<f>>) \o <<g>> = p \o (<<f>> \o <<g>>)
  BY <1>4, ConcatAssociative
<1> QED BY <1>1, <1>3, <1>4, <1>5

LEMMA TwoAppended ==
    ASSUME NEW P, NEW p \in Seq(P), NEW f \in P, NEW g \in P
    PROVE  /\ TotalBytes(p \o <<f>>) = TotalBytes(p) + f.bytes
           /\ TotalBytes(p \o <<f, g>>) = TotalBytes(p) + f.bytes + g.bytes
<1>1. Append(p, f) \in Seq(P)
  BY AppendProperties
<1>2. /\ TotalBytes(Append(p, f)) = TotalBytes(p) + f.bytes
      /\ TotalBytes(Append(Append(p, f), g)) = TotalBytes(Append(p, f)) + g.bytes
  BY <1>1, BytesAppended
<1>3. p \o <<f>> = Append(p, f) /\ p \o <<f, g>> = Append(Append(p, f), g)
  BY FieldsAppended
<1> HIDE DEF TotalBytes
<1> QED BY <1>2, <1>3

-----------------------------------------------------------------------------
(* The room in the packets.  The last one has no level of another. *)
Moved(ps, i) == IF i = 1 /\ "ppmd" \in level THEN Len(ps) - 1 ELSE 0
AllFit(ps)   == \A i \in 1 .. Len(ps) : TotalBytes(ps[i]) - Moved(ps, i) < Limit
RoomAtEnd(p) == IF Compresses THEN TotalBytes(p) + 2 < Limit ELSE p = <<>>

RowFits(r) == \A i \in 1 .. Len(r) :
                 TotalBytes(r[i]) - (IF i = 1 /\ "ppmd" \in level THEN Len(r) ELSE 0) < Limit

LEMMA AllFitIs ==
    ASSUME NEW P, NEW r \in Seq(P), NEW p \in P,
           TotalBytes(p) \in Int, Limit \in Nat
    PROVE  AllFit(Append(r, p)) <=> RowFits(r) /\ TotalBytes(p) < Limit
<1> DEFINE ps == Append(r, p)
<1>1. /\ Len(ps) = Len(r) + 1 /\ Len(r) \in Nat /\ ps[Len(r) + 1] = p
      /\ \A i \in 1 .. Len(r) : ps[i] = r[i]
  BY AppendProperties, LenProperties
<1> HIDE DEF ps
<1>2. Moved(ps, Len(r) + 1) = 0
  BY <1>1 DEF Moved
<1>3. \A i \in 1 .. Len(r) : Moved(ps, i) = IF i = 1 /\ "ppmd" \in level THEN Len(r) ELSE 0
  BY <1>1 DEF Moved
<1>4. 1 .. Len(ps) = (1 .. Len(r)) \cup {Len(r) + 1}
  BY <1>1
<1>5. AllFit(ps) <=> /\ \A i \in 1 .. Len(r) : TotalBytes(ps[i]) - Moved(ps, i) < Limit
                     /\ TotalBytes(ps[Len(r) + 1]) - Moved(ps, Len(r) + 1) < Limit
  BY <1>4, Zenon DEF AllFit
<1>6. TotalBytes(p) - 0 = TotalBytes(p)
  OBVIOUS
<1>7. RowFits(r) <=> \A i \in 1 .. Len(r) : TotalBytes(ps[i]) - Moved(ps, i) < Limit
  BY <1>1, <1>3 DEF RowFits
<1>8. TotalBytes(ps[Len(r) + 1]) - Moved(ps, Len(r) + 1) < Limit <=> TotalBytes(p) < Limit
  BY <1>1, <1>2, <1>6
<1>9. AllFit(ps) <=> RowFits(r) /\ TotalBytes(p) < Limit
  BY <1>5, <1>7, <1>8
<1> QED BY <1>9 DEF ps

LEMMA NewRow ==
    ASSUME NEW T, LevelByte \in FieldsOf(T), Limit \in Nat,
           NEW ps \in Seq(Seq(FieldsOf(T))), ps # <<>>, AllFit(ps)
    PROVE  IF "ppmd" \in level THEN RowFits(InFront(ps)) ELSE RowFits(ps)
<1> DEFINE P == FieldsOf(T)
<1>1. \A f \in P : f.bytes \in Nat
  BY DEF FieldsOf
<1>2. ps \in Seq(Seq(P)) /\ LevelByte \in P
  BY DEF P
<1> HIDE DEF P
<1>3. Len(ps) \in Nat \ {0} /\ 1 \in 1 .. Len(ps)
  BY <1>2, EmptySeq
<1>4. \A i \in 1 .. Len(ps) : ps[i] \in Seq(P) /\ TotalBytes(ps[i]) \in Nat
  <2> TAKE i \in 1 .. Len(ps)
  <2>1. ps[i] \in Seq(P)
    BY <1>2
  <2> QED BY <2>1, <1>1, BytesNat
<1>5. CASE "ppmd" \in level
  <2>1. /\ Len(InFront(ps)) = Len(ps)
        /\ \A i \in 1 .. Len(ps) :
              InFront(ps)[i] = IF i = 1 THEN Append(ps[1], LevelByte) ELSE ps[i]
    BY <1>2, InFrontIs
  <2>2. TotalBytes(Append(ps[1], LevelByte)) = TotalBytes(ps[1]) + 1
    <3>1. TotalBytes(Append(ps[1], LevelByte)) = TotalBytes(ps[1]) + LevelByte.bytes
      BY <1>2, <1>3, <1>4, BytesAppended
    <3> QED BY <3>1 DEF LevelByte, Field
  <2>3. TotalBytes(ps[1]) - (Len(ps) - 1) < Limit
    BY <1>3, <1>5 DEF AllFit, Moved
  <2>4. TotalBytes(ps[1]) + 1 - Len(ps) < Limit
    BY <2>3, <1>3, <1>4
  <2> SUFFICES ASSUME NEW i \in 1 .. Len(ps)
               PROVE  TotalBytes(InFront(ps)[i]) - (IF i = 1 THEN Len(ps) ELSE 0) < Limit
    BY <1>5, <2>1 DEF RowFits
  <2>5. CASE i = 1
    <3>1. InFront(ps)[1] = Append(ps[1], LevelByte)
      BY <1>3, <2>1
    <3>2. TotalBytes(Append(ps[1], LevelByte)) - Len(ps) < Limit
      BY <1>3, <1>4, <2>2, <2>4
    <3> QED BY <3>1, <3>2, <2>5
  <2>6. CASE i # 1
    <3>1. TotalBytes(ps[i]) - 0 < Limit
      BY <2>6 DEF AllFit, Moved
    <3> QED BY <2>1, <2>6, <3>1
  <2> QED BY <2>5, <2>6
<1>6. CASE "ppmd" \notin level
  BY <1>6 DEF AllFit, Moved, RowFits
<1> QED BY <1>5, <1>6

(* A flush leaves room for the end, and grows no packet beyond its limit.    *)
LEMMA FlushRoom ==
    ASSUME value \in [EntityIds -> Values], NEW T, acc.updates \in Seq(T),
           acc.bytes \in 3 .. Limit - 1, acc.bytes + Reserved < Limit,
           NEW n \in CompressedSizes(acc.bytes),
           packets \in Seq(Seq(FieldsOf(T))), packets # <<>>,
           AllFit(packets), RoomAtEnd(packets[Len(packets)])
    PROVE  \E s \in Seq(Seq(FieldsOf(T))), q \in Seq(FieldsOf(T)) :
              /\ Flush(n) = Append(s, q) /\ RoomAtEnd(q) /\ AllFit(Append(s, q))
<1> DEFINE P == FieldsOf(T)
<1>0. PICK r \in Seq(Seq(FieldsOf(T))), p \in Seq(FieldsOf(T)) : packets = Append(r, p)
  BY LastPacket
<1>1. /\ n \in 1 .. acc.bytes - 1
      /\ Block(n, acc.updates) \in FieldsOf(T) /\ BlockFields(n) \in Seq(FieldsOf(T))
      /\ Block(acc.bytes - 2, acc.updates) \in FieldsOf(T) /\ WholeOf \in Seq(FieldsOf(T))
  BY FlushedFields
<1>2. /\ ~ Compresses => Flush(n) = Append(Append(r, p \o WholeOf), <<>>)
      /\ Compresses /\ Fits(p, n) => Flush(n) = Append(r, p \o BlockFields(n))
      /\ Compresses /\ ~ Fits(p, n) =>
            Flush(n) =
               IF "ppmd" \in level
               THEN Append(InFront(Append(r, p \o <<ZeroEnd>>)),
                           <<Begin("compressed")>> \o BlockFields(n))
               ELSE Append(Append(r, p \o <<ZeroEnd>>), <<>> \o BlockFields(n))
  BY <1>0, FlushIs
<1>3. /\ r \in Seq(Seq(P)) /\ p \in Seq(P) /\ <<>> \in Seq(P)
      /\ BlockFields(n) \in Seq(P) /\ WholeOf \in Seq(P)
      /\ Block(n, acc.updates) \in P /\ Block(acc.bytes - 2, acc.updates) \in P
      /\ SizeField \in P /\ ZeroEnd \in P /\ LevelByte \in P
      /\ Begin("compressed") \in P /\ Begin("updates") \in P
  BY <1>1, FieldTypes, EmptySeq
<1>4. \A f \in P : f.bytes \in Nat
  BY DEF FieldsOf
<1>5. /\ packets[Len(packets)] = p
  BY <1>0, AppendProperties, LenProperties
<1>6. Limit \in Nat /\ acc.bytes \in Nat /\ acc.bytes >= 3 /\ acc.bytes + 5 < Limit /\ n \in Nat
  <2>1. Limit \in Nat
    BY LimitIsLarge
  <2>2. acc.bytes \in Nat /\ acc.bytes >= 3
    BY <2>1
  <2>3. n \in Nat
    BY <1>1, <2>2
  <2> QED BY <2>1, <2>2, <2>3 DEF Reserved
<1> SUFFICES \E s \in Seq(Seq(P)), q \in Seq(P) :
                 Flush(n) = Append(s, q) /\ RoomAtEnd(q) /\ AllFit(Append(s, q))
  BY DEF P
<1>l. LevelByte \in FieldsOf(T)
  BY <1>3 DEF P
<1>p. P = FieldsOf(T)
  BY DEF P
<1> HIDE DEF P
<1>7. \A t \in Seq(P) : TotalBytes(t) \in Nat
  BY <1>4, BytesNat
<1>a. \A rr \in Seq(Seq(P)), t \in Seq(P) : Append(rr, t) \in Seq(Seq(P)) /\ Append(rr, t) # <<>>
  BY AppendProperties
<1>b. \A t \in Seq(P), f \in P, g \in P :
         /\ TotalBytes(t \o <<f>>) = TotalBytes(t) + f.bytes
         /\ TotalBytes(t \o <<f, g>>) = TotalBytes(t) + f.bytes + g.bytes
  BY TwoAppended
<1>8. TotalBytes(p) \in Nat
  BY <1>3, <1>7
<1>9. RowFits(r) /\ TotalBytes(p) < Limit
  BY <1>0, <1>3, <1>6, <1>8, AllFitIs
<1>10. /\ SizeField.bytes = 2 /\ ZeroEnd.bytes = 2 /\ Block(n, acc.updates).bytes = n
       /\ Begin("compressed").bytes = 2 /\ Begin("updates").bytes = 2
       /\ Block(acc.bytes - 2, acc.updates).bytes = acc.bytes - 2
  BY DEF SizeField, ZeroEnd, Block, Begin, Field
<1>11. \A t \in Seq(P) :
          /\ TotalBytes(t \o BlockFields(n)) = TotalBytes(t) + 2 + n
          /\ TotalBytes(t \o WholeOf) = TotalBytes(t) + 2 + (acc.bytes - 2)
          /\ TotalBytes(t \o <<ZeroEnd>>) = TotalBytes(t) + 2
          /\ t \o BlockFields(n) \in Seq(P) /\ t \o WholeOf \in Seq(P)
          /\ t \o <<ZeroEnd>> \in Seq(P)
  <2> TAKE t \in Seq(P)
  <2>1. TotalBytes(t \o BlockFields(n)) = TotalBytes(t) + 2 + n
    <3>1. TotalBytes(t \o <<SizeField, Block(n, acc.updates)>>)
            = TotalBytes(t) + SizeField.bytes + Block(n, acc.updates).bytes
      BY <1>3, <1>b, Zenon
    <3> QED BY <3>1, <1>10 DEF BlockFields
  <2>2. TotalBytes(t \o WholeOf) = TotalBytes(t) + 2 + (acc.bytes - 2)
    <3>1. TotalBytes(t \o <<Begin("updates"), Block(acc.bytes - 2, acc.updates)>>)
            = TotalBytes(t) + Begin("updates").bytes + Block(acc.bytes - 2, acc.updates).bytes
      BY <1>3, <1>b, Zenon
    <3> QED BY <3>1, <1>10 DEF WholeOf
  <2>3. TotalBytes(t \o <<ZeroEnd>>) = TotalBytes(t) + 2
    <3>1. TotalBytes(t \o <<ZeroEnd>>) = TotalBytes(t) + ZeroEnd.bytes
      BY <1>3, <1>b, Zenon
    <3> QED BY <3>1, <1>10
  <2>4. <<ZeroEnd>> \in Seq(P)
    BY <1>3
  <2>5. t \o BlockFields(n) \in Seq(P) /\ t \o WholeOf \in Seq(P) /\ t \o <<ZeroEnd>> \in Seq(P)
    BY <1>3, <2>4, ConcatProperties
  <2> QED BY <2>1, <2>2, <2>3, <2>5
<1>12. CASE ~ Compresses
  <2> DEFINE t == p \o WholeOf
             ps == Append(r, t)
  <2>1. p = <<>> /\ TotalBytes(p) = 0
    BY <1>5, <1>12, NoBytes DEF RoomAtEnd
  <2>2. t \in Seq(P) /\ TotalBytes(t) \in Nat /\ TotalBytes(t) < Limit
    <3>1. t \in Seq(P) /\ TotalBytes(t) = TotalBytes(p) + 2 + (acc.bytes - 2)
      BY <1>3, <1>11
    <3> HIDE DEF t
    <3> QED BY <1>6, <2>1, <3>1
  <2> HIDE DEF t
  <2>3. AllFit(ps)
    BY <1>3, <1>6, <1>9, <2>2, AllFitIs
  <2>4. ps \in Seq(Seq(P)) /\ ps # <<>>
    BY <1>3, <2>2, <1>a
  <2> HIDE DEF ps
  <2>5. "ppmd" \notin level
    BY <1>12 DEF Compresses
  <2>6. RowFits(ps)
    BY <1>l, <1>p, <1>6, <2>3, <2>4, <2>5, NewRow
  <2>7. AllFit(Append(ps, <<>>))
    <3>1. TotalBytes(<<>>) \in Int /\ TotalBytes(<<>>) < Limit
      BY <1>6, NoBytes
    <3> QED BY <1>3, <1>6, <2>4, <2>6, <3>1, AllFitIs
  <2>8. Flush(n) = Append(ps, <<>>)
    BY <1>2, <1>12 DEF ps, t
  <2> QED BY <1>3, <1>12, <2>4, <2>7, <2>8 DEF RoomAtEnd
<1>13. CASE Compresses /\ Fits(p, n)
  <2> DEFINE t == p \o BlockFields(n)
  <2>1. TotalBytes(p) + n + 5 < Limit
    BY <1>13 DEF Fits, Reserved
  <2>2. t \in Seq(P) /\ TotalBytes(t) \in Nat /\ TotalBytes(t) + 2 < Limit
    <3>1. t \in Seq(P) /\ TotalBytes(t) = TotalBytes(p) + 2 + n
      BY <1>3, <1>11
    <3> HIDE DEF t
    <3> DEFINE k == TotalBytes(t)
               m == TotalBytes(p)
    <3>2. k = m + 2 + n /\ m \in Nat /\ m + n + 5 < Limit
      BY <1>8, <2>1, <3>1
    <3> HIDE DEF k, m
    <3>3. k \in Nat /\ k + 2 < Limit
      BY <1>6, <3>2
    <3> QED BY <3>1, <3>3 DEF k
  <2>3. Flush(n) = Append(r, t)
    BY <1>2, <1>13
  <2> HIDE DEF t
  <2>4. TotalBytes(t) < Limit
    BY <1>6, <2>2
  <2>5. AllFit(Append(r, t))
    BY <1>3, <1>6, <1>9, <2>2, <2>4, AllFitIs
  <2> QED BY <1>3, <1>13, <2>2, <2>3, <2>5 DEF RoomAtEnd
<1>14. CASE Compresses /\ ~ Fits(p, n)
  <2> DEFINE t == p \o <<ZeroEnd>>
             ps == Append(r, t)
  <2>1. TotalBytes(p) + 2 < Limit
    BY <1>5, <1>14 DEF RoomAtEnd
  <2>2. t \in Seq(P) /\ TotalBytes(t) \in Nat /\ TotalBytes(t) < Limit
    <3>1. t \in Seq(P) /\ TotalBytes(t) = TotalBytes(p) + 2
      BY <1>3, <1>11
    <3> HIDE DEF t
    <3> DEFINE k == TotalBytes(t)
               m == TotalBytes(p)
    <3>2. k = m + 2 /\ m \in Nat /\ m + 2 < Limit
      BY <1>8, <2>1, <3>1
    <3> HIDE DEF k, m
    <3>3. k \in Nat /\ k < Limit
      BY <1>6, <3>2
    <3> QED BY <3>1, <3>3 DEF k
  <2> HIDE DEF t
  <2>3. AllFit(ps)
    BY <1>3, <1>6, <1>9, <2>2, AllFitIs
  <2>4. ps \in Seq(Seq(P)) /\ ps # <<>>
    BY <1>3, <2>2, <1>a
  <2> HIDE DEF ps
  <2>5. IF "ppmd" \in level THEN RowFits(InFront(ps)) ELSE RowFits(ps)
    BY <1>l, <1>p, <1>6, <2>3, <2>4, NewRow
  <2> DEFINE s == IF "ppmd" \in level THEN InFront(ps) ELSE ps
             b == IF "ppmd" \in level THEN <<Begin("compressed")>> ELSE <<>>
             q == b \o BlockFields(n)
  <2>6. s \in Seq(Seq(P)) /\ RowFits(s)
    BY <1>3, <2>4, <2>5, InFrontIs
  <2>7. b \in Seq(P) /\ TotalBytes(b) \in Nat /\ TotalBytes(b) <= 2
    <3>1. CASE "ppmd" \in level
      <4>1. <<>> \o <<Begin("compressed")>> = <<Begin("compressed")>>
        BY <1>3, FieldsAppended
      <4>2. TotalBytes(<<>> \o <<Begin("compressed")>>) = 0 + 2
        <5>1. TotalBytes(<<>> \o <<Begin("compressed")>>)
                = TotalBytes(<<>>) + Begin("compressed").bytes
          BY <1>3, <1>b, Zenon
        <5> QED BY <5>1, <1>10, NoBytes
      <4>3. <<Begin("compressed")>> \in Seq(P)
        BY <1>3
      <4>4. <<Begin("compressed")>> \in Seq(P) /\ TotalBytes(<<Begin("compressed")>>) = 2
        <5>1. <<>> \o <<Begin("compressed")>> = <<Begin("compressed")>>
          BY <4>3, ConcatEmptySeq
        <5> QED BY <5>1, <4>2, <4>3
      <4>5. b = <<Begin("compressed")>>
        BY <3>1
      <4> QED BY <4>4, <4>5
    <3>2. CASE "ppmd" \notin level
      BY <3>2, <1>3, NoBytes
    <3> QED BY <3>1, <3>2
  <2>8. Flush(n) = Append(s, q)
    BY <1>2, <1>14 DEF ps, t
  <2> HIDE DEF s, b
  <2>9. q \in Seq(P) /\ TotalBytes(q) = TotalBytes(b) + 2 + n
    BY <1>11, <2>7
  <2> HIDE DEF q
  <2>10. n <= acc.bytes - 1
    BY <1>1, <1>6
  <2> DEFINE k == TotalBytes(q)
             m == TotalBytes(b)
             c == acc.bytes
  <2>k. k = m + 2 + n /\ m \in Nat /\ m <= 2 /\ c \in Nat /\ c + 5 < Limit /\ n <= c - 1
    BY <1>6, <2>7, <2>9, <2>10
  <2> HIDE DEF k, m, c
  <2>l. k \in Nat /\ k + 2 < Limit /\ k < Limit
    BY <2>k, <1>6
  <2>11. TotalBytes(q) \in Nat /\ TotalBytes(q) + 2 < Limit /\ TotalBytes(q) < Limit
    BY <2>l DEF k
  <2>12. AllFit(Append(s, q))
    BY <1>3, <1>6, <2>6, <2>9, <2>11, AllFitIs
  <2> QED BY <1>14, <2>6, <2>8, <2>9, <2>11, <2>12 DEF RoomAtEnd
<1> QED BY <1>12, <1>13, <1>14

-----------------------------------------------------------------------------
(* The cache. *)
LEMMA CountUp ==
    ASSUME NEW d \in Nat \ {0}, NEW q \in 0 .. d - 1
    PROVE  (q + 1) % d = IF q + 1 = d THEN 0 ELSE q + 1
<1>1. CASE q + 1 = d
  <2>1. 0 \in 0 .. d - 1 /\ 1 \in Nat
    OBVIOUS
  <2>2. (1 * d + 0) % d = 0
    BY <2>1, DivModUnique
  <2>3. 1 * d + 0 = d
    OBVIOUS
  <2> QED BY <1>1, <2>2, <2>3
<1>2. CASE q + 1 # d
  <2>1. q + 1 \in 0 .. d - 1 /\ 0 \in Nat
    BY <1>2
  <2> DEFINE r == q + 1
  <2>2. r \in 0 .. d - 1
    BY <2>1
  <2> HIDE DEF r
  <2>3. (0 * d + r) % d = r
    BY <2>1, <2>2, DivModUnique
  <2>4. 0 * d + r = r
    BY <2>2
  <2>5. r % d = r
    BY <2>3, <2>4
  <2> QED BY <1>2, <2>5 DEF r
<1> QED BY <1>1, <1>2

LEMMA CountType ==
    ASSUME value \in [EntityIds -> Values], NEW entry \in Entries, NEW u
    PROVE  /\ CountEqual(entry, u) \in 0 .. EqValues - 1
           /\ entry.update # u => CountEqual(entry, u) = 0
           /\ entry.update = u => CountEqual(entry, u) \in {0, entry.eq + 1}
<1>1. EqValues \in Nat \ {0} /\ entry.eq \in 0 .. EqValues - 1
  BY LimitIsLarge DEF Entries
<1>2. (entry.eq + 1) % EqValues = IF entry.eq + 1 = EqValues THEN 0 ELSE entry.eq + 1
  BY <1>1, CountUp
<1> QED BY <1>1, <1>2 DEF CountEqual

LEMMA EntryBytesType ==
    ASSUME cache \in [Slots -> Entries], NEW i \in Slots
    PROVE  EntryBytes(i) \in Nat /\ cache[i].age \in 0 .. CacheSize
<1>1. cache[i].update \in Updates \cup {NoUpdate} /\ cache[i].age \in 0 .. CacheSize
  BY DEF Entries
<1>2. CASE cache[i].update = NoUpdate
  BY <1>1, <1>2 DEF EntryBytes
<1>3. CASE cache[i].update # NoUpdate
  <2>1. cache[i].update.state \in Nat
    BY <1>1, <1>3, ValuesAssumption DEF Updates
  <2> QED BY <1>1, <1>3, <2>1 DEF EntryBytes, UpdateBytes
<1> QED BY <1>2, <1>3

LEMMA MostExpiredIs ==
    ASSUME value \in [EntityIds -> Values], cache \in [Slots -> Entries]
    PROVE  MostExpired \in Slots
<1>1. CacheSize \in Nat /\ 1 \in Slots /\ Slots \subseteq Nat
  BY LimitIsLarge DEF Slots
<1>2. \A i \in Slots : EntryBytes(i) \in Nat /\ cache[i].age \in Nat /\ cache[i].age <= CacheSize
  BY <1>1, EntryBytesType
<1> DEFINE youth(i) == CacheSize - cache[i].age
           Y == {youth(i) : i \in Slots}
<1>3. Y \subseteq Nat /\ Y # {}
  BY <1>1, <1>2
<1>4. PICK y \in Y : \A z \in Y : y <= z
  BY <1>3, LeastOf
<1>5. PICK o \in Slots : y = youth(o)
  BY <1>4
<1>6. \A j \in Slots : cache[j].age <= cache[o].age
  <2> TAKE j \in Slots
  <2>1. youth(o) <= youth(j)
    BY <1>4, <1>5
  <2> QED BY <1>1, <1>2, <2>1
<1> DEFINE O == {i \in Slots : cache[i].age = cache[o].age}
           B == {EntryBytes(i) : i \in O}
<1>7. B \subseteq Nat /\ B # {}
  BY <1>2, <1>5
<1>8. PICK b \in B : \A c \in B : b <= c
  BY <1>7, LeastOf
<1>9. PICK m \in O : b = EntryBytes(m)
  BY <1>8
<1>10. \A j \in Slots : ~ Expires(j, m)
  <2> TAKE j \in Slots
  <2>1. m \in Slots /\ cache[m].age = cache[o].age
    BY <1>9
  <2>2. ~ (cache[j].age > cache[m].age)
    BY <1>2, <1>6, <2>1
  <2>3. cache[j].age = cache[m].age => EntryBytes(m) <= EntryBytes(j)
    BY <1>8, <1>9, <2>1
  <2>4. cache[j].age = cache[m].age => ~ (EntryBytes(j) < EntryBytes(m))
    BY <2>1, <2>3, <1>2
  <2> QED BY <2>2, <2>4 DEF Expires
<1> DEFINE S == {i \in Slots : \A j \in Slots : ~ Expires(j, i)}
<1>11. S \in SUBSET Nat /\ S # {} /\ S \subseteq Slots
  BY <1>1, <1>9, <1>10
<1> HIDE DEF S
<1>12. Min(S) \in Slots
  BY <1>11, LeastIs
<1> QED BY <1>12 DEF S, MostExpired

LEMMA SlotForIs ==
    ASSUME value \in [EntityIds -> Values], cache \in [Slots -> Entries], NEW e, NEW u
    PROVE  /\ SlotFor(e, u) = {} \/ \E k \in Slots : /\ SlotFor(e, u) = {k}
                                                     /\ Min(SlotFor(e, u)) = k
           /\ SearchEntity(e) # {} =>
                 \E k \in SearchEntity(e) : /\ SlotFor(e, u) = {k}
                                            /\ \A i \in SearchEntity(e) : k <= i
<1>1. SearchEntity(e) \subseteq Slots /\ Slots \subseteq Nat
  BY LimitIsLarge DEF SearchEntity, Slots
<1>2. \A k \in Slots : Min({k}) = k
  <2> TAKE k \in Slots
  <2>1. {k} \in SUBSET Nat /\ {k} # {}
    BY <1>1
  <2> QED BY <2>1, LeastIs
<1>3. CASE SearchEntity(e) # {}
  <2>1. /\ Min(SearchEntity(e)) \in SearchEntity(e)
        /\ \A i \in SearchEntity(e) : Min(SearchEntity(e)) <= i
    BY <1>1, <1>3, LeastIs
  <2>2. SlotFor(e, u) = {Min(SearchEntity(e))}
    BY <1>3 DEF SlotFor
  <2> QED BY <1>1, <1>2, <2>1, <2>2
<1>4. CASE SearchEntity(e) = {}
  <2>1. SlotFor(e, u) \subseteq {MostExpired} /\ MostExpired \in Slots
    BY <1>4, MostExpiredIs DEF SlotFor
  <2> QED BY <1>2, <1>4, <2>1
<1> QED BY <1>3, <1>4

LEMMA AddUpdateIs ==
    ASSUME value \in [EntityIds -> Values], cache \in [Slots -> Entries],
           NEW e \in EntityIds, NEW u \in Updates, AddUpdate(e, u)
    PROVE  /\ cache' \in [Slots -> Entries]
           /\ \A i \in Slots :
                 cache'[i] = IF i \in SlotFor(e, u)
                             THEN [id |-> e, eq |-> CountEqual(cache[i], u), age |-> 0,
                                   update |-> u]
                             ELSE cache[i]
<1>1. \A i \in Slots : [id |-> e, eq |-> CountEqual(cache[i], u), age |-> 0,
                        update |-> u] \in Entries
  <2> TAKE i \in Slots
  <2>1. CountEqual(cache[i], u) \in 0 .. EqValues - 1
    BY CountType
  <2>2. 0 \in 0 .. CacheSize
    BY LimitIsLarge
  <2> QED BY <2>1, <2>2 DEF Entries
<1> QED BY <1>1 DEF AddUpdate

LEMMA AgedType ==
    ASSUME value \in [EntityIds -> Values], cache \in [Slots -> Entries]
    PROVE  /\ Aged \in [Slots -> Entries]
           /\ \A i \in Slots : /\ Aged[i].age > 0 /\ Aged[i].id = cache[i].id
                               /\ Aged[i].eq = cache[i].eq /\ Aged[i].update = cache[i].update
<1>1. CacheSize \in Nat
  BY LimitIsLarge
<1> DEFINE A == {cache[j].age : j \in Slots}
           f == [j \in Slots |-> cache[j].age]
<1>2. IsFiniteSet(Slots) /\ Cardinality(Slots) = CacheSize
  <2>1. 1 \in Int /\ CacheSize \in Int /\ CacheSize >= 1
    BY LimitIsLarge
  <2> QED BY <2>1, FS_Interval DEF Slots
<1>3. IsFiniteSet(A) /\ Cardinality(A) <= CacheSize
  <2>1. f \in Surjection(Slots, A)
    BY DEF Surjection
  <2> QED BY <1>2, <2>1, FS_Surjection
<1>4. ASSUME NEW i \in Slots
      PROVE  1 + Cardinality({a \in A : a < cache[i].age}) \in 1 .. CacheSize
  <2> DEFINE O == {a \in A : a < cache[i].age}
  <2>1. O \in SUBSET A /\ cache[i].age \in A
    OBVIOUS
  <2>2. cache[i].age \notin O
    BY EntryBytesType
  <2> HIDE DEF O, A
  <2>3. IsFiniteSet(O) /\ Cardinality(O) <= Cardinality(A) /\ Cardinality(O) # Cardinality(A)
    BY <1>3, <2>1, <2>2, FS_Subset
  <2>4. Cardinality(O) \in Nat /\ Cardinality(A) \in Nat
    BY <1>3, <2>3, FS_CardinalityType
  <2>5. 1 + Cardinality(O) \in 1 .. CacheSize
    BY <1>1, <1>3, <2>3, <2>4
  <2> QED BY <2>5 DEF O
<1>5. Aged = [i \in Slots |-> [cache[i] EXCEPT !.age =
                                 1 + Cardinality({a \in A : a < cache[i].age})]]
  BY DEF Aged
<1> HIDE DEF A
<1>6. ASSUME NEW i \in Slots
      PROVE  /\ Aged[i] \in Entries /\ Aged[i].age > 0 /\ Aged[i].id = cache[i].id
             /\ Aged[i].eq = cache[i].eq /\ Aged[i].update = cache[i].update
  <2> DEFINE n == 1 + Cardinality({a \in A : a < cache[i].age})
  <2>1. n \in 0 .. CacheSize /\ n > 0
    BY <1>1, <1>4
  <2>2. Aged[i] = [cache[i] EXCEPT !.age = n]
    BY <1>5
  <2> HIDE DEF n
  <2> QED BY <2>1, <2>2 DEF Entries
<1> QED BY <1>5, <1>6

-----------------------------------------------------------------------------
(* Types and room: each action. *)
RoomOK ==
    /\ AllFit(packets)
    /\ stage = "write" => /\ acc.bytes + Reserved < Limit
                          /\ acc.bytes <= 2 => acc.updates = <<>>
                          /\ RoomAtEnd(packets[Len(packets)])
PacketsInv == UpdatesOK /\ RoomOK

LEMMA InitPacketsInv == UpdatesInit => PacketsInv
<1> SUFFICES ASSUME UpdatesInit PROVE PacketsInv
  OBVIOUS
<1>1. value \in [EntityIds -> Values]
  BY DEF UpdatesInit
<1>2. ServerOK
  <2>1. EmptyEntry \in Entries
    <3>1. 0 \in EntityIds /\ 0 \in 0 .. EqValues - 1 /\ 1 \in 0 .. CacheSize
      BY <1>1, LimitIsLarge DEF EntityIds
    <3> QED BY <3>1 DEF EmptyEntry, Entries
  <2> QED BY <1>1, <2>1 DEF UpdatesInit, ServerOK
<1>3. ClientOK
  <2>1. 0 \in 0 .. MaxEq
    BY <1>1, LimitIsLarge
  <2> QED BY <1>1, <2>1 DEF UpdatesInit, ClientOK
<1>4. PassOK
  <2>1. 0 \in 0 .. Limit - 1 /\ 0 \in 0 .. Entities
    BY <1>1, LimitIsLarge
  <2>2. \A S : <<>> \in Seq(S)
    BY EmptySeq
  <2> QED BY <2>1, <2>2 DEF UpdatesInit, PassOK
<1>5. RoomOK
  <2>1. Len(<<>>) = 0 /\ 1 .. 0 = {}
    OBVIOUS
  <2> QED BY <2>1 DEF UpdatesInit, RoomOK, AllFit
<1> QED BY <1>2, <1>3, <1>4, <1>5 DEF PacketsInv, UpdatesOK

(* What neither the level, the packets, nor their stage notices. *)
LEMMA RoomStays ==
    RoomOK /\ UNCHANGED <<level, acc, packets, stage>> => RoomOK'
<1> SUFFICES ASSUME RoomOK, UNCHANGED <<level, acc, packets, stage>> PROVE RoomOK'
  OBVIOUS
<1>1. AllFit(packets)'
  BY DEF RoomOK, AllFit, Moved
<1>2. Compresses' <=> Compresses
  BY DEF Compresses
<1>3. RoomAtEnd(packets[Len(packets)])' <=> RoomAtEnd(packets[Len(packets)])
  BY <1>2 DEF RoomAtEnd
<1> QED BY <1>1, <1>3 DEF RoomOK

LEMMA IdlePackets ==
    ASSUME PacketsInv, NEW e \in EntityIds, Change(e) \/ Join PROVE PacketsInv'
<1>1. /\ UNCHANGED <<level, cache, acc, packets, stage, next, written, withheld>>
  BY DEF Change, Join
<1>2. PassOK'
  BY <1>1 DEF PacketsInv, UpdatesOK, PassOK
<1>3. RoomOK'
  BY <1>1, RoomStays DEF PacketsInv
<1>4. ServerOK'
  <2>1. value' \in [EntityIds -> Values]
    BY DEF Change, Join, PacketsInv, UpdatesOK, ServerOK
  <2> QED BY <1>1, <2>1 DEF PacketsInv, UpdatesOK, ServerOK
<1>5. ClientOK'
  <2>1. 0 \in 0 .. MaxEq /\ MaxEq \in 0 .. MaxEq
    BY LimitIsLarge DEF PacketsInv, UpdatesOK, ServerOK
  <2>2. CASE Change(e)
    BY <2>2 DEF Change, client, PacketsInv, UpdatesOK, ClientOK
  <2>3. CASE Join
    BY <2>1, <2>3 DEF Join, PacketsInv, UpdatesOK, ServerOK, ClientOK
  <2> QED BY <2>2, <2>3
<1> QED BY <1>2, <1>3, <1>4, <1>5 DEF PacketsInv, UpdatesOK

LEMMA BeginPackets == PacketsInv /\ BeginUpdates => PacketsInv'
<1> SUFFICES ASSUME PacketsInv, BeginUpdates PROVE PacketsInv'
  OBVIOUS
<1>1. value \in [EntityIds -> Values] /\ cache \in [Slots -> Entries]
  BY DEF PacketsInv, UpdatesOK, ServerOK
<1>2. /\ stage' = "write" /\ next' = 0 /\ written' = written /\ withheld' = withheld
      /\ level' \in Levels /\ view' = view /\ missed' = missed /\ value' = value
      /\ cache' = Aged /\ stage = "idle"
  BY DEF BeginUpdates, client
<1>3. ServerOK'
  BY <1>1, <1>2, AgedType DEF ServerOK
<1>4. ClientOK'
  BY <1>2 DEF PacketsInv, UpdatesOK, ClientOK
<1> DEFINE T == ToSet(written)
           b == IF Compresses' THEN <<Begin("compressed"), LevelByte>> ELSE <<>>
<1>5. packets' = <<b>>
  BY DEF BeginUpdates
<1>6. /\ b \in Seq(FieldsOf(T)) /\ TotalBytes(b) \in Nat /\ TotalBytes(b) <= 3
      /\ ~ Compresses' => b = <<>>
  <2>1. /\ Begin("compressed") \in FieldsOf(T) /\ LevelByte \in FieldsOf(T)
        /\ <<>> \in Seq(FieldsOf(T))
    BY <1>1, FieldTypes, EmptySeq
  <2>2. <<Begin("compressed"), LevelByte>> \in Seq(FieldsOf(T))
    BY <2>1
  <2>3. <<>> \o <<Begin("compressed"), LevelByte>> = <<Begin("compressed"), LevelByte>>
    BY <2>2, ConcatEmptySeq
  <2>4. TotalBytes(<<>> \o <<Begin("compressed"), LevelByte>>)
          = TotalBytes(<<>>) + Begin("compressed").bytes + LevelByte.bytes
    BY <2>1, TwoAppended
  <2>5. Begin("compressed").bytes = 2 /\ LevelByte.bytes = 1
    BY DEF Begin, LevelByte, Field
  <2>6. TotalBytes(<<Begin("compressed"), LevelByte>>) = 3
    BY <2>3, <2>4, <2>5, NoBytes
  <2>7. CASE Compresses'
    BY <2>2, <2>6, <2>7
  <2>8. CASE ~ Compresses'
    BY <2>1, <2>8, NoBytes
  <2> QED BY <2>7, <2>8
<1>7. Limit \in Nat /\ Limit > 10 /\ Entities \in Nat
  BY <1>1, LimitIsLarge
<1>8. acc' = [bytes |-> IF Compresses' THEN 0 ELSE 2, updates |-> <<>>]
  BY DEF BeginUpdates, EmptyAcc
<1> HIDE DEF b, T
<1>9. PassOK'
  <2>1. acc' \in [bytes : 0 .. Limit - 1, updates : Seq(ToSet(written'))]
    <3>1. 0 \in 0 .. Limit - 1 /\ 2 \in 0 .. Limit - 1 /\ <<>> \in Seq(ToSet(written'))
      BY <1>7, EmptySeq
    <3> QED BY <1>8, <3>1
  <2>2. packets' \in Seq(Seq(FieldsOf(ToSet(written')))) /\ packets' # <<>>
    <3>1. <<b>> \in Seq(Seq(FieldsOf(T))) /\ <<b>> # <<>>
      BY <1>6
    <3> QED BY <1>2, <1>5, <3>1 DEF T
  <2>3. next' \in 0 .. Entities
    BY <1>2, <1>7
  <2> QED BY <1>2, <2>1, <2>2, <2>3 DEF PassOK, PacketsInv, UpdatesOK
<1>10. RoomOK'
  <2>1. Len(<<b>>) = 1 /\ <<b>>[1] = b /\ 1 .. 1 = {1}
    OBVIOUS
  <2>2. AllFit(packets)'
    <3>1. Moved(packets, 1)' = 0
      BY <1>5, <2>1 DEF Moved
    <3>2. TotalBytes(b) - 0 < Limit
      BY <1>6, <1>7
    <3> QED BY <1>5, <2>1, <3>1, <3>2 DEF AllFit
  <2>3. RoomAtEnd(packets[Len(packets)])'
    <3>1. packets'[Len(packets')] = b
      BY <1>5, <2>1
    <3>2. TotalBytes(b) + 2 < Limit
      BY <1>6, <1>7
    <3> QED BY <1>6, <3>1, <3>2 DEF RoomAtEnd
  <2>4. (acc.bytes + Reserved < Limit)' /\ acc'.updates = <<>>
    BY <1>7, <1>8 DEF Reserved
  <2> QED BY <2>2, <2>3, <2>4 DEF RoomOK
<1> QED BY <1>3, <1>4, <1>9, <1>10 DEF PacketsInv, UpdatesOK

LEMMA WriteNextTypes ==
    ASSUME PacketsInv, WriteNext
    PROVE  /\ next' \in 0 .. Entities /\ next \in EntityIds /\ ClientOK'
           /\ stage = "write" /\ stage' = stage /\ level' = level /\ value' = value
           /\ value \in [EntityIds -> Values] /\ cache \in [Slots -> Entries]
           /\ Update(next) \in Updates
<1>1. value \in [EntityIds -> Values] /\ cache \in [Slots -> Entries]
  BY DEF PacketsInv, UpdatesOK, ServerOK
<1>2. next' = next + 1 /\ next \in EntityIds
  BY DEF WriteNext
<1>3. next' \in 0 .. Entities
  BY <1>1, <1>2, LimitIsLarge DEF EntityIds
<1>4. ClientOK'
  BY DEF WriteNext, client, PacketsInv, UpdatesOK, ClientOK
<1> QED BY <1>1, <1>2, <1>3, <1>4, UpdateType DEF WriteNext

LEMMA LeftOutPackets == PacketsInv /\ (LeaveOut \/ Suppress) => PacketsInv'
<1> SUFFICES ASSUME PacketsInv, LeaveOut \/ Suppress PROVE PacketsInv'
  OBVIOUS
<1>1. WriteNext /\ UNCHANGED <<acc, packets, written>>
  BY DEF LeaveOut, Suppress
<1>2. /\ next' \in 0 .. Entities /\ next \in EntityIds /\ ClientOK'
      /\ stage = "write" /\ stage' = stage /\ level' = level /\ value' = value
      /\ value \in [EntityIds -> Values] /\ cache \in [Slots -> Entries]
      /\ Update(next) \in Updates
  BY <1>1, WriteNextTypes
<1>3. cache' \in [Slots -> Entries]
  BY <1>2, AddUpdateIs DEF LeaveOut, Suppress
<1>4. ServerOK'
  BY <1>2, <1>3 DEF PacketsInv, UpdatesOK, ServerOK
<1>5. withheld' \subseteq EntityIds
  BY <1>2 DEF LeaveOut, Suppress, PacketsInv, UpdatesOK, PassOK
<1>6. PassOK'
  BY <1>1, <1>2, <1>5 DEF PacketsInv, UpdatesOK, PassOK
<1>7. RoomOK'
  BY <1>1, <1>2, RoomStays DEF PacketsInv
<1> QED BY <1>2, <1>4, <1>6, <1>7 DEF PacketsInv, UpdatesOK

(* A flush of what has been written. *)
LEMMA FlushedOK ==
    ASSUME PacketsInv, stage = "write", acc.bytes > 2, NEW n \in CompressedSizes(acc.bytes)
    PROVE  LET P == FieldsOf(ToSet(written))
           IN  \E s \in Seq(Seq(P)), q \in Seq(P) :
                  /\ Flush(n) = Append(s, q) /\ RoomAtEnd(q) /\ AllFit(Append(s, q))
<1>1. /\ value \in [EntityIds -> Values] /\ acc.bytes \in 0 .. Limit - 1
      /\ acc.updates \in Seq(ToSet(written)) /\ acc.bytes + Reserved < Limit
      /\ packets \in Seq(Seq(FieldsOf(ToSet(written)))) /\ packets # <<>>
      /\ AllFit(packets) /\ RoomAtEnd(packets[Len(packets)])
  BY DEF PacketsInv, UpdatesOK, ServerOK, PassOK, RoomOK
<1>2. acc.bytes \in 3 .. Limit - 1
  BY <1>1, LimitIsLarge
<1> QED BY <1>1, <1>2, FlushRoom

LEMMA WritePackets == PacketsInv /\ WriteUpdateFor => PacketsInv'
<1> SUFFICES ASSUME PacketsInv, WriteUpdateFor PROVE PacketsInv'
  OBVIOUS
<1> DEFINE u == Update(next)
           k == UpdateBytes(u)
           T == ToSet(written)
           U == ToSet(Append(written, u))
<1>1. /\ next' \in 0 .. Entities /\ next \in EntityIds /\ ClientOK'
      /\ stage = "write" /\ stage' = stage /\ level' = level /\ value' = value
      /\ value \in [EntityIds -> Values] /\ cache \in [Slots -> Entries] /\ u \in Updates
  BY WriteNextTypes DEF WriteUpdateFor
<1>2. /\ written' = Append(written, u) /\ withheld' = withheld
      /\ IF Full(u)
         THEN /\ \E n \in CompressedSizes(acc.bytes) : packets' = Flush(n)
              /\ acc' = [bytes |-> EmptyAcc.bytes + k, updates |-> Append(EmptyAcc.updates, u)]
         ELSE /\ acc' = [bytes |-> acc.bytes + k, updates |-> Append(acc.updates, u)]
              /\ packets' = packets
      /\ cache' = cache \/ AddUpdate(next, u)
  BY DEF WriteUpdateFor
<1>3. k \in Nat /\ k > 3 /\ k + 7 < Limit /\ Limit \in Nat
  BY <1>1, UpdateType, LimitIsLarge
<1>4. /\ written \in Seq(Updates) /\ acc.bytes \in 0 .. Limit - 1 /\ acc.updates \in Seq(T)
      /\ packets \in Seq(Seq(FieldsOf(T))) /\ packets # <<>> /\ level \in Levels
      /\ acc.bytes + Reserved < Limit /\ AllFit(packets) /\ RoomAtEnd(packets[Len(packets)])
  BY <1>1 DEF PacketsInv, UpdatesOK, PassOK, RoomOK
<1>5. T \subseteq U /\ u \in U
  BY <1>1, <1>4, WrittenSet
<1>6. cache' \in [Slots -> Entries]
  BY <1>1, <1>2, AddUpdateIs
<1>7. ServerOK'
  BY <1>1, <1>6 DEF PacketsInv, UpdatesOK, ServerOK
<1>8. EmptyAcc.bytes \in {0, 2} /\ EmptyAcc.updates = <<>>
  BY DEF EmptyAcc
<1> HIDE DEF T, U, k, u
<1>9. acc.updates \in Seq(U) /\ <<>> \in Seq(U)
  BY <1>4, <1>5, FieldsGrow, EmptySeq
<1>10. Seq(Seq(FieldsOf(T))) \subseteq Seq(Seq(FieldsOf(U)))
  BY <1>5, FieldsGrow
<1>11. /\ acc' \in [bytes : 0 .. Limit - 1, updates : Seq(U)]
       /\ acc'.bytes + Reserved < Limit /\ acc'.bytes > 2
  <2>1. CASE Full(u)
    <3>1. Append(EmptyAcc.updates, u) \in Seq(U)
      BY <1>5, <1>8, <1>9, AppendProperties
    <3>2. /\ EmptyAcc.bytes + k \in 0 .. Limit - 1 /\ EmptyAcc.bytes + k + Reserved < Limit
          /\ EmptyAcc.bytes + k > 2
      BY <1>3, <1>8 DEF Reserved
    <3>3. acc' = [bytes |-> EmptyAcc.bytes + k, updates |-> Append(EmptyAcc.updates, u)]
      BY <1>2, <2>1
    <3>4. acc'.bytes = EmptyAcc.bytes + k /\ acc'.updates = Append(EmptyAcc.updates, u)
      BY <3>3
    <3> HIDE DEF EmptyAcc
    <3>5. acc' \in [bytes : 0 .. Limit - 1, updates : Seq(U)]
      BY <3>1, <3>2, <3>3
    <3> QED BY <3>2, <3>4, <3>5
  <2>2. CASE ~ Full(u)
    <3>1. Append(acc.updates, u) \in Seq(U)
      BY <1>5, <1>9, AppendProperties
    <3>2. ~ (acc.bytes + k + Reserved >= Limit)
      BY <2>2 DEF Full, k
    <3>3. acc.bytes \in Nat
      BY <1>3, <1>4
    <3>4. /\ acc.bytes + k \in 0 .. Limit - 1 /\ acc.bytes + k + Reserved < Limit
          /\ acc.bytes + k > 2
      BY <1>3, <3>2, <3>3 DEF Reserved
    <3>5. acc' = [bytes |-> acc.bytes + k, updates |-> Append(acc.updates, u)]
      BY <1>2, <2>2
    <3>6. acc'.bytes = acc.bytes + k /\ acc'.updates = Append(acc.updates, u)
      BY <3>5
    <3>7. acc' \in [bytes : 0 .. Limit - 1, updates : Seq(U)]
      BY <3>1, <3>4, <3>5
    <3> QED BY <3>4, <3>6, <3>7
  <2> QED BY <2>1, <2>2
<1>12. \E s \in Seq(Seq(FieldsOf(T))), q \in Seq(FieldsOf(T)) :
          packets' = Append(s, q) /\ RoomAtEnd(q) /\ AllFit(Append(s, q))
  <2>1. CASE Full(u)
    <3>1. acc.bytes > 2
      <4>1. acc.bytes + k + Reserved >= Limit /\ acc.bytes \in Nat
        BY <1>3, <1>4, <2>1 DEF Full, k
      <4> QED BY <1>3, <4>1 DEF Reserved
    <3>2. PICK n \in CompressedSizes(acc.bytes) : packets' = Flush(n)
      BY <1>2, <2>1
    <3> QED BY <1>1, <3>1, <3>2, FlushedOK DEF T
  <2>2. CASE ~ Full(u)
    <3>1. PICK s \in Seq(Seq(FieldsOf(T))), q \in Seq(FieldsOf(T)) : packets = Append(s, q)
      BY <1>4, LastPacket
    <3>2. packets[Len(packets)] = q
      BY <3>1, AppendProperties, LenProperties
    <3> QED BY <1>2, <1>4, <2>2, <3>1, <3>2
  <2> QED BY <2>1, <2>2
<1>13. PICK s \in Seq(Seq(FieldsOf(T))), q \in Seq(FieldsOf(T)) :
          packets' = Append(s, q) /\ RoomAtEnd(q) /\ AllFit(Append(s, q))
  BY <1>12
<1>14. /\ packets' \in Seq(Seq(FieldsOf(U))) /\ packets' # <<>> /\ packets'[Len(packets')] = q
  <2>1. /\ packets' \in Seq(Seq(FieldsOf(T))) /\ packets' # <<>>
        /\ packets'[Len(packets')] = q
    BY <1>13, AppendProperties, LenProperties
  <2> QED BY <1>10, <2>1
<1>15. PassOK'
  <2>1. written' \in Seq(Updates)
    BY <1>1, <1>2, <1>4, AppendProperties DEF u
  <2>2. ToSet(written') = U
    BY <1>2 DEF U
  <2> QED BY <1>1, <1>2, <1>4, <1>11, <1>14, <2>1, <2>2 DEF PassOK, PacketsInv, UpdatesOK
<1>16. RoomOK'
  <2>1. AllFit(packets')
    BY <1>13
  <2>2. AllFit(packets)'
    BY <1>1, <2>1 DEF AllFit, Moved
  <2>3. RoomAtEnd(packets[Len(packets)])'
    BY <1>1, <1>13, <1>14 DEF RoomAtEnd, Compresses
  <2> QED BY <1>3, <1>11, <2>2, <2>3 DEF RoomOK, Reserved
<1> QED BY <1>1, <1>7, <1>15, <1>16 DEF PacketsInv, UpdatesOK

LEMMA EndedOK ==
    ASSUME value \in [EntityIds -> Values], NEW T,
           NEW s \in Seq(Seq(FieldsOf(T))), NEW q \in Seq(FieldsOf(T)),
           RoomAtEnd(q), AllFit(Append(s, q))
    PROVE  \E t \in Seq(FieldsOf(T)) : /\ Ended(Append(s, q)) = Append(s, t)
                                       /\ t = IF Compresses THEN Append(q, ZeroEnd) ELSE q
                                       /\ AllFit(Append(s, t))
<1> DEFINE P == FieldsOf(T)
<1>1. /\ ZeroEnd \in P /\ s \in Seq(Seq(P)) /\ q \in Seq(P) /\ Limit \in Nat
      /\ \A f \in P : f.bytes \in Nat
  <2>1. ZeroEnd \in FieldsOf(T) /\ Limit \in Nat
    BY FieldTypes, LimitIsLarge
  <2>2. \A f \in FieldsOf(T) : f.bytes \in Nat
    BY DEF FieldsOf
  <2> QED BY <2>1, <2>2
<1>p. P = FieldsOf(T)
  OBVIOUS
<1> HIDE DEF P
<1>2. CASE Compresses
  <2> DEFINE t == Append(q, ZeroEnd)
  <2>1. t = q \o <<ZeroEnd>> /\ t \in Seq(P)
    BY <1>1, AppendIsConcat, AppendProperties
  <2>2. InCurrent(Append(s, q), <<ZeroEnd>>) = Append(s, q \o <<ZeroEnd>>)
    <3>1. <<ZeroEnd>> \in Seq(P)
      BY <1>1
    <3> QED BY <1>1, <3>1, InCurrentIs
  <2>3. TotalBytes(t) = TotalBytes(q) + 2
    <3>1. TotalBytes(t) = TotalBytes(q) + ZeroEnd.bytes
      BY <1>1, BytesAppended
    <3> QED BY <3>1 DEF ZeroEnd, Field
  <2>4. TotalBytes(q) \in Nat
    BY <1>1, BytesNat
  <2>5. TotalBytes(q) + 2 < Limit
    BY <1>2 DEF RoomAtEnd
  <2> HIDE DEF t
  <2>6. RowFits(s)
    BY <1>1, <2>4, AllFitIs
  <2>7. AllFit(Append(s, t))
    <3>1. TotalBytes(t) \in Int /\ TotalBytes(t) < Limit
      BY <2>3, <2>4, <2>5
    <3> QED BY <1>1, <2>1, <2>6, <3>1, AllFitIs
  <2>8. Ended(Append(s, q)) = Append(s, t)
    BY <1>2, <2>1, <2>2 DEF Ended
  <2> QED BY <1>2, <1>p, <2>1, <2>7, <2>8 DEF t
<1>3. CASE ~ Compresses
  BY <1>3 DEF Ended
<1> QED BY <1>2, <1>3

(* The packets before the end is written, and with it.                      *)
LEMMA EndIs ==
    ASSUME PacketsInv, EndUpdates
    PROVE  LET P == FieldsOf(ToSet(written))
           IN  \E s \in Seq(Seq(P)), q \in Seq(P), t \in Seq(P) :
                  /\ IF acc.bytes > 2
                     THEN \E n \in CompressedSizes(acc.bytes) : Flush(n) = Append(s, q)
                     ELSE packets = Append(s, q)
                  /\ packets' = Append(s, t) /\ AllFit(Append(s, t))
                  /\ t = IF Compresses THEN Append(q, ZeroEnd) ELSE q
<1> DEFINE P == FieldsOf(ToSet(written))
<1>1. /\ stage = "write" /\ value \in [EntityIds -> Values]
      /\ packets \in Seq(Seq(P)) /\ packets # <<>>
      /\ AllFit(packets) /\ RoomAtEnd(packets[Len(packets)])
  BY DEF EndUpdates, PacketsInv, UpdatesOK, ServerOK, PassOK, RoomOK
<1>2. CASE acc.bytes > 2
  <2>1. PICK n \in CompressedSizes(acc.bytes) : packets' = Ended(Flush(n))
    BY <1>2 DEF EndUpdates
  <2>2. PICK s \in Seq(Seq(P)), q \in Seq(P) :
           Flush(n) = Append(s, q) /\ RoomAtEnd(q) /\ AllFit(Append(s, q))
    BY <1>1, <1>2, FlushedOK
  <2>3. \E t \in Seq(P) : /\ Ended(Append(s, q)) = Append(s, t)
                          /\ t = IF Compresses THEN Append(q, ZeroEnd) ELSE q
                          /\ AllFit(Append(s, t))
    BY <1>1, <2>2, EndedOK
  <2> QED BY <1>2, <2>1, <2>2, <2>3
<1>3. CASE ~ (acc.bytes > 2)
  <2>1. PICK s \in Seq(Seq(P)), q \in Seq(P) : packets = Append(s, q)
    BY <1>1, LastPacket
  <2>2. packets[Len(packets)] = q
    BY <2>1, AppendProperties, LenProperties
  <2>3. \E t \in Seq(P) : /\ Ended(Append(s, q)) = Append(s, t)
                          /\ t = IF Compresses THEN Append(q, ZeroEnd) ELSE q
                          /\ AllFit(Append(s, t))
    BY <1>1, <2>1, <2>2, EndedOK
  <2>4. packets' = Ended(packets)
    BY <1>3 DEF EndUpdates
  <2> QED BY <1>3, <2>1, <2>3, <2>4
<1> QED BY <1>2, <1>3

LEMMA EndPackets == PacketsInv /\ EndUpdates => PacketsInv'
<1> SUFFICES ASSUME PacketsInv, EndUpdates PROVE PacketsInv'
  OBVIOUS
<1> DEFINE P == FieldsOf(ToSet(written))
<1>1. /\ UNCHANGED <<level, value, cache, next, written, view, missed, withheld>>
      /\ acc' = EmptyAcc /\ stage' = "made" /\ stage = "write"
  BY DEF EndUpdates, client
<1>2. PICK s \in Seq(Seq(P)), t \in Seq(P) : packets' = Append(s, t) /\ AllFit(Append(s, t))
  BY EndIs
<1>3. packets' \in Seq(Seq(P)) /\ packets' # <<>>
  BY <1>2, AppendProperties
<1>4. acc' \in [bytes : 0 .. Limit - 1, updates : Seq(ToSet(written))]
  <2>1. 0 \in 0 .. Limit - 1 /\ 2 \in 0 .. Limit - 1 /\ <<>> \in Seq(ToSet(written))
    BY LimitIsLarge, EmptySeq DEF PacketsInv, UpdatesOK, ServerOK
  <2> QED BY <1>1, <2>1 DEF EmptyAcc
<1>5. PassOK'
  BY <1>1, <1>3, <1>4 DEF PacketsInv, UpdatesOK, PassOK
<1>6. RoomOK'
  <2>1. AllFit(packets)'
    BY <1>1, <1>2 DEF AllFit, Moved
  <2> QED BY <1>1, <2>1 DEF RoomOK
<1>7. ServerOK' /\ ClientOK'
  BY <1>1 DEF PacketsInv, UpdatesOK, ServerOK, ClientOK
<1> QED BY <1>5, <1>6, <1>7 DEF PacketsInv, UpdatesOK

LEMMA SendPackets == PacketsInv /\ SendUpdatePacketsToAll => PacketsInv'
<1> SUFFICES ASSUME PacketsInv, SendUpdatePacketsToAll PROVE PacketsInv'
  OBVIOUS
<1>1. /\ level' = {} /\ packets' = <<>> /\ written' = <<>> /\ withheld' = {}
      /\ acc' = [bytes |-> 0, updates |-> <<>>]
      /\ stage' = "idle" /\ next' = 0 /\ value' = value /\ cache' = cache
  BY DEF SendUpdatePacketsToAll
<1>2. /\ value \in [EntityIds -> Values] /\ view \in [EntityIds -> Values]
      /\ missed \in [EntityIds -> 0 .. MaxEq]
  BY DEF PacketsInv, UpdatesOK, ServerOK, ClientOK
<1>3. Limit \in Nat /\ Limit > 10 /\ Entities \in Nat /\ MaxEq \in Nat
  BY <1>2, LimitIsLarge
<1>4. PassOK'
  <2>1. 0 \in 0 .. Limit - 1 /\ 0 \in 0 .. Entities
    BY <1>3
  <2>2. \A S : <<>> \in Seq(S)
    BY EmptySeq
  <2> QED BY <1>1, <2>1, <2>2 DEF PassOK
<1>5. RoomOK'
  <2>1. Len(<<>>) = 0 /\ 1 .. 0 = {}
    OBVIOUS
  <2> QED BY <1>1, <2>1 DEF RoomOK, AllFit
<1>6. ServerOK'
  BY <1>1 DEF PacketsInv, UpdatesOK, ServerOK
<1>7. ClientOK'
  <2>1. PICK lost \in SUBSET Sent :
          LET got  == UNION {ToSet(ProcessUpdate(packets[i])) : i \in Sent \ lost}
              heard(e) == \E u \in got : u.id = e
              sent(e)  == \E i \in DOMAIN written : written[i].id = e
          IN  /\ view' = [e \in EntityIds |-> IF heard(e) THEN value[e] ELSE view[e]]
              /\ missed' = [e \in EntityIds |-> IF heard(e) THEN 0
                                          ELSE IF sent(e) /\ missed[e] < MaxEq
                                          THEN missed[e] + 1 ELSE missed[e]]
    BY DEF SendUpdatePacketsToAll
  <2>2. view' \in [EntityIds -> Values]
    BY <1>2, <2>1
  <2>3. \A e \in EntityIds : /\ 0 \in 0 .. MaxEq /\ missed[e] \in 0 .. MaxEq
                             /\ missed[e] < MaxEq => missed[e] + 1 \in 0 .. MaxEq
    BY <1>2, <1>3
  <2>4. missed' \in [EntityIds -> 0 .. MaxEq]
    BY <2>1, <2>3
  <2> QED BY <2>2, <2>4 DEF ClientOK
<1> QED BY <1>4, <1>5, <1>6, <1>7 DEF PacketsInv, UpdatesOK

LEMMA StutterPackets == PacketsInv /\ UNCHANGED UpdatesVars => PacketsInv'
<1> SUFFICES ASSUME PacketsInv, UNCHANGED UpdatesVars PROVE PacketsInv'
  OBVIOUS
<1>1. /\ UNCHANGED <<level, value, cache, acc, packets, stage, next, written, view, missed>>
      /\ UNCHANGED withheld
  BY DEF UpdatesVars
<1>2. RoomOK'
  BY <1>1, RoomStays DEF PacketsInv
<1>3. ServerOK' /\ ClientOK' /\ PassOK'
  BY <1>1 DEF PacketsInv, UpdatesOK, ServerOK, ClientOK, PassOK
<1> QED BY <1>2, <1>3 DEF PacketsInv, UpdatesOK

LEMMA NextPackets == PacketsInv /\ [UpdatesNext]_UpdatesVars => PacketsInv'
<1> SUFFICES ASSUME PacketsInv, [UpdatesNext]_UpdatesVars PROVE PacketsInv'
  OBVIOUS
<1>1. CASE \E e \in EntityIds : Change(e)
  BY <1>1, IdlePackets
<1>2. CASE Join
  <2>1. 0 \in EntityIds
    BY LimitIsLarge DEF PacketsInv, UpdatesOK, ServerOK, EntityIds
  <2> QED BY <1>2, <2>1, IdlePackets
<1>3. CASE BeginUpdates
  BY <1>3, BeginPackets
<1>4. CASE LeaveOut \/ Suppress
  BY <1>4, LeftOutPackets
<1>5. CASE WriteUpdateFor
  BY <1>5, WritePackets
<1>6. CASE EndUpdates
  BY <1>6, EndPackets
<1>7. CASE SendUpdatePacketsToAll
  BY <1>7, SendPackets
<1>8. CASE UNCHANGED UpdatesVars
  BY <1>8, StutterPackets
<1> QED BY <1>1, <1>2, <1>3, <1>4, <1>5, <1>6, <1>7, <1>8 DEF UpdatesNext

LEMMA SpecPackets == UpdatesSpec => []PacketsInv
BY InitPacketsInv, NextPackets, PTL DEF UpdatesSpec

(* No packet grows past its buffer, the end of the updates included and the *)
(* misplaced levels left aside, and no counter, age or update past its      *)
(* field: three checks in flush_accumulative_buffer, write_update_for and   *)
(* end_updates keep the room that goto_next_dest and w_u16 take.            *)
THEOREM UpdatesFit == UpdatesSpec => []PacketsFit
<1>1. PacketsInv => PacketsFit
  <2> SUFFICES ASSUME PacketsInv PROVE PacketsFit
    OBVIOUS
  <2>1. UpdatesTypeOK
    BY UpdatesTyped DEF PacketsInv
  <2>2. DOMAIN packets = 1 .. Len(packets)
    BY LenProperties DEF PacketsInv, UpdatesOK, PassOK
  <2>3. \A i \in DOMAIN packets : TotalBytes(packets[i]) - Misplaced(i) < Limit
    BY <2>2 DEF PacketsInv, RoomOK, AllFit, Moved, Misplaced
  <2> QED BY <2>1, <2>3 DEF PacketsFit
<1> QED BY <1>1, SpecPackets, PTL

-----------------------------------------------------------------------------
(* What the client's reader finds in a packet, and in a row of them. *)
Data(p) == [i \in DOMAIN p |-> p[i].data]

LEMMA CarriedAppended ==
    ASSUME NEW T, NEW p \in Seq(FieldsOf(T)), NEW f \in FieldsOf(T)
    PROVE  /\ Carried(p) \in Seq(T) /\ Carried(p \o <<f>>) = Carried(p) \o f.data
           /\ Carried(Append(p, f)) = Carried(p) \o f.data
<1> DEFINE P == FieldsOf(T)
           q == Append(p, f)
<1>1. \A g \in P : g.data \in Seq(T)
  BY DEF FieldsOf
<1>2. p \in Seq(P) /\ f \in P
  OBVIOUS
<1> HIDE DEF P
<1>3. \A s \in Seq(P) : Data(s) \in Seq(Seq(T)) /\ Len(Data(s)) = Len(s)
  <2> TAKE s \in Seq(P)
  <2>1. DOMAIN s = 1 .. Len(s) /\ Len(s) \in Nat /\ \A i \in 1 .. Len(s) : s[i] \in P
    BY LenProperties
  <2>2. Data(s) = [i \in 1 .. Len(s) |-> s[i].data]
    BY <2>1 DEF Data
  <2>3. \A i \in 1 .. Len(s) : s[i].data \in Seq(T)
    BY <1>1, <2>1
  <2> QED BY <2>1, <2>2, <2>3
<1>4. /\ q \in Seq(P) /\ Len(q) = Len(p) + 1 /\ Len(p) \in Nat /\ q[Len(p) + 1] = f
      /\ \A i \in 1 .. Len(p) : q[i] = p[i]
      /\ DOMAIN q = 1 .. Len(q) /\ DOMAIN p = 1 .. Len(p)
  BY <1>2, AppendProperties, LenProperties
<1>5. q = p \o <<f>>
  BY <1>2, AppendIsConcat
<1> HIDE DEF q
<1>6. Data(q) = Append(Data(p), f.data)
  <2>1. /\ Append(Data(p), f.data) \in Seq(Seq(T))
        /\ Len(Append(Data(p), f.data)) = Len(p) + 1
        /\ \A i \in 1 .. Len(p) : Append(Data(p), f.data)[i] = Data(p)[i]
        /\ Append(Data(p), f.data)[Len(p) + 1] = f.data
    <3> DEFINE d == Data(p)
               x == f.data
    <3>1. d \in Seq(Seq(T)) /\ Len(d) = Len(p) /\ x \in Seq(T)
      BY <1>1, <1>2, <1>3
    <3> HIDE DEF d, x
    <3>2. /\ Append(d, x) \in Seq(Seq(T)) /\ Len(Append(d, x)) = Len(d) + 1
          /\ \A i \in 1 .. Len(d) : Append(d, x)[i] = d[i]
          /\ Append(d, x)[Len(d) + 1] = x
      BY <3>1, AppendProperties
    <3> QED BY <3>1, <3>2 DEF d, x
  <2>2. Data(q) \in Seq(Seq(T)) /\ Len(Data(q)) = Len(p) + 1
    BY <1>3, <1>4
  <2>3. \A i \in 1 .. Len(p) + 1 : Data(q)[i] = Append(Data(p), f.data)[i]
    <3> TAKE i \in 1 .. Len(p) + 1
    <3>1. Data(q)[i] = q[i].data
      BY <1>4 DEF Data
    <3>2. CASE i = Len(p) + 1
      BY <1>4, <2>1, <3>1, <3>2
    <3>3. CASE i # Len(p) + 1
      <4>1. i \in 1 .. Len(p)
        BY <1>4, <3>3
      <4>2. Data(p)[i] = p[i].data
        BY <1>4, <4>1 DEF Data
      <4> QED BY <1>4, <2>1, <3>1, <4>1, <4>2
    <3> QED BY <3>2, <3>3
  <2> QED BY <2>1, <2>2, <2>3, SeqEqual
<1>7. Data(p) \in Seq(Seq(T)) /\ f.data \in Seq(T)
  BY <1>1, <1>2, <1>3
<1>8. FlattenSeq(Data(p)) \in Seq(T) /\ FlattenSeq(Data(q)) = FlattenSeq(Data(p)) \o f.data
  BY <1>6, <1>7, FlattenAppended
<1>9. Carried(p) \in Seq(T) /\ Carried(q) = Carried(p) \o f.data
  BY <1>8 DEF Carried, Data
<1> QED BY <1>5, <1>9 DEF q

LEMMA CarriedNothing == Carried(<<>>) = <<>>
<1>1. Data(<<>>) = <<>>
  <2>1. DOMAIN <<>> = {}
    OBVIOUS
  <2> QED BY <2>1 DEF Data
<1>2. Carried(<<>>) = FlattenSeq(Data(<<>>))
  BY DEF Carried, Data
<1> QED BY <1>1, <1>2, FlattenNothing

LEMMA CarriedType ==
    ASSUME NEW T, NEW q \in Seq(FieldsOf(T))
    PROVE  Carried(q) \in Seq(T)
<1>1. CASE q = <<>>
  BY <1>1, CarriedNothing, EmptySeq
<1>2. CASE q # <<>>
  <2>1. Len(q) \in Nat \ {0}
    BY <1>2, EmptySeq
  <2>2. q[1] \in FieldsOf(T)
    BY <2>1
  <2> QED BY <2>2, CarriedAppended
<1> QED BY <1>1, <1>2

LEMMA ProcessUpdateType ==
    ASSUME NEW T, NEW p \in Seq(FieldsOf(T))
    PROVE  ProcessUpdate(p) \in Seq(T)
<1> DEFINE P == FieldsOf(T)
<1>1. \A q \in Seq(FieldsOf(T)) : Carried(q) \in Seq(T)
  BY CarriedType
<1>2. UpToZero(p) \in Seq(P)
  <2>1. DOMAIN p = 1 .. Len(p) /\ Len(p) \in Nat /\ \A i \in 1 .. Len(p) : p[i] \in P
    BY LenProperties
  <2> HIDE DEF P
  <2>2. CASE Zeros(p) # {}
    <3>1. Zeros(p) \subseteq Nat /\ Zeros(p) \subseteq 1 .. Len(p)
      BY <2>1 DEF Zeros
    <3> DEFINE m == Min(Zeros(p))
    <3>2. m \in 1 .. Len(p)
      BY <2>2, <3>1, LeastIs
    <3> HIDE DEF m
    <3>3. \A i \in 1 .. m : p[i] \in P
      BY <2>1, <3>2
    <3>4. SubSeq(p, 1, m) \in Seq(P)
      <4>1. 1 \in Int /\ m \in Int
        BY <2>1, <3>2
      <4> QED BY <3>3, <4>1, SubSeqProperties
    <3> QED BY <2>2, <3>4 DEF UpToZero, m
  <2>3. CASE Zeros(p) = {}
    BY <2>3 DEF UpToZero, P
  <2> QED BY <2>2, <2>3
<1> QED BY <1>1, <1>2, EmptySeq DEF ProcessUpdate

Delivered(ps) == FlattenSeq([i \in DOMAIN ps |-> ProcessUpdate(ps[i])])

LEMMA DeliveredAppended ==
    ASSUME NEW T, NEW r \in Seq(Seq(FieldsOf(T))), NEW p \in Seq(FieldsOf(T))
    PROVE  /\ Delivered(r) \in Seq(T)
           /\ Delivered(Append(r, p)) = Delivered(r) \o ProcessUpdate(p)
<1> DEFINE P == FieldsOf(T)
           q == Append(r, p)
           D(s) == [i \in DOMAIN s |-> ProcessUpdate(s[i])]
<1>1. \A g \in Seq(P) : ProcessUpdate(g) \in Seq(T)
  BY ProcessUpdateType
<1>2. r \in Seq(Seq(P)) /\ p \in Seq(P)
  OBVIOUS
<1> HIDE DEF P
<1>3. \A s \in Seq(Seq(P)) : D(s) \in Seq(Seq(T)) /\ Len(D(s)) = Len(s)
  <2> TAKE s \in Seq(Seq(P))
  <2>1. DOMAIN s = 1 .. Len(s) /\ Len(s) \in Nat /\ \A i \in 1 .. Len(s) : s[i] \in Seq(P)
    BY LenProperties
  <2>2. D(s) = [i \in 1 .. Len(s) |-> ProcessUpdate(s[i])]
    BY <2>1
  <2>3. \A i \in 1 .. Len(s) : ProcessUpdate(s[i]) \in Seq(T)
    BY <1>1, <2>1
  <2> QED BY <2>1, <2>2, <2>3
<1>4. /\ q \in Seq(Seq(P)) /\ Len(q) = Len(r) + 1 /\ Len(r) \in Nat /\ q[Len(r) + 1] = p
      /\ \A i \in 1 .. Len(r) : q[i] = r[i]
      /\ DOMAIN q = 1 .. Len(q) /\ DOMAIN r = 1 .. Len(r)
  BY <1>2, AppendProperties, LenProperties
<1> HIDE DEF q
<1>5. /\ \A i \in 1 .. Len(r) : D(r)[i] = ProcessUpdate(r[i])
      /\ \A i \in 1 .. Len(q) : D(q)[i] = ProcessUpdate(q[i])
  BY <1>4
<1>6. ProcessUpdate(p) \in Seq(T) /\ D(r) \in Seq(Seq(T)) /\ Len(D(r)) = Len(r)
      /\ D(q) \in Seq(Seq(T)) /\ Len(D(q)) = Len(r) + 1
  BY <1>1, <1>2, <1>3, <1>4
<1>d. Delivered(r) = FlattenSeq(D(r)) /\ Delivered(q) = FlattenSeq(D(q))
  BY DEF Delivered
<1> HIDE DEF D
<1> DEFINE a == Append(D(r), ProcessUpdate(p))
<1>7. /\ a \in Seq(Seq(T)) /\ Len(a) = Len(r) + 1
      /\ \A i \in 1 .. Len(r) : a[i] = D(r)[i]
      /\ a[Len(r) + 1] = ProcessUpdate(p)
  BY <1>6, AppendProperties
<1> HIDE DEF a
<1>8. \A i \in 1 .. Len(r) + 1 : D(q)[i] = a[i]
  <2> TAKE i \in 1 .. Len(r) + 1
  <2>1. CASE i = Len(r) + 1
    BY <1>4, <1>5, <1>7, <2>1
  <2>2. CASE i # Len(r) + 1
    <3>1. i \in 1 .. Len(r)
      BY <1>4, <2>2
    <3> QED BY <1>4, <1>5, <1>7, <3>1
  <2> QED BY <2>1, <2>2
<1>9. D(q) = a
  BY <1>6, <1>7, <1>8, SeqEqual
<1>10. FlattenSeq(D(r)) \in Seq(T) /\ FlattenSeq(a) = FlattenSeq(D(r)) \o ProcessUpdate(p)
  BY <1>6, FlattenAppended DEF a
<1> QED BY <1>9, <1>10, <1>d DEF q

LEMMA DeliveredNothing == Delivered(<<>>) = <<>>
<1>1. DOMAIN <<>> = {}
  OBVIOUS
<1>2. [i \in DOMAIN <<>> |-> ProcessUpdate(<<>>[i])] = <<>>
  BY <1>1
<1> QED BY <1>2, FlattenNothing DEF Delivered

LEMMA EmptyPacket == ProcessUpdate(<<>>) = <<>>
<1>1. Len(<<>>) = 0
  OBVIOUS
<1>2. ~ Readable(<<>>)
  BY <1>1 DEF Readable
<1> QED BY <1>2 DEF ProcessUpdate

LEMMA PlainPacket ==
    ASSUME NEW T, acc.updates \in Seq(T), Block(acc.bytes - 2, acc.updates) \in FieldsOf(T),
           Begin("updates") \in FieldsOf(T)
    PROVE  ProcessUpdate(WholeOf) = acc.updates
<1> DEFINE b == Block(acc.bytes - 2, acc.updates)
           p == <<Begin("updates"), b>>
<1>1. /\ Len(p) = 2 /\ p[1] = Begin("updates") /\ p[2] = b /\ DOMAIN p = 1 .. 2 /\ 1 .. 2 = {1, 2}
  OBVIOUS
<1>2. Begin("updates").kind = "updates" /\ b.kind = "block" /\ ZeroEnd.kind = "zero"
      /\ Begin("updates").data = <<>> /\ b.data = acc.updates
  BY DEF Begin, Block, ZeroEnd, Field
<1>3. Readable(p)
  BY <1>1, <1>2 DEF Readable
<1>4. Zeros(p) = {}
  <2>1. p[1] # ZeroEnd /\ p[2] # ZeroEnd
    BY <1>1, <1>2
  <2> HIDE DEF p
  <2> QED BY <1>1, <2>1 DEF Zeros
<1>5. UpToZero(p) = p
  BY <1>4 DEF UpToZero
<1>6. Carried(p) = acc.updates
  <2> DEFINE a == Begin("updates")
  <2>0. a \in FieldsOf(T) /\ b \in FieldsOf(T) /\ <<>> \in Seq(FieldsOf(T))
    BY EmptySeq
  <2>a. a.data = <<>> /\ b.data = acc.updates
    BY <1>2
  <2>b. p = <<a, b>>
    OBVIOUS
  <2> HIDE DEF p, a, b
  <2>1. Append(Append(<<>>, a), b) = <<>> \o <<a, b>> /\ Append(<<>>, a) \in Seq(FieldsOf(T))
    <3>1. Append(<<>>, a) \in Seq(FieldsOf(T))
      BY <2>0, AppendProperties
    <3>2. <<>> \o <<a, b>> = Append(Append(<<>>, a), b)
      BY <2>0, FieldsAppended
    <3> QED BY <3>1, <3>2
  <2>2. <<>> \o <<a, b>> = <<a, b>>
    <3>1. <<a, b>> \in Seq(FieldsOf(T))
      BY <2>0
    <3> QED BY <3>1, ConcatEmptySeq
  <2>3. Carried(Append(<<>>, a)) = Carried(<<>>) \o a.data
    BY <2>0, CarriedAppended
  <2>4. Carried(Append(Append(<<>>, a), b)) = Carried(Append(<<>>, a)) \o b.data
    BY <2>0, <2>1, CarriedAppended
  <2>5. <<>> \o <<>> = <<>> /\ <<>> \o acc.updates = acc.updates
    BY ConcatEmptySeq, EmptySeq
  <2> QED BY <2>a, <2>b, <2>1, <2>2, <2>3, <2>4, <2>5, CarriedNothing
<1>7. ProcessUpdate(p) = acc.updates
  BY <1>3, <1>5, <1>6 DEF ProcessUpdate
<1> QED BY <1>7 DEF WholeOf

(* A packet of compressed updates without its end: what is in it and what    *)
(* waits in the buffer are the updates of the pass.                          *)
Whole(p, us, w) == /\ Len(p) > 1 /\ p[1] = Begin("compressed") /\ p[2] = LevelByte
                   /\ Zeros(p) = {}
                   /\ Carried(p) \o us = w

LEMMA EndedPacket ==
    ASSUME NEW T, NEW p \in Seq(FieldsOf(T)), ZeroEnd \in FieldsOf(T), NEW w,
           Whole(p, <<>>, w)
    PROVE  ProcessUpdate(Append(p, ZeroEnd)) = w
<1> DEFINE P == FieldsOf(T)
           q == Append(p, ZeroEnd)
<1>0. p \in Seq(P) /\ ZeroEnd \in P
  OBVIOUS
<1> HIDE DEF P
<1>1. /\ q \in Seq(P) /\ Len(q) = Len(p) + 1 /\ Len(p) \in Nat /\ q[Len(p) + 1] = ZeroEnd
      /\ \A i \in 1 .. Len(p) : q[i] = p[i]
      /\ DOMAIN q = 1 .. Len(q) /\ DOMAIN p = 1 .. Len(p)
  BY <1>0, AppendProperties, LenProperties
<1>2. Carried(q) = Carried(p) \o ZeroEnd.data /\ Carried(p) \in Seq(T)
  BY CarriedAppended
<1>3. ZeroEnd.data = <<>>
  BY DEF ZeroEnd, Field
<1>4. Carried(q) = w
  BY <1>2, <1>3 DEF Whole
<1> HIDE DEF q
<1>5. Len(p) > 1
  BY DEF Whole
<1>6. Zeros(q) = {Len(q)}
  <2>1. \A i \in 1 .. Len(p) : p[i] # ZeroEnd
    BY <1>1 DEF Whole, Zeros
  <2>2. 1 .. Len(q) = (1 .. Len(p)) \cup {Len(p) + 1}
    BY <1>1
  <2>3. \A i \in 1 .. Len(p) : i # Len(q)
    BY <1>1
  <2> QED BY <1>1, <2>1, <2>2, <2>3 DEF Zeros
<1>7. Readable(q)
  <2>1. 1 \in 1 .. Len(p) /\ 2 \in 1 .. Len(p)
    BY <1>1, <1>5
  <2>2. q[1] = Begin("compressed") /\ q[2] = LevelByte
    BY <1>1, <2>1 DEF Whole
  <2>3. q[1].kind = "compressed" /\ q[2].kind = "level"
    BY <2>2 DEF Begin, LevelByte, Field
  <2>4. Len(q) > 1
    BY <1>1, <1>5
  <2> QED BY <1>6, <2>3, <2>4 DEF Readable
<1>8. UpToZero(q) = q
  <2>1. Min(Zeros(q)) = Len(q)
    <3>1. {Len(q)} \in SUBSET Nat /\ {Len(q)} # {}
      BY <1>1
    <3>2. Min({Len(q)}) \in {Len(q)}
      BY <3>1, LeastIs
    <3> QED BY <1>6, <3>2
  <2>2. SubSeq(q, 1, Len(q)) = q
    BY <1>1, SubSeqFull
  <2> QED BY <1>6, <2>1, <2>2 DEF UpToZero
<1> QED BY <1>4, <1>7, <1>8 DEF ProcessUpdate, q

LEMMA BlockAppended ==
    ASSUME NEW T, NEW p \in Seq(FieldsOf(T)), NEW w, NEW n,
           SizeField \in FieldsOf(T), Block(n, acc.updates) \in FieldsOf(T),
           acc.updates \in Seq(T), Whole(p, acc.updates, w)
    PROVE  Whole(p \o BlockFields(n), <<>>, w)
<1> DEFINE P == FieldsOf(T)
           b == Block(n, acc.updates)
           s == Append(p, SizeField)
           q == Append(s, b)
<1>0. p \in Seq(P) /\ SizeField \in P /\ b \in P
  OBVIOUS
<1>1. q = p \o BlockFields(n)
  BY FieldsAppended DEF BlockFields
<1>2. SizeField.kind = "size" /\ b.kind = "block" /\ ZeroEnd.kind = "zero"
      /\ SizeField.data = <<>> /\ b.data = acc.updates
  BY DEF SizeField, Block, ZeroEnd, Field
<1>c. /\ Carried(p) \in Seq(T) /\ Carried(s) = Carried(p) \o SizeField.data
  BY CarriedAppended
<1>s. s \in Seq(FieldsOf(T))
  BY AppendProperties
<1>d. Carried(q) = Carried(s) \o b.data
  BY <1>s, CarriedAppended
<1> HIDE DEF P, b
<1>3. /\ s \in Seq(P) /\ Len(s) = Len(p) + 1 /\ Len(p) \in Nat /\ s[Len(p) + 1] = SizeField
      /\ \A i \in 1 .. Len(p) : s[i] = p[i]
  BY <1>0, AppendProperties, LenProperties
<1> HIDE DEF s
<1>4. /\ q \in Seq(P) /\ Len(q) = Len(s) + 1 /\ q[Len(s) + 1] = b
      /\ \A i \in 1 .. Len(s) : q[i] = s[i]
      /\ DOMAIN q = 1 .. Len(q) /\ DOMAIN p = 1 .. Len(p)
  BY <1>0, <1>3, AppendProperties, LenProperties
<1> HIDE DEF q
<1>5. Len(p) > 1 /\ Zeros(p) = {} /\ p[1] = Begin("compressed") /\ p[2] = LevelByte
      /\ Carried(p) \o acc.updates = w
  BY DEF Whole
<1>6. \A i \in 1 .. Len(p) : q[i] = p[i]
  BY <1>3, <1>4
<1>7. Zeros(q) = {}
  <2>1. \A i \in 1 .. Len(p) : p[i] # ZeroEnd
    BY <1>4, <1>5 DEF Zeros
  <2>2. q[Len(p) + 1] # ZeroEnd /\ q[Len(p) + 2] # ZeroEnd
    <3>1. q[Len(p) + 1] = SizeField /\ q[Len(p) + 2] = b
      BY <1>3, <1>4
    <3> QED BY <1>2, <3>1
  <2>3. 1 .. Len(q) = (1 .. Len(p)) \cup {Len(p) + 1, Len(p) + 2}
    BY <1>3, <1>4
  <2> QED BY <1>4, <1>6, <2>1, <2>2, <2>3 DEF Zeros
<1>8. Carried(q) \o <<>> = w
  <2>1. Carried(p) \o <<>> = Carried(p)
    BY <1>c, ConcatEmptySeq
  <2>2. Carried(q) = Carried(p) \o acc.updates
    BY <1>2, <1>c, <1>d, <2>1
  <2>3. Carried(q) \in Seq(T)
    BY <1>c, <2>2, ConcatProperties
  <2>4. Carried(q) \o <<>> = Carried(q)
    BY <2>3, ConcatEmptySeq
  <2> QED BY <1>5, <2>2, <2>4
<1>9. q[1] = Begin("compressed") /\ q[2] = LevelByte /\ Len(q) > 1
  <2>1. 1 \in 1 .. Len(p) /\ 2 \in 1 .. Len(p)
    BY <1>3, <1>5
  <2> QED BY <1>3, <1>4, <1>5, <1>6, <2>1
<1>10. Whole(q, <<>>, w)
  BY <1>7, <1>8, <1>9 DEF Whole
<1> QED BY <1>1, <1>10

-----------------------------------------------------------------------------
(* The order of the updates: each action. *)
OrderOK ==
    /\ stage = "write" /\ ~ Compresses => Delivered(packets) \o acc.updates = written
    /\ stage = "write" /\ Compresses /\ Len(packets) = 1 =>
          Whole(packets[1], acc.updates, written)
    /\ stage = "made" /\ (Compresses => Len(packets) = 1) => Delivered(packets) = written

LEMMA FlushInOrder ==
    ASSUME PacketsInv, OrderOK, stage = "write", acc.bytes > 2,
           NEW n \in CompressedSizes(acc.bytes)
    PROVE  /\ ~ Compresses => Delivered(Flush(n)) = written
           /\ Compresses /\ Len(Flush(n)) = 1 => Whole(Flush(n)[1], <<>>, written)
<1> DEFINE T == ToSet(written)
<1>1. /\ value \in [EntityIds -> Values] /\ acc.bytes \in 0 .. Limit - 1
      /\ acc.updates \in Seq(T) /\ packets \in Seq(Seq(FieldsOf(T))) /\ packets # <<>>
      /\ RoomAtEnd(packets[Len(packets)])
  BY DEF PacketsInv, UpdatesOK, ServerOK, PassOK, RoomOK
<1>2. acc.bytes \in 3 .. Limit - 1
  BY <1>1, LimitIsLarge
<1>3. PICK r \in Seq(Seq(FieldsOf(T))), p \in Seq(FieldsOf(T)) : packets = Append(r, p)
  BY <1>1, LastPacket
<1>4. /\ ~ Compresses => Flush(n) = Append(Append(r, p \o WholeOf), <<>>)
      /\ Compresses /\ Fits(p, n) => Flush(n) = Append(r, p \o BlockFields(n))
      /\ Compresses /\ ~ Fits(p, n) =>
            Flush(n) =
               IF "ppmd" \in level
               THEN Append(InFront(Append(r, p \o <<ZeroEnd>>)),
                           <<Begin("compressed")>> \o BlockFields(n))
               ELSE Append(Append(r, p \o <<ZeroEnd>>), <<>> \o BlockFields(n))
  BY <1>1, <1>2, <1>3, FlushIs
<1>5. /\ Block(n, acc.updates) \in FieldsOf(T) /\ BlockFields(n) \in Seq(FieldsOf(T))
      /\ Block(acc.bytes - 2, acc.updates) \in FieldsOf(T) /\ WholeOf \in Seq(FieldsOf(T))
  BY <1>1, <1>2, FlushedFields
<1>6. /\ Begin("updates") \in FieldsOf(T) /\ SizeField \in FieldsOf(T)
      /\ ZeroEnd \in FieldsOf(T) /\ LevelByte \in FieldsOf(T)
      /\ Begin("compressed") \in FieldsOf(T)
  BY <1>1, FieldTypes
<1>7. /\ packets[Len(packets)] = p /\ Len(packets) = Len(r) + 1 /\ Len(r) \in Nat
  BY <1>3, AppendProperties, LenProperties
<1>8. ASSUME ~ Compresses PROVE Delivered(Flush(n)) = written
  <2>1. p = <<>>
    BY <1>1, <1>7, <1>8 DEF RoomAtEnd
  <2>2. Flush(n) = Append(Append(r, WholeOf), <<>>)
    <3>1. <<>> \o WholeOf = WholeOf
      BY <1>5, ConcatEmptySeq
    <3> QED BY <1>4, <1>8, <2>1, <3>1
  <2>3. Append(r, WholeOf) \in Seq(Seq(FieldsOf(T))) /\ <<>> \in Seq(FieldsOf(T))
    BY <1>5, AppendProperties, EmptySeq
  <2>4. Delivered(Flush(n)) = Delivered(Append(r, WholeOf)) \o <<>>
    BY <2>2, <2>3, DeliveredAppended, EmptyPacket
  <2>5. Delivered(Append(r, WholeOf)) = Delivered(r) \o acc.updates
    <3>1. ProcessUpdate(WholeOf) = acc.updates
      BY <1>1, <1>5, <1>6, PlainPacket
    <3> QED BY <1>5, <3>1, DeliveredAppended
  <2>6. Delivered(packets) = Delivered(r) \o <<>> /\ Delivered(r) \in Seq(T)
    BY <1>3, <2>1, <2>3, DeliveredAppended, EmptyPacket
  <2>7. Delivered(r) \o <<>> = Delivered(r) /\ Delivered(r) \o acc.updates \in Seq(T)
    BY <1>1, <2>6, ConcatEmptySeq, ConcatProperties
  <2>8. (Delivered(r) \o acc.updates) \o <<>> = Delivered(r) \o acc.updates
    BY <2>7, ConcatEmptySeq
  <2>9. Delivered(packets) \o acc.updates = written
    BY <1>8 DEF OrderOK
  <2> QED BY <2>4, <2>5, <2>6, <2>7, <2>8, <2>9
<1>9. ASSUME Compresses, Len(Flush(n)) = 1 PROVE Whole(Flush(n)[1], <<>>, written)
  <2>1. CASE Fits(p, n)
    <3>1. Flush(n) = Append(r, p \o BlockFields(n)) /\ p \o BlockFields(n) \in Seq(FieldsOf(T))
      BY <1>4, <1>5, <1>9, <2>1, ConcatProperties
    <3>2. Len(Flush(n)) = Len(r) + 1 /\ Flush(n)[Len(r) + 1] = p \o BlockFields(n)
      BY <3>1, AppendProperties
    <3>3. Len(r) = 0 /\ Len(packets) = 1 /\ packets[1] = p
      BY <1>7, <1>9, <3>2
    <3>4. Whole(p, acc.updates, written)
      BY <1>9, <3>3 DEF OrderOK
    <3>5. Whole(p \o BlockFields(n), <<>>, written)
      BY <1>1, <1>5, <1>6, <3>4, BlockAppended
    <3>6. Flush(n)[1] = p \o BlockFields(n)
      <4>1. Len(r) + 1 = 1
        BY <3>3
      <4> QED BY <3>2, <4>1, Zenon
    <3> QED BY <3>5, <3>6, Zenon
  <2>2. CASE ~ Fits(p, n)
    <3> DEFINE ps == Append(r, p \o <<ZeroEnd>>)
    <3>1. /\ p \o <<ZeroEnd>> \in Seq(FieldsOf(T)) /\ <<Begin("compressed")>> \in Seq(FieldsOf(T))
          /\ <<>> \in Seq(FieldsOf(T))
      <4>1. <<ZeroEnd>> \in Seq(FieldsOf(T)) /\ <<Begin("compressed")>> \in Seq(FieldsOf(T))
        BY <1>6
      <4> QED BY <4>1, ConcatProperties, EmptySeq
    <3>2. ps \in Seq(Seq(FieldsOf(T))) /\ ps # <<>> /\ Len(ps) = Len(r) + 1
      BY <3>1, RowAppended
    <3>3. InFront(ps) \in Seq(Seq(FieldsOf(T))) /\ Len(InFront(ps)) = Len(ps)
      BY <1>6, <3>2, InFrontIs
    <3>4. /\ <<Begin("compressed")>> \o BlockFields(n) \in Seq(FieldsOf(T))
          /\ <<>> \o BlockFields(n) \in Seq(FieldsOf(T))
      BY <1>5, <3>1, ConcatProperties
    <3>5. Flush(n) = IF "ppmd" \in level
                     THEN Append(InFront(ps), <<Begin("compressed")>> \o BlockFields(n))
                     ELSE Append(ps, <<>> \o BlockFields(n))
      BY <1>4, <1>9, <2>2
    <3> HIDE DEF ps
    <3>6. Len(Flush(n)) = Len(ps) + 1
      <4>1. CASE "ppmd" \in level
        BY <3>3, <3>4, <3>5, <4>1, AppendProperties
      <4>2. CASE "ppmd" \notin level
        BY <3>2, <3>4, <3>5, <4>2, AppendProperties
      <4> QED BY <4>1, <4>2
    <3>7. Len(Flush(n)) = 1 /\ Len(Flush(n)) = Len(ps) + 1 /\ Len(ps) = Len(r) + 1
      BY <1>9, <3>2, <3>6, Zenon
    <3> HIDE DEF Flush
    <3> DEFINE m == Len(Flush(n))
               k == Len(r)
    <3>8. m = 1 /\ m = (k + 1) + 1 /\ k \in Nat
      BY <1>7, <3>7
    <3> HIDE DEF m, k
    <3> QED BY <3>8
  <2> QED BY <2>1, <2>2
<1> QED BY <1>8, <1>9

LEMMA InitOrder == UpdatesInit => OrderOK
BY DEF UpdatesInit, OrderOK

LEMMA OrderStays ==
    OrderOK /\ UNCHANGED <<level, acc, packets, stage, written>> => OrderOK'
<1> SUFFICES ASSUME OrderOK, UNCHANGED <<level, acc, packets, stage, written>> PROVE OrderOK'
  OBVIOUS
<1>1. Compresses' <=> Compresses
  BY DEF Compresses
<1>2. Delivered(packets') = Delivered(packets)
  OBVIOUS
<1> QED BY <1>1, <1>2 DEF OrderOK

LEMMA BeginInOrder == PacketsInv /\ BeginUpdates => OrderOK'
<1> SUFFICES ASSUME PacketsInv, BeginUpdates PROVE OrderOK'
  OBVIOUS
<1> DEFINE b == IF Compresses' THEN <<Begin("compressed"), LevelByte>> ELSE <<>>
<1>1. /\ stage' = "write" /\ written' = <<>> /\ packets' = <<b>> /\ acc'.updates = <<>>
  BY DEF BeginUpdates, EmptyAcc, PacketsInv, UpdatesOK, PassOK
<1>2. value \in [EntityIds -> Values]
  BY DEF PacketsInv, UpdatesOK, ServerOK
<1>3. Len(<<b>>) = 1 /\ <<b>>[1] = b
  OBVIOUS
<1>4. ASSUME ~ Compresses' PROVE Delivered(packets') \o acc'.updates = written'
  <2>1. <<>> \in Seq(Seq(FieldsOf({}))) /\ <<>> \in Seq(FieldsOf({})) /\ <<>> \in Seq({})
    BY EmptySeq
  <2>2. Delivered(Append(<<>>, <<>>)) = <<>> \o <<>>
    <3>1. Delivered(Append(<<>>, <<>>)) = Delivered(<<>>) \o ProcessUpdate(<<>>)
      BY <2>1, DeliveredAppended
    <3> QED BY <3>1, DeliveredNothing, EmptyPacket
  <2>3. packets' = <<<<>>>>
    BY <1>1, <1>4
  <2>4. Append(<<>>, <<>>) = <<<<>>>>
    <3>1. Append(<<>>, <<>>) = <<>> \o <<<<>>>>
      BY <2>1, AppendIsConcat
    <3>2. <<<<>>>> \in Seq(Seq(FieldsOf({})))
      BY <2>1
    <3> QED BY <3>1, <3>2, ConcatEmptySeq
  <2>5. <<>> \o <<>> = <<>>
    BY <2>1, ConcatEmptySeq
  <2> QED BY <1>1, <2>2, <2>3, <2>4, <2>5
<1>5. ASSUME Compresses' PROVE Whole(packets'[1], acc'.updates, written')
  <2> DEFINE h == <<Begin("compressed"), LevelByte>>
  <2>1. packets'[1] = h
    BY <1>1, <1>3, <1>5
  <2>2. /\ Len(h) = 2 /\ h[1] = Begin("compressed") /\ h[2] = LevelByte
        /\ DOMAIN h = 1 .. 2 /\ 1 .. 2 = {1, 2}
    OBVIOUS
  <2>3. /\ Begin("compressed").kind = "compressed" /\ LevelByte.kind = "level"
        /\ ZeroEnd.kind = "zero" /\ Begin("compressed").data = <<>> /\ LevelByte.data = <<>>
    BY DEF Begin, LevelByte, ZeroEnd, Field
  <2>4. Zeros(h) = {}
    <3>1. h[1] # ZeroEnd /\ h[2] # ZeroEnd
      BY <2>2, <2>3
    <3> HIDE DEF h
    <3> QED BY <2>2, <3>1 DEF Zeros
  <2>5. Carried(h) = <<>>
    <3> DEFINE a == Begin("compressed")
               c == LevelByte
    <3>0. a \in FieldsOf({}) /\ c \in FieldsOf({}) /\ <<>> \in Seq(FieldsOf({}))
      BY <1>2, FieldTypes, EmptySeq
    <3>a. a.data = <<>> /\ c.data = <<>> /\ h = <<a, c>>
      BY <2>3
    <3> HIDE DEF h, a, c
    <3>1. /\ Append(Append(<<>>, a), c) = <<>> \o <<a, c>>
          /\ Append(<<>>, a) \in Seq(FieldsOf({}))
      <4>1. Append(<<>>, a) \in Seq(FieldsOf({}))
        BY <3>0, AppendProperties
      <4>2. <<>> \o <<a, c>> = Append(Append(<<>>, a), c)
        BY <3>0, FieldsAppended
      <4> QED BY <4>1, <4>2
    <3>2. <<>> \o <<a, c>> = <<a, c>>
      <4>1. <<a, c>> \in Seq(FieldsOf({}))
        BY <3>0
      <4> QED BY <4>1, ConcatEmptySeq
    <3>3. Carried(Append(<<>>, a)) = Carried(<<>>) \o a.data
      BY <3>0, CarriedAppended
    <3>4. Carried(Append(Append(<<>>, a), c)) = Carried(Append(<<>>, a)) \o c.data
      BY <3>0, <3>1, CarriedAppended
    <3>5. <<>> \o <<>> = <<>>
      BY ConcatEmptySeq, EmptySeq
    <3> QED BY <3>a, <3>1, <3>2, <3>3, <3>4, <3>5, CarriedNothing
  <2>6. <<>> \o <<>> = <<>>
    BY ConcatEmptySeq, EmptySeq
  <2> HIDE DEF h
  <2> QED BY <1>1, <2>1, <2>2, <2>4, <2>5, <2>6 DEF Whole
<1> QED BY <1>1, <1>4, <1>5 DEF OrderOK

LEMMA AppendLater ==
    ASSUME NEW S, NEW s \in Seq(S), NEW t \in Seq(S), NEW u \in S
    PROVE  s \o Append(t, u) = Append(s \o t, u)
<1>1. <<u>> \in Seq(S) /\ s \o t \in Seq(S)
  BY ConcatProperties
<1>2. Append(t, u) = t \o <<u>> /\ Append(s \o t, u) = (s \o t) \o <<u>>
  BY <1>1, AppendIsConcat
<1>3. (s \o t) \o <<u>> = s \o (t \o <<u>>)
  BY <1>1, ConcatAssociative
<1> QED BY <1>2, <1>3

LEMMA WholeGrows ==
    ASSUME NEW S, NEW p, Carried(p) \in Seq(S), NEW us \in Seq(S), NEW u \in S, NEW w,
           Whole(p, us, w)
    PROVE  Whole(p, Append(us, u), Append(w, u))
<1>1. Carried(p) \o Append(us, u) = Append(Carried(p) \o us, u)
  BY AppendLater
<1> QED BY <1>1 DEF Whole

LEMMA FullEnough ==
    ASSUME PacketsInv, WriteNext, Full(Update(next))
    PROVE  acc.bytes > 2
<1> DEFINE k == UpdateBytes(Update(next))
<1>1. /\ value \in [EntityIds -> Values] /\ next \in EntityIds
      /\ acc.bytes \in 0 .. Limit - 1
  BY DEF WriteNext, PacketsInv, UpdatesOK, ServerOK, PassOK
<1>2. k \in Nat /\ k + 7 < Limit /\ Limit \in Nat
  BY <1>1, UpdateType, LimitIsLarge
<1>3. acc.bytes + k + 5 >= Limit
  BY DEF Full, Reserved
<1> HIDE DEF k
<1>4. acc.bytes \in Nat
  BY <1>1, <1>2
<1> QED BY <1>2, <1>3, <1>4

LEMMA WriteInOrder == PacketsInv /\ OrderOK /\ WriteUpdateFor => OrderOK'
<1> SUFFICES ASSUME PacketsInv, OrderOK, WriteUpdateFor PROVE OrderOK'
  OBVIOUS
<1> DEFINE u == Update(next)
           T == ToSet(written)
<1>1. /\ stage = "write" /\ stage' = stage /\ level' = level /\ u \in Updates
  BY WriteNextTypes DEF WriteUpdateFor
<1>2. /\ written' = Append(written, u)
      /\ IF Full(u)
         THEN /\ \E n \in CompressedSizes(acc.bytes) : packets' = Flush(n)
              /\ acc'.updates = Append(<<>>, u)
         ELSE acc'.updates = Append(acc.updates, u) /\ packets' = packets
  BY DEF WriteUpdateFor, EmptyAcc
<1>3. /\ written \in Seq(Updates) /\ acc.updates \in Seq(T) /\ T \subseteq Updates
      /\ packets \in Seq(Seq(FieldsOf(T)))
  BY <1>1, WrittenSet DEF PacketsInv, UpdatesOK, PassOK
<1>4. acc.updates \in Seq(Updates) /\ <<>> \in Seq(Updates) /\ Seq(T) \subseteq Seq(Updates)
  BY <1>3, FieldsGrow, EmptySeq
<1>5. Compresses' <=> Compresses
  BY <1>1 DEF Compresses
<1>6. Full(u) => acc.bytes > 2
  BY FullEnough DEF WriteUpdateFor
<1>7. \A q \in Seq(FieldsOf(T)) : Carried(q) \in Seq(Updates)
  BY <1>4, CarriedType
<1> HIDE DEF u, T
<1>8. CASE Full(u)
  <2>1. PICK n \in CompressedSizes(acc.bytes) : packets' = Flush(n)
    BY <1>2, <1>8
  <2>2. /\ ~ Compresses => Delivered(Flush(n)) = written
        /\ Compresses /\ Len(Flush(n)) = 1 => Whole(Flush(n)[1], <<>>, written)
    BY <1>1, <1>6, <1>8, FlushInOrder
  <2>3. written \o Append(<<>>, u) = Append(written, u)
    <3>1. written \o Append(<<>>, u) = Append(written \o <<>>, u)
      BY <1>1, <1>3, <1>4, AppendLater
    <3> QED BY <1>3, <3>1, ConcatEmptySeq
  <2>4. acc'.updates = Append(<<>>, u)
    BY <1>2, <1>8
  <2>5. ASSUME Compresses, Len(Flush(n)) = 1
        PROVE  Whole(Flush(n)[1], Append(<<>>, u), Append(written, u))
    <3>1. Flush(n)[1] \in Seq(FieldsOf(T))
      <4>1. PICK s \in Seq(Seq(FieldsOf(T))), q \in Seq(FieldsOf(T)) : Flush(n) = Append(s, q)
        BY <1>1, <1>6, <1>8, FlushedOK DEF T
      <4>2. Flush(n) \in Seq(Seq(FieldsOf(T)))
        BY <4>1, AppendProperties
      <4>3. 1 \in 1 .. Len(Flush(n))
        <5> HIDE DEF Flush
        <5> QED BY <2>5
      <4> HIDE DEF Flush
      <4> QED BY <4>2, <4>3, ElementOfSeq
    <3>2. Carried(Flush(n)[1]) \in Seq(Updates)
      BY <1>7, <3>1
    <3>3. Whole(Flush(n)[1], <<>>, written)
      BY <2>2, <2>5
    <3> QED BY <1>1, <1>4, <3>2, <3>3, WholeGrows
  <2> HIDE DEF Flush
  <2> QED BY <1>1, <1>2, <1>5, <2>1, <2>2, <2>3, <2>4, <2>5 DEF OrderOK
<1>9. CASE ~ Full(u)
  <2>1. acc'.updates = Append(acc.updates, u) /\ packets' = packets
    BY <1>2, <1>9
  <2>2. ASSUME ~ Compresses PROVE Delivered(packets) \o Append(acc.updates, u) = Append(written, u)
    <3>1. Delivered(packets) \in Seq(Updates)
      <4>1. <<>> \in Seq(FieldsOf(T))
        BY EmptySeq
      <4> QED BY <1>3, <1>4, <4>1, DeliveredAppended
    <3>2. Delivered(packets) \o Append(acc.updates, u) = Append(Delivered(packets) \o acc.updates, u)
      BY <1>1, <1>4, <3>1, AppendLater
    <3> QED BY <1>1, <2>2, <3>2 DEF OrderOK
  <2>3. ASSUME Compresses, Len(packets) = 1
        PROVE  Whole(packets[1], Append(acc.updates, u), Append(written, u))
    <3>1. packets[1] \in Seq(FieldsOf(T))
      <4>1. 1 \in 1 .. Len(packets)
        BY <2>3
      <4> QED BY <1>3, <4>1, ElementOfSeq
    <3>2. Carried(packets[1]) \in Seq(Updates)
      BY <1>7, <3>1
    <3>3. Whole(packets[1], acc.updates, written)
      BY <1>1, <2>3 DEF OrderOK
    <3> QED BY <1>1, <1>4, <3>2, <3>3, WholeGrows
  <2> QED BY <1>1, <1>2, <1>5, <2>1, <2>2, <2>3 DEF OrderOK
<1> QED BY <1>8, <1>9

LEMMA EndInOrder == PacketsInv /\ OrderOK /\ EndUpdates => OrderOK'
<1> SUFFICES ASSUME PacketsInv, OrderOK, EndUpdates PROVE OrderOK'
  OBVIOUS
<1> DEFINE T == ToSet(written)
<1>1. stage = "write" /\ stage' = "made" /\ level' = level /\ written' = written
  BY DEF EndUpdates
<1>2. Compresses' <=> Compresses
  BY <1>1 DEF Compresses
<1>3. PICK s \in Seq(Seq(FieldsOf(T))), q \in Seq(FieldsOf(T)), t \in Seq(FieldsOf(T)) :
         /\ IF acc.bytes > 2
            THEN \E n \in CompressedSizes(acc.bytes) : Flush(n) = Append(s, q)
            ELSE packets = Append(s, q)
         /\ packets' = Append(s, t)
         /\ t = IF Compresses THEN Append(q, ZeroEnd) ELSE q
  BY EndIs
<1>4. /\ acc.bytes \in 0 .. Limit - 1
      /\ acc.bytes <= 2 => acc.updates = <<>>
      /\ Limit \in Nat /\ value \in [EntityIds -> Values]
      /\ packets \in Seq(Seq(FieldsOf(T)))
  BY <1>1, LimitIsLarge DEF PacketsInv, UpdatesOK, ServerOK, PassOK, RoomOK
<1>5. /\ ~ Compresses => Delivered(Append(s, q)) = written
      /\ Compresses /\ Len(Append(s, q)) = 1 => Whole(Append(s, q)[1], <<>>, written)
  <2>1. CASE acc.bytes > 2
    <3>1. PICK n \in CompressedSizes(acc.bytes) : Flush(n) = Append(s, q)
      BY <1>3, <2>1
    <3>2. /\ ~ Compresses => Delivered(Flush(n)) = written
          /\ Compresses /\ Len(Flush(n)) = 1 => Whole(Flush(n)[1], <<>>, written)
      BY <1>1, <2>1, FlushInOrder
    <3> HIDE DEF Flush
    <3> QED BY <3>1, <3>2
  <2>2. CASE ~ (acc.bytes > 2)
    <3>1. packets = Append(s, q) /\ acc.updates = <<>>
      <4>1. acc.bytes \in Nat
        BY <1>4
      <4>2. acc.bytes <= 2
        BY <2>2, <4>1
      <4> QED BY <1>3, <1>4, <2>2, <4>2, Zenon
    <3>2. Delivered(packets) \o <<>> = Delivered(packets)
      <4>1. <<>> \in Seq(FieldsOf(T))
        BY EmptySeq
      <4>2. Delivered(packets) \in Seq(T)
        BY <1>4, <4>1, DeliveredAppended
      <4> QED BY <4>2, ConcatEmptySeq
    <3> QED BY <1>1, <3>1, <3>2 DEF OrderOK
  <2> QED BY <2>1, <2>2
<1>6. /\ Len(Append(s, q)) = Len(s) + 1 /\ Len(Append(s, t)) = Len(s) + 1 /\ Len(s) \in Nat
      /\ Append(s, q)[Len(s) + 1] = q
  BY AppendProperties, LenProperties
<1>7. ASSUME ~ Compresses PROVE Delivered(packets') = written
  BY <1>3, <1>5, <1>7
<1>8. ASSUME Compresses, Len(packets') = 1 PROVE Delivered(packets') = written
  <2>1. Len(s) = 0 /\ t = Append(q, ZeroEnd)
    BY <1>3, <1>6, <1>8
  <2>2. s = <<>>
    BY <2>1, EmptySeq
  <2>3. Whole(q, <<>>, written)
    BY <1>5, <1>6, <1>8, <2>1
  <2>4. ProcessUpdate(t) = written
    <3>1. ZeroEnd \in FieldsOf(T)
      BY <1>4, FieldTypes
    <3> QED BY <2>1, <2>3, <3>1, EndedPacket
  <2>5. Delivered(packets') = Delivered(s) \o ProcessUpdate(t)
    BY <1>3, DeliveredAppended
  <2>6. <<>> \o written = written
    BY ConcatEmptySeq DEF PacketsInv, UpdatesOK, PassOK
  <2> QED BY <2>2, <2>4, <2>5, <2>6, DeliveredNothing
<1> QED BY <1>1, <1>2, <1>7, <1>8 DEF OrderOK

LEMMA NextInOrder == PacketsInv /\ OrderOK /\ [UpdatesNext]_UpdatesVars => OrderOK'
<1> SUFFICES ASSUME PacketsInv, OrderOK, [UpdatesNext]_UpdatesVars PROVE OrderOK'
  OBVIOUS
<1>1. CASE (\E e \in EntityIds : Change(e)) \/ Join \/ LeaveOut \/ Suppress \/ UNCHANGED UpdatesVars
  <2>1. UNCHANGED <<level, acc, packets, stage, written>>
    BY <1>1 DEF Change, Join, LeaveOut, Suppress, WriteNext, UpdatesVars
  <2> QED BY <2>1, OrderStays
<1>2. CASE BeginUpdates
  BY <1>2, BeginInOrder
<1>3. CASE WriteUpdateFor
  BY <1>3, WriteInOrder
<1>4. CASE EndUpdates
  BY <1>4, EndInOrder
<1>5. CASE SendUpdatePacketsToAll
  <2>1. stage' = "idle"
    BY <1>5 DEF SendUpdatePacketsToAll
  <2> QED BY <2>1 DEF OrderOK
<1> QED BY <1>1, <1>2, <1>3, <1>4, <1>5 DEF UpdatesNext

(* The updates of a pass that were not suppressed are in the packets, each   *)
(* once and in their order, and the client's reader finds them: wherever     *)
(* write_update_for flushed, whatever the compressor made of a block; when   *)
(* they are compressed, as long as they fit into one packet.                 *)
THEOREM UpdatesInOrder == UpdatesSpec => []UpdatesArriveOnce
<1>1. PacketsInv /\ OrderOK => UpdatesArriveOnce
  BY DEF OrderOK, UpdatesArriveOnce, Delivered
<1> QED BY <1>1, SpecPackets, InitOrder, NextPackets, NextInOrder, PTL DEF UpdatesSpec

-----------------------------------------------------------------------------
(* What the clients know. *)

(* The cache is used in every pass, or in none: the console variable is not  *)
(* switched to or from eto_last_change during a game.                        *)
SteadyCaching == \/ \A l \in Levels : "last_change" \in l
                 \/ \A l \in Levels : "last_change" \notin l

SentIds == {written[k].id : k \in DOMAIN written}
Real(i) == cache[i].update # NoUpdate

(* The client has state s of e, or lost n updates of e since the last one it *)
(* received, or as many as are counted.                                      *)
Knows(e, s, n) == view[e] = s \/ missed[e] >= n \/ missed[e] >= MaxEq

(* An entity has one entry with an update, and search_entity finds it.       *)
OneEntry ==
    /\ \A i \in Slots : Real(i) => cache[i].update.id = cache[i].id
    /\ \A i, j \in Slots : i # j /\ cache[i].id = cache[j].id /\ Real(j) => j < i /\ ~ Real(i)

OldKnown(i) == /\ cache[i].id \notin SentIds
               /\ Knows(cache[i].id, cache[i].update.state, cache[i].eq + 1)
NewKnown(i) ==
    LET e == cache[i].id
    IN  /\ Real(i) /\ e < next /\ cache[i].update.state = value[e]
        /\ IF e \in SentIds THEN Knows(e, value[e], cache[i].eq)
                            ELSE Knows(e, value[e], MaxEq)

KnownOK ==
    /\ OneEntry
    /\ \A e \in SentIds : e < next
    /\ \A e \in withheld : view[e] = value[e] \/ missed[e] >= MaxEq
    /\ stage = "idle" => \A i \in Slots :
          Real(i) => Knows(cache[i].id, cache[i].update.state, cache[i].eq + 1)
    /\ stage # "idle" => \A i \in Slots :
          IF cache[i].age = 0 THEN NewKnown(i) ELSE Real(i) => OldKnown(i)

LEMMA InitKnown == UpdatesInit => KnownOK
<1> SUFFICES ASSUME UpdatesInit PROVE KnownOK
  OBVIOUS
<1>1. \A i \in Slots : ~ Real(i)
  BY DEF UpdatesInit, Real, EmptyEntry
<1>2. SentIds = {} /\ withheld = {} /\ stage = "idle"
  BY DEF UpdatesInit, SentIds
<1> QED BY <1>1, <1>2 DEF KnownOK, OneEntry

LEMMA IdleKnown ==
    ASSUME PacketsInv, KnownOK, (\E e \in EntityIds : Change(e)) \/ Join PROVE KnownOK'
<1>1. /\ stage = "idle" /\ stage' = stage /\ cache' = cache /\ next' = next
      /\ written' = written /\ withheld' = withheld /\ withheld = {}
  BY DEF Change, Join, PacketsInv, UpdatesOK, PassOK
<1>2. OneEntry' /\ (\A e \in SentIds : e < next)' /\ \A i \in Slots : Real(i)' <=> Real(i)
  BY <1>1 DEF KnownOK, OneEntry, Real, SentIds
<1>3. ASSUME NEW i \in Slots, Real(i)
      PROVE  Knows(cache[i].id, cache[i].update.state, cache[i].eq + 1)'
  <2>1. CASE \E e \in EntityIds : Change(e)
    <3>1. view' = view /\ missed' = missed
      BY <2>1 DEF Change, client
    <3> QED BY <1>1, <1>3, <3>1 DEF KnownOK, Knows
  <2>2. CASE Join
    <3> DEFINE e == cache[i].id
    <3>1. e \in EntityIds /\ cache[i].update.id = e
      BY <1>3 DEF PacketsInv, UpdatesOK, ServerOK, Entries, KnownOK, OneEntry
    <3>2. /\ view'[e] = value[e]
          /\ missed'[e] = IF Overtakes(e) THEN MaxEq ELSE 0
      BY <2>2, <3>1 DEF Join
    <3>3. CASE cache[i].update.state = value[e]
      BY <1>1, <3>2, <3>3 DEF Knows
    <3>4. CASE cache[i].update.state # value[e]
      <4>1. Overtakes(e)
        BY <3>1, <3>4 DEF Overtakes
      <4>2. missed'[e] >= MaxEq
        BY <3>2, <4>1, SizesAssumption
      <4> QED BY <1>1, <4>2 DEF Knows
    <3> QED BY <3>3, <3>4
  <2> QED BY <2>1, <2>2
<1> QED BY <1>1, <1>2, <1>3 DEF KnownOK

LEMMA BeginKnown == PacketsInv /\ KnownOK /\ BeginUpdates => KnownOK'
<1> SUFFICES ASSUME PacketsInv, KnownOK, BeginUpdates PROVE KnownOK'
  OBVIOUS
<1>1. /\ stage = "idle" /\ stage' = "write" /\ cache' = Aged /\ next' = 0
      /\ written' = <<>> /\ withheld' = {} /\ view' = view /\ missed' = missed
  BY DEF BeginUpdates, client, PacketsInv, UpdatesOK, PassOK
<1>2. \A i \in Slots : /\ cache'[i].age > 0 /\ cache'[i].id = cache[i].id
                       /\ cache'[i].eq = cache[i].eq /\ cache'[i].update = cache[i].update
  BY <1>1, AgedType DEF PacketsInv, UpdatesOK, ServerOK
<1>3. SentIds' = {}
  BY <1>1 DEF SentIds
<1>4. OneEntry' /\ \A i \in Slots : Real(i)' <=> Real(i)
  BY <1>2 DEF KnownOK, OneEntry, Real
<1>5. ASSUME NEW i \in Slots, Real(i) PROVE OldKnown(i)'
  <2>1. Knows(cache[i].id, cache[i].update.state, cache[i].eq + 1)
    BY <1>1, <1>5 DEF KnownOK
  <2> QED BY <1>1, <1>2, <1>3, <2>1 DEF OldKnown, Knows
<1>6. \A i \in Slots : cache'[i].age # 0
  <2> TAKE i \in Slots
  <2>1. cache'[i].age > 0
    BY <1>2
  <2> QED BY <2>1
<1> QED BY <1>1, <1>3, <1>4, <1>5, <1>6 DEF KnownOK

(* The entries of the next entity but the one that add_update takes.         *)
LEMMA OtherEntries ==
    ASSUME PacketsInv, KnownOK, WriteNext, NEW u, NEW i \in Slots,
           i \notin SlotFor(next, u), cache[i].id = next
    PROVE  ~ Real(i) /\ \A k \in SlotFor(next, u) : k < i
<1>1. value \in [EntityIds -> Values] /\ cache \in [Slots -> Entries]
  BY DEF PacketsInv, UpdatesOK, ServerOK
<1>2. i \in SearchEntity(next)
  BY DEF SearchEntity
<1>3. PICK k \in SearchEntity(next) :
         SlotFor(next, u) = {k} /\ \A j \in SearchEntity(next) : k <= j
  BY <1>1, <1>2, SlotForIs
<1>4. k \in Slots /\ cache[k].id = next /\ k # i /\ k <= i /\ k \in Nat /\ i \in Nat
  BY <1>1, <1>2, <1>3, LimitIsLarge DEF SearchEntity, Slots
<1>5. ~ Real(i)
  <2>1. Real(i) => i < k
    BY <1>4 DEF KnownOK, OneEntry
  <2> QED BY <1>4, <2>1
<1> QED BY <1>3, <1>4, <1>5

LEMMA AddOneEntry ==
    ASSUME PacketsInv, KnownOK, WriteNext, AddUpdate(next, Update(next))
    PROVE  OneEntry'
<1> DEFINE u == Update(next)
           S == SlotFor(next, u)
<1>1. /\ value \in [EntityIds -> Values] /\ cache \in [Slots -> Entries]
      /\ next \in EntityIds /\ u \in Updates
  BY WriteNextTypes
<1>2. \A i \in Slots :
         cache'[i] = IF i \in S
                     THEN [id |-> next, eq |-> CountEqual(cache[i], u), age |-> 0,
                           update |-> u]
                     ELSE cache[i]
  BY <1>1, AddUpdateIs
<1>3. S = {} \/ \E k \in Slots : S = {k}
  BY <1>1, SlotForIs
<1>4. u.id = next
  BY DEF Update
<1>5. \A i \in Slots : i \notin S /\ cache[i].id = next => ~ Real(i) /\ \A k \in S : k < i
  BY OtherEntries
<1> HIDE DEF S, u
<1>21. \A i \in S : i \in Slots /\ cache'[i].id = next /\ cache'[i].update = u
  <2> TAKE i \in S
  <2>1. i \in Slots
    BY <1>3
  <2>2. cache'[i] = [id |-> next, eq |-> CountEqual(cache[i], u), age |-> 0, update |-> u]
    BY <1>2, <2>1
  <2> QED BY <2>1, <2>2
<1>22. \A i \in Slots : i \notin S => cache'[i] = cache[i]
  BY <1>2
<1>6. ASSUME NEW i \in Slots, Real(i)' PROVE cache'[i].update.id = cache'[i].id
  <2>1. CASE i \in S
    BY <1>4, <1>21, <2>1
  <2>2. CASE i \notin S
    BY <1>6, <1>22, <2>2 DEF KnownOK, OneEntry, Real
  <2> QED BY <2>1, <2>2
<1>7. ASSUME NEW i \in Slots, NEW j \in Slots, i # j, cache'[i].id = cache'[j].id, Real(j)'
      PROVE  j < i /\ ~ Real(i)'
  <2>1. CASE i \notin S /\ j \notin S
    BY <1>7, <1>22, <2>1 DEF KnownOK, OneEntry, Real
  <2>2. CASE i \notin S /\ j \in S
    <3>1. cache[i].id = next /\ cache'[i] = cache[i]
      BY <1>7, <1>21, <1>22, <2>2
    <3> QED BY <1>5, <2>2, <3>1 DEF Real
  <2>3. CASE i \in S /\ j \notin S
    <3>1. cache[j].id = next /\ Real(j)
      BY <1>7, <1>21, <1>22, <2>3 DEF Real
    <3> QED BY <1>5, <2>3, <3>1
  <2>4. CASE i \in S /\ j \in S
    BY <1>3, <1>7, <2>4
  <2> QED BY <2>1, <2>2, <2>3, <2>4
<1> QED BY <1>6, <1>7 DEF OneEntry

(* The entry of the next entity, if it has the update already.               *)
LEMMA SameUpdate ==
    ASSUME PacketsInv, KnownOK, WriteNext, NEW k \in Slots,
           cache[k].update = Update(next)
    PROVE  Knows(next, value[next], cache[k].eq + 1)
<1>1. /\ next \in EntityIds /\ value \in [EntityIds -> Values] /\ stage = "write"
      /\ Update(next) # NoUpdate
  BY WriteNextTypes, UpdateType
<1>2. Real(k) /\ cache[k].id = next /\ cache[k].update.state = value[next]
  BY <1>1 DEF Real, KnownOK, OneEntry, Update
<1>3. cache[k].age # 0
  <2>1. next \in Nat
    BY <1>1, LimitIsLarge DEF EntityIds
  <2>2. cache[k].age = 0 => next < next
    BY <1>1, <1>2 DEF KnownOK, NewKnown
  <2> QED BY <2>1, <2>2
<1>4. OldKnown(k)
  BY <1>1, <1>2, <1>3 DEF KnownOK
<1> QED BY <1>2, <1>4 DEF OldKnown

LEMMA AddKnown ==
    ASSUME PacketsInv, KnownOK, WriteNext, AddUpdate(next, Update(next)),
           \/ /\ SentIds' = SentIds /\ EqualUpdates(next, Update(next)) >= MaxEq
           \/ SentIds' = SentIds \cup {next}
    PROVE  /\ \A i \in Slots : IF cache'[i].age = 0 THEN NewKnown(i)' ELSE Real(i)' => OldKnown(i)'
           /\ EqualUpdates(next, Update(next)) >= MaxEq => Knows(next, value[next], MaxEq)
<1> DEFINE u == Update(next)
           S == SlotFor(next, u)
<1>1. /\ value \in [EntityIds -> Values] /\ cache \in [Slots -> Entries]
      /\ next \in EntityIds /\ u \in Updates /\ u # NoUpdate /\ stage = "write"
      /\ missed \in [EntityIds -> 0 .. MaxEq]
  BY WriteNextTypes, UpdateType DEF PacketsInv, UpdatesOK, ClientOK
<1>2. \A i \in Slots :
         cache'[i] = IF i \in S
                     THEN [id |-> next, eq |-> CountEqual(cache[i], u), age |-> 0,
                           update |-> u]
                     ELSE cache[i]
  BY <1>1, AddUpdateIs
<1>3. S = {} \/ \E k \in Slots : S = {k} /\ Min(S) = k
  BY <1>1, SlotForIs
<1>4. u.id = next /\ u.state = value[next]
  BY DEF Update
<1>5. \A i \in Slots : i \notin S /\ cache[i].id = next => ~ Real(i)
  BY OtherEntries
<1>6. next' = next + 1 /\ value' = value /\ view' = view /\ missed' = missed /\ next \in Nat
  BY <1>1, LimitIsLarge DEF WriteNext, client, EntityIds
<1>7. /\ MaxEq \in Nat /\ MaxEq > 0 /\ missed[next] \in Nat
      /\ \A i \in Slots : cache[i].eq \in Nat /\ cache[i].id \in Nat
  <2>1. MaxEq \in Nat /\ MaxEq > 0 /\ EqValues \in Nat /\ Entities \in Nat
    BY <1>1, LimitIsLarge
  <2> QED BY <1>1, <2>1 DEF Entries, EntityIds
<1>8. \A k \in Slots : /\ cache[k].update # u => CountEqual(cache[k], u) = 0
                       /\ cache[k].update = u => CountEqual(cache[k], u) \in {0, cache[k].eq + 1}
  BY <1>1, CountType
<1>9. EqualUpdates(next, u) = IF S = {} THEN 0 ELSE CountEqual(cache[Min(S)], u)
  BY DEF EqualUpdates
<1>10. \A k \in Slots : cache[k].update = u => Knows(next, value[next], cache[k].eq + 1)
  BY SameUpdate
<1>11. next \notin SentIds
  BY <1>6 DEF KnownOK
<1> HIDE DEF S, u
<1>12. \A k \in Slots : /\ Knows(next, value[next], CountEqual(cache[k], u))
                        /\ CountEqual(cache[k], u) >= MaxEq => Knows(next, value[next], MaxEq)
  <2> TAKE k \in Slots
  <2>1. CASE cache[k].update = u
    BY <1>7, <1>8, <1>10, <2>1 DEF Knows
  <2>2. CASE cache[k].update # u
    BY <1>7, <1>8, <2>2 DEF Knows
  <2> QED BY <2>1, <2>2
<1>13. EqualUpdates(next, u) >= MaxEq => Knows(next, value[next], MaxEq)
  BY <1>3, <1>7, <1>9, <1>12
<1>14. ASSUME NEW i \in S PROVE cache'[i].age = 0 /\ NewKnown(i)'
  <2>1. i \in Slots /\ Min(S) = i /\ S # {}
    BY <1>3, <1>14
  <2>2. cache'[i] = [id |-> next, eq |-> CountEqual(cache[i], u), age |-> 0, update |-> u]
    BY <1>2, <1>14, <2>1
  <2>3. Real(i)' /\ next < next' /\ u.state = value'[next]
    BY <1>1, <1>4, <1>6, <2>2 DEF Real
  <2>4. CASE next \in SentIds'
    <3>1. cache'[i].eq = CountEqual(cache[i], u) /\ cache'[i].id = next
      BY <2>2
    <3>2. Knows(next, value[next], CountEqual(cache[i], u))
      BY <1>12, <2>1
    <3>3. /\ view'[next] = view[next] /\ missed'[next] = missed[next]
          /\ value'[next] = value[next] /\ cache'[i].update.state = value'[next]
      BY <1>6, <2>2, <2>3
    <3>4. /\ cache'[i].id \in SentIds' /\ cache'[i].id < next'
          /\ cache'[i].update.state = value'[cache'[i].id]
          /\ \/ view'[cache'[i].id] = value'[cache'[i].id]
             \/ missed'[cache'[i].id] >= cache'[i].eq \/ missed'[cache'[i].id] >= MaxEq
      BY <2>3, <2>4, <3>1, <3>2, <3>3 DEF Knows
    <3>5. NewKnown(i)'
      BY <2>3, <3>4 DEF NewKnown, Knows
    <3>6. cache'[i].age = 0
      BY <2>2
    <3> QED BY <3>5, <3>6
  <2>5. CASE next \notin SentIds'
    <3>1. EqualUpdates(next, u) >= MaxEq
      BY <2>5 DEF u
    <3>2. Knows(next, value[next], MaxEq)
      BY <1>13, <3>1
    <3> QED BY <1>6, <2>2, <2>3, <2>5, <3>2 DEF NewKnown, Knows
  <2> QED BY <2>2, <2>4, <2>5
<1>15. ASSUME NEW i \in Slots, i \notin S
       PROVE  IF cache'[i].age = 0 THEN NewKnown(i)' ELSE Real(i)' => OldKnown(i)'
  <2>1. cache'[i] = cache[i]
    BY <1>2, <1>15
  <2>2. CASE cache[i].age = 0
    <3>1. NewKnown(i)
      BY <1>1, <2>2 DEF KnownOK
    <3>2. cache[i].id < next /\ cache[i].id # next /\ cache[i].id < next'
      BY <1>6, <1>7, <3>1 DEF NewKnown
    <3>3. cache[i].id \in SentIds' <=> cache[i].id \in SentIds
      BY <3>2
    <3> QED BY <1>6, <2>1, <2>2, <3>1, <3>2, <3>3 DEF NewKnown, Knows, Real
  <2>3. CASE cache[i].age # 0
    <3> SUFFICES ASSUME Real(i) PROVE OldKnown(i)'
      BY <2>1, <2>3 DEF Real
    <3>1. OldKnown(i)
      BY <1>1, <2>3 DEF KnownOK
    <3>2. cache[i].id # next
      BY <1>5, <1>15
    <3>3. cache[i].id \notin SentIds'
      BY <3>1, <3>2 DEF OldKnown
    <3> QED BY <1>6, <2>1, <3>1, <3>3 DEF OldKnown, Knows
  <2> QED BY <2>1, <2>2, <2>3
<1>16. \A i \in Slots : IF cache'[i].age = 0 THEN NewKnown(i)' ELSE Real(i)' => OldKnown(i)'
  BY <1>14, <1>15
<1> QED BY <1>13, <1>16 DEF u

LEMMA SentLater ==
    ASSUME PacketsInv, KnownOK, next \in EntityIds
    PROVE  /\ next \in Nat /\ next < next + 1
           /\ SentIds \subseteq Nat /\ \A e \in SentIds : e < next + 1
           /\ \A i \in Slots : cache[i].id \in Nat
<1>1. written \in Seq(Updates) /\ value \in [EntityIds -> Values]
      /\ cache \in [Slots -> Entries]
  BY DEF PacketsInv, UpdatesOK, ServerOK, PassOK
<1>2. EntityIds \subseteq Nat
  BY <1>1, LimitIsLarge DEF EntityIds
<1>3. \A k \in DOMAIN written : written[k] \in Updates
  BY <1>1, ElementOfSeq
<1>4. SentIds \subseteq Nat
  BY <1>2, <1>3 DEF SentIds, Updates
<1>5. \A e \in SentIds : e < next + 1
  BY <1>2, <1>4 DEF KnownOK
<1>6. \A i \in Slots : cache[i].id \in Nat
  BY <1>1, <1>2 DEF Entries
<1>7. next \in Nat /\ next < next + 1
  BY <1>2
<1> QED BY <1>4, <1>5, <1>6, <1>7

LEMMA LeftOutKnown ==
    ASSUME PacketsInv, KnownOK, LeaveOut PROVE KnownOK'
<1>1. /\ stage = "write" /\ stage' = stage /\ cache' = cache /\ written' = written
      /\ withheld' = withheld /\ value' = value /\ view' = view /\ missed' = missed
      /\ next' = next + 1 /\ next \in Nat
  <2>1. next \in EntityIds /\ value \in [EntityIds -> Values]
    BY DEF LeaveOut, WriteNext, PacketsInv, UpdatesOK, ServerOK
  <2> QED BY <2>1, LimitIsLarge DEF LeaveOut, WriteNext, client, EntityIds
<1>2. SentIds' = SentIds /\ OneEntry'
  BY <1>1 DEF SentIds, OneEntry, Real, KnownOK
<1>3. \A i \in Slots : cache[i].id \in Nat
  BY SentLater DEF LeaveOut, WriteNext
<1>4. \A e \in SentIds : e < next + 1
  BY SentLater DEF LeaveOut, WriteNext
<1>5. ASSUME NEW i \in Slots
      PROVE  IF cache[i].age = 0 THEN NewKnown(i)' ELSE Real(i)' => OldKnown(i)'
  <2>1. CASE cache[i].age = 0
    <3>1. NewKnown(i) /\ cache[i].id \in Nat
      BY <1>1, <1>3, <2>1 DEF KnownOK
    <3> QED BY <1>1, <1>2, <2>1, <3>1 DEF NewKnown, Knows, Real
  <2>2. CASE cache[i].age # 0
    <3>1. Real(i) => OldKnown(i)
      BY <1>1, <2>2 DEF KnownOK
    <3> QED BY <1>1, <1>2, <2>2, <3>1 DEF OldKnown, Knows, Real
  <2> QED BY <2>1, <2>2
<1> QED BY <1>1, <1>2, <1>4, <1>5 DEF KnownOK, Knows

(* The ids that have been sent, one update later.                            *)
LEMMA SentIdsAppended ==
    ASSUME PacketsInv, NEW u \in Updates, written' = Append(written, u)
    PROVE  SentIds' = SentIds \cup {u.id}
<1>1. written \in Seq(Updates)
  BY DEF PacketsInv, UpdatesOK, PassOK
<1>2. /\ Len(written) \in Nat /\ DOMAIN written = 1 .. Len(written)
      /\ DOMAIN written' = 1 .. Len(written) + 1
      /\ \A k \in 1 .. Len(written) : written'[k] = written[k]
      /\ written'[Len(written) + 1] = u
  <2>1. Append(written, u) \in Seq(Updates)
    BY <1>1, AppendProperties
  <2> QED BY <1>1, <2>1, AppendProperties, LenProperties
<1>3. DOMAIN written' = DOMAIN written \cup {Len(written) + 1}
  BY <1>2
<1> QED BY <1>2, <1>3 DEF SentIds

LEMMA SuppressKnown ==
    ASSUME PacketsInv, KnownOK, Suppress PROVE KnownOK'
<1>1. /\ WriteNext /\ AddUpdate(next, Update(next)) /\ withheld' = withheld \cup {next}
      /\ EqualUpdates(next, Update(next)) >= MaxEq /\ written' = written
  BY DEF Suppress, TooManyEqual
<1>2. /\ stage = "write" /\ stage' = stage /\ value' = value /\ view' = view
      /\ missed' = missed /\ next' = next + 1 /\ next \in EntityIds
  BY <1>1, WriteNextTypes DEF WriteNext, client
<1>3. SentIds' = SentIds /\ OneEntry'
  BY <1>1, AddOneEntry DEF SentIds
<1>4. /\ \A i \in Slots : IF cache'[i].age = 0 THEN NewKnown(i)' ELSE Real(i)' => OldKnown(i)'
      /\ Knows(next, value[next], MaxEq)
  BY <1>1, <1>3, AddKnown
<1>5. \A e \in SentIds' : e < next'
  BY <1>2, <1>3, SentLater DEF KnownOK
<1>6. \A e \in withheld' : view'[e] = value'[e] \/ missed'[e] >= MaxEq
  BY <1>1, <1>2, <1>4 DEF KnownOK, Knows
<1> QED BY <1>2, <1>3, <1>4, <1>5, <1>6 DEF KnownOK

LEMMA WriteKnown ==
    ASSUME PacketsInv, KnownOK, WriteUpdateFor, Caches PROVE KnownOK'
<1>1. /\ WriteNext /\ AddUpdate(next, Update(next)) /\ withheld' = withheld
      /\ written' = Append(written, Update(next))
  BY DEF WriteUpdateFor
<1>2. /\ stage = "write" /\ stage' = stage /\ value' = value /\ view' = view
      /\ missed' = missed /\ next' = next + 1 /\ next \in EntityIds
      /\ Update(next) \in Updates /\ Update(next).id = next
  BY <1>1, WriteNextTypes DEF WriteNext, client, Update
<1>3. SentIds' = SentIds \cup {next} /\ OneEntry'
  BY <1>1, <1>2, SentIdsAppended, AddOneEntry
<1>4. \A i \in Slots : IF cache'[i].age = 0 THEN NewKnown(i)' ELSE Real(i)' => OldKnown(i)'
  BY <1>1, <1>3, AddKnown
<1>5. \A e \in SentIds' : e < next'
  BY <1>2, <1>3, SentLater DEF KnownOK
<1>6. \A e \in withheld' : view'[e] = value'[e] \/ missed'[e] >= MaxEq
  BY <1>1, <1>2 DEF KnownOK
<1> QED BY <1>2, <1>3, <1>4, <1>5, <1>6 DEF KnownOK

LEMMA EndKnown ==
    ASSUME PacketsInv, KnownOK, EndUpdates PROVE KnownOK'
<1>1. /\ stage = "write" /\ stage' = "made" /\ cache' = cache /\ written' = written
      /\ withheld' = withheld /\ value' = value /\ view' = view /\ missed' = missed
      /\ next' = next
  BY DEF EndUpdates, client
<1> QED BY <1>1 DEF KnownOK, OneEntry, Real, SentIds, OldKnown, NewKnown, Knows

(* A client hears of an entity only what has been sent in this pass.         *)
LEMMA HeardIsSent ==
    ASSUME PacketsInv, stage = "made", NEW i \in Sent,
           NEW u \in ToSet(ProcessUpdate(packets[i]))
    PROVE  u.id \in SentIds
<1> DEFINE T == ToSet(written)
<1>1. packets \in Seq(Seq(FieldsOf(T))) /\ i \in DOMAIN packets
  BY DEF PacketsInv, UpdatesOK, PassOK, Sent
<1>2. packets[i] \in Seq(FieldsOf(T))
  <2> HIDE DEF T
  <2> QED BY <1>1, ElementOfSeq
<1>3. ProcessUpdate(packets[i]) \in Seq(T)
  BY <1>2, ProcessUpdateType
<1>4. u \in T
  <2>1. PICK k \in DOMAIN ProcessUpdate(packets[i]) : u = ProcessUpdate(packets[i])[k]
    BY DEF ToSet
  <2> HIDE DEF T
  <2> QED BY <1>3, <2>1, ElementOfSeq
<1>5. \E k \in DOMAIN written : u = written[k]
  BY <1>4 DEF ToSet
<1> QED BY <1>5 DEF SentIds

LEMMA SendKnown ==
    ASSUME PacketsInv, KnownOK, SendUpdatePacketsToAll PROVE KnownOK'
<1>1. /\ stage = "made" /\ stage' = "idle" /\ cache' = cache /\ written' = <<>>
      /\ withheld' = {} /\ value' = value /\ next' = 0
  BY DEF SendUpdatePacketsToAll
<1>2. PICK lost \in SUBSET Sent :
        LET got  == UNION {ToSet(ProcessUpdate(packets[i])) : i \in Sent \ lost}
            heard(e) == \E u \in got : u.id = e
            sent(e)  == \E i \in DOMAIN written : written[i].id = e
        IN  /\ view' = [e \in EntityIds |-> IF heard(e) THEN value[e] ELSE view[e]]
            /\ missed' = [e \in EntityIds |-> IF heard(e) THEN 0
                                        ELSE IF sent(e) /\ missed[e] < MaxEq
                                        THEN missed[e] + 1 ELSE missed[e]]
  BY DEF SendUpdatePacketsToAll
<1> DEFINE got == UNION {ToSet(ProcessUpdate(packets[i])) : i \in Sent \ lost}
           heard(e) == \E u \in got : u.id = e
<1>3. \A e : heard(e) => e \in SentIds
  BY <1>1, HeardIsSent
<1>4. \A e : (\E i \in DOMAIN written : written[i].id = e) <=> e \in SentIds
  BY DEF SentIds
<1>5. \A e \in EntityIds :
         /\ view'[e] = IF heard(e) THEN value[e] ELSE view[e]
         /\ missed'[e] = IF heard(e) THEN 0
                         ELSE IF e \in SentIds /\ missed[e] < MaxEq
                         THEN missed[e] + 1 ELSE missed[e]
  BY <1>2, <1>4
<1> HIDE DEF heard
<1>6. /\ cache \in [Slots -> Entries] /\ missed \in [EntityIds -> 0 .. MaxEq]
      /\ MaxEq \in Nat /\ EqValues \in Nat
  BY LimitIsLarge DEF PacketsInv, UpdatesOK, ServerOK, ClientOK
<1>7. SentIds' = {}
  BY <1>1 DEF SentIds
<1>8. OneEntry'
  BY <1>1 DEF KnownOK, OneEntry, Real
<1>9. ASSUME NEW i \in Slots, Real(i)
      PROVE  Knows(cache[i].id, cache[i].update.state, cache[i].eq + 1)'
  <2> DEFINE e == cache[i].id
             s == cache[i].update.state
             q == cache[i].eq
  <2>1. e \in EntityIds /\ q \in Nat /\ missed[e] \in Nat
    BY <1>6 DEF Entries
  <2>2. IF cache[i].age = 0 THEN NewKnown(i) ELSE OldKnown(i)
    BY <1>1, <1>9 DEF KnownOK
  <2>3. \/ e \in SentIds /\ s = value[e] /\ Knows(e, s, q)
        \/ e \notin SentIds /\ (Knows(e, s, MaxEq) \/ Knows(e, s, q + 1))
    BY <2>2 DEF NewKnown, OldKnown
  <2> HIDE DEF e, s, q
  <2>4. view'[e] = s \/ missed'[e] >= q + 1 \/ missed'[e] >= MaxEq
    <3>1. CASE heard(e)
      BY <1>3, <1>5, <2>1, <2>3, <3>1
    <3>2. CASE ~ heard(e) /\ e \in SentIds
      BY <1>5, <1>6, <2>1, <2>3, <3>2 DEF Knows
    <3>3. CASE ~ heard(e) /\ e \notin SentIds
      BY <1>5, <1>6, <2>1, <2>3, <3>3 DEF Knows
    <3> QED BY <3>1, <3>2, <3>3
  <2> QED BY <1>1, <2>4 DEF Knows, e, s, q
<1> QED BY <1>1, <1>7, <1>8, <1>9 DEF KnownOK, Real

LEMMA StutterKnown == KnownOK /\ UNCHANGED UpdatesVars => KnownOK'
<1> SUFFICES ASSUME KnownOK, UNCHANGED UpdatesVars PROVE KnownOK'
  OBVIOUS
<1>1. /\ stage' = stage /\ cache' = cache /\ written' = written
      /\ withheld' = withheld /\ value' = value /\ view' = view /\ missed' = missed
      /\ next' = next
  BY DEF UpdatesVars
<1> QED BY <1>1 DEF KnownOK, OneEntry, Real, SentIds, OldKnown, NewKnown, Knows

LEMMA NextKnown ==
    ASSUME \A l \in Levels : "last_change" \in l, PacketsInv, KnownOK,
           [UpdatesNext]_UpdatesVars
    PROVE  KnownOK'
<1>1. CASE (\E e \in EntityIds : Change(e)) \/ Join
  BY <1>1, IdleKnown
<1>2. CASE BeginUpdates
  BY <1>2, BeginKnown
<1>3. CASE LeaveOut
  BY <1>3, LeftOutKnown
<1>4. CASE Suppress
  BY <1>4, SuppressKnown
<1>5. CASE WriteUpdateFor
  <2>1. level \in Levels
    BY <1>5 DEF WriteUpdateFor, WriteNext, PacketsInv, UpdatesOK, PassOK
  <2> QED BY <1>5, <2>1, WriteKnown DEF Caches
<1>6. CASE EndUpdates
  BY <1>6, EndKnown
<1>7. CASE SendUpdatePacketsToAll
  BY <1>7, SendKnown
<1>8. CASE UNCHANGED UpdatesVars
  BY <1>8, StutterKnown
<1> QED BY <1>1, <1>2, <1>3, <1>4, <1>5, <1>6, <1>7, <1>8 DEF UpdatesNext

(* Without the cache nothing is withheld.                                    *)
LEMMA NextWithheld ==
    ASSUME \A l \in Levels : "last_change" \notin l, PacketsInv, withheld = {},
           [UpdatesNext]_UpdatesVars
    PROVE  withheld' = {}
<1>1. ~ Suppress
  <2>1. Suppress => level \in Levels
    BY DEF Suppress, WriteNext, PacketsInv, UpdatesOK, PassOK
  <2> QED BY <2>1 DEF Suppress, Caches
<1>2. withheld' = withheld \/ withheld' = {}
  BY <1>1 DEF UpdatesNext, Change, Join, BeginUpdates, LeaveOut, WriteUpdateFor, EndUpdates,
              SendUpdatePacketsToAll, UpdatesVars
<1> QED BY <1>2

(* An update is kept from a client only if the client has the entity's       *)
(* state, or has lost as many updates of it as are sent of a state before    *)
(* more are withheld: for every number of entities, every size of the cache, *)
(* of its counters and of the packets, every order in which entries expire,  *)
(* and wherever a client joins; as long as the traffic optimization is not   *)
(* switched while the game runs.                                             *)
THEOREM SuppressedAreKnown ==
    ASSUME SteadyCaching PROVE UpdatesSpec => []SuppressedIsKnown
<1>1. ASSUME \A l \in Levels : "last_change" \in l
      PROVE  UpdatesSpec => []SuppressedIsKnown
  <2>1. KnownOK => SuppressedIsKnown
    BY DEF KnownOK, SuppressedIsKnown
  <2>2. PacketsInv /\ KnownOK /\ [UpdatesNext]_UpdatesVars => KnownOK'
    BY <1>1, NextKnown
  <2> QED BY <2>1, <2>2, SpecPackets, InitKnown, NextPackets, PTL DEF UpdatesSpec
<1>2. ASSUME \A l \in Levels : "last_change" \notin l
      PROVE  UpdatesSpec => []SuppressedIsKnown
  <2>1. withheld = {} => SuppressedIsKnown
    BY DEF SuppressedIsKnown
  <2>2. PacketsInv /\ withheld = {} /\ [UpdatesNext]_UpdatesVars => (withheld = {})'
    BY <1>2, NextWithheld
  <2>3. UpdatesInit => withheld = {}
    BY DEF UpdatesInit
  <2> QED BY <2>1, <2>2, <2>3, SpecPackets, NextPackets, PTL DEF UpdatesSpec
<1> QED BY <1>1, <1>2 DEF SteadyCaching

-----------------------------------------------------------------------------
(* Ids, blocks and offsets. *)
USE IdRange, BlockSizeAssumption, MaxTimeAssumption

(* The index of the last block. *)
LEMMA LastBlock ==
    /\ BlockCount - 1 \in Nat
    /\ \E r \in Offsets :
          MaxValue - MinValue = (BlockCount - 1) * BlockSize + r
<1> DEFINE x == MaxValue - MinValue
<1>1. x \in Nat
  OBVIOUS
<1>2. /\ x \div BlockSize \in Nat
      /\ x % BlockSize \in 0 .. BlockSize - 1
      /\ x = (x \div BlockSize) * BlockSize + (x % BlockSize)
  BY <1>1, DivMod
<1>3. BlockCount - 1 = x \div BlockSize
  BY <1>2 DEF BlockCount
<1> QED BY <1>2, <1>3 DEF Offsets

(* Every block has at least one id and at most BlockSize. *)
LEMMA CapacityRange ==
    ASSUME NEW b \in Blocks
    PROVE  /\ b \in Nat
           /\ Capacity(b) \in 1 .. BlockSize
           /\ b < BlockCount - 1 => Capacity(b) = BlockSize
           /\ b = BlockCount - 1 =>
                 Capacity(b) = MaxValue - MinValue - b * BlockSize + 1
<1>1. PICK r \in Offsets :
         MaxValue - MinValue = (BlockCount - 1) * BlockSize + r
  BY LastBlock
<1>2. b \in Nat /\ b <= BlockCount - 1 /\ BlockCount - 1 \in Nat
  BY LastBlock DEF Blocks
<1>3. (BlockCount - 1) * BlockSize \in Nat /\ b * BlockSize \in Nat
  BY <1>2, SMT
<1>4. CASE b < BlockCount - 1
  BY <1>2, <1>4 DEF Capacity
<1>5. CASE b = BlockCount - 1
  BY <1>1, <1>2, <1>3, <1>5 DEF Capacity, IdAt, Offsets
<1> QED BY <1>2, <1>4, <1>5

(* The offsets below the capacity of a block are the ids of that block. *)
LEMMA IdOfBlock ==
    ASSUME NEW b \in Blocks, NEW o \in 0 .. Capacity(b) - 1
    PROVE  /\ o \in Offsets
           /\ IdAt(b, o) \in Ids
           /\ BlockOf(IdAt(b, o)) = b
           /\ OffsetOf(IdAt(b, o)) = o
<1>1. PICK r \in Offsets :
         MaxValue - MinValue = (BlockCount - 1) * BlockSize + r
  BY LastBlock
<1>2. b \in Nat /\ b <= BlockCount - 1 /\ BlockCount - 1 \in Nat
  BY LastBlock DEF Blocks
<1>3. o \in 0 .. BlockSize - 1
  BY CapacityRange
<1>4. b * BlockSize \in Nat
  BY <1>2, SMT
<1>5. /\ IdAt(b, o) - MinValue = b * BlockSize + o
      /\ IdAt(b, o) >= MinValue
      /\ IdAt(b, o) \in Int
  BY <1>3, <1>4 DEF IdAt
<1>6. /\ BlockOf(IdAt(b, o)) = b
      /\ OffsetOf(IdAt(b, o)) = o
  BY <1>2, <1>3, <1>5, DivModUnique DEF BlockOf, OffsetOf
<1>7. IdAt(b, o) <= MaxValue
  <2>1. CASE b < BlockCount - 1
    <3>1. (BlockCount - 1) - b >= 1 /\ (BlockCount - 1) - b \in Nat
      BY <1>2, <2>1
    <3>2. ((BlockCount - 1) - b) * BlockSize >= BlockSize
      BY <3>1, SMT
    <3>3. (BlockCount - 1) * BlockSize
            = b * BlockSize + ((BlockCount - 1) - b) * BlockSize
      BY <1>2, <3>1, SMT
    <3>4. ((BlockCount - 1) - b) * BlockSize \in Nat
      BY <3>1, SMT
    <3> QED BY <1>1, <1>3, <1>4, <1>5, <3>2, <3>3, <3>4 DEF Offsets
  <2>2. CASE b = BlockCount - 1
    BY <1>4, <1>5, <2>2, CapacityRange
  <2> QED BY <1>2, <2>1, <2>2
<1> QED BY <1>3, <1>5, <1>6, <1>7 DEF Offsets, Ids

(* Every id is an offset of its block. *)
LEMMA BlockOfId ==
    ASSUME NEW v \in Ids
    PROVE  /\ BlockOf(v) \in Blocks
           /\ OffsetOf(v) \in Offsets
           /\ OffsetOf(v) < Capacity(BlockOf(v))
           /\ IdAt(BlockOf(v), OffsetOf(v)) = v
<1> DEFINE x == v - MinValue
           b == BlockOf(v)
           o == OffsetOf(v)
<1>1. x \in Nat /\ x <= MaxValue - MinValue
  BY DEF Ids
<1>2. b \in Nat /\ o \in 0 .. BlockSize - 1 /\ x = b * BlockSize + o
  BY <1>1, DivMod DEF BlockOf, OffsetOf
<1>3. PICK r \in Offsets :
         MaxValue - MinValue = (BlockCount - 1) * BlockSize + r
  BY LastBlock
<1>4. BlockCount - 1 \in Nat
  BY LastBlock
<1>5. b * BlockSize \in Nat /\ (BlockCount - 1) * BlockSize \in Nat
  BY <1>2, <1>4, SMT
<1>6. b <= BlockCount - 1
  <2>1. SUFFICES ASSUME b > BlockCount - 1 PROVE FALSE
    BY <1>2, <1>4
  <2>2. b - (BlockCount - 1) >= 1 /\ b - (BlockCount - 1) \in Nat
    BY <1>2, <1>4, <2>1
  <2>3. (b - (BlockCount - 1)) * BlockSize >= BlockSize
    BY <2>2, SMT
  <2>4. b * BlockSize
          = (BlockCount - 1) * BlockSize + (b - (BlockCount - 1)) * BlockSize
    BY <1>2, <1>4, <2>2, SMT
  <2> DEFINE last == (BlockCount - 1) * BlockSize
             over == (b - (BlockCount - 1)) * BlockSize
             bids == b * BlockSize
  <2>5. /\ last \in Nat
        /\ bids = last + over
        /\ over >= BlockSize
        /\ over \in Nat
        /\ x = bids + o
        /\ MaxValue - MinValue = last + r
    BY <1>2, <1>3, <1>5, <2>2, <2>3, <2>4
  <2> HIDE DEF b, o, x, last, over, bids
  <2> QED BY <1>1, <1>2, <2>5 DEF Offsets
<1>7. b \in Blocks
  BY <1>2, <1>4, <1>6 DEF Blocks
<1>8. IdAt(b, o) = v
  <2> HIDE DEF b, o
  <2> QED BY <1>2, <1>5 DEF IdAt, Ids
<1>9. o < Capacity(b)
  <2> HIDE DEF b, o
  <2>1. CASE b < BlockCount - 1
    BY <1>2, <1>7, <2>1, CapacityRange
  <2>2. CASE b = BlockCount - 1
    BY <1>1, <1>2, <1>5, <1>7, <2>2, CapacityRange
  <2> QED BY <1>2, <1>4, <1>6, <2>1, <2>2
<1> QED BY <1>2, <1>7, <1>8, <1>9 DEF Offsets

-----------------------------------------------------------------------------
(* The inductive invariant.  EachIdOnce alone is not inductive: that a pop  *)
(* finds an entry at all, and that a release finds room, needs the counts   *)
(* of TypeOK, and that the minimal block is not empty needs AvailableExact. *)
IInv == TypeOK /\ EachIdOnce /\ AvailableExact

LEMMA BlocksFinite == /\ BlockCount \in Nat \ {0}
                      /\ IsFiniteSet(Blocks)
                      /\ Cardinality(Blocks) = BlockCount
<1>1. BlockCount \in Nat \ {0}
  <2>1. BlockCount - 1 \in Nat
    BY LastBlock
  <2>2. (MaxValue - MinValue) \div BlockSize \in Nat
    BY DivMod
  <2> QED BY <2>2 DEF BlockCount
<1>2. /\ IsFiniteSet(0 .. BlockCount - 1)
      /\ Cardinality(0 .. BlockCount - 1) = (BlockCount - 1) - 0 + 1
  BY <1>1, FS_Interval
<1> QED BY <1>1, <1>2 DEF Blocks

LEMMA NonEmptyFinite == /\ IsFiniteSet(NonEmpty)
                        /\ Cardinality(NonEmpty) \in 0 .. BlockCount
<1>1. NonEmpty \in SUBSET Blocks
  BY DEF NonEmpty
<1>2. IsFiniteSet(NonEmpty) /\ Cardinality(NonEmpty) <= BlockCount
  BY <1>1, BlocksFinite, FS_Subset
<1> QED BY <1>2, BlocksFinite, FS_CardinalityType

(* The constructor puts every id on the stack of its block, once. *)
LEMMA ConstructedOk ==
    ASSUME NEW b \in Blocks
    PROVE  /\ \A i \in Offsets : Constructed(b, i) \in Offsets
           /\ \A i \in Offsets : i < Capacity(b) =>
                 /\ Constructed(b, i) < Capacity(b)
                 /\ \A j \in Offsets : j < Capacity(b) /\ j # i =>
                       Constructed(b, j) # Constructed(b, i)
           /\ \A o \in Offsets : o < Capacity(b) =>
                 \E i \in Offsets : i < Capacity(b) /\ Constructed(b, i) = o
<1>1. Capacity(b) \in 1 .. BlockSize
  BY CapacityRange
<1>2. ASSUME NEW o \in Offsets, o < Capacity(b)
      PROVE  \E i \in Offsets : i < Capacity(b) /\ Constructed(b, i) = o
  <2>1. /\ Capacity(b) - 1 - o \in Offsets
        /\ Capacity(b) - 1 - o < Capacity(b)
        /\ Constructed(b, Capacity(b) - 1 - o) = o
    BY <1>1, <1>2 DEF Constructed, Offsets
  <2> QED BY <2>1
<1> QED BY <1>1, <1>2 DEF Constructed, Offsets

LEMMA ConstructIInv ==
    /\ Construct
    /\ now \in Times
    /\ fault \in {"none", "exhausted", "conflict"}
    => IInv
<1> SUFFICES ASSUME Construct, now \in Times,
                    fault \in {"none", "exhausted", "conflict"}
             PROVE  IInv
  OBVIOUS
<1> USE DEF Construct, FreshCount, FreshStack
<1>1. TypeOK
  <2>1. \A b \in Blocks : Capacity(b) \in 0 .. BlockSize
    BY CapacityRange
  <2>2. count \in [Blocks -> 0 .. BlockSize]
    BY <2>1
  <2>3. \A b \in Blocks : count[b] <= Capacity(b)
    BY <2>1
  <2>4. stack \in [Blocks -> [Offsets -> Offsets]]
    <3>1. \A b \in Blocks :
            [i \in Offsets |-> Constructed(b, i)] \in [Offsets -> Offsets]
      BY ConstructedOk
    <3> QED BY <3>1
  <2>5. timeID \in [Blocks -> Times] /\ freedAt \in [Ids -> Times]
    BY DEF Times
  <2>6. available \in 0 .. BlockCount
    BY BlocksFinite
  <2> QED BY <2>2, <2>3, <2>4, <2>5, <2>6 DEF TypeOK
<1>2. EntriesDistinct
  BY ConstructedOk DEF EntriesDistinct
<1>3. FreeIds = Ids
  <2>1. ASSUME NEW v \in Ids PROVE EntriesOf(v) # {}
    <3>1. /\ BlockOf(v) \in Blocks
          /\ OffsetOf(v) \in Offsets
          /\ OffsetOf(v) < Capacity(BlockOf(v))
      BY BlockOfId
    <3>2. PICK i \in Offsets : /\ i < Capacity(BlockOf(v))
                               /\ Constructed(BlockOf(v), i) = OffsetOf(v)
      BY <3>1, ConstructedOk
    <3> QED BY <3>1, <3>2 DEF EntriesOf
  <2> QED BY <2>1 DEF FreeIds
<1>4. NonEmpty = Blocks
  <2>1. \A b \in Blocks : count[b] > 0
    BY CapacityRange
  <2> QED BY <2>1 DEF NonEmpty
<1> QED
  BY <1>1, <1>2, <1>3, <1>4, BlocksFinite DEF IInv, EachIdOnce, AvailableExact

LEMMA InitIInv == Init => IInv
  BY ConstructIInv DEF Init, Times

LEMMA ClearIdsIInv == IInv /\ ClearIds => IInv'
<1>1. ( /\ Construct
        /\ now \in Times
        /\ fault \in {"none", "exhausted", "conflict"}
        => IInv )'
  BY ConstructIInv, PTL
<1>2. ClearIds => Construct'
  BY DEF ClearIds, Construct, FreshCount, FreshStack
<1> QED BY <1>1, <1>2 DEF ClearIds, IInv, TypeOK

-----------------------------------------------------------------------------
(* Taking out any free entry, the top of the stack or one inside it. *)
LEMMA TakeEntryIInv ==
    ASSUME IInv, NEW b \in Blocks, NEW i \in Offsets, i < count[b],
           TakeEntry(b, i)
    PROVE  /\ IInv'
           /\ IdAt(b, stack[b][i]) \in Ids \ used
<1> DEFINE top == count[b] - 1
           o == stack[b][i]
           v == IdAt(b, o)
<1> USE DEF IInv
<1>1. /\ count \in [Blocks -> 0 .. BlockSize]
      /\ count[b] \in 1 .. BlockSize
      /\ count[b] <= Capacity(b)
      /\ stack \in [Blocks -> [Offsets -> Offsets]]
      /\ top \in Offsets /\ top < count[b]
      /\ available \in 0 .. BlockCount
  <2>1. count \in [Blocks -> 0 .. BlockSize]
    BY DEF TypeOK
  <2>2. count[b] \in 1 .. BlockSize
    BY <2>1 DEF Offsets
  <2>3. count[b] <= Capacity(b) /\ available \in 0 .. BlockCount
    BY DEF TypeOK
  <2>4. stack \in [Blocks -> [Offsets -> Offsets]]
    BY DEF TypeOK
  <2>5. top \in Offsets /\ top < count[b]
    BY <2>2 DEF Offsets
  <2> QED BY <2>1, <2>2, <2>3, <2>4, <2>5
<1>1a. /\ top \in Nat /\ count[b] = top + 1 /\ i \in Nat /\ i <= top
      /\ \A k \in Offsets : k \in Nat
  BY <1>1 DEF Offsets
<1>2. /\ count' = [count EXCEPT ![b] = top]
      /\ stack' = [stack EXCEPT ![b][i] = stack[b][top]]
      /\ available' = IF count[b] = 1 THEN available - 1 ELSE available
      /\ used' = used \cup {v}
      /\ UNCHANGED <<timeID, now, fault, freedAt>>
  BY DEF TakeEntry
<1>3. /\ stack' \in [Blocks -> [Offsets -> Offsets]]
      /\ \A k \in Offsets :
            stack'[b][k] = IF k = i THEN stack[b][top] ELSE stack[b][k]
      /\ \A c \in Blocks \ {b} : stack'[c] = stack[c]
  BY <1>1, <1>2
<1>4. /\ count' \in [Blocks -> 0 .. BlockSize]
      /\ count'[b] = top
      /\ \A c \in Blocks \ {b} : count'[c] = count[c]
  BY <1>1, <1>2
<1>5. o \in Offsets /\ o < Capacity(b)
  BY <1>1 DEF EachIdOnce, EntriesDistinct
<1>6. v \in Ids /\ BlockOf(v) = b /\ OffsetOf(v) = o
  BY <1>5, CapacityRange, IdOfBlock DEF Offsets
<1>7. v \in FreeIds
  BY <1>6 DEF FreeIds, EntriesOf
<1>8. v \notin used
  BY <1>7 DEF EachIdOnce
<1> HIDE DEF top, o, v
<1>9. NonEmpty' = (IF count[b] = 1 THEN NonEmpty \ {b} ELSE NonEmpty)
  BY <1>1, <1>4 DEF NonEmpty, top
<1>10. AvailableExact'
  <2>1. b \in NonEmpty
    BY <1>1 DEF NonEmpty
  <2>2. /\ Cardinality(NonEmpty \ {b}) = Cardinality(NonEmpty) - 1
        /\ Cardinality(NonEmpty) \in 0 .. BlockCount
    BY <2>1, NonEmptyFinite, FS_RemoveElement
  <2> QED BY <1>2, <1>9, <2>1, <2>2 DEF AvailableExact
<1>11. available' \in 0 .. BlockCount
  <2>1. Cardinality(NonEmpty') \in 0 .. BlockCount
    <3>1. Cardinality(NonEmpty \ {b}) \in 0 .. BlockCount
      <4>1. NonEmpty \ {b} \in SUBSET Blocks
        BY DEF NonEmpty
      <4>2. /\ IsFiniteSet(NonEmpty \ {b})
            /\ Cardinality(NonEmpty \ {b}) <= BlockCount
        BY <4>1, BlocksFinite, FS_Subset
      <4> QED BY <4>2, BlocksFinite, FS_CardinalityType
    <3> QED BY <1>9, <3>1, NonEmptyFinite
  <2> QED BY <1>10, <2>1 DEF AvailableExact
<1>12. TypeOK'
  <2>1. \A c \in Blocks : count'[c] <= Capacity(c)
    BY <1>1, <1>4, CapacityRange DEF TypeOK, top
  <2>2. used' \subseteq Ids
    BY <1>2, <1>6 DEF TypeOK
  <2> QED BY <1>2, <1>3, <1>4, <1>11, <2>1, <2>2 DEF TypeOK
<1>13. EntriesDistinct'
  <2> SUFFICES ASSUME NEW c \in Blocks, NEW k \in Offsets, k < count'[c]
               PROVE  /\ stack'[c][k] < Capacity(c)
                      /\ \A j \in Offsets : j < count'[c] /\ j # k =>
                            stack'[c][j] # stack'[c][k]
    BY DEF EntriesDistinct
  <2>1. CASE c # b
    BY <1>3, <1>4, <2>1 DEF EachIdOnce, EntriesDistinct
  <2>2. CASE c = b
    BY <1>1a, <1>1, <1>3, <1>4, <2>2 DEF EachIdOnce, EntriesDistinct
  <2> QED BY <2>1, <2>2
<1>14. used' = Ids \ FreeIds'
  <2>1. v \notin FreeIds'
    <3>1. SUFFICES ASSUME NEW k \in Offsets, k < top, stack'[b][k] = o
                   PROVE  FALSE
      BY <1>4, <1>6 DEF FreeIds, EntriesOf
    <3> QED BY <1>1a, <1>1, <1>3, <3>1 DEF EachIdOnce, EntriesDistinct, o
  <2>2. ASSUME NEW w \in Ids, w # v, w \in FreeIds
        PROVE  w \in FreeIds'
    <3>1. PICK k \in Offsets : /\ k < count[BlockOf(w)]
                               /\ stack[BlockOf(w)][k] = OffsetOf(w)
      BY <2>2 DEF FreeIds, EntriesOf
    <3>2. BlockOf(w) \in Blocks
      BY BlockOfId
    <3>3. CASE BlockOf(w) # b
      BY <1>3, <1>4, <3>1, <3>2, <3>3 DEF FreeIds, EntriesOf
    <3>4. CASE BlockOf(w) = b
      <4>1. k # i
        BY <1>6, <2>2, <3>1, <3>4, BlockOfId DEF o, v
      <4>2. CASE k = top
        <5>1. i < top /\ stack'[b][i] = OffsetOf(w)
          BY <1>1a, <1>3, <3>1, <3>4, <4>1, <4>2
        <5> QED BY <1>4, <3>4, <5>1 DEF FreeIds, EntriesOf
      <4>3. CASE k # top
        <5>1. k < top /\ stack'[b][k] = OffsetOf(w)
          BY <1>1a, <1>3, <3>1, <3>4, <4>1, <4>3
        <5> QED BY <1>4, <3>4, <5>1 DEF FreeIds, EntriesOf
      <4> QED BY <4>2, <4>3
    <3> QED BY <3>3, <3>4
  <2>3. ASSUME NEW w \in Ids, w \in FreeIds'
        PROVE  w \in FreeIds
    <3>1. PICK k \in Offsets : /\ k < count'[BlockOf(w)]
                               /\ stack'[BlockOf(w)][k] = OffsetOf(w)
      BY <2>3 DEF FreeIds, EntriesOf
    <3>2. BlockOf(w) \in Blocks
      BY BlockOfId
    <3>3. CASE BlockOf(w) # b
      BY <1>3, <1>4, <3>1, <3>2, <3>3 DEF FreeIds, EntriesOf
    <3>4. CASE BlockOf(w) = b /\ k = i
      BY <1>1, <1>3, <1>4, <3>1, <3>4 DEF FreeIds, EntriesOf
    <3>5. CASE BlockOf(w) = b /\ k # i
      <4>1. k < top /\ stack'[b][k] = OffsetOf(w)
        BY <1>4, <3>1, <3>5
      <4>2. k < count[b] /\ stack[b][k] = OffsetOf(w)
        <5>1. stack'[b][k] = stack[b][k]
          BY <1>3, <3>5
        <5>2. k \in Nat /\ k < top => k < count[b]
          BY <1>1a
        <5> QED BY <1>1a, <4>1, <5>1, <5>2
      <4> QED BY <3>5, <4>2 DEF FreeIds, EntriesOf
    <3> QED BY <3>3, <3>4, <3>5
  <2>4. FreeIds \subseteq Ids /\ FreeIds' \subseteq Ids
    BY DEF FreeIds
  <2> QED BY <1>2, <1>6, <2>1, <2>2, <2>3, <2>4 DEF EachIdOnce
<1> QED BY <1>6, <1>8, <1>10, <1>12, <1>13, <1>14 DEF EachIdOnce, v, o

(* A block std::min_element returns has a free id whenever any block has.   *)
LEMMA MinElementNonEmpty ==
    ASSUME IInv, available > 0, NEW b \in Blocks, IsMinElement(b)
    PROVE  /\ count[b] > 0
           /\ \A c \in Blocks : count[c] > 0 => timeID[b] <= timeID[c]
<1> USE DEF IInv
<1>1. NonEmpty # {}
  BY FS_EmptySet DEF AvailableExact
<1>2. PICK c \in Blocks : count[c] > 0
  BY <1>1 DEF NonEmpty
<1>3. count[b] \in Nat /\ \A d \in Blocks : timeID[d] \in Nat
  BY DEF TypeOK, Times
<1> QED BY <1>2, <1>3 DEF IsMinElement, Less

LEMMA GetAnyIInv == IInv /\ GetAny => IInv'
<1> SUFFICES ASSUME IInv, GetAny PROVE IInv'
  OBVIOUS
<1>1. PICK b \in Blocks : IsMinElement(b) /\ TakeEntry(b, count[b] - 1)
  BY DEF GetAny
<1>2. count[b] > 0
  BY <1>1, MinElementNonEmpty DEF GetAny
<1>3. count[b] \in 0 .. BlockSize
  BY DEF IInv, TypeOK
<1>4. count[b] - 1 \in Offsets /\ count[b] - 1 < count[b]
  BY <1>2, <1>3 DEF Offsets
<1> QED BY <1>1, <1>4, TakeEntryIInv

LEMMA GetGivenIInv == ASSUME NEW v \in Ids, IInv, GetGiven(v) PROVE IInv'
<1>1. PICK i \in EntriesOf(v) : TakeEntry(BlockOf(v), i)
  BY DEF GetGiven
<1>2. i \in Offsets /\ i < count[BlockOf(v)] /\ BlockOf(v) \in Blocks
  BY BlockOfId DEF EntriesOf
<1> QED BY <1>1, <1>2, TakeEntryIInv

(* A release finds room: the id is on no stack, so the stack of its block   *)
(* is not full.                                                             *)
LEMMA RoomToFree ==
    ASSUME IInv, NEW v \in used
    PROVE  /\ v \in Ids
           /\ count[BlockOf(v)] < Capacity(BlockOf(v))
<1> DEFINE b == BlockOf(v)
           full == 0 .. Capacity(b) - 1
           others == full \ {OffsetOf(v)}
           f == [i \in full |-> stack[b][i]]
<1> USE DEF IInv
<1>1. v \in Ids /\ v \notin FreeIds
  BY DEF TypeOK, EachIdOnce
<1>2. /\ b \in Blocks
      /\ OffsetOf(v) \in full
      /\ Capacity(b) \in 1 .. BlockSize
  BY <1>1, BlockOfId, CapacityRange DEF Offsets
<1>3. count[b] \in Nat /\ count[b] <= Capacity(b)
  BY <1>2 DEF TypeOK
<1>4. stack[b] \in [Offsets -> Offsets]
  BY <1>2 DEF TypeOK
<1> HIDE DEF b
<1>5. SUFFICES ASSUME count[b] = Capacity(b) PROVE FALSE
  BY <1>1, <1>2, <1>3 DEF b
<1>6. ASSUME NEW i \in full
      PROVE  /\ i \in Offsets /\ i < count[b]
             /\ stack[b][i] \in others
  <2>1. i \in Offsets /\ i < count[b]
    BY <1>2, <1>5 DEF Offsets
  <2>2. stack[b][i] < Capacity(b)
    BY <1>2, <2>1 DEF EachIdOnce, EntriesDistinct
  <2>4. stack[b][i] \in full
    <3>1. stack[b][i] \in Offsets
      BY <1>4, <2>1
    <3> QED BY <1>2, <2>2, <3>1 DEF Offsets
  <2>3. stack[b][i] # OffsetOf(v)
    BY <1>1, <2>1 DEF FreeIds, EntriesOf, b
  <2> QED BY <2>1, <2>4, <2>3
<1>7. /\ IsFiniteSet(full) /\ Cardinality(full) = Capacity(b)
      /\ IsFiniteSet(others) /\ Cardinality(others) = Capacity(b) - 1
  <2>1. IsFiniteSet(full) /\ Cardinality(full) = Capacity(b)
    BY <1>2, FS_Interval
  <2>2. IsFiniteSet(others) /\ Cardinality(others) = Cardinality(full) - 1
    <3> HIDE DEF full
    <3> QED BY <1>2, <2>1, FS_RemoveElement
  <2> QED BY <2>1, <2>2
<1>8. f \in [full -> others]
  BY <1>6
<1>9. PICK i \in full, j \in full : i # j /\ f[i] = f[j]
  <2> HIDE DEF full, others, f
  <2> QED BY <1>2, <1>7, <1>8, FS_PigeonHole
<1>10. stack[b][i] = stack[b][j] /\ i # j
  BY <1>9
<1> QED BY <1>2, <1>6, <1>10 DEF EachIdOnce, EntriesDistinct

LEMMA FreeIInv ==
    ASSUME IInv, NEW v \in used, NEW t \in Times, Free(v, t)
    PROVE  IInv'
<1> DEFINE b == BlockOf(v)
           top == count[b]
<1>1. /\ v \in Ids
      /\ b \in Blocks
      /\ OffsetOf(v) \in Offsets /\ OffsetOf(v) < Capacity(b)
      /\ top \in Nat /\ top < Capacity(b) /\ Capacity(b) \in 1 .. BlockSize
  <2>1. v \in Ids /\ top < Capacity(b)
    BY RoomToFree
  <2>2. top \in 0 .. BlockSize
    BY <2>1, BlockOfId DEF IInv, TypeOK
  <2> QED BY <2>1, <2>2, BlockOfId, CapacityRange
<1>2. /\ count' = [count EXCEPT ![b] = top + 1]
      /\ stack' = [stack EXCEPT ![b][top] = OffsetOf(v)]
      /\ available' = IF top = 0 THEN available + 1 ELSE available
      /\ timeID' = [timeID EXCEPT ![b] = t]
      /\ used' = used \ {v}
      /\ freedAt' = [freedAt EXCEPT ![v] = now]
      /\ UNCHANGED <<now, fault>>
  BY DEF Free
<1> HIDE DEF b, top
<1> USE DEF IInv
<1>3. /\ count \in [Blocks -> 0 .. BlockSize]
      /\ stack \in [Blocks -> [Offsets -> Offsets]]
      /\ count[b] = top
      /\ top \in Offsets
      /\ \A k \in Offsets : k \in Nat
  <2>1. top \in Offsets /\ \A k \in Offsets : k \in Nat
    BY <1>1 DEF Offsets
  <2> QED BY <2>1 DEF TypeOK, top
<1>4. /\ count' \in [Blocks -> 0 .. BlockSize]
      /\ count'[b] = top + 1
      /\ \A c \in Blocks \ {b} : count'[c] = count[c]
  BY <1>1, <1>2, <1>3
<1>5. /\ stack' \in [Blocks -> [Offsets -> Offsets]]
      /\ \A k \in Offsets :
            stack'[b][k] = IF k = top THEN OffsetOf(v) ELSE stack[b][k]
      /\ \A c \in Blocks \ {b} : stack'[c] = stack[c]
  BY <1>1, <1>2, <1>3
<1>6. NonEmpty' = NonEmpty \cup {b} /\ (b \in NonEmpty <=> top # 0)
  BY <1>1, <1>3, <1>4 DEF NonEmpty
<1>7. /\ Cardinality(NonEmpty \cup {b})
            = IF top = 0 THEN Cardinality(NonEmpty) + 1 ELSE Cardinality(NonEmpty)
      /\ Cardinality(NonEmpty \cup {b}) \in 0 .. BlockCount
  <2>1. NonEmpty \cup {b} \in SUBSET Blocks
    BY <1>1 DEF NonEmpty
  <2>2. /\ IsFiniteSet(NonEmpty \cup {b})
        /\ Cardinality(NonEmpty \cup {b}) <= BlockCount
    BY <2>1, BlocksFinite, FS_Subset
  <2>3. Cardinality(NonEmpty \cup {b}) \in Nat
    BY <2>2, FS_CardinalityType
  <2>4. Cardinality(NonEmpty \cup {b})
          = IF b \in NonEmpty THEN Cardinality(NonEmpty)
                              ELSE Cardinality(NonEmpty) + 1
    BY NonEmptyFinite, FS_AddElement
  <2> QED BY <1>6, <2>2, <2>3, <2>4, BlocksFinite
<1>8. AvailableExact' /\ available' \in 0 .. BlockCount
  BY <1>2, <1>6, <1>7 DEF AvailableExact
<1>9. TypeOK'
  <2>1. \A c \in Blocks : count'[c] <= Capacity(c)
    BY <1>1, <1>4, CapacityRange DEF TypeOK
  <2>2. timeID' \in [Blocks -> Times] /\ freedAt' \in [Ids -> Times]
    BY <1>2 DEF TypeOK
  <2>3. used' \subseteq Ids /\ now' \in Times
        /\ fault' \in {"none", "exhausted", "conflict"}
    BY <1>2 DEF TypeOK
  <2> QED BY <1>4, <1>5, <1>8, <2>1, <2>2, <2>3 DEF TypeOK
<1>10. v \notin FreeIds
  BY DEF EachIdOnce
<1>11. \A k \in Offsets : k < top => stack[b][k] # OffsetOf(v)
  BY <1>1, <1>3, <1>10 DEF FreeIds, EntriesOf, b
<1>12. EntriesDistinct'
  <2> SUFFICES ASSUME NEW c \in Blocks, NEW k \in Offsets, k < count'[c]
               PROVE  /\ stack'[c][k] < Capacity(c)
                      /\ \A j \in Offsets : j < count'[c] /\ j # k =>
                            stack'[c][j] # stack'[c][k]
    BY DEF EntriesDistinct
  <2>1. CASE c # b
    BY <1>4, <1>5, <2>1 DEF EachIdOnce, EntriesDistinct
  <2>2. CASE c = b
    BY <1>1, <1>3, <1>4, <1>5, <1>11, <2>2 DEF EachIdOnce, EntriesDistinct
  <2> QED BY <2>1, <2>2
<1>13. used' = Ids \ FreeIds'
  <2>1. v \in FreeIds'
    <3>1. top < count'[b] /\ stack'[b][top] = OffsetOf(v)
      BY <1>1, <1>3, <1>4, <1>5
    <3> QED BY <1>1, <1>3, <3>1 DEF FreeIds, EntriesOf, b
  <2>2. ASSUME NEW w \in Ids, w \in FreeIds
        PROVE  w \in FreeIds'
    <3>1. PICK k \in Offsets : /\ k < count[BlockOf(w)]
                               /\ stack[BlockOf(w)][k] = OffsetOf(w)
      BY <2>2 DEF FreeIds, EntriesOf
    <3>2. BlockOf(w) \in Blocks
      BY BlockOfId
    <3>3. k < count'[BlockOf(w)] /\ stack'[BlockOf(w)][k] = OffsetOf(w)
      <4>1. CASE BlockOf(w) # b
        BY <1>4, <1>5, <3>1, <3>2, <4>1
      <4>2. CASE BlockOf(w) = b
        <5>1. k < top /\ stack[b][k] = OffsetOf(w)
          BY <1>3, <3>1, <4>2
        <5>2. k < top + 1 /\ stack'[b][k] = OffsetOf(w)
          BY <1>1, <1>3, <1>5, <5>1
        <5> QED BY <1>4, <4>2, <5>2
      <4> QED BY <4>1, <4>2
    <3> QED BY <3>3 DEF FreeIds, EntriesOf
  <2>3. ASSUME NEW w \in Ids, w # v, w \in FreeIds'
        PROVE  w \in FreeIds
    <3>1. PICK k \in Offsets : /\ k < count'[BlockOf(w)]
                               /\ stack'[BlockOf(w)][k] = OffsetOf(w)
      BY <2>3 DEF FreeIds, EntriesOf
    <3>2. BlockOf(w) \in Blocks
      BY BlockOfId
    <3>3. k < count[BlockOf(w)] /\ stack[BlockOf(w)][k] = OffsetOf(w)
      <4>1. CASE BlockOf(w) # b
        BY <1>4, <1>5, <3>1, <3>2, <4>1
      <4>2. CASE BlockOf(w) = b
        <5>1. k < top + 1 /\ stack'[b][k] = OffsetOf(w)
          BY <1>4, <3>1, <4>2
        <5>2. OffsetOf(w) # OffsetOf(v)
          BY <1>1, <2>3, <4>2, BlockOfId DEF b
        <5>3. k < top /\ stack[b][k] = OffsetOf(w)
          BY <1>1, <1>3, <1>5, <5>1, <5>2
        <5> QED BY <1>3, <4>2, <5>3
      <4> QED BY <4>1, <4>2
    <3> QED BY <3>3 DEF FreeIds, EntriesOf
  <2>4. FreeIds \subseteq Ids /\ FreeIds' \subseteq Ids
    BY DEF FreeIds
  <2> QED BY <1>1, <1>2, <2>1, <2>2, <2>3, <2>4 DEF EachIdOnce
<1> QED BY <1>8, <1>9, <1>12, <1>13 DEF EachIdOnce

LEMMA NextIInv == IInv /\ [Next]_vars => IInv'
<1> SUFFICES ASSUME IInv, [Next]_vars PROVE IInv'
  OBVIOUS
<1>1. CASE GetAny
  BY <1>1, GetAnyIInv
<1>2. CASE GetAnyFails
  BY <1>2 DEF GetAnyFails, Abort, generator, IInv, TypeOK, EachIdOnce,
     EntriesDistinct, FreeIds, EntriesOf, AvailableExact, NonEmpty
<1>3. ASSUME NEW v \in Ids, GetGiven(v) PROVE IInv'
  BY <1>3, GetGivenIInv
<1>4. ASSUME NEW v \in Ids, GetGivenFails(v) PROVE IInv'
  BY <1>4 DEF GetGivenFails, Abort, generator, IInv, TypeOK, EachIdOnce,
     EntriesDistinct, FreeIds, EntriesOf, AvailableExact, NonEmpty
<1>5. ASSUME NEW v \in Ids, NEW t \in FreeTimes, Free(v, t) PROVE IInv'
  <2>1. t \in Times /\ v \in used
    BY <1>5 DEF FreeTimes, Free, IInv, TypeOK, Times
  <2> QED BY <1>5, <2>1, FreeIInv
<1>6. CASE ClearIds
  BY <1>6, ClearIdsIInv
<1>7. CASE Tick
  BY <1>7 DEF Tick, generator, IInv, TypeOK, Times, EachIdOnce,
     EntriesDistinct, FreeIds, EntriesOf, AvailableExact, NonEmpty
<1>8. CASE UNCHANGED vars
  BY <1>8 DEF vars, generator, IInv, TypeOK, EachIdOnce,
     EntriesDistinct, FreeIds, EntriesOf, AvailableExact, NonEmpty
<1> QED BY <1>1, <1>2, <1>3, <1>4, <1>5, <1>6, <1>7, <1>8 DEF Next

LEMMA SpecIInv == Spec => []IInv
  BY InitIInv, NextIInv, PTL DEF Spec

(* The stacks never overflow and no counter leaves its range. *)
THEOREM TypeCorrect == Spec => []TypeOK
  BY SpecIInv, PTL DEF IInv

(* No id is held twice, held while free, or lost. *)
THEOREM NoIdTwice == Spec => []EachIdOnce
  BY SpecIInv, PTL DEF IInv

(* The counter of non-empty blocks is exact. *)
THEOREM AvailableIsExact == Spec => []AvailableExact
  BY SpecIInv, PTL DEF IInv

-----------------------------------------------------------------------------
(* The generator implements IdPool. *)
LEMMA TakeEntryAcquires ==
    ASSUME IInv, fault = "none",
           NEW b \in Blocks, NEW i \in Offsets, i < count[b], TakeEntry(b, i)
    PROVE  Pool!Next
<1>1. IdAt(b, stack[b][i]) \in Ids \ used
  BY TakeEntryIInv
<1>2. Pool!Acquire(IdAt(b, stack[b][i]))
  BY <1>1 DEF TakeEntry, Pool!Acquire
<1> QED BY <1>1, <1>2 DEF Pool!Next

LEMMA NextImplementsPool == IInv /\ [Next]_vars => [Pool!Next]_(Pool!vars)
<1> SUFFICES ASSUME IInv, [Next]_vars PROVE [Pool!Next]_(Pool!vars)
  OBVIOUS
<1>1. CASE GetAny
  <2>1. PICK b \in Blocks : IsMinElement(b) /\ TakeEntry(b, count[b] - 1)
    BY <1>1 DEF GetAny
  <2>2. count[b] > 0 /\ count[b] \in 0 .. BlockSize
    BY <1>1, <2>1, MinElementNonEmpty DEF GetAny, IInv, TypeOK
  <2>3. count[b] - 1 \in Offsets /\ count[b] - 1 < count[b]
    BY <2>2 DEF Offsets
  <2> QED BY <1>1, <2>1, <2>3, TakeEntryAcquires DEF GetAny
<1>2. CASE GetAnyFails
  <2>1. NonEmpty = {}
    BY <1>2, NonEmptyFinite, FS_EmptySet DEF GetAnyFails, IInv, AvailableExact
  <2>2. ASSUME NEW v \in Ids PROVE v \notin FreeIds
    <3>1. BlockOf(v) \in Blocks
      BY BlockOfId
    <3>2. ~ (count[BlockOf(v)] > 0)
      BY <2>1, <3>1 DEF NonEmpty
    <3>3. count[BlockOf(v)] \in 0 .. BlockSize
      BY <3>1 DEF IInv, TypeOK
    <3> QED BY <3>2, <3>3 DEF FreeIds, EntriesOf, Offsets
  <2>3. used = Ids
    BY <2>2 DEF IInv, EachIdOnce, FreeIds
  <2> QED BY <1>2, <2>3
          DEF GetAnyFails, Abort, Pool!Next, Pool!Exhaust
<1>3. ASSUME NEW v \in Ids, GetGiven(v) PROVE Pool!Next
  <2>1. PICK i \in EntriesOf(v) : TakeEntry(BlockOf(v), i)
    BY <1>3 DEF GetGiven
  <2>2. i \in Offsets /\ i < count[BlockOf(v)] /\ BlockOf(v) \in Blocks
    BY BlockOfId DEF EntriesOf
  <2> QED BY <1>3, <2>1, <2>2, TakeEntryAcquires DEF GetGiven
<1>4. ASSUME NEW v \in Ids, GetGivenFails(v) PROVE Pool!Next
  <2>1. v \in used
    BY <1>4 DEF GetGivenFails, FreeIds, IInv, EachIdOnce
  <2> QED BY <1>4, <2>1
          DEF GetGivenFails, Abort, Pool!Next, Pool!Conflict
<1>5. ASSUME NEW v \in Ids, NEW t \in FreeTimes, Free(v, t) PROVE Pool!Next
  BY <1>5 DEF Free, Pool!Next, Pool!Release
<1>6. CASE ClearIds
  BY <1>6 DEF ClearIds, Construct, Pool!Next, Pool!Clear
<1>7. CASE Tick
  BY <1>7 DEF Tick, Pool!vars
<1>8. CASE UNCHANGED vars
  BY <1>8 DEF vars, Pool!vars
<1> QED BY <1>1, <1>2, <1>3, <1>4, <1>5, <1>6, <1>7, <1>8 DEF Next

(* Whatever the order of requests and releases, the callers see a pool that *)
(* hands each id to one holder at a time and fails only for cause.          *)
THEOREM GeneratorImplementsPool == Spec => ImplementsPool
<1>1. Init => Pool!Init
  BY DEF Init, Construct, Pool!Init
<1> QED BY <1>1, SpecIInv, NextImplementsPool, PTL
        DEF Spec, ImplementsPool, Pool!Spec

-----------------------------------------------------------------------------
(* Quarantine: when every release carries the current time, the time of a   *)
(* block is the latest release of one of its ids.                           *)
StampIsLatest ==
    \A b \in Blocks :
        /\ timeID[b] <= now
        /\ \A v \in Ids : BlockOf(v) = b => freedAt[v] <= timeID[b]
        /\ \E v \in Ids : BlockOf(v) = b /\ freedAt[v] = timeID[b]

LEMMA ConstructStamps == Construct /\ now \in Nat => StampIsLatest
<1> SUFFICES ASSUME Construct, now \in Nat PROVE StampIsLatest
  OBVIOUS
<1>1. ASSUME NEW b \in Blocks PROVE IdAt(b, 0) \in Ids /\ BlockOf(IdAt(b, 0)) = b
  BY IdOfBlock, CapacityRange
<1> QED BY <1>1, BlockOfId DEF Construct, StampIsLatest

LEMMA NextStamps ==
    ASSUME ~ UnstampedFree, IInv, StampIsLatest, [Next]_vars
    PROVE  StampIsLatest'
<1> USE DEF StampIsLatest
<1>1. CASE GetAny
  BY <1>1 DEF GetAny, TakeEntry
<1>2. CASE GetAnyFails
  BY <1>2 DEF GetAnyFails, Abort, generator
<1>3. ASSUME NEW v \in Ids, GetGiven(v) PROVE StampIsLatest'
  BY <1>3 DEF GetGiven, TakeEntry
<1>4. ASSUME NEW v \in Ids, GetGivenFails(v) PROVE StampIsLatest'
  BY <1>4 DEF GetGivenFails, Abort, generator
<1>5. ASSUME NEW v \in Ids, NEW t \in FreeTimes, Free(v, t)
      PROVE  StampIsLatest'
  <2>1. /\ timeID' = [timeID EXCEPT ![BlockOf(v)] = now]
        /\ freedAt' = [freedAt EXCEPT ![v] = now]
        /\ now' = now
    BY <1>5 DEF Free, FreeTimes
  <2>2. /\ timeID \in [Blocks -> Nat]
        /\ freedAt \in [Ids -> Nat]
        /\ now \in Nat
        /\ BlockOf(v) \in Blocks
    BY BlockOfId DEF IInv, TypeOK, Times
  <2>3. \A w \in Ids : BlockOf(w) \in Blocks
    BY BlockOfId
  <2> SUFFICES ASSUME NEW b \in Blocks
               PROVE  /\ timeID'[b] <= now
                      /\ \A w \in Ids : BlockOf(w) = b => freedAt'[w] <= timeID'[b]
                      /\ \E w \in Ids : BlockOf(w) = b /\ freedAt'[w] = timeID'[b]
    BY <2>1
  <2>4. CASE b = BlockOf(v)
    BY <2>1, <2>2, <2>3, <2>4
  <2>5. CASE b # BlockOf(v)
    BY <2>1, <2>2, <2>3, <2>5
  <2> QED BY <2>4, <2>5
<1>6. CASE ClearIds
  <2>1. (Construct /\ now \in Nat => StampIsLatest)'
    BY ConstructStamps, PTL
  <2>2. Construct'
    BY <1>6 DEF ClearIds, Construct, FreshCount, FreshStack
  <2> QED BY <1>6, <2>1, <2>2 DEF ClearIds, IInv, TypeOK, Times
<1>7. CASE Tick
  BY <1>7 DEF Tick, generator, IInv, TypeOK, Times
<1>8. CASE UNCHANGED vars
  BY <1>8 DEF vars, generator
<1> QED BY <1>1, <1>2, <1>3, <1>4, <1>5, <1>6, <1>7, <1>8 DEF Next

LEMMA GetAnyQuarantine ==
    ASSUME IInv, StampIsLatest, GetAny,
           NEW v \in used' \ used, NEW w \in FreeIds
    PROVE  \E x \in Ids : BlockOf(x) = BlockOf(w) /\ freedAt[v] <= freedAt[x]
<1>1. PICK b \in Blocks : IsMinElement(b) /\ TakeEntry(b, count[b] - 1)
  BY DEF GetAny
<1>2. /\ count[b] > 0
      /\ \A c \in Blocks : count[c] > 0 => timeID[b] <= timeID[c]
  BY <1>1, MinElementNonEmpty DEF GetAny
<1>3. v \in Ids /\ BlockOf(v) = b
  <2>1. count[b] - 1 \in Offsets /\ count[b] - 1 < count[b]
    BY <1>2 DEF IInv, TypeOK, Offsets
  <2>2. v = IdAt(b, stack[b][count[b] - 1])
    BY <1>1 DEF TakeEntry
  <2>3. stack[b][count[b] - 1] < Capacity(b)
    BY <2>1 DEF IInv, EachIdOnce, EntriesDistinct
  <2>4. stack[b][count[b] - 1] \in Offsets
    BY <2>1 DEF IInv, TypeOK
  <2> QED BY <2>2, <2>3, <2>4, IdOfBlock, CapacityRange DEF Offsets
<1>4. /\ BlockOf(w) \in Blocks
      /\ count[BlockOf(w)] > 0
  <2>1. w \in Ids /\ BlockOf(w) \in Blocks
    BY BlockOfId DEF FreeIds
  <2>2. PICK i \in Offsets : i < count[BlockOf(w)]
    BY DEF FreeIds, EntriesOf
  <2>3. count[BlockOf(w)] \in 0 .. BlockSize
    BY <2>1 DEF IInv, TypeOK
  <2> QED BY <2>1, <2>2, <2>3 DEF Offsets
<1>5. freedAt[v] <= timeID[b] /\ timeID[b] <= timeID[BlockOf(w)]
  BY <1>2, <1>3, <1>4 DEF StampIsLatest
<1>6. PICK x \in Ids : /\ BlockOf(x) = BlockOf(w)
                       /\ freedAt[x] = timeID[BlockOf(w)]
  BY <1>4 DEF StampIsLatest
<1>7. /\ freedAt[v] \in Nat /\ freedAt[x] \in Nat
      /\ timeID[b] \in Nat
  BY <1>3 DEF IInv, TypeOK, Times
<1> QED BY <1>5, <1>6, <1>7

(* Of the ids a server could hand out, tfGetID() never picks one released   *)
(* after the latest release into another block that still has a free id.    *)
THEOREM QuarantineHolds == ASSUME ~ UnstampedFree PROVE Spec => Quarantine
<1>1. Init => StampIsLatest
  BY ConstructStamps DEF Init
<1>2. IInv /\ StampIsLatest /\ [Next]_vars => StampIsLatest'
  BY NextStamps
<1>3. IInv /\ StampIsLatest /\ [Next]_vars =>
        [GetAny => \A v \in used' \ used : \A w \in FreeIds : \E x \in Ids :
            BlockOf(x) = BlockOf(w) /\ freedAt[v] <= freedAt[x]]_vars
  BY GetAnyQuarantine
<1> QED BY <1>1, <1>2, <1>3, SpecIInv, PTL DEF Spec, Quarantine

=============================================================================
