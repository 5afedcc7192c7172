---------------------------- MODULE FilterProofs ----------------------------
(***************************************************************************)
(* What module Filter computes, for sequences of any length.  The first     *)
(* lemmas give induction over the naturals in a form the provers can use:   *)
(* a set that holds 0 and the successor of each of its members holds them   *)
(* all.  Those about quotients and remainders are for the modules that cut  *)
(* numbers and buffers into pieces.                                         *)
(***************************************************************************)
EXTENDS Filter, Integers, WellFoundedInduction, SequenceTheorems, TLAPS

Below == {ss \in Nat \X Nat : ss[1] < ss[2]}

LEMMA BelowIsWellFounded == IsWellFoundedOn(Below, Nat)
BY NatLessThanWellFounded, Zenon DEF OpToRel, Below

LEMMA LeastOf == ASSUME NEW T, T \subseteq Nat, T # {}
                 PROVE  \E n \in T : \A m \in T : n <= m
<1>1. PICK n \in T : \A m \in T : <<m, n>> \notin Below
  BY BelowIsWellFounded, WFMin
<1>2. ASSUME NEW m \in T, m < n PROVE FALSE
  <2>1. <<m, n>> \in Below
    BY <1>2 DEF Below
  <2> QED BY <2>1, <1>1
<1> QED BY <1>2

LEMMA Induction == ASSUME NEW S, 0 \in S, \A n \in Nat : n \in S => n + 1 \in S
                   PROVE  Nat \subseteq S
<1> SUFFICES ASSUME Nat \ S # {} PROVE FALSE
  OBVIOUS
<1>1. PICK n \in Nat \ S : \A m \in Nat \ S : n <= m
  BY LeastOf
<1>2. n - 1 \in Nat /\ n - 1 \in S
  BY <1>1
<1> QED BY <1>1, <1>2

-----------------------------------------------------------------------------
(* Quotient and remainder. *)
LEMMA DivMod ==
    ASSUME NEW x \in Nat, NEW d \in Nat \ {0}
    PROVE  /\ x \div d \in Nat
           /\ x % d \in 0 .. d - 1
           /\ x = (x \div d) * d + (x % d)
  BY SMT

(* They are the only two numbers that divide x. *)
LEMMA DivModUnique ==
    ASSUME NEW d \in Nat \ {0}, NEW q \in Nat, NEW r \in 0 .. d - 1
    PROVE  /\ (q * d + r) \div d = q
           /\ (q * d + r) % d = r
<1> DEFINE x == q * d + r
           p == x \div d
           s == x % d
<1>1. q * d \in Nat
  BY SMT
<1>2. x \in Nat
  BY <1>1
<1>3. p \in Nat /\ s \in 0 .. d - 1 /\ x = p * d + s
  BY <1>2, DivMod
<1> HIDE DEF p, s
<1>4. CASE p < q
  <2>1. q - p \in Nat /\ q - p >= 1 /\ q = p + (q - p)
    BY <1>3, <1>4
  <2>2. (q - p) * d >= d
    BY <2>1, SMT
  <2>3. q * d = p * d + (q - p) * d
    BY <1>3, <2>1, SMT
  <2> QED BY <1>1, <1>3, <2>2, <2>3, SMT
<1>5. CASE q < p
  <2>1. p - q \in Nat /\ p - q >= 1 /\ p = q + (p - q)
    BY <1>3, <1>5
  <2>2. (p - q) * d >= d
    BY <2>1, SMT
  <2>3. p * d = q * d + (p - q) * d
    BY <1>3, <2>1, SMT
  <2> QED BY <1>1, <1>3, <2>2, <2>3, SMT
<1>6. CASE p = q
  BY <1>1, <1>3, <1>6 DEF p, s
<1> QED BY <1>3, <1>4, <1>5, <1>6

-----------------------------------------------------------------------------
(* The recursive function of Only exists. *)

Extends(s, T, n, f) ==
    f = [i \in 0 .. n |-> IF i = 0 THEN <<>>
                          ELSE IF s[i] \in T THEN Append(f[i - 1], s[i]) ELSE f[i - 1]]

LEMMA PrefixesExist ==
    ASSUME NEW s, NEW T
    PROVE  \A n \in Nat : \E f : Extends(s, T, n, f)
<1> DEFINE S == {n \in Nat : \E f : Extends(s, T, n, f)}
<1>1. 0 \in S
  <2>1. Extends(s, T, 0, [i \in 0 .. 0 |-> <<>>])
    BY DEF Extends
  <2> QED BY <2>1
<1>2. ASSUME NEW n \in Nat, n \in S PROVE n + 1 \in S
  <2>1. PICK f : Extends(s, T, n, f)
    BY <1>2
  <2> DEFINE g == [i \in 0 .. n + 1 |->
                      IF i <= n THEN f[i]
                      ELSE IF s[i] \in T THEN Append(f[i - 1], s[i]) ELSE f[i - 1]]
  <2>2. \A i \in 0 .. n :
           f[i] = IF i = 0 THEN <<>>
                  ELSE IF s[i] \in T THEN Append(f[i - 1], s[i]) ELSE f[i - 1]
    BY <2>1 DEF Extends
  <2>3. ASSUME NEW i \in 0 .. n + 1
        PROVE  g[i] = IF i = 0 THEN <<>>
                      ELSE IF s[i] \in T THEN Append(g[i - 1], s[i]) ELSE g[i - 1]
    <3>1. CASE i = 0
      BY <3>1, <2>2
    <3>2. CASE i # 0
      <4>1. i - 1 \in 0 .. n /\ g[i - 1] = f[i - 1]
        BY <3>2
      <4>2. g[i] = IF s[i] \in T THEN Append(f[i - 1], s[i]) ELSE f[i - 1]
        BY <3>2, <2>2
      <4> QED BY <4>1, <4>2, <3>2
    <3> QED BY <3>1, <3>2
  <2>4. Extends(s, T, n + 1, g)
    BY <2>3 DEF Extends
  <2> QED BY <2>4
<1> HIDE DEF S
<1>3. Nat \subseteq S
  BY <1>1, <1>2, Induction
<1> QED BY <1>3 DEF S

LEMMA OnlyUnfolds ==
    ASSUME NEW s, NEW T, Len(s) \in Nat
    PROVE  \E f : Extends(s, T, Len(s), f) /\ Only(s, T) = f[Len(s)]
<1> DEFINE f == CHOOSE f : Extends(s, T, Len(s), f)
<1>1. \E g : Extends(s, T, Len(s), g)
  BY PrefixesExist
<1>2. Extends(s, T, Len(s), f)
  BY <1>1, Zenon
<1>3. Only(s, T) = f[Len(s)]
  BY Zenon DEF Only, Extends
<1> QED BY <1>2, <1>3

-----------------------------------------------------------------------------
(* r picks the elements of the first n of s that are in T, g their places. *)
Picks(s, T, n, r, g) ==
    /\ r \in Seq(T)
    /\ g \in [1 .. Len(r) -> 1 .. n]
    /\ \A i \in 1 .. Len(r) : r[i] = s[g[i]]
    /\ \A i, j \in 1 .. Len(r) : i < j => g[i] < g[j]
    /\ \A k \in 1 .. n : s[k] \in T => \E i \in 1 .. Len(r) : g[i] = k

LEMMA PicksNothing == \A s, T : Picks(s, T, 0, <<>>, [i \in 1 .. 0 |-> 0])
BY DEF Picks

LEMMA PicksNext ==
    ASSUME NEW s, NEW T, NEW n \in Nat, NEW r, NEW g, Picks(s, T, n, r, g)
    PROVE  /\ s[n + 1] \in T => \E h : Picks(s, T, n + 1, Append(r, s[n + 1]), h)
           /\ s[n + 1] \notin T => Picks(s, T, n + 1, r, g)
<1>0. /\ r \in Seq(T) /\ Len(r) \in Nat
      /\ g \in [1 .. Len(r) -> 1 .. n]
      /\ \A i \in 1 .. Len(r) : r[i] = s[g[i]]
      /\ \A i, j \in 1 .. Len(r) : i < j => g[i] < g[j]
      /\ \A k \in 1 .. n : s[k] \in T => \E i \in 1 .. Len(r) : g[i] = k
  BY DEF Picks
<1>1. CASE s[n + 1] \in T
  <2> DEFINE q == Append(r, s[n + 1])
             h == [i \in 1 .. Len(r) + 1 |-> IF i = Len(r) + 1 THEN n + 1 ELSE g[i]]
  <2>1. /\ q \in Seq(T) /\ Len(q) = Len(r) + 1
        /\ \A i \in 1 .. Len(r) : q[i] = r[i]
        /\ q[Len(r) + 1] = s[n + 1]
    BY <1>0, <1>1
  <2>2. h \in [1 .. Len(q) -> 1 .. n + 1]
    BY <1>0, <2>1
  <2> HIDE DEF q
  <2>3. \A i \in 1 .. Len(q) : q[i] = s[h[i]]
    BY <1>0, <2>1
  <2>4. ASSUME NEW i \in 1 .. Len(q), NEW j \in 1 .. Len(q), i < j PROVE h[i] < h[j]
    <3>1. i \in 1 .. Len(r) /\ h[i] = g[i] /\ g[i] \in 1 .. n
      BY <1>0, <2>1, <2>4
    <3>2. CASE j = Len(r) + 1
      BY <3>1, <3>2
    <3>3. CASE j # Len(r) + 1
      <4>1. j \in 1 .. Len(r) /\ h[j] = g[j]
        BY <1>0, <2>1, <3>3
      <4> QED BY <1>0, <2>4, <3>1, <4>1
    <3> QED BY <3>2, <3>3
  <2>5. ASSUME NEW k \in 1 .. n + 1, s[k] \in T
        PROVE  \E i \in 1 .. Len(q) : h[i] = k
    <3>1. CASE k = n + 1
      <4>1. Len(q) \in 1 .. Len(q) /\ h[Len(q)] = n + 1
        BY <1>0, <2>1
      <4> QED BY <3>1, <4>1
    <3>2. CASE k # n + 1
      <4>1. PICK i \in 1 .. Len(r) : g[i] = k
        BY <1>0, <2>5, <3>2
      <4>2. i \in 1 .. Len(q) /\ h[i] = k
        BY <1>0, <2>1, <4>1
      <4> QED BY <4>2
    <3> QED BY <3>1, <3>2
  <2> HIDE DEF h
  <2>6. Picks(s, T, n + 1, q, h)
    BY <2>1, <2>2, <2>3, <2>4, <2>5 DEF Picks
  <2> QED BY <1>1, <2>6 DEF q
<1>2. CASE s[n + 1] \notin T
  <2>1. g \in [1 .. Len(r) -> 1 .. n + 1]
    BY <1>0
  <2>2. \A k \in 1 .. n + 1 : s[k] \in T => \E i \in 1 .. Len(r) : g[i] = k
    BY <1>0, <1>2
  <2> QED BY <1>0, <1>2, <2>1, <2>2 DEF Picks
<1> QED BY <1>1, <1>2

LEMMA OnlyPicks ==
    ASSUME NEW s, NEW T, Len(s) \in Nat
    PROVE  \E g : Picks(s, T, Len(s), Only(s, T), g)
<1>1. PICK f : Extends(s, T, Len(s), f) /\ Only(s, T) = f[Len(s)]
  BY OnlyUnfolds
<1>2. \A i \in 0 .. Len(s) :
         f[i] = IF i = 0 THEN <<>>
                ELSE IF s[i] \in T THEN Append(f[i - 1], s[i]) ELSE f[i - 1]
  BY <1>1 DEF Extends
<1> DEFINE S == {n \in Nat : n <= Len(s) => \E g : Picks(s, T, n, f[n], g)}
<1>3. 0 \in S
  <2>1. f[0] = <<>>
    BY <1>2
  <2> QED BY <2>1, PicksNothing
<1>4. ASSUME NEW n \in Nat, n \in S PROVE n + 1 \in S
  <2> SUFFICES ASSUME n + 1 <= Len(s) PROVE \E g : Picks(s, T, n + 1, f[n + 1], g)
    OBVIOUS
  <2>1. n <= Len(s)
    OBVIOUS
  <2>2. PICK g : Picks(s, T, n, f[n], g)
    BY <1>4, <2>1
  <2>3. f[n + 1] = IF s[n + 1] \in T THEN Append(f[n], s[n + 1]) ELSE f[n]
    <3>1. n + 1 \in 0 .. Len(s) /\ n + 1 # 0 /\ (n + 1) - 1 = n
      OBVIOUS
    <3> QED BY <1>2, <3>1
  <2> QED BY <2>2, <2>3, PicksNext
<1> HIDE DEF S
<1>5. Nat \subseteq S
  BY <1>3, <1>4, Induction
<1>6. Len(s) \in S
  BY <1>5
<1> QED BY <1>1, <1>6 DEF S

(* Two sequences that pick the same elements of s are equal. *)
LEMMA PicksOnce ==
    ASSUME NEW s, NEW T, NEW n \in Nat, NEW r, NEW g, NEW q, NEW h,
           Picks(s, T, n, r, g), Picks(s, T, n, q, h),
           Len(r) <= Len(q)
    PROVE  r = q
<1>0. /\ r \in Seq(T) /\ Len(r) \in Nat
      /\ g \in [1 .. Len(r) -> 1 .. n]
      /\ \A i \in 1 .. Len(r) : r[i] = s[g[i]]
      /\ \A i, j \in 1 .. Len(r) : i < j => g[i] < g[j]
      /\ \A k \in 1 .. n : s[k] \in T => \E i \in 1 .. Len(r) : g[i] = k
      /\ \A i \in 1 .. Len(r) : r[i] \in T
  BY DEF Picks
<1>1. /\ q \in Seq(T) /\ Len(q) \in Nat
      /\ h \in [1 .. Len(q) -> 1 .. n]
      /\ \A i \in 1 .. Len(q) : q[i] = s[h[i]]
      /\ \A i, j \in 1 .. Len(q) : i < j => h[i] < h[j]
      /\ \A k \in 1 .. n : s[k] \in T => \E i \in 1 .. Len(q) : h[i] = k
      /\ \A i \in 1 .. Len(q) : q[i] \in T
  BY DEF Picks
<1>2. ASSUME NEW i \in 1 .. Len(r), g[i] # h[i] PROVE FALSE
  <2> DEFINE D == {k \in 1 .. Len(r) : g[k] # h[k]}
  <2>1. D \subseteq Nat /\ D # {}
    BY <1>2
  <2>2. PICK k \in D : \A m \in D : k <= m
    BY <2>1, LeastOf
  <2>0. k \in 1 .. Len(r) /\ g[k] # h[k]
    OBVIOUS
  <2>4. \A m \in 1 .. Len(r) : m < k => g[m] = h[m]
    BY <1>0, <2>0, <2>2
  <2> HIDE DEF D
  <2>7. k \in 1 .. Len(q) /\ k \in Nat
    BY <1>0, <1>1, <2>0
  <2>3. /\ k \in 1 .. Len(r) /\ k \in 1 .. Len(q) /\ k \in Nat
        /\ g[k] \in 1 .. n /\ h[k] \in 1 .. n /\ g[k] # h[k]
    BY <1>0, <1>1, <2>0, <2>7
  <2>5. CASE g[k] < h[k]
    <3>1. s[g[k]] \in T
      BY <1>0, <2>3
    <3>2. PICK m \in 1 .. Len(q) : h[m] = g[k]
      BY <1>1, <2>3, <3>1
    <3>3. ~ (k < m) /\ k # m
      <4>1. k < m => h[k] < h[m]
        BY <1>1, <2>3
      <4>2. h[m] < h[k] /\ h[m] \in Nat /\ h[k] \in Nat
        BY <2>3, <2>5, <3>2
      <4> QED BY <4>1, <4>2
    <3>4. m < k /\ m \in 1 .. Len(r)
      BY <1>0, <1>1, <2>3, <3>3
    <3> QED BY <1>0, <2>3, <2>4, <3>2, <3>4
  <2>6. CASE h[k] < g[k]
    <3>1. s[h[k]] \in T
      BY <1>1, <2>3
    <3>2. PICK m \in 1 .. Len(r) : g[m] = h[k]
      BY <1>0, <2>3, <3>1
    <3>3. ~ (k < m) /\ k # m
      <4>1. k < m => g[k] < g[m]
        BY <1>0, <2>3
      <4>2. g[m] < g[k] /\ g[m] \in Nat /\ g[k] \in Nat
        BY <2>3, <2>6, <3>2
      <4> QED BY <4>1, <4>2
    <3>4. m < k /\ m \in 1 .. Len(q)
      BY <1>0, <1>1, <2>3, <3>3
    <3> QED BY <1>1, <2>3, <2>4, <3>2, <3>4
  <2> QED BY <2>3, <2>5, <2>6
<1>3. Len(q) <= Len(r)
  <2> SUFFICES ASSUME Len(r) < Len(q) PROVE FALSE
    BY <1>0, <1>1
  <2> DEFINE k == Len(r) + 1
  <2>1. k \in 1 .. Len(q)
    BY <1>0, <1>1
  <2>4. h[k] \in 1 .. n /\ s[h[k]] \in T
    BY <1>1, <2>1
  <2>2. PICK m \in 1 .. Len(r) : g[m] = h[k]
    BY <1>0, <2>4
  <2>3. h[m] = h[k] /\ m < k /\ m \in 1 .. Len(q)
    BY <1>0, <1>1, <1>2, <2>2
  <2> QED BY <1>1, <2>1, <2>3
<1>4. Len(r) = Len(q)
  BY <1>0, <1>1, <1>3
<1>5. \A i \in 1 .. Len(r) : r[i] = q[i]
  BY <1>0, <1>1, <1>2, <1>4
<1> QED BY <1>0, <1>1, <1>4, <1>5, SeqEqual

-----------------------------------------------------------------------------
(* What a proof about a queue needs to know of Only. *)

(* r is a subsequence of s, and g says where its elements were. *)
Placed(S, s, T, r, g) ==
    /\ r \in Seq(S) /\ r \in Seq(T)
    /\ g \in [1 .. Len(r) -> 1 .. Len(s)]
    /\ \A i \in 1 .. Len(r) : r[i] = s[g[i]]
    /\ \A i, j \in 1 .. Len(r) : i < j => g[i] < g[j]
    /\ \A k \in 1 .. Len(s) : s[k] \in T => \E i \in 1 .. Len(r) : g[i] = k

LEMMA OnlyPlaced ==
    ASSUME NEW S, NEW s \in Seq(S), NEW T
    PROVE  \E g : Placed(S, s, T, Only(s, T), g)
<1>1. PICK g : Picks(s, T, Len(s), Only(s, T), g)
  BY OnlyPicks
<1> DEFINE r == Only(s, T)
<1> HIDE DEF r
<1>2. /\ r \in Seq(T) /\ Len(r) \in Nat
      /\ g \in [1 .. Len(r) -> 1 .. Len(s)]
      /\ \A i \in 1 .. Len(r) : r[i] = s[g[i]]
      /\ \A i, j \in 1 .. Len(r) : i < j => g[i] < g[j]
      /\ \A k \in 1 .. Len(s) : s[k] \in T => \E i \in 1 .. Len(r) : g[i] = k
  BY <1>1 DEF Picks, r
<1>3. \A i \in 1 .. Len(r) : r[i] \in S
  <2> TAKE i \in 1 .. Len(r)
  <2>1. g[i] \in 1 .. Len(s) /\ r[i] = s[g[i]]
    BY <1>2
  <2>2. \A k \in 1 .. Len(s) : s[k] \in S
    OBVIOUS
  <2> QED BY <2>1, <2>2
<1>4. r \in Seq(S)
  BY <1>2, <1>3
<1> QED BY <1>2, <1>4 DEF r, Placed

(* What is in the queue afterwards: what was there and belongs there. *)
LEMMA OnlyElements ==
    ASSUME NEW S, NEW s \in Seq(S), NEW T
    PROVE  /\ Only(s, T) \in Seq(S)
           /\ \A i \in DOMAIN Only(s, T) :
                 /\ Only(s, T)[i] \in T
                 /\ \E k \in DOMAIN s : s[k] = Only(s, T)[i]
           /\ \A k \in DOMAIN s :
                 s[k] \in T => \E i \in DOMAIN Only(s, T) : Only(s, T)[i] = s[k]
<1> DEFINE r == Only(s, T)
<1> HIDE DEF r
<1>0. PICK g : Placed(S, s, T, r, g)
  BY OnlyPlaced DEF r
<1>1. /\ r \in Seq(S) /\ r \in Seq(T)
      /\ g \in [1 .. Len(r) -> 1 .. Len(s)]
      /\ \A i \in 1 .. Len(r) : r[i] = s[g[i]]
      /\ \A i, j \in 1 .. Len(r) : i < j => g[i] < g[j]
      /\ \A k \in 1 .. Len(s) : s[k] \in T => \E i \in 1 .. Len(r) : g[i] = k
  BY <1>0 DEF Placed
<1>2. ASSUME NEW i \in DOMAIN r
      PROVE  r[i] \in T /\ \E k \in DOMAIN s : s[k] = r[i]
  <2>1. i \in 1 .. Len(r) /\ g[i] \in DOMAIN s
    BY <1>1
  <2> QED BY <1>1, <2>1
<1>3. ASSUME NEW k \in DOMAIN s, s[k] \in T
      PROVE  \E i \in DOMAIN r : r[i] = s[k]
  <2>1. PICK i \in 1 .. Len(r) : g[i] = k
    BY <1>1, <1>3
  <2>2. i \in DOMAIN r /\ r[i] = s[k]
    BY <1>1, <2>1
  <2> QED BY <2>2
<1> QED BY <1>1, <1>2, <1>3 DEF r

(* No element twice, if there was none twice. *)
LEMMA OnlyDistinct ==
    ASSUME NEW S, NEW s \in Seq(S), NEW T,
           \A i, j \in DOMAIN s : s[i] = s[j] => i = j
    PROVE  \A i, j \in DOMAIN Only(s, T) : Only(s, T)[i] = Only(s, T)[j] => i = j
<1> DEFINE r == Only(s, T)
<1> HIDE DEF r
<1>0. PICK g : Placed(S, s, T, r, g)
  BY OnlyPlaced DEF r
<1>1. /\ r \in Seq(S) /\ r \in Seq(T)
      /\ g \in [1 .. Len(r) -> 1 .. Len(s)]
      /\ \A i \in 1 .. Len(r) : r[i] = s[g[i]]
      /\ \A i, j \in 1 .. Len(r) : i < j => g[i] < g[j]
      /\ \A k \in 1 .. Len(s) : s[k] \in T => \E i \in 1 .. Len(r) : g[i] = k
  BY <1>0 DEF Placed
<1>2. ASSUME NEW i \in DOMAIN r, NEW j \in DOMAIN r, r[i] = r[j] PROVE i = j
  <2>1. /\ i \in 1 .. Len(r) /\ j \in 1 .. Len(r)
        /\ g[i] \in DOMAIN s /\ g[j] \in DOMAIN s
        /\ g[i] \in Nat /\ g[j] \in Nat
    BY <1>1
  <2>2. g[i] = g[j]
    BY <1>1, <1>2, <2>1
  <2>3. ~ (i < j) /\ ~ (j < i)
    BY <1>1, <2>1, <2>2
  <2> QED BY <2>1, <2>3
<1> QED BY <1>2 DEF r

(* The front stays the front, if it belongs there. *)
LEMMA OnlyFront ==
    ASSUME NEW S, NEW s \in Seq(S), NEW T, s # <<>>, s[1] \in T
    PROVE  Only(s, T) # <<>> /\ Only(s, T)[1] = s[1]
<1> DEFINE r == Only(s, T)
<1> HIDE DEF r
<1>0. PICK g : Placed(S, s, T, r, g)
  BY OnlyPlaced DEF r
<1>1. /\ r \in Seq(S) /\ r \in Seq(T)
      /\ g \in [1 .. Len(r) -> 1 .. Len(s)]
      /\ \A i \in 1 .. Len(r) : r[i] = s[g[i]]
      /\ \A i, j \in 1 .. Len(r) : i < j => g[i] < g[j]
      /\ \A k \in 1 .. Len(s) : s[k] \in T => \E i \in 1 .. Len(r) : g[i] = k
  BY <1>0 DEF Placed
<1>2. 1 \in 1 .. Len(s)
  OBVIOUS
<1>3. PICK i \in 1 .. Len(r) : g[i] = 1
  BY <1>1, <1>2
<1>4. i = 1
  <2>1. 1 \in 1 .. Len(r) /\ g[1] \in 1 .. Len(s)
    BY <1>1, <1>3
  <2>2. ~ (1 < i)
    BY <1>1, <1>3, <2>1
  <2> QED BY <1>1, <1>3, <2>2
<1> QED BY <1>1, <1>3, <1>4 DEF r

-----------------------------------------------------------------------------
(* Whatever picks the elements of s in T is Only(s, T). *)
LEMMA OnlyIs ==
    ASSUME NEW s, NEW T, Len(s) \in Nat, NEW q, NEW h, Picks(s, T, Len(s), q, h)
    PROVE  q = Only(s, T)
<1>1. PICK g : Picks(s, T, Len(s), Only(s, T), g)
  BY OnlyPicks
<1>2. Len(q) \in Nat
  BY DEF Picks
<1>3. Len(Only(s, T)) \in Nat
  BY <1>1 DEF Picks
<1>4. CASE Len(q) <= Len(Only(s, T))
  BY <1>1, <1>4, PicksOnce
<1>5. CASE Len(Only(s, T)) <= Len(q)
  BY <1>1, <1>5, PicksOnce
<1> QED BY <1>2, <1>3, <1>4, <1>5

(* Only asks of T which elements of s it has. *)
LEMMA OnlyAgree ==
    ASSUME NEW S, NEW s \in Seq(S), NEW T, NEW U,
           \A k \in 1 .. Len(s) : s[k] \in T <=> s[k] \in U
    PROVE  Only(s, T) = Only(s, U)
<1> DEFINE r == Only(s, T)
<1> HIDE DEF r
<1>0. PICK g : Placed(S, s, T, r, g)
  BY OnlyPlaced DEF r
<1>1. /\ r \in Seq(S) /\ r \in Seq(T)
      /\ g \in [1 .. Len(r) -> 1 .. Len(s)]
      /\ \A i \in 1 .. Len(r) : r[i] = s[g[i]]
      /\ \A i, j \in 1 .. Len(r) : i < j => g[i] < g[j]
      /\ \A k \in 1 .. Len(s) : s[k] \in T => \E i \in 1 .. Len(r) : g[i] = k
  BY <1>0 DEF Placed
<1>2. \A i \in 1 .. Len(r) : r[i] \in U
  <2> TAKE i \in 1 .. Len(r)
  <2>1. r[i] \in T /\ g[i] \in 1 .. Len(s) /\ r[i] = s[g[i]]
    BY <1>1
  <2> QED BY <2>1
<1>3. r \in Seq(U)
  BY <1>1, <1>2
<1>4. Picks(s, U, Len(s), r, g)
  BY <1>1, <1>3 DEF Picks
<1> QED BY <1>4, OnlyIs DEF r

(* What is kept behind the front. *)
LEMMA OnlyTail ==
    ASSUME NEW S, NEW s \in Seq(S), NEW T, s # <<>>, s[1] \in T
    PROVE  Tail(Only(s, T)) = Only(Tail(s), T)
<1> DEFINE r == Only(s, T)
           q == Tail(r)
           t == Tail(s)
<1>a. r # <<>> /\ r[1] = s[1]
  BY OnlyFront
<1> HIDE DEF r
<1>0. PICK g : Placed(S, s, T, r, g)
  BY OnlyPlaced DEF r
<1>1. /\ r \in Seq(S) /\ r \in Seq(T)
      /\ g \in [1 .. Len(r) -> 1 .. Len(s)]
      /\ \A i \in 1 .. Len(r) : r[i] = s[g[i]]
      /\ \A i, j \in 1 .. Len(r) : i < j => g[i] < g[j]
      /\ \A k \in 1 .. Len(s) : s[k] \in T => \E i \in 1 .. Len(r) : g[i] = k
  BY <1>0 DEF Placed
<1>2. /\ Len(r) \in Nat /\ Len(r) >= 1 /\ Len(s) \in Nat /\ Len(s) >= 1
      /\ q \in Seq(T) /\ Len(q) = Len(r) - 1
      /\ \A i \in 1 .. Len(q) : q[i] = r[i + 1]
      /\ t \in Seq(S) /\ Len(t) = Len(s) - 1
      /\ \A i \in 1 .. Len(t) : t[i] = s[i + 1]
  BY <1>1, <1>a
<1> HIDE DEF q, t
<1> DEFINE h == [i \in 1 .. Len(q) |-> g[i + 1] - 1]
<1>3. \A i \in 1 .. Len(q) :
         /\ i + 1 \in 1 .. Len(r) /\ 1 \in 1 .. Len(r) /\ 1 < i + 1
         /\ g[i + 1] \in 2 .. Len(s)
  <2> TAKE i \in 1 .. Len(q)
  <2>1. i + 1 \in 1 .. Len(r) /\ 1 \in 1 .. Len(r) /\ 1 < i + 1
    BY <1>2
  <2>2. g[1] < g[i + 1] /\ g[1] \in 1 .. Len(s) /\ g[i + 1] \in 1 .. Len(s)
    BY <1>1, <2>1
  <2> QED BY <2>1, <2>2
<1>4. h \in [1 .. Len(q) -> 1 .. Len(t)]
  BY <1>2, <1>3
<1>5. \A i \in 1 .. Len(q) : q[i] = t[h[i]]
  <2> TAKE i \in 1 .. Len(q)
  <2>1. q[i] = s[g[i + 1]]
    BY <1>1, <1>2, <1>3
  <2>2. g[i + 1] - 1 \in 1 .. Len(t) /\ (g[i + 1] - 1) + 1 = g[i + 1]
    BY <1>2, <1>3
  <2>3. t[g[i + 1] - 1] = s[g[i + 1]]
    BY <1>2, <2>2
  <2> QED BY <2>1, <2>3
<1>6. ASSUME NEW i \in 1 .. Len(q), NEW j \in 1 .. Len(q), i < j PROVE h[i] < h[j]
  <2>1. g[i + 1] < g[j + 1]
    <3>1. i + 1 < j + 1
      BY <1>6
    <3> QED BY <1>1, <1>3, <3>1
  <2>2. g[i + 1] \in Nat /\ g[j + 1] \in Nat
    BY <1>3
  <2> QED BY <2>1, <2>2
<1>7. ASSUME NEW k \in 1 .. Len(t), t[k] \in T PROVE \E i \in 1 .. Len(q) : h[i] = k
  <2>1. k + 1 \in 1 .. Len(s) /\ s[k + 1] \in T
    BY <1>2, <1>7
  <2>2. PICK i \in 1 .. Len(r) : g[i] = k + 1
    BY <1>1, <2>1
  <2>3. PICK m \in 1 .. Len(r) : g[m] = 1
    <3>1. 1 \in 1 .. Len(s)
      BY <1>2
    <3> QED BY <1>1, <3>1
  <2>4. i # 1
    <3> SUFFICES ASSUME i = 1 PROVE FALSE
      OBVIOUS
    <3>1. m # 1
      BY <2>2, <2>3
    <3>2. 1 < m /\ 1 \in 1 .. Len(r)
      BY <1>2, <3>1
    <3>3. g[1] < g[m]
      BY <1>1, <3>2
    <3> QED BY <2>2, <2>3, <3>3
  <2>5. i - 1 \in 1 .. Len(q) /\ (i - 1) + 1 = i
    BY <1>2, <2>4
  <2>6. h[i - 1] = k
    BY <2>2, <2>5
  <2> QED BY <2>5, <2>6
<1> HIDE DEF h
<1>8. Picks(t, T, Len(t), q, h)
  BY <1>2, <1>4, <1>5, <1>6, <1>7 DEF Picks
<1>9. q = Only(t, T)
  BY <1>2, <1>8, OnlyIs
<1> QED BY <1>9 DEF q, t, r

(* Erasing commutes with looking up what the elements stand for. *)
Stands(s, c, w, V) ==
    w \in Seq(V) /\ Len(w) = Len(s) /\ \A k \in 1 .. Len(s) : w[k] = c[s[k]]
Alike(s, T, w, U) == \A k \in 1 .. Len(s) : s[k] \in T <=> w[k] \in U

LEMMA OnlyMapped ==
    ASSUME NEW S, NEW s \in Seq(S), NEW T, NEW c, NEW V, NEW w, Stands(s, c, w, V),
           NEW U, Alike(s, T, w, U), NEW q, Stands(Only(s, T), c, q, V)
    PROVE  q = Only(w, U)
<1> DEFINE r == Only(s, T)
<1> HIDE DEF r
<1>a. /\ w \in Seq(V) /\ Len(w) = Len(s)
      /\ \A k \in 1 .. Len(s) : w[k] = c[s[k]]
      /\ \A k \in 1 .. Len(s) : s[k] \in T <=> w[k] \in U
  BY DEF Stands, Alike
<1>b. /\ q \in Seq(V) /\ Len(q) = Len(r)
      /\ \A i \in 1 .. Len(q) : q[i] = c[r[i]]
  BY DEF Stands, r
<1>0. PICK g : Placed(S, s, T, r, g)
  BY OnlyPlaced DEF r
<1>1. /\ r \in Seq(S) /\ r \in Seq(T)
      /\ g \in [1 .. Len(r) -> 1 .. Len(s)]
      /\ \A i \in 1 .. Len(r) : r[i] = s[g[i]]
      /\ \A i, j \in 1 .. Len(r) : i < j => g[i] < g[j]
      /\ \A k \in 1 .. Len(s) : s[k] \in T => \E i \in 1 .. Len(r) : g[i] = k
  BY <1>0 DEF Placed
<1>2. ASSUME NEW i \in 1 .. Len(q)
      PROVE  g[i] \in 1 .. Len(w) /\ q[i] = w[g[i]] /\ q[i] \in U
  <2>1. i \in 1 .. Len(r) /\ q[i] = c[r[i]]
    BY <1>b
  <2>2. r[i] \in T
    BY <1>1, <2>1
  <2>3. g[i] \in 1 .. Len(s) /\ r[i] = s[g[i]]
    BY <1>1, <2>1
  <2>4. q[i] = w[g[i]] /\ g[i] \in 1 .. Len(w)
    BY <1>a, <2>1, <2>3
  <2>5. q[i] \in U
    BY <1>a, <2>2, <2>3, <2>4
  <2> QED BY <2>4, <2>5
<1>3. q \in Seq(U)
  BY <1>b, <1>2
<1>4. Len(q) = Len(r) /\ Len(w) = Len(s) /\ Len(w) \in Nat
  BY <1>a, <1>b
<1>5. /\ g \in [1 .. Len(q) -> 1 .. Len(w)]
      /\ \A i, j \in 1 .. Len(q) : i < j => g[i] < g[j]
      /\ \A k \in 1 .. Len(w) : w[k] \in U => \E i \in 1 .. Len(q) : g[i] = k
  BY <1>1, <1>4, <1>a
<1>6. Picks(w, U, Len(w), q, g)
  BY <1>2, <1>3, <1>5 DEF Picks
<1> QED BY <1>4, <1>6, OnlyIs
=============================================================================
