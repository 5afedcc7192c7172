-------------------------- MODULE ConnectionProofs --------------------------
(***************************************************************************)
(* Theorems about Connection, for every set of clients and any number of    *)
(* messages, secrets and rounds, and at the end about Crypt, the cipher of  *)
(* those secrets, for every width of words and every length of message and  *)
(* key.                                                                     *)
(***************************************************************************)
EXTENDS Connection, Crypt, FilterProofs, SequenceTheorems

-----------------------------------------------------------------------------
(* What may be said of a queue s and the elements in A and B: one is there;  *)
(* there is one at most; no B is behind an A; every A has a B before it.    *)

Has(s, A)          == \E i \in DOMAIN s : s[i] \in A
Once(s, A)         == \A i, j \in DOMAIN s : s[i] \in A /\ s[j] \in A => i = j
NoneAfter(s, A, B) == \A i, j \in DOMAIN s : s[i] \in A /\ i < j => s[j] \notin B
Preceded(s, A, B)  == \A i \in DOMAIN s : s[i] \in A => \E j \in DOMAIN s : j < i /\ s[j] \in B

LEMMA EmptyQueue ==
    \A A, B : /\ ~ Has(<<>>, A) /\ Once(<<>>, A) /\ NoneAfter(<<>>, A, B)
              /\ Preceded(<<>>, A, B)
BY DEF Has, Once, NoneAfter, Preceded

LEMMA NoneThere ==
    ASSUME NEW s, NEW A, ~ Has(s, A)
    PROVE  /\ Once(s, A)
           /\ \A B : NoneAfter(s, A, B) /\ Preceded(s, A, B)
           /\ \A B : NoneAfter(s, B, A)
BY DEF Has, Once, NoneAfter, Preceded

LEMMA Appended ==
    ASSUME NEW S, NEW s \in Seq(S), NEW m
    PROVE  LET t == Append(s, m) IN
           /\ \A A : Has(t, A) <=> Has(s, A) \/ m \in A
           /\ \A A : Once(s, A) /\ (m \in A => ~ Has(s, A)) => Once(t, A)
           /\ \A A, B : NoneAfter(s, A, B) /\ (m \in B => ~ Has(s, A)) => NoneAfter(t, A, B)
           /\ \A A, B : Preceded(s, A, B) /\ (m \in A => Has(s, B)) => Preceded(t, A, B)
<1> DEFINE t == Append(s, m)
           n == Len(s)
<1>1. /\ n \in Nat /\ DOMAIN s = 1 .. n /\ DOMAIN t = 1 .. n + 1
      /\ \A i \in 1 .. n : t[i] = s[i]
      /\ t[n + 1] = m
  OBVIOUS
<1> HIDE DEF t, n
<1>2. \A i \in DOMAIN t : i = n + 1 \/ i \in DOMAIN s
  BY <1>1
<1>3. \A i \in DOMAIN s : i \in DOMAIN t /\ t[i] = s[i] /\ i < n + 1 /\ i \in Nat
  BY <1>1
<1>4. n + 1 \in DOMAIN t /\ t[n + 1] = m
  BY <1>1
<1>5. \A A : Has(t, A) <=> Has(s, A) \/ m \in A
  BY <1>2, <1>3, <1>4 DEF Has
<1>6. ASSUME NEW A, Once(s, A), m \in A => ~ Has(s, A) PROVE Once(t, A)
  BY <1>2, <1>3, <1>4, <1>6 DEF Once, Has
<1>7. ASSUME NEW A, NEW B, NoneAfter(s, A, B), m \in B => ~ Has(s, A) PROVE NoneAfter(t, A, B)
  <2> SUFFICES ASSUME NEW i \in DOMAIN t, NEW j \in DOMAIN t, t[i] \in A, i < j, t[j] \in B
               PROVE  FALSE
    BY DEF NoneAfter
  <2>1. i \in DOMAIN s
    BY <1>1, <1>2
  <2> QED BY <1>2, <1>3, <1>4, <1>7, <2>1 DEF NoneAfter, Has
<1>8. ASSUME NEW A, NEW B, Preceded(s, A, B), m \in A => Has(s, B) PROVE Preceded(t, A, B)
  BY <1>2, <1>3, <1>4, <1>8 DEF Preceded, Has
<1> QED BY <1>5, <1>6, <1>7, <1>8 DEF t

LEMMA Taken ==
    ASSUME NEW S, NEW s \in Seq(S), s # <<>>
    PROVE  LET t == Tail(s) IN
           /\ \A A : Has(s, A) <=> Has(t, A) \/ Head(s) \in A
           /\ \A A : Once(s, A) => Once(t, A) /\ (Head(s) \in A => ~ Has(t, A))
           /\ \A A, B : NoneAfter(s, A, B) => /\ NoneAfter(t, A, B)
                                              /\ Head(s) \in A => ~ Has(t, B)
           /\ \A A, B : Preceded(s, A, B) => /\ Head(s) \notin A
                                             /\ Head(s) \in B \/ Preceded(t, A, B)
<1> DEFINE t == Tail(s)
           n == Len(s)
           h == Head(s)
<1>1. /\ n \in Nat /\ n >= 1 /\ DOMAIN s = 1 .. n /\ DOMAIN t = 1 .. n - 1
      /\ \A i \in 1 .. n - 1 : t[i] = s[i + 1]
      /\ s[1] = h
  OBVIOUS
<1> HIDE DEF t, n, h
<1>2. \A i \in DOMAIN t : i + 1 \in DOMAIN s /\ s[i + 1] = t[i] /\ i \in Nat /\ 1 < i + 1
  BY <1>1
<1>3. \A i \in DOMAIN s : i \in Nat /\ (i # 1 => (i - 1 \in DOMAIN t /\ t[i - 1] = s[i]))
  <2> SUFFICES ASSUME NEW i \in DOMAIN s, i # 1 PROVE i - 1 \in DOMAIN t /\ t[i - 1] = s[i]
    BY <1>1
  <2>1. i \in Nat /\ i >= 2 /\ i <= n
    BY <1>1
  <2>2. i - 1 \in 1 .. n - 1 /\ (i - 1) + 1 = i
    BY <1>1, <2>1
  <2> QED BY <1>1, <2>2
<1>4. 1 \in DOMAIN s /\ s[1] = h
  BY <1>1
<1>5. \A A : Has(s, A) <=> Has(t, A) \/ h \in A
  BY <1>2, <1>3, <1>4 DEF Has
<1>6. ASSUME NEW A, Once(s, A) PROVE Once(t, A) /\ (h \in A => ~ Has(t, A))
  BY <1>2, <1>4, <1>6 DEF Once, Has
<1>7. ASSUME NEW A, NEW B, NoneAfter(s, A, B)
      PROVE  NoneAfter(t, A, B) /\ (h \in A => ~ Has(t, B))
  <2>1. ASSUME NEW i \in DOMAIN t, NEW j \in DOMAIN t, t[i] \in A, i < j, t[j] \in B
        PROVE  FALSE
    <3>1. i + 1 < j + 1
      BY <1>2, <2>1
    <3> QED BY <1>2, <1>7, <2>1, <3>1 DEF NoneAfter
  <2>2. h \in A => ~ Has(t, B)
    BY <1>2, <1>4, <1>7 DEF NoneAfter, Has
  <2> QED BY <2>1, <2>2 DEF NoneAfter
<1>8. ASSUME NEW A, NEW B, Preceded(s, A, B)
      PROVE  h \notin A /\ (h \in B \/ Preceded(t, A, B))
  <2>1. h \notin A
    BY <1>3, <1>4, <1>8 DEF Preceded
  <2>2. ASSUME h \notin B, NEW i \in DOMAIN t, t[i] \in A
        PROVE  \E j \in DOMAIN t : j < i /\ t[j] \in B
    <3>1. PICK j \in DOMAIN s : j < i + 1 /\ s[j] \in B
      BY <1>2, <1>8, <2>2 DEF Preceded
    <3>2. j # 1
      BY <1>4, <2>2, <3>1
    <3>3. j - 1 \in DOMAIN t /\ t[j - 1] \in B /\ j - 1 < i
      BY <1>2, <1>3, <3>1, <3>2
    <3> QED BY <3>3
  <2> QED BY <2>1, <2>2 DEF Preceded
<1> QED BY <1>5, <1>6, <1>7, <1>8 DEF t, h

(* An erasure that keeps all that is asked about. *)
LEMMA KeptByOnly ==
    ASSUME NEW S, NEW s \in Seq(S), NEW T
    PROVE  LET t == Only(s, T) IN
           /\ \A A : Has(t, A) => Has(s, A)
           /\ \A A : A \subseteq T /\ Has(s, A) => Has(t, A)
           /\ \A A : Once(s, A) => Once(t, A)
           /\ \A A, B : NoneAfter(s, A, B) => NoneAfter(t, A, B)
           /\ \A A, B : B \subseteq T /\ Preceded(s, A, B) => Preceded(t, A, B)
<1> DEFINE t == Only(s, T)
<1> HIDE DEF t
<1>1. PICK g : Placed(S, s, T, t, g)
  BY OnlyPlaced DEF t
<1>a. /\ t \in Seq(S)
      /\ g \in [1 .. Len(t) -> 1 .. Len(s)]
      /\ \A i \in 1 .. Len(t) : t[i] = s[g[i]]
      /\ \A i, j \in 1 .. Len(t) : i < j => g[i] < g[j]
      /\ \A k \in 1 .. Len(s) : s[k] \in T => \E i \in 1 .. Len(t) : g[i] = k
  BY <1>1 DEF Placed
<1>b. DOMAIN t = 1 .. Len(t) /\ DOMAIN s = 1 .. Len(s) /\ Len(t) \in Nat /\ Len(s) \in Nat
  BY <1>a
<1>2. /\ DOMAIN t = 1 .. Len(t) /\ DOMAIN s = 1 .. Len(s) /\ Len(t) \in Nat /\ Len(s) \in Nat
      /\ \A i \in DOMAIN t : g[i] \in DOMAIN s /\ t[i] = s[g[i]]
      /\ \A i, j \in DOMAIN t : i < j => g[i] < g[j]
      /\ \A k \in DOMAIN s : s[k] \in T => \E i \in DOMAIN t : g[i] = k
  BY <1>a, <1>b
<1>3. \A i, j \in DOMAIN t : g[i] < g[j] => i < j
  <2> SUFFICES ASSUME NEW i \in DOMAIN t, NEW j \in DOMAIN t, g[i] < g[j], ~ i < j PROVE FALSE
    OBVIOUS
  <2>1. i \in Nat /\ j \in Nat /\ g[i] \in Nat /\ g[j] \in Nat
    BY <1>2
  <2>2. CASE i = j
    BY <2>1, <2>2
  <2>3. CASE j < i
    <3>1. g[j] < g[i]
      BY <1>2, <2>3
    <3> QED BY <2>1, <3>1
  <2> QED BY <2>1, <2>2, <2>3
<1>4. \A A : Has(t, A) => Has(s, A)
  BY <1>2 DEF Has
<1>5. \A A : A \subseteq T /\ Has(s, A) => Has(t, A)
  BY <1>2 DEF Has
<1>6. ASSUME NEW A, Once(s, A) PROVE Once(t, A)
  <2> SUFFICES ASSUME NEW i \in DOMAIN t, NEW j \in DOMAIN t, t[i] \in A, t[j] \in A
               PROVE  i = j
    BY DEF Once
  <2>1. g[i] = g[j]
    BY <1>2, <1>6 DEF Once
  <2>2. i \in Nat /\ j \in Nat /\ g[i] \in Nat
    BY <1>2
  <2>3. ~ i < j /\ ~ j < i
    BY <1>2, <2>1, <2>2
  <2> QED BY <2>2, <2>3
<1>7. ASSUME NEW A, NEW B, NoneAfter(s, A, B) PROVE NoneAfter(t, A, B)
  BY <1>2, <1>7 DEF NoneAfter
<1>8. ASSUME NEW A, NEW B, B \subseteq T, Preceded(s, A, B) PROVE Preceded(t, A, B)
  <2> SUFFICES ASSUME NEW i \in DOMAIN t, t[i] \in A
               PROVE  \E j \in DOMAIN t : j < i /\ t[j] \in B
    BY DEF Preceded
  <2>1. PICK k \in DOMAIN s : k < g[i] /\ s[k] \in B
    BY <1>2, <1>8 DEF Preceded
  <2>2. PICK j \in DOMAIN t : g[j] = k
    BY <1>2, <1>8, <2>1
  <2> QED BY <1>2, <1>3, <2>1, <2>2
<1> QED BY <1>4, <1>5, <1>6, <1>7, <1>8 DEF t

(* What is appended to a queue, and what is taken from its front, as Only     *)
(* sees it.                                                                 *)
LEMMA OnlyAppended ==
    ASSUME NEW S, NEW s \in Seq(S), NEW m \in S, NEW T
    PROVE  Only(Append(s, m), T) = IF m \in T THEN Append(Only(s, T), m) ELSE Only(s, T)
<1> DEFINE t == Append(s, m)
           n == Len(s)
           r == Only(s, T)
<1>1. t \in Seq(S) /\ Len(t) = n + 1 /\ n \in Nat /\ t[n + 1] = m /\ \A i \in 1 .. n : t[i] = s[i]
  OBVIOUS
<1>2. PICK g : Picks(s, T, n, r, g)
  BY <1>1, OnlyPicks
<1> HIDE DEF t, n, r
<1>3. Picks(t, T, n, r, g)
  BY <1>1, <1>2 DEF Picks
<1>4. /\ m \in T => \E h : Picks(t, T, n + 1, Append(r, m), h)
      /\ m \notin T => Picks(t, T, n + 1, r, g)
  BY <1>1, <1>3, PicksNext
<1>5. Len(t) = n + 1 /\ Len(t) \in Nat
  BY <1>1
<1>6. m \in T => Append(r, m) = Only(t, T)
  BY <1>4, <1>5, OnlyIs
<1>7. m \notin T => r = Only(t, T)
  BY <1>4, <1>5, OnlyIs
<1> QED BY <1>6, <1>7 DEF t, r

LEMMA OnlyNothing == \A T : Only(<<>>, T) = <<>>
<1> TAKE T
<1>1. \E g : Picks(<<>>, T, 0, Only(<<>>, T), g)
  BY OnlyPicks
<1>2. Only(<<>>, T) \in Seq(T) /\ ~ (1 \in 1 .. Len(Only(<<>>, T)))
  BY <1>1 DEF Picks
<1> QED BY <1>2

LEMMA OnlyTaken ==
    ASSUME NEW S, NEW s \in Seq(S), s # <<>>, NEW T
    PROVE  /\ Only(s, T) \in Seq(T) /\ Only(Tail(s), T) \in Seq(T)
           /\ Head(s) \in T => /\ Only(s, T) # <<>>
                               /\ Head(Only(s, T)) = Head(s)
                               /\ Only(Tail(s), T) = Tail(Only(s, T))
           /\ Head(s) \notin T => Only(Tail(s), T) = Only(s, T)
<1> DEFINE t == Tail(s)
           r == Only(s, T)
<1>1. /\ Len(s) \in Nat /\ Len(s) >= 1 /\ s[1] = Head(s)
      /\ t \in Seq(S) /\ Len(t) = Len(s) - 1 /\ Len(t) \in Nat
      /\ \A i \in 1 .. Len(t) : t[i] = s[i + 1]
  OBVIOUS
<1>2. PICK g : Picks(s, T, Len(s), r, g)
  BY <1>1, OnlyPicks
<1> HIDE DEF r, t
<1>3. /\ r \in Seq(T) /\ Len(r) \in Nat
      /\ g \in [1 .. Len(r) -> 1 .. Len(s)]
      /\ \A i \in 1 .. Len(r) : r[i] = s[g[i]]
      /\ \A i, j \in 1 .. Len(r) : i < j => g[i] < g[j]
      /\ \A k \in 1 .. Len(s) : s[k] \in T => \E i \in 1 .. Len(r) : g[i] = k
  BY <1>2 DEF Picks
<1>4. Only(t, T) \in Seq(T)
  <2>1. PICK h : Picks(t, T, Len(t), Only(t, T), h)
    BY <1>1, OnlyPicks
  <2> QED BY <2>1 DEF Picks
<1>5. ASSUME Head(s) \in T
      PROVE  r # <<>> /\ Head(r) = Head(s) /\ Only(t, T) = Tail(r)
  <2>1. Only(s, T) # <<>> /\ Only(s, T)[1] = s[1] /\ Tail(Only(s, T)) = Only(Tail(s), T)
    BY <1>1, <1>5, OnlyFront, OnlyTail
  <2> QED BY <1>1, <1>3, <2>1 DEF r, t
<1>6. ASSUME Head(s) \notin T
      PROVE  Only(t, T) = r
  <2> DEFINE h == [i \in 1 .. Len(r) |-> g[i] - 1]
  <2>1. \A i \in 1 .. Len(r) : g[i] \in 1 .. Len(s) /\ g[i] \in 2 .. Len(s)
    <3> TAKE i \in 1 .. Len(r)
    <3>1. g[i] \in 1 .. Len(s) /\ r[i] = s[g[i]] /\ r[i] \in T
      BY <1>3
    <3>2. g[i] # 1
      BY <1>1, <1>6, <3>1
    <3> QED BY <3>1, <3>2
  <2>2. h \in [1 .. Len(r) -> 1 .. Len(t)]
    BY <1>1, <2>1
  <2>3. ASSUME NEW i \in 1 .. Len(r) PROVE r[i] = t[h[i]]
    <3>1. r[i] = s[g[i]] /\ g[i] \in 2 .. Len(s)
      BY <1>3, <2>1
    <3>2. g[i] - 1 \in 1 .. Len(t) /\ (g[i] - 1) + 1 = g[i]
      BY <1>1, <3>1
    <3>3. t[g[i] - 1] = s[g[i]]
      BY <1>1, <3>2
    <3> QED BY <3>1, <3>3
  <2>4. ASSUME NEW i \in 1 .. Len(r), NEW j \in 1 .. Len(r), i < j PROVE h[i] < h[j]
    <3>1. g[i] < g[j] /\ g[i] \in Nat /\ g[j] \in Nat
      BY <1>3, <2>1, <2>4
    <3> QED BY <3>1
  <2>5. ASSUME NEW k \in 1 .. Len(t), t[k] \in T PROVE \E i \in 1 .. Len(r) : h[i] = k
    <3>1. k + 1 \in 1 .. Len(s) /\ s[k + 1] \in T
      BY <1>1, <2>5
    <3>2. PICK i \in 1 .. Len(r) : g[i] = k + 1
      BY <1>3, <3>1
    <3>3. h[i] = k
      BY <3>2
    <3> QED BY <3>3
  <2> HIDE DEF h
  <2>6. Picks(t, T, Len(t), r, h)
    BY <1>3, <2>2, <2>3, <2>4, <2>5 DEF Picks
  <2> QED BY <1>1, <2>6, OnlyIs
<1> QED BY <1>3, <1>4, <1>5, <1>6 DEF r, t

-----------------------------------------------------------------------------
(* The handshake of one client, as the two channels and the keys show it:   *)
(* s is the server's last seed, k the client's key, v the server's key, C   *)
(* what is on its way to the client but for refusals, configurations and    *)
(* secrets, Q what is on its way to the server.                             *)

Core == [type : {"sync", "challenge", "askdigest", "accept"}, key : Nat]

Ack(n) == [type |-> "ack", key |-> n]
Ch  == Plain("challenge")
Ask == Plain("askdigest")
Acc == Plain("accept")
St  == Secret("state", 1)
Au  == Secret("auth", 1)
Dg  == Secret("digest", 2)
Rq  == Plain("request")
Rd  == Plain("ready")

LEMMA MessagesAre ==
    /\ \A n : /\ KeySync(n).type = "sync" /\ KeySync(n).key = n
              /\ Ack(n).type = "ack" /\ Ack(n).key = n
    /\ Ch.type = "challenge" /\ Ask.type = "askdigest" /\ Acc.type = "accept"
    /\ St.type = "state" /\ St.key = 1 /\ Au.type = "auth" /\ Au.key = 1
    /\ Dg.type = "digest" /\ Dg.key = 2
    /\ Rq.type = "request" /\ Rd.type = "ready"
BY DEF KeySync, Ack, Plain, Secret, Ch, Ask, Acc, St, Au, Dg, Rq, Rd

(* The only states of the channels.  Without a version check the first two   *)
(* keys are sent at once: the three longest rows.                           *)
Shape(s, k, C, Q) ==
    \/ s = 0 /\ k = 0 /\ C = <<>> /\ Q = <<>>
    \/ s = 1 /\ k = 0 /\ C = <<KeySync(1), Ch>> /\ Q = <<>>
    \/ s = 1 /\ k = 1 /\ C = <<Ch>> /\ (Q = <<Ack(1)>> \/ Q = <<>>)
    \/ s = 1 /\ k = 1 /\ C = <<>>
       /\ (Q = <<Ack(1), St, Au>> \/ Q = <<St, Au>> \/ Q = <<Au>> \/ Q = <<>>)
    \/ s = 2 /\ k = 0 /\ C = <<KeySync(1), KeySync(2), Ask>> /\ Q = <<>>
    \/ s = 2 /\ k = 1 /\ C = <<KeySync(2), Ask>> /\ (Q = <<Ack(1)>> \/ Q = <<>>)
    \/ s = 2 /\ k = 2 /\ C = <<Ask>>
       /\ (Q = <<Ack(1), Ack(2)>> \/ Q = <<Ack(2)>> \/ Q = <<>>)
    \/ s = 2 /\ k = 2 /\ C = <<>>
       /\ (Q = <<Ack(1), Ack(2), Dg>> \/ Q = <<Ack(2), Dg>> \/ Q = <<Dg>> \/ Q = <<>>)
    \/ s = 3 /\ k = 2 /\ C = <<KeySync(3), Acc>> /\ Q = <<>>
    \/ s = 3 /\ k = 3 /\ C = <<Acc>> /\ (Q = <<Ack(3)>> \/ Q = <<>>)
    \/ s = 3 /\ k = 3 /\ C = <<>>
       /\ (Q = <<Ack(3)>> \/ Q = <<Ack(3), Rq>> \/ Q = <<Rq>> \/ Q = <<>> \/ Q = <<Rd>>)

(* The server's key is the last one, or the acknowledgement is still to come. *)
Vouch(s, v, C, Q) == \/ Q # <<>> /\ Head(Q).type = "ack"
                     \/ C # <<>> /\ Head(C).type = "sync"
                     \/ v = s

LEMMA TuplesAre ==
    /\ \A a : <<a>> # <<>> /\ Head(<<a>>) = a /\ Tail(<<a>>) = <<>>
    /\ \A a, b : <<a, b>> # <<>> /\ Head(<<a, b>>) = a /\ Tail(<<a, b>>) = <<b>>
    /\ \A a, b, c : <<a, b, c>> # <<>> /\ Head(<<a, b, c>>) = a /\ Tail(<<a, b, c>>) = <<b, c>>
OBVIOUS

LEMMA TuplesJoin ==
    /\ \A a : <<>> \o <<a>> = <<a>>
    /\ \A a, b : <<>> \o <<a, b>> = <<a, b>> /\ <<a>> \o <<b>> = <<a, b>>
    /\ \A a, b, c : <<a>> \o <<b, c>> = <<a, b, c>> /\ <<a, b>> \o <<c>> = <<a, b, c>>
<1>1. \A a : <<>> \o <<a>> = <<a>>
  OBVIOUS
<1>2. \A a, b : <<>> \o <<a, b>> = <<a, b>>
  OBVIOUS
<1>3. ASSUME NEW a, NEW b PROVE <<a>> \o <<b>> = <<a, b>>
  <2> DEFINE q == <<a>> \o <<b>>
             r == <<a, b>>
  <2>1. q \in Seq({a, b}) /\ Len(q) = 2 /\ q[1] = a /\ q[2] = b
    OBVIOUS
  <2>2. r \in Seq({a, b}) /\ Len(r) = 2 /\ r[1] = a /\ r[2] = b
    OBVIOUS
  <2>3. \A i \in 1 .. 2 : i = 1 \/ i = 2
    OBVIOUS
  <2> HIDE DEF q, r
  <2>4. q = r
    BY <2>1, <2>2, <2>3, SeqEqual
  <2> QED BY <2>4 DEF q, r
<1>4. ASSUME NEW a, NEW b, NEW c
      PROVE  <<a>> \o <<b, c>> = <<a, b, c>> /\ <<a, b>> \o <<c>> = <<a, b, c>>
  <2> DEFINE p == <<a>> \o <<b, c>>
             q == <<a, b>> \o <<c>>
             r == <<a, b, c>>
  <2>1. p \in Seq({a, b, c}) /\ Len(p) = 3 /\ p[1] = a /\ p[2] = b /\ p[3] = c
    OBVIOUS
  <2>2. q \in Seq({a, b, c}) /\ Len(q) = 3 /\ q[1] = a /\ q[2] = b /\ q[3] = c
    OBVIOUS
  <2>3. r \in Seq({a, b, c}) /\ Len(r) = 3 /\ r[1] = a /\ r[2] = b /\ r[3] = c
    OBVIOUS
  <2>4. \A i \in 1 .. 3 : i = 1 \/ i = 2 \/ i = 3
    OBVIOUS
  <2> HIDE DEF p, q, r
  <2>5. p = r
    BY <2>1, <2>3, <2>4, SeqEqual
  <2>6. q = r
    BY <2>2, <2>3, <2>4, SeqEqual
  <2> QED BY <2>5, <2>6 DEF p, q, r
<1> QED BY <1>1, <1>2, <1>3, <1>4

LEMMA ShapeTaken ==
    ASSUME NEW s, NEW k, NEW C, NEW Q, Shape(s, k, C, Q), Q # <<>>
    PROVE  /\ Shape(s, k, C, Tail(Q))
           /\ \/ Head(Q).type = "ack"
              \/ Head(Q) = St /\ s = 1 /\ C = <<>> /\ Tail(Q) = <<Au>>
              \/ Head(Q) = Au /\ s = 1 /\ C = <<>> /\ Tail(Q) = <<>>
              \/ Head(Q) = Dg /\ s = 2 /\ C = <<>> /\ Tail(Q) = <<>>
              \/ Head(Q) = Rq /\ s = 3 /\ C = <<>> /\ Tail(Q) = <<>>
              \/ Head(Q) = Rd /\ s = 3 /\ C = <<>> /\ Tail(Q) = <<>>
           /\ Tail(Q) # <<Rd>>
           /\ Tail(Q) = <<Au>> => Head(Q) = St
<1>1. CASE s = 1 /\ k = 1 /\ C = <<Ch>> /\ Q = <<Ack(1)>>
  <2>1. Head(Q) = Ack(1) /\ Tail(Q) = <<>>
    BY <1>1, TuplesAre
  <2>2. Shape(1, 1, <<Ch>>, <<>>)
    BY DEF Shape
  <2>3. <<>> # <<Rd>> /\ (<<>> = <<Au>> => Ack(1) = St)
    BY TuplesAre, MessagesAre
  <2> QED BY <1>1, <2>1, <2>2, <2>3, MessagesAre
<1>2. CASE s = 1 /\ k = 1 /\ C = <<>> /\ Q = <<Ack(1), St, Au>>
  <2>1. Head(Q) = Ack(1) /\ Tail(Q) = <<St, Au>>
    BY <1>2, TuplesAre
  <2>2. Shape(1, 1, <<>>, <<St, Au>>)
    BY DEF Shape
  <2>3. <<St, Au>> # <<Rd>> /\ (<<St, Au>> = <<Au>> => Ack(1) = St)
    BY TuplesAre, MessagesAre
  <2> QED BY <1>2, <2>1, <2>2, <2>3, MessagesAre
<1>3. CASE s = 1 /\ k = 1 /\ C = <<>> /\ Q = <<St, Au>>
  <2>1. Head(Q) = St /\ Tail(Q) = <<Au>>
    BY <1>3, TuplesAre
  <2>2. Shape(1, 1, <<>>, <<Au>>)
    BY DEF Shape
  <2>3. <<Au>> # <<Rd>> /\ (<<Au>> = <<Au>> => St = St)
    BY TuplesAre, MessagesAre
  <2> QED BY <1>3, <2>1, <2>2, <2>3, MessagesAre
<1>4. CASE s = 1 /\ k = 1 /\ C = <<>> /\ Q = <<Au>>
  <2>1. Head(Q) = Au /\ Tail(Q) = <<>>
    BY <1>4, TuplesAre
  <2>2. Shape(1, 1, <<>>, <<>>)
    BY DEF Shape
  <2>3. <<>> # <<Rd>> /\ (<<>> = <<Au>> => Au = St)
    BY TuplesAre, MessagesAre
  <2> QED BY <1>4, <2>1, <2>2, <2>3, MessagesAre
<1>5. CASE s = 2 /\ k = 1 /\ C = <<KeySync(2), Ask>> /\ Q = <<Ack(1)>>
  <2>1. Head(Q) = Ack(1) /\ Tail(Q) = <<>>
    BY <1>5, TuplesAre
  <2>2. Shape(2, 1, <<KeySync(2), Ask>>, <<>>)
    BY DEF Shape
  <2>3. <<>> # <<Rd>> /\ (<<>> = <<Au>> => Ack(1) = St)
    BY TuplesAre, MessagesAre
  <2> QED BY <1>5, <2>1, <2>2, <2>3, MessagesAre
<1>6. CASE s = 2 /\ k = 2 /\ C = <<Ask>> /\ Q = <<Ack(1), Ack(2)>>
  <2>1. Head(Q) = Ack(1) /\ Tail(Q) = <<Ack(2)>>
    BY <1>6, TuplesAre
  <2>2. Shape(2, 2, <<Ask>>, <<Ack(2)>>)
    BY DEF Shape
  <2>3. <<Ack(2)>> # <<Rd>> /\ (<<Ack(2)>> = <<Au>> => Ack(1) = St)
    BY TuplesAre, MessagesAre
  <2> QED BY <1>6, <2>1, <2>2, <2>3, MessagesAre
<1>7. CASE s = 2 /\ k = 2 /\ C = <<Ask>> /\ Q = <<Ack(2)>>
  <2>1. Head(Q) = Ack(2) /\ Tail(Q) = <<>>
    BY <1>7, TuplesAre
  <2>2. Shape(2, 2, <<Ask>>, <<>>)
    BY DEF Shape
  <2>3. <<>> # <<Rd>> /\ (<<>> = <<Au>> => Ack(2) = St)
    BY TuplesAre, MessagesAre
  <2> QED BY <1>7, <2>1, <2>2, <2>3, MessagesAre
<1>8. CASE s = 2 /\ k = 2 /\ C = <<>> /\ Q = <<Ack(1), Ack(2), Dg>>
  <2>1. Head(Q) = Ack(1) /\ Tail(Q) = <<Ack(2), Dg>>
    BY <1>8, TuplesAre
  <2>2. Shape(2, 2, <<>>, <<Ack(2), Dg>>)
    BY DEF Shape
  <2>3. <<Ack(2), Dg>> # <<Rd>> /\ (<<Ack(2), Dg>> = <<Au>> => Ack(1) = St)
    BY TuplesAre, MessagesAre
  <2> QED BY <1>8, <2>1, <2>2, <2>3, MessagesAre
<1>9. CASE s = 2 /\ k = 2 /\ C = <<>> /\ Q = <<Ack(2), Dg>>
  <2>1. Head(Q) = Ack(2) /\ Tail(Q) = <<Dg>>
    BY <1>9, TuplesAre
  <2>2. Shape(2, 2, <<>>, <<Dg>>)
    BY DEF Shape
  <2>3. <<Dg>> # <<Rd>> /\ (<<Dg>> = <<Au>> => Ack(2) = St)
    BY TuplesAre, MessagesAre
  <2> QED BY <1>9, <2>1, <2>2, <2>3, MessagesAre
<1>10. CASE s = 2 /\ k = 2 /\ C = <<>> /\ Q = <<Dg>>
  <2>1. Head(Q) = Dg /\ Tail(Q) = <<>>
    BY <1>10, TuplesAre
  <2>2. Shape(2, 2, <<>>, <<>>)
    BY DEF Shape
  <2>3. <<>> # <<Rd>> /\ (<<>> = <<Au>> => Dg = St)
    BY TuplesAre, MessagesAre
  <2> QED BY <1>10, <2>1, <2>2, <2>3, MessagesAre
<1>11. CASE s = 3 /\ k = 3 /\ C = <<Acc>> /\ Q = <<Ack(3)>>
  <2>1. Head(Q) = Ack(3) /\ Tail(Q) = <<>>
    BY <1>11, TuplesAre
  <2>2. Shape(3, 3, <<Acc>>, <<>>)
    BY DEF Shape
  <2>3. <<>> # <<Rd>> /\ (<<>> = <<Au>> => Ack(3) = St)
    BY TuplesAre, MessagesAre
  <2> QED BY <1>11, <2>1, <2>2, <2>3, MessagesAre
<1>12. CASE s = 3 /\ k = 3 /\ C = <<>> /\ Q = <<Ack(3)>>
  <2>1. Head(Q) = Ack(3) /\ Tail(Q) = <<>>
    BY <1>12, TuplesAre
  <2>2. Shape(3, 3, <<>>, <<>>)
    BY DEF Shape
  <2>3. <<>> # <<Rd>> /\ (<<>> = <<Au>> => Ack(3) = St)
    BY TuplesAre, MessagesAre
  <2> QED BY <1>12, <2>1, <2>2, <2>3, MessagesAre
<1>13. CASE s = 3 /\ k = 3 /\ C = <<>> /\ Q = <<Ack(3), Rq>>
  <2>1. Head(Q) = Ack(3) /\ Tail(Q) = <<Rq>>
    BY <1>13, TuplesAre
  <2>2. Shape(3, 3, <<>>, <<Rq>>)
    BY DEF Shape
  <2>3. <<Rq>> # <<Rd>> /\ (<<Rq>> = <<Au>> => Ack(3) = St)
    BY TuplesAre, MessagesAre
  <2> QED BY <1>13, <2>1, <2>2, <2>3, MessagesAre
<1>14. CASE s = 3 /\ k = 3 /\ C = <<>> /\ Q = <<Rq>>
  <2>1. Head(Q) = Rq /\ Tail(Q) = <<>>
    BY <1>14, TuplesAre
  <2>2. Shape(3, 3, <<>>, <<>>)
    BY DEF Shape
  <2>3. <<>> # <<Rd>> /\ (<<>> = <<Au>> => Rq = St)
    BY TuplesAre, MessagesAre
  <2> QED BY <1>14, <2>1, <2>2, <2>3, MessagesAre
<1>15. CASE s = 3 /\ k = 3 /\ C = <<>> /\ Q = <<Rd>>
  <2>1. Head(Q) = Rd /\ Tail(Q) = <<>>
    BY <1>15, TuplesAre
  <2>2. Shape(3, 3, <<>>, <<>>)
    BY DEF Shape
  <2>3. <<>> # <<Rd>> /\ (<<>> = <<Au>> => Rd = St)
    BY TuplesAre, MessagesAre
  <2> QED BY <1>15, <2>1, <2>2, <2>3, MessagesAre
<1> QED BY <1>1, <1>2, <1>3, <1>4, <1>5, <1>6, <1>7, <1>8, <1>9, <1>10, <1>11, <1>12, <1>13, <1>14, <1>15 DEF Shape

LEMMA ShapeHeard ==
    ASSUME NEW s, NEW k, NEW v, NEW C, NEW Q, Shape(s, k, C, Q), Vouch(s, v, C, Q), C # <<>>
    PROVE  \/ \E n \in 1 .. 3 : /\ Head(C) = KeySync(n)
                                /\ Shape(s, n, Tail(C), Q \o <<Ack(n)>>)
                                /\ Vouch(s, v, Tail(C), Q \o <<Ack(n)>>)
           \/ /\ Head(C) = Ch /\ s = 1 /\ k = 1 /\ Tail(C) = <<>>
              /\ Shape(s, k, Tail(C), Q \o <<St, Au>>)
              /\ Vouch(s, v, Tail(C), Q \o <<St, Au>>)
           \/ /\ Head(C) = Ask /\ s = 2 /\ k = 2 /\ Tail(C) = <<>>
              /\ Shape(s, k, Tail(C), Q \o <<Dg>>)
              /\ Vouch(s, v, Tail(C), Q \o <<Dg>>)
           \/ /\ Head(C) = Acc /\ s = 3 /\ k = 3 /\ Tail(C) = <<>>
              /\ Shape(s, k, Tail(C), Q)
              /\ Vouch(s, v, Tail(C), Q)
<1>1. CASE s = 1 /\ k = 1 /\ C = <<Ch>> /\ Q = <<Ack(1)>>
  <2>1. Head(C) = Ch /\ Tail(C) = <<>>
    BY <1>1, TuplesAre
  <2>2. Q \o <<St, Au>> = <<Ack(1), St, Au>>
    BY <1>1, TuplesJoin
  <2>3. Shape(1, 1, <<>>, <<Ack(1), St, Au>>)
    BY DEF Shape
  <2>4. Vouch(1, v, <<>>, <<Ack(1), St, Au>>)
    BY <1>1, TuplesAre, MessagesAre DEF Vouch
  <2> QED BY <1>1, <2>1, <2>2, <2>3, <2>4
<1>2. CASE s = 1 /\ k = 1 /\ C = <<Ch>> /\ Q = <<>>
  <2>1. Head(C) = Ch /\ Tail(C) = <<>>
    BY <1>2, TuplesAre
  <2>2. Q \o <<St, Au>> = <<St, Au>>
    BY <1>2, TuplesJoin
  <2>3. Shape(1, 1, <<>>, <<St, Au>>)
    BY DEF Shape
  <2>4. Vouch(1, v, <<>>, <<St, Au>>)
    BY <1>2, TuplesAre, MessagesAre DEF Vouch
  <2> QED BY <1>2, <2>1, <2>2, <2>3, <2>4
<1>3. CASE s = 2 /\ k = 1 /\ C = <<KeySync(2), Ask>> /\ Q = <<Ack(1)>>
  <2>1. Head(C) = KeySync(2) /\ Tail(C) = <<Ask>>
    BY <1>3, TuplesAre
  <2>2. Q \o <<Ack(2)>> = <<Ack(1), Ack(2)>>
    BY <1>3, TuplesJoin
  <2>3. Shape(2, 2, <<Ask>>, <<Ack(1), Ack(2)>>)
    BY DEF Shape
  <2>4. Vouch(2, v, <<Ask>>, <<Ack(1), Ack(2)>>)
    BY <1>3, TuplesAre, MessagesAre DEF Vouch
  <2>5. 2 \in 1 .. 3
    OBVIOUS
  <2> QED BY <1>3, <2>1, <2>2, <2>3, <2>4, <2>5, Zenon
<1>4. CASE s = 2 /\ k = 1 /\ C = <<KeySync(2), Ask>> /\ Q = <<>>
  <2>1. Head(C) = KeySync(2) /\ Tail(C) = <<Ask>>
    BY <1>4, TuplesAre
  <2>2. Q \o <<Ack(2)>> = <<Ack(2)>>
    BY <1>4, TuplesJoin
  <2>3. Shape(2, 2, <<Ask>>, <<Ack(2)>>)
    BY DEF Shape
  <2>4. Vouch(2, v, <<Ask>>, <<Ack(2)>>)
    BY <1>4, TuplesAre, MessagesAre DEF Vouch
  <2>5. 2 \in 1 .. 3
    OBVIOUS
  <2> QED BY <1>4, <2>1, <2>2, <2>3, <2>4, <2>5, Zenon
<1>5. CASE s = 2 /\ k = 2 /\ C = <<Ask>> /\ Q = <<Ack(1), Ack(2)>>
  <2>1. Head(C) = Ask /\ Tail(C) = <<>>
    BY <1>5, TuplesAre
  <2>2. Q \o <<Dg>> = <<Ack(1), Ack(2), Dg>>
    BY <1>5, TuplesJoin
  <2>3. Shape(2, 2, <<>>, <<Ack(1), Ack(2), Dg>>)
    BY DEF Shape
  <2>4. Vouch(2, v, <<>>, <<Ack(1), Ack(2), Dg>>)
    BY <1>5, TuplesAre, MessagesAre DEF Vouch
  <2> QED BY <1>5, <2>1, <2>2, <2>3, <2>4
<1>6. CASE s = 2 /\ k = 2 /\ C = <<Ask>> /\ Q = <<Ack(2)>>
  <2>1. Head(C) = Ask /\ Tail(C) = <<>>
    BY <1>6, TuplesAre
  <2>2. Q \o <<Dg>> = <<Ack(2), Dg>>
    BY <1>6, TuplesJoin
  <2>3. Shape(2, 2, <<>>, <<Ack(2), Dg>>)
    BY DEF Shape
  <2>4. Vouch(2, v, <<>>, <<Ack(2), Dg>>)
    BY <1>6, TuplesAre, MessagesAre DEF Vouch
  <2> QED BY <1>6, <2>1, <2>2, <2>3, <2>4
<1>7. CASE s = 2 /\ k = 2 /\ C = <<Ask>> /\ Q = <<>>
  <2>1. Head(C) = Ask /\ Tail(C) = <<>>
    BY <1>7, TuplesAre
  <2>2. Q \o <<Dg>> = <<Dg>>
    BY <1>7, TuplesJoin
  <2>3. Shape(2, 2, <<>>, <<Dg>>)
    BY DEF Shape
  <2>4. Vouch(2, v, <<>>, <<Dg>>)
    BY <1>7, TuplesAre, MessagesAre DEF Vouch
  <2> QED BY <1>7, <2>1, <2>2, <2>3, <2>4
<1>8. CASE s = 3 /\ k = 3 /\ C = <<Acc>> /\ Q = <<Ack(3)>>
  <2>1. Head(C) = Acc /\ Tail(C) = <<>>
    BY <1>8, TuplesAre
  <2>3. Shape(3, 3, <<>>, <<Ack(3)>>)
    BY DEF Shape
  <2>4. Vouch(3, v, <<>>, <<Ack(3)>>)
    BY <1>8, TuplesAre, MessagesAre DEF Vouch
  <2> QED BY <1>8, <2>1, <2>3, <2>4
<1>9. CASE s = 3 /\ k = 3 /\ C = <<Acc>> /\ Q = <<>>
  <2>1. Head(C) = Acc /\ Tail(C) = <<>>
    BY <1>9, TuplesAre
  <2>3. Shape(3, 3, <<>>, <<>>)
    BY DEF Shape
  <2>4. Vouch(3, v, <<>>, <<>>)
    BY <1>9, TuplesAre, MessagesAre DEF Vouch
  <2> QED BY <1>9, <2>1, <2>3, <2>4
<1>10. CASE s = 1 /\ k = 0 /\ C = <<KeySync(1), Ch>> /\ Q = <<>>
  <2>1. Head(C) = KeySync(1) /\ Tail(C) = <<Ch>>
    BY <1>10, TuplesAre
  <2>2. Q \o <<Ack(1)>> = <<Ack(1)>>
    BY <1>10, TuplesJoin
  <2>3. Shape(1, 1, <<Ch>>, <<Ack(1)>>)
    BY DEF Shape
  <2>4. Vouch(1, v, <<Ch>>, <<Ack(1)>>)
    BY <1>10, TuplesAre, MessagesAre DEF Vouch
  <2>5. 1 \in 1 .. 3
    OBVIOUS
  <2> QED BY <1>10, <2>1, <2>2, <2>3, <2>4, <2>5, Zenon
<1>11. CASE s = 2 /\ k = 0 /\ C = <<KeySync(1), KeySync(2), Ask>> /\ Q = <<>>
  <2>1. Head(C) = KeySync(1) /\ Tail(C) = <<KeySync(2), Ask>>
    BY <1>11, TuplesAre
  <2>2. Q \o <<Ack(1)>> = <<Ack(1)>>
    BY <1>11, TuplesJoin
  <2>3. Shape(2, 1, <<KeySync(2), Ask>>, <<Ack(1)>>)
    BY DEF Shape
  <2>4. Vouch(2, v, <<KeySync(2), Ask>>, <<Ack(1)>>)
    BY <1>11, TuplesAre, MessagesAre DEF Vouch
  <2>5. 1 \in 1 .. 3
    OBVIOUS
  <2> QED BY <1>11, <2>1, <2>2, <2>3, <2>4, <2>5, Zenon
<1>12. CASE s = 3 /\ k = 2 /\ C = <<KeySync(3), Acc>> /\ Q = <<>>
  <2>1. Head(C) = KeySync(3) /\ Tail(C) = <<Acc>>
    BY <1>12, TuplesAre
  <2>2. Q \o <<Ack(3)>> = <<Ack(3)>>
    BY <1>12, TuplesJoin
  <2>3. Shape(3, 3, <<Acc>>, <<Ack(3)>>)
    BY DEF Shape
  <2>4. Vouch(3, v, <<Acc>>, <<Ack(3)>>)
    BY <1>12, TuplesAre, MessagesAre DEF Vouch
  <2>5. 3 \in 1 .. 3
    OBVIOUS
  <2> QED BY <1>12, <2>1, <2>2, <2>3, <2>4, <2>5, Zenon
<1> QED BY <1>1, <1>2, <1>3, <1>4, <1>5, <1>6, <1>7, <1>8, <1>9, <1>10, <1>11, <1>12 DEF Shape

LEMMA ShapeReady ==
    ASSUME NEW s, NEW k, NEW C, NEW Q, Shape(s, k, C, Q), s # 3 \/ C # <<>>
    PROVE  Q # <<Rd>>
<1> SUFFICES ASSUME Q = <<Rd>> PROVE FALSE
  OBVIOUS
<1>1. Q # <<>> /\ Head(Q) = Rd
  BY TuplesAre
<1>2. \/ Head(Q).type = "ack"
      \/ Head(Q) = St /\ s = 1 /\ C = <<>> /\ Tail(Q) = <<Au>>
      \/ Head(Q) = Au /\ s = 1 /\ C = <<>> /\ Tail(Q) = <<>>
      \/ Head(Q) = Dg /\ s = 2 /\ C = <<>> /\ Tail(Q) = <<>>
      \/ Head(Q) = Rq /\ s = 3 /\ C = <<>> /\ Tail(Q) = <<>>
      \/ Head(Q) = Rd /\ s = 3 /\ C = <<>> /\ Tail(Q) = <<>>
  BY <1>1, ShapeTaken
<1> QED BY <1>1, <1>2, MessagesAre

LEMMA ShapeAuth ==
    ASSUME NEW s, NEW k, NEW C, NEW Q, Shape(s, k, C, Q), s # 1 \/ C # <<>>
    PROVE  Q # <<Au>>
<1> SUFFICES ASSUME Q = <<Au>> PROVE FALSE
  OBVIOUS
<1>1. Q # <<>> /\ Head(Q) = Au
  BY TuplesAre
<1>2. \/ Head(Q).type = "ack"
      \/ Head(Q) = St /\ s = 1 /\ C = <<>> /\ Tail(Q) = <<Au>>
      \/ Head(Q) = Au /\ s = 1 /\ C = <<>> /\ Tail(Q) = <<>>
      \/ Head(Q) = Dg /\ s = 2 /\ C = <<>> /\ Tail(Q) = <<>>
      \/ Head(Q) = Rq /\ s = 3 /\ C = <<>> /\ Tail(Q) = <<>>
      \/ Head(Q) = Rd /\ s = 3 /\ C = <<>> /\ Tail(Q) = <<>>
  BY <1>1, ShapeTaken
<1> QED BY <1>1, <1>2, MessagesAre

(* Something else follows each key, and an acceptance is last. *)
LEMMA ShapeSync ==
    ASSUME NEW s, NEW k, NEW C, NEW Q, Shape(s, k, C, Q), C # <<>>, Head(C).type = "sync"
    PROVE  Tail(C) # <<>>
<1>1. \/ C = <<Ch>> \/ C = <<Ask>> \/ C = <<Acc>>
      \/ \E a, b : C = <<a, b>>
      \/ \E a, b, d : C = <<a, b, d>>
  BY DEF Shape
<1>2. C # <<Ch>> /\ C # <<Ask>> /\ C # <<Acc>>
  BY TuplesAre, MessagesAre
<1>3. ASSUME NEW a, NEW b, C = <<a, b>> PROVE Tail(C) # <<>>
  BY <1>3, TuplesAre
<1>4. ASSUME NEW a, NEW b, NEW d, C = <<a, b, d>> PROVE Tail(C) # <<>>
  BY <1>4, TuplesAre
<1> QED BY <1>1, <1>2, <1>3, <1>4

LEMMA ShapeAccepted ==
    ASSUME NEW s, NEW k, NEW C, NEW Q, Shape(s, k, C, Q), C # <<>>, Head(C) = Acc
    PROVE  Q = <<Ack(3)>> \/ Q = <<>>
<1>1. C = <<Acc>> => Q = <<Ack(3)>> \/ Q = <<>>
  <2>1. <<Acc>> # <<Ch>> /\ <<Acc>> # <<Ask>> /\ \A a, b : <<Acc>> # <<a, b>>
    BY TuplesAre, MessagesAre
  <2>2. \A a, b, d : <<Acc>> # <<a, b, d>>
    BY TuplesAre
  <2> QED BY <2>1, <2>2, TuplesAre DEF Shape
<1>2. \/ C = <<Ch>> \/ C = <<Ask>> \/ C = <<Acc>>
      \/ C = <<KeySync(1), Ch>> \/ C = <<KeySync(2), Ask>> \/ C = <<KeySync(3), Acc>>
      \/ C = <<KeySync(1), KeySync(2), Ask>>
  BY DEF Shape
<1>3. Acc # Ch /\ Acc # Ask /\ \A n : Acc # KeySync(n)
  BY MessagesAre
<1> QED BY <1>1, <1>2, <1>3, TuplesAre

LEMMA ShapeKeys ==
    ASSUME NEW s, NEW k, NEW C, NEW Q, Shape(s, k, C, Q)
    PROVE  /\ s \in 0 .. 3 /\ k \in 0 .. 3
           /\ C = <<>> => k = s
           /\ s = 0 => C = <<>> /\ Q = <<>>
BY TuplesAre DEF Shape

LEMMA ShapeTold ==
    /\ \A k, C, Q : Shape(0, k, C, Q) => /\ Shape(1, k, <<KeySync(1), Ch>>, Q)
                                         /\ Shape(2, k, <<KeySync(1), KeySync(2), Ask>>, Q)
    /\ \A k : Shape(1, k, <<>>, <<>>) => Shape(2, k, <<KeySync(2), Ask>>, <<>>)
    /\ \A k : Shape(2, k, <<>>, <<>>) => Shape(3, k, <<KeySync(3), Acc>>, <<>>)
    /\ \A k, Q : Shape(3, k, <<>>, Q) => /\ Shape(3, k, <<>>, <<Ack(3), Rq>>)
                                         /\ Shape(3, k, <<>>, <<Rq>>)
                                         /\ Shape(3, k, <<>>, <<Rd>>)
<1>1. ASSUME NEW k, NEW C, NEW Q, Shape(0, k, C, Q)
      PROVE  k = 0 /\ C = <<>> /\ Q = <<>>
  BY <1>1 DEF Shape
<1>2. Shape(1, 0, <<KeySync(1), Ch>>, <<>>)
  BY DEF Shape
<1>3. Shape(2, 0, <<KeySync(1), KeySync(2), Ask>>, <<>>)
  BY DEF Shape
<1>4. ASSUME NEW k, Shape(1, k, <<>>, <<>>) PROVE k = 1
  BY <1>4, ShapeKeys
<1>5. Shape(2, 1, <<KeySync(2), Ask>>, <<>>)
  BY DEF Shape
<1>6. ASSUME NEW k, Shape(2, k, <<>>, <<>>) PROVE k = 2
  BY <1>6, ShapeKeys
<1>7. Shape(3, 2, <<KeySync(3), Acc>>, <<>>)
  BY DEF Shape
<1>8. ASSUME NEW k, NEW Q, Shape(3, k, <<>>, Q) PROVE k = 3
  BY <1>8, ShapeKeys
<1>9. Shape(3, 3, <<>>, <<Ack(3), Rq>>) /\ Shape(3, 3, <<>>, <<Rq>>) /\ Shape(3, 3, <<>>, <<Rd>>)
  BY DEF Shape
<1> QED BY <1>1, <1>2, <1>3, <1>4, <1>5, <1>6, <1>7, <1>8, <1>9

Of(t) == [type : {t}, key : Nat]

(* No acceptance is on its way before the third key. *)
LEMMA ShapeNotAccepted ==
    ASSUME NEW s, NEW k, NEW C, NEW Q, Shape(s, k, C, Q), s # 3
    PROVE  ~ Has(C, Of("accept"))
<1>1. /\ ~ Has(<<>>, Of("accept"))
      /\ \A a : a.type # "accept" => ~ Has(<<a>>, Of("accept"))
      /\ \A a, b : a.type # "accept" /\ b.type # "accept" => ~ Has(<<a, b>>, Of("accept"))
      /\ \A a, b, c : a.type # "accept" /\ b.type # "accept" /\ c.type # "accept"
                         => ~ Has(<<a, b, c>>, Of("accept"))
  BY DEF Has, Of
<1>2. \/ C = <<>> \/ C = <<Ch>> \/ C = <<Ask>> \/ C = <<KeySync(1), Ch>> \/ C = <<KeySync(2), Ask>>
      \/ C = <<KeySync(1), KeySync(2), Ask>>
  BY DEF Shape
<1> QED BY <1>1, <1>2, MessagesAre

-----------------------------------------------------------------------------
(* Messages put into a channel. *)

LEMMA JoinIsAppend ==
    ASSUME NEW S, NEW s \in Seq(S), NEW a \in S, NEW b \in S, NEW c \in S
    PROVE  /\ s \o <<a>> = Append(s, a)
           /\ s \o <<a, b>> = Append(Append(s, a), b)
           /\ s \o <<a, b, c>> = Append(Append(Append(s, a), b), c)
<1>1. s \o <<a>> = Append(s, a)
  OBVIOUS
<1>2. s \o <<a, b>> = Append(Append(s, a), b)
  <2>1. <<a, b>> = <<a>> \o <<b>>
    BY TuplesJoin
  <2>2. s \o (<<a>> \o <<b>>) = (s \o <<a>>) \o <<b>>
    OBVIOUS
  <2>3. (s \o <<a>>) \in Seq(S)
    OBVIOUS
  <2>4. (s \o <<a>>) \o <<b>> = Append(s \o <<a>>, b)
    BY <2>3
  <2> QED BY <1>1, <2>1, <2>2, <2>4
<1>3. s \o <<a, b, c>> = Append(Append(Append(s, a), b), c)
  <2>1. <<a, b, c>> = <<a, b>> \o <<c>>
    BY TuplesJoin
  <2>2. s \o (<<a, b>> \o <<c>>) = (s \o <<a, b>>) \o <<c>>
    OBVIOUS
  <2>3. (s \o <<a, b>>) \in Seq(S)
    OBVIOUS
  <2>4. (s \o <<a, b>>) \o <<c>> = Append(s \o <<a, b>>, c)
    BY <2>3
  <2> QED BY <1>2, <2>1, <2>2, <2>4
<1> QED BY <1>1, <1>2, <1>3

ToClient == Messages(ToClientTypes)
ToServer == Messages(ToServerTypes)

LEMMA AppendTyped == ASSUME NEW S, NEW s \in Seq(S), NEW e \in S PROVE Append(s, e) \in Seq(S)
OBVIOUS

LEMMA SentOne ==
    ASSUME NEW M, NEW q \in Seq(M), NEW a \in M
    PROVE  LET t == q \o <<a>> IN
           /\ t \in Seq(M)
           /\ \A T : Only(t, T) = IF a \in T THEN Append(Only(q, T), a) ELSE Only(q, T)
           /\ \A A : Has(t, A) <=> Has(q, A) \/ a \in A
           /\ \A A, B : NoneAfter(q, A, B) /\ (a \in B => ~ Has(q, A)) => NoneAfter(t, A, B)
<1>1. q \o <<a>> = Append(q, a)
  BY JoinIsAppend
<1>2. Append(q, a) \in Seq(M)
  OBVIOUS
<1>3. \A T : Only(Append(q, a), T) = IF a \in T THEN Append(Only(q, T), a) ELSE Only(q, T)
  BY OnlyAppended
<1>4. /\ \A A : Has(Append(q, a), A) <=> Has(q, A) \/ a \in A
      /\ \A A, B : NoneAfter(q, A, B) /\ (a \in B => ~ Has(q, A)) => NoneAfter(Append(q, a), A, B)
  BY Appended
<1> QED BY <1>1, <1>2, <1>3, <1>4

(* A key and what is asked with it, when nothing else of the handshake is on *)
(* its way.                                                                 *)
LEMMA SentCore ==
    ASSUME NEW M, NEW q \in Seq(M), Only(q, Core) = <<>>,
           NEW a \in M \cap Core, NEW b \in M \cap Core, NEW c \in M \cap Core
    PROVE  /\ q \o <<a, b>> \in Seq(M) /\ q \o <<a, b, c>> \in Seq(M)
           /\ Only(q \o <<a, b>>, Core) = <<a, b>>
           /\ Only(q \o <<a, b, c>>, Core) = <<a, b, c>>
           /\ \A A : a \notin A /\ b \notin A
                        => (Has(q \o <<a, b>>, A) <=> Has(q, A))
           /\ \A A : a \notin A /\ b \notin A /\ c \notin A
                        => (Has(q \o <<a, b, c>>, A) <=> Has(q, A))
           /\ \A A, B : a \notin B /\ b \notin B /\ NoneAfter(q, A, B)
                           => NoneAfter(q \o <<a, b>>, A, B)
           /\ \A A, B : a \notin B /\ b \notin B /\ c \notin B /\ NoneAfter(q, A, B)
                           => NoneAfter(q \o <<a, b, c>>, A, B)
<1> DEFINE p == Append(q, a)
           r == Append(p, b)
           t == Append(r, c)
<1>1. q \o <<a, b>> = r /\ q \o <<a, b, c>> = t
  BY JoinIsAppend
<1>2. p \in Seq(M) /\ r \in Seq(M) /\ t \in Seq(M)
  OBVIOUS
<1>3. Only(p, Core) = <<a>>
  <2>1. Only(p, Core) = Append(<<>>, a)
    BY OnlyAppended
  <2> QED BY <2>1
<1>4. /\ \A A : Has(p, A) <=> Has(q, A) \/ a \in A
      /\ \A A, B : NoneAfter(q, A, B) /\ (a \in B => ~ Has(q, A)) => NoneAfter(p, A, B)
  BY Appended
<1> HIDE DEF p
<1>5. Only(r, Core) = <<a, b>>
  <2>1. Only(r, Core) = Append(<<a>>, b)
    BY <1>2, <1>3, OnlyAppended DEF r
  <2>2. <<a>> \o <<b>> = Append(<<a>>, b)
    <3>1. <<a>> \in Seq(M)
      OBVIOUS
    <3> QED BY <3>1, JoinIsAppend
  <2> QED BY <2>1, <2>2, TuplesJoin
<1>6. /\ \A A : Has(r, A) <=> Has(p, A) \/ b \in A
      /\ \A A, B : NoneAfter(p, A, B) /\ (b \in B => ~ Has(p, A)) => NoneAfter(r, A, B)
  BY <1>2, Appended
<1> HIDE DEF r
<1>7. Only(t, Core) = <<a, b, c>>
  <2>1. Only(t, Core) = Append(<<a, b>>, c)
    BY <1>2, <1>5, OnlyAppended DEF t
  <2>2. <<a, b>> \o <<c>> = Append(<<a, b>>, c)
    <3>1. <<a, b>> \in Seq(M)
      OBVIOUS
    <3> QED BY <3>1, JoinIsAppend
  <2> QED BY <2>1, <2>2, TuplesJoin
<1>8. /\ \A A : Has(t, A) <=> Has(r, A) \/ c \in A
      /\ \A A, B : NoneAfter(r, A, B) /\ (c \in B => ~ Has(r, A)) => NoneAfter(t, A, B)
  BY <1>2, Appended
<1> HIDE DEF t
<1> QED BY <1>1, <1>2, <1>4, <1>5, <1>6, <1>7, <1>8

(* The front of a channel, and the rest. *)
LEMMA FirstTaken ==
    ASSUME NEW M, NEW q \in Seq(M), q # <<>>
    PROVE  /\ Head(q) \in M /\ Tail(q) \in Seq(M)
           /\ Head(q) \in Core => /\ Only(q, Core) # <<>>
                                  /\ Head(q) = Head(Only(q, Core))
                                  /\ Only(Tail(q), Core) = Tail(Only(q, Core))
           /\ Head(q) \notin Core => Only(Tail(q), Core) = Only(q, Core)
           /\ \A A : Has(Tail(q), A) => Has(q, A)
           /\ \A A : Has(q, A) /\ Head(q) \notin A => Has(Tail(q), A)
           /\ \A A : Head(q) \in A => Has(q, A)
           /\ \A A, B : NoneAfter(q, A, B) => /\ NoneAfter(Tail(q), A, B)
                                              /\ Head(q) \in A => ~ Has(Tail(q), B)
<1>1. Head(q) \in M /\ Tail(q) \in Seq(M)
  OBVIOUS
<1> QED BY <1>1, OnlyTaken, Taken

-----------------------------------------------------------------------------
(* The inductive invariant. *)

OnWay(c)   == Only(toClient[c], Core)
About(k, c) == {Event(k, c)}
USE DEF Event

(* The event that makes the client's player state was lost. *)
StateLost(c) == Event("state", c) \in lost

(* The client has learnt that it is in. *)
Settled(c) == lastSeed[c] = 3 /\ OnWay(c) = <<>>

Talk(c) == /\ Shape(lastSeed[c], client[c].key, OnWay(c), toServer[c])
           /\ Vouch(lastSeed[c], svKey[c], OnWay(c), toServer[c])

(* No refusal follows an acceptance, and who asks for the game's data has    *)
(* heard no refusal.                                                        *)
Results(c) ==
    /\ NoneAfter(toClient[c], Of("accept"), Of("refuse"))
    /\ Settled(c) => ~ Has(toClient[c], Of("refuse"))
    /\ c \in refused => ~ client[c].ok \/ Has(toClient[c], Of("refuse"))
    /\ client[c].asked \/ (client[c].received /\ client[c].ok) => Settled(c) /\ c \notin refused

(* From the request to M_CLIENTREADY. *)
Served(c) == \/ Has(delayed, {c}) \/ c \in accepted \/ c \in ready
             \/ Has(toClient[c], Of("config"))
             \/ client[c].configured \/ client[c].announced
Serve(c) ==
    /\ Settled(c) /\ ~ client[c].asked => toServer[c] = <<Ack(3)>> \/ toServer[c] = <<>>
    /\ Served(c) => client[c].asked /\ (toServer[c] = <<>> \/ toServer[c] = <<Rd>>)
    /\ toServer[c] = <<Rd>> => client[c].announced

(* Secrets of the server, but to clients still in the handshake. *)
BadSecrets == [type : {"secret"}, key : Nat \ {3}]
SecretsOK(c) == ~ EarlySecrets /\ Has(toClient[c], Of("secret")) =>
                    c \in ready /\ ~ Has(toClient[c], BadSecrets)

(* What waits for the game thread, and what the handshake is waiting for. *)
Posts(c) ==
    /\ Has(events, About("create", c)) => lastSeed[c] = 0 /\ c \notin validating
    /\ Once(events, About("create", c))
    /\ c \in validating => lastSeed[c] = 0
    /\ Has(events, About("state", c)) => lastSeed[c] = 1
    /\ Has(events, About("auth", c)) => /\ lastSeed[c] = 1 /\ OnWay(c) = <<>>
                                        /\ toServer[c] = <<>>
    /\ Once(events, About("auth", c))
    /\ NoneAfter(events, About("auth", c), About("state", c))

(* What each renewal of the key has been preceded by. *)
Admit(c) ==
    /\ AuthCheck /\ lastSeed[c] >= 2 => c \in passed
    /\ lastSeed[c] = 3 => c \in identified
    /\ AuthCheck /\ ~ StateLost(c) =>
          /\ lastSeed[c] >= 2 => c \in hasState
          /\ toServer[c] = <<Au>> => c \in hasState \/ Has(events, About("state", c))
          /\ c \in hasState \/ Preceded(events, About("auth", c), About("state", c))

Blank(c) ==
    /\ lastSeed[c] = 0 /\ svKey[c] = 0 /\ client[c] = Fresh
    /\ toClient[c] = <<>> /\ toServer[c] = <<>>
    /\ c \notin hasState /\ c \notin accepted /\ c \notin ready /\ c \notin refused
    /\ c \notin validating /\ ~ Has(delayed, {c})
    /\ \A k \in EventKinds : ~ Has(events, About(k, c))

Good(c) == /\ conn[c] = "out" => Blank(c)
           /\ Listed(c) => /\ Talk(c) /\ Results(c) /\ Serve(c) /\ SecretsOK(c)
                           /\ Posts(c) /\ Admit(c)

Types == /\ conn \in [Clients -> {"out", "in", "erased", "gone"}]
         /\ lastSeed \in [Clients -> 0 .. 3] /\ svKey \in [Clients -> 0 .. 3]
         /\ toClient \in [Clients -> Seq(ToClient)]
         /\ toServer \in [Clients -> Seq(ToServer)]
         /\ events \in Seq([kind : EventKinds, who : Clients])
         /\ delayed \in Seq(Clients)
         /\ client \in [Clients -> [key : 0 .. 3, received : BOOLEAN, ok : BOOLEAN,
                                    asked : BOOLEAN, configured : BOOLEAN,
                                    announced : BOOLEAN]]
         /\ ready \subseteq hasState /\ hasState \subseteq Clients
         /\ validating \subseteq {c \in Clients : Listed(c)}
         /\ accepted \cup passed \cup identified \cup refused \cup dropped \subseteq Clients
         /\ handling \in accepted \cup {NoClient}

Marks == /\ failed \subseteq {"seed", "server checksum", "client checksum", "no player state"}
         /\ fault \in {"none", "client not found", "null client", "no client",
                       "null player state", "pop_front", "release"}
         /\ secrets \in 0 .. MaxSecrets
         /\ roundEnds \in 0 .. MaxRoundEnds
         /\ releasing \in BOOLEAN
         /\ lost \subseteq [kind : EventKinds, who : Clients]

(* What is said of those inside. *)
Inside == /\ ~ EarlySecrets => KeysAgree
          /\ AuthCheck => OnlyTheAdmitted

Inv == Types /\ Marks /\ Inside /\ \A c \in Clients : Good(c)

LEMMA InitInv == Init => Inv
<1> SUFFICES ASSUME Init PROVE Inv
  OBVIOUS
<1>1. Types
  BY DEF Init, Types, Fresh, Uninitialized, Listed
<1>2. Marks
  <2>1. lost \subseteq [kind : EventKinds, who : Clients]
    BY DEF Init
  <2>2. releasing \in BOOLEAN /\ fault = "none" /\ failed = {}
    BY DEF Init
  <2>3. secrets \in 0 .. MaxSecrets /\ roundEnds \in 0 .. MaxRoundEnds
    BY LimitsAssumption DEF Init
  <2> QED BY <2>1, <2>2, <2>3 DEF Marks
<1>i. Inside
  BY DEF Init, Inside, KeysAgree, OnlyTheAdmitted, AcceptedWereChecked, RefusedStayOut,
         AcceptedHaveState
<1>3. ASSUME NEW c \in Clients PROVE Good(c)
  <2>1. conn[c] = "out"
    BY DEF Init
  <2>2. Blank(c)
    BY EmptyQueue DEF Init, Blank, Uninitialized
  <2> QED BY <2>1, <2>2 DEF Good, Listed
<1> QED BY <1>1, <1>2, <1>i, <1>3 DEF Inv

-----------------------------------------------------------------------------
(* What a step about one client leaves to the others. *)

Same(d) ==
    /\ conn'[d] = conn[d] /\ lastSeed'[d] = lastSeed[d] /\ svKey'[d] = svKey[d]
    /\ toClient'[d] = toClient[d] /\ toServer'[d] = toServer[d] /\ client'[d] = client[d]
    /\ d \in ready' <=> d \in ready
    /\ d \in hasState' <=> d \in hasState
    /\ d \in accepted' <=> d \in accepted
    /\ d \in validating' <=> d \in validating
    /\ d \in refused' <=> d \in refused
    /\ d \in passed => d \in passed'
    /\ d \in identified => d \in identified'

(* The events of d are left alone, or lost. *)
EventsKept(d) ==
    /\ \A k \in EventKinds : Has(events', About(k, d)) => Has(events, About(k, d))
    /\ \A k \in EventKinds : Once(events, About(k, d)) => Once(events', About(k, d))
    /\ NoneAfter(events, About("auth", d), About("state", d))
          => NoneAfter(events', About("auth", d), About("state", d))
    /\ ~ StateLost(d)' =>
          /\ ~ StateLost(d)
          /\ Has(events, About("state", d)) => Has(events', About("state", d))
          /\ Preceded(events, About("auth", d), About("state", d))
                => Preceded(events', About("auth", d), About("state", d))

DelayedKept(d) == Has(delayed', {d}) => Has(delayed, {d})

LEMMA KindsAre == "create" \in EventKinds /\ "state" \in EventKinds /\ "auth" \in EventKinds
BY DEF EventKinds

LEMMA OthersKeep ==
    ASSUME NEW d \in Clients, Good(d), Same(d), EventsKept(d), DelayedKept(d)
    PROVE  Good(d)'
<1> USE KindsAre
<1>1. OnWay(d)' = OnWay(d)
  BY DEF OnWay, Same
<1>2. conn'[d] = "out" => Blank(d)'
  BY DEF Good, Blank, Same, EventsKept, DelayedKept
<1>3. ASSUME Listed(d)'
      PROVE  Talk(d)' /\ Results(d)' /\ Serve(d)' /\ SecretsOK(d)' /\ Posts(d)' /\ Admit(d)'
  <2>0. Talk(d) /\ Results(d) /\ Serve(d) /\ SecretsOK(d) /\ Posts(d) /\ Admit(d)
    BY <1>3 DEF Good, Listed, Same
  <2>1. Talk(d)'
    BY <1>1, <2>0 DEF Talk, Same
  <2>2. Settled(d)' <=> Settled(d)
    BY <1>1 DEF Settled, Same
  <2>3. Results(d)'
    BY <2>0, <2>2 DEF Results, Same
  <2>4. Served(d)' => Served(d)
    BY DEF Served, Same, DelayedKept
  <2>5. Serve(d)'
    BY <2>0, <2>2, <2>4 DEF Serve, Same
  <2>6. SecretsOK(d)'
    BY <2>0 DEF SecretsOK, Same
  <2>7. Posts(d)'
    BY <1>1, <2>0 DEF Posts, Same, EventsKept
  <2>8. Admit(d)'
    BY <2>0 DEF Admit, Same, EventsKept
  <2> QED BY <2>1, <2>3, <2>5, <2>6, <2>7, <2>8
<1> QED BY <1>2, <1>3 DEF Good, Listed

(* Events about one client posted, handled and erased. *)
LEMMA EventsSame == ASSUME UNCHANGED <<events, lost>> PROVE \A d : EventsKept(d)
BY DEF EventsKept, StateLost

LEMMA EventPosted ==
    ASSUME events \in Seq([kind : EventKinds, who : Clients]), UNCHANGED lost,
           NEW k \in EventKinds, NEW c \in Clients,
           events' = Append(events, [kind |-> k, who |-> c])
    PROVE  \A d \in Clients : d # c => EventsKept(d)
<1> DEFINE e == [kind |-> k, who |-> c]
<1>1. \A d, j : d # c => e \notin About(j, d)
  BY DEF About
<1> HIDE DEF e
<1>2. /\ \A A : Has(events', A) <=> Has(events, A) \/ e \in A
      /\ \A A : Once(events, A) /\ (e \in A => ~ Has(events, A)) => Once(events', A)
      /\ \A A, B : NoneAfter(events, A, B) /\ (e \in B => ~ Has(events, A)) => NoneAfter(events', A, B)
      /\ \A A, B : Preceded(events, A, B) /\ (e \in A => Has(events, B)) => Preceded(events', A, B)
  BY Appended DEF e
<1> QED BY <1>1, <1>2 DEF EventsKept, StateLost

LEMMA EventTaken ==
    ASSUME events \in Seq([kind : EventKinds, who : Clients]), UNCHANGED lost,
           NEW k, NEW c, events # <<>>, Head(events) = [kind |-> k, who |-> c],
           events' = Tail(events)
    PROVE  \A d \in Clients : d # c => EventsKept(d)
<1>1. \A d, j : d # c => Head(events) \notin About(j, d)
  BY DEF About
<1>2. /\ \A A : Has(events, A) <=> Has(events', A) \/ Head(events) \in A
      /\ \A A : Once(events, A) => Once(events', A)
      /\ \A A, B : NoneAfter(events, A, B) => NoneAfter(events', A, B)
      /\ \A A, B : Preceded(events, A, B) => Head(events) \in B \/ Preceded(events', A, B)
  BY Taken
<1> QED BY <1>1, <1>2 DEF EventsKept, StateLost

LEMMA EventsErased ==
    ASSUME events \in Seq([kind : EventKinds, who : Clients]), UNCHANGED lost,
           NEW c \in Clients, events' = Only(events, [kind : EventKinds, who : Clients \ {c}])
    PROVE  /\ \A d \in Clients : d # c => EventsKept(d)
           /\ \A k : ~ Has(events', About(k, c))
<1> DEFINE S == [kind : EventKinds, who : Clients]
           T == [kind : EventKinds, who : Clients \ {c}]
<1>0. events \in Seq(S) /\ events' = Only(events, T)
  OBVIOUS
<1>1. \A d \in Clients, j \in EventKinds : d # c => About(j, d) \subseteq T
  BY DEF About
<1>2. \A k : ~ Has(events', About(k, c))
  <2>1. \A i \in DOMAIN events' : events'[i] \in T
    <3> HIDE DEF S, T
    <3> QED BY <1>0, OnlyElements
  <2>2. \A k : [kind |-> k, who |-> c] \notin T
    OBVIOUS
  <2> QED BY <2>1, <2>2 DEF Has, About
<1> HIDE DEF S, T
<1>3. /\ \A A : Has(events', A) => Has(events, A)
      /\ \A A : A \subseteq T /\ Has(events, A) => Has(events', A)
      /\ \A A : Once(events, A) => Once(events', A)
      /\ \A A, B : NoneAfter(events, A, B) => NoneAfter(events', A, B)
      /\ \A A, B : B \subseteq T /\ Preceded(events, A, B) => Preceded(events', A, B)
  <2> DEFINE t == Only(events, T)
  <2>1. /\ \A A : Has(t, A) => Has(events, A)
        /\ \A A : A \subseteq T /\ Has(events, A) => Has(t, A)
        /\ \A A : Once(events, A) => Once(t, A)
        /\ \A A, B : NoneAfter(events, A, B) => NoneAfter(t, A, B)
        /\ \A A, B : B \subseteq T /\ Preceded(events, A, B) => Preceded(t, A, B)
    BY <1>0, KeptByOnly, Zenon
  <2> QED BY <1>0, <2>1
<1>4. "state" \in EventKinds
  BY KindsAre
<1> QED BY <1>1, <1>2, <1>3, <1>4 DEF EventsKept, StateLost

LEMMA Assemble ==
    ASSUME Inv, Types', Marks', Inside', NEW c \in Clients, Good(c)',
           \A d \in Clients : d # c => Same(d) /\ EventsKept(d) /\ DelayedKept(d)
    PROVE  Inv'
<1>1. ASSUME NEW d \in Clients PROVE Good(d)'
  <2>1. CASE d = c
    BY <2>1
  <2>2. CASE d # c
    BY <2>2, OthersKeep DEF Inv
  <2> QED BY <2>1, <2>2
<1> QED BY <1>1 DEF Inv

(* Marks and histories that a step leaves alone. *)
LEMMA MarksSame ==
    ASSUME Marks, UNCHANGED <<failed, fault, secrets, roundEnds, releasing, lost>>
    PROVE  Marks'
BY DEF Marks

LEMMA InsideSame ==
    ASSUME Inside, UNCHANGED <<accepted, refused, failed>>,
           passed \subseteq passed', identified \subseteq identified',
           hasState \subseteq hasState', lost \subseteq lost'
    PROVE  Inside'
BY DEF Inside, KeysAgree, OnlyTheAdmitted, AcceptedWereChecked, RefusedStayOut, AcceptedHaveState

-----------------------------------------------------------------------------
(* The network threads. *)

LEMMA JoinKeeps == ASSUME Inv, NEW c \in Clients, Join(c) PROVE Inv'
<1> USE DEF Join, serverVars, channels, gameThread, history, bounds
<1>0. Types /\ Good(c) /\ Marks /\ Inside
  BY DEF Inv
<1>1. Types'
  <2>1. conn' \in [Clients -> {"out", "in", "erased", "gone"}]
    BY <1>0 DEF Types
  <2>2. validating' \subseteq {d \in Clients : Listed(d)'}
    BY <1>0 DEF Types, Listed
  <2>3. events' \in Seq([kind : EventKinds, who : Clients])
    BY <1>0, KindsAre DEF Types
  <2> QED BY <1>0, <2>1, <2>2, <2>3 DEF Types
<1>2. Marks' /\ Inside'
  BY <1>0, MarksSame, InsideSame
<1>3. \A d \in Clients : d # c => Same(d) /\ EventsKept(d) /\ DelayedKept(d)
  <2>1. \A d \in Clients : d # c => EventsKept(d)
    BY <1>0, EventPosted, KindsAre DEF Types
  <2> QED BY <1>0, <2>1 DEF Same, DelayedKept, Types
<1>4. Blank(c)
  BY <1>0 DEF Good
<1>5. conn'[c] = "in"
  BY <1>0 DEF Types
<1>6. lastSeed'[c] = 0 /\ svKey'[c] = 0 /\ client'[c] = Fresh /\ toClient'[c] = <<>> /\ toServer'[c] = <<>>
  BY <1>4 DEF Blank
<1>7. OnWay(c)' = <<>>
  BY <1>6, OnlyNothing DEF OnWay
<1>8. Talk(c)'
  BY <1>6, <1>7 DEF Talk, Shape, Vouch, Fresh, Uninitialized
<1>9. Results(c)'
  BY <1>4, <1>6, EmptyQueue DEF Results, Settled, Blank, Fresh
<1>10. Serve(c)'
  <2>1. ~ Served(c)'
    BY <1>0, <1>4, <1>6, EmptyQueue DEF Served, Blank, Fresh
  <2> QED BY <1>6, <2>1 DEF Serve
<1>11. SecretsOK(c)'
  BY <1>6, EmptyQueue DEF SecretsOK
<1>12. Posts(c)'
  <2> DEFINE e == [kind |-> "create", who |-> c]
  <2>1. /\ \A A : Has(events', A) <=> Has(events, A) \/ e \in A
        /\ \A A : Once(events, A) /\ (e \in A => ~ Has(events, A)) => Once(events', A)
        /\ \A A, B : NoneAfter(events, A, B) /\ (e \in B => ~ Has(events, A)) => NoneAfter(events', A, B)
    BY <1>0, Appended DEF Types
  <2>2. e \notin About("state", c) /\ e \notin About("auth", c) /\ e \in About("create", c)
    BY DEF About
  <2> HIDE DEF e
  <2>3. /\ ~ Has(events, About("create", c)) /\ ~ Has(events, About("state", c))
        /\ ~ Has(events, About("auth", c)) /\ c \notin validating
    BY <1>4, KindsAre DEF Blank
  <2>4. /\ Once(events, About("create", c)) /\ Once(events, About("auth", c))
        /\ NoneAfter(events, About("auth", c), About("state", c))
    BY <2>3, NoneThere
  <2> QED BY <1>6, <2>1, <2>2, <2>3, <2>4 DEF Posts
<1>13. Admit(c)'
  <2>1. ~ Has(events', About("auth", c))
    <3>1. ~ Has(events, About("auth", c)) /\ [kind |-> "create", who |-> c] \notin About("auth", c)
      BY <1>4, KindsAre DEF Blank, About
    <3> QED BY <1>0, <3>1, Appended DEF Types
  <2>2. toServer'[c] # <<Au>>
    BY <1>6, TuplesAre
  <2> QED BY <1>6, <2>1, <2>2, NoneThere DEF Admit
<1>14. Good(c)'
  BY <1>5, <1>8, <1>9, <1>10, <1>11, <1>12, <1>13 DEF Good
<1> QED BY <1>1, <1>2, <1>3, <1>14, Assemble

(* What is known of a client whose packet is taken. *)
LEMMA PacketTaken ==
    ASSUME Inv, NEW c \in Clients, NEW types, Receive(c, types)
    PROVE  /\ Listed(c) /\ Talk(c) /\ Results(c) /\ Serve(c) /\ SecretsOK(c) /\ Posts(c) /\ Admit(c)
           /\ toServer[c] # <<>> /\ Packet(c).type \in types
           /\ toServer' \in [Clients -> Seq(ToServer)]
           /\ toServer'[c] = Tail(toServer[c])
           /\ \A d \in Clients : d # c => toServer'[d] = toServer[d]
           /\ Shape(lastSeed[c], client[c].key, OnWay(c), toServer'[c])
           /\ toServer'[c] # <<Rd>>
           /\ toServer'[c] = <<Au>> => Packet(c) = St
           /\ ~ Has(events, About("auth", c))
           /\ \/ Packet(c).type = "ack"
              \/ Packet(c) = St /\ lastSeed[c] = 1 /\ OnWay(c) = <<>> /\ toServer'[c] = <<Au>>
              \/ Packet(c) = Au /\ lastSeed[c] = 1 /\ OnWay(c) = <<>> /\ toServer'[c] = <<>>
              \/ Packet(c) = Dg /\ lastSeed[c] = 2 /\ OnWay(c) = <<>> /\ toServer'[c] = <<>>
              \/ Packet(c) = Rq /\ lastSeed[c] = 3 /\ OnWay(c) = <<>> /\ toServer'[c] = <<>>
              \/ Packet(c) = Rd /\ lastSeed[c] = 3 /\ OnWay(c) = <<>> /\ toServer'[c] = <<>>
           /\ Packet(c).type # "ack" => svKey[c] = lastSeed[c]
<1>1. /\ Listed(c) /\ toServer[c] # <<>> /\ Packet(c).type \in types
      /\ toServer' = [toServer EXCEPT ![c] = Tail(@)]
  BY DEF Receive
<1>2. Talk(c) /\ Results(c) /\ Serve(c) /\ SecretsOK(c) /\ Posts(c) /\ Admit(c) /\ Types
  BY <1>1 DEF Inv, Good
<1>3. toServer \in [Clients -> Seq(ToServer)]
  BY <1>2 DEF Types
<1>4. Tail(toServer[c]) \in Seq(ToServer)
  BY <1>1, <1>3
<1>5. /\ toServer' \in [Clients -> Seq(ToServer)] /\ toServer'[c] = Tail(toServer[c])
      /\ \A d \in Clients : d # c => toServer'[d] = toServer[d]
  BY <1>1, <1>3, <1>4
<1>6. Shape(lastSeed[c], client[c].key, OnWay(c), toServer[c])
  BY <1>2 DEF Talk
<1>7. ~ Has(events, About("auth", c))
  BY <1>1, <1>2 DEF Posts
<1>8. /\ Shape(lastSeed[c], client[c].key, OnWay(c), Tail(toServer[c]))
      /\ Tail(toServer[c]) # <<Rd>>
      /\ Tail(toServer[c]) = <<Au>> => Packet(c) = St
  BY <1>1, <1>6, ShapeTaken DEF Packet
<1>9. \/ Packet(c).type = "ack"
      \/ Packet(c) = St /\ lastSeed[c] = 1 /\ OnWay(c) = <<>> /\ toServer'[c] = <<Au>>
      \/ Packet(c) = Au /\ lastSeed[c] = 1 /\ OnWay(c) = <<>> /\ toServer'[c] = <<>>
      \/ Packet(c) = Dg /\ lastSeed[c] = 2 /\ OnWay(c) = <<>> /\ toServer'[c] = <<>>
      \/ Packet(c) = Rq /\ lastSeed[c] = 3 /\ OnWay(c) = <<>> /\ toServer'[c] = <<>>
      \/ Packet(c) = Rd /\ lastSeed[c] = 3 /\ OnWay(c) = <<>> /\ toServer'[c] = <<>>
  <2>1. Packet(c) = Head(toServer[c]) /\ toServer'[c] = Tail(toServer[c])
    BY <1>5 DEF Packet
  <2> DEFINE Q == toServer[c]
  <2>2. \/ Head(Q).type = "ack"
        \/ Head(Q) = St /\ lastSeed[c] = 1 /\ OnWay(c) = <<>> /\ Tail(Q) = <<Au>>
        \/ Head(Q) = Au /\ lastSeed[c] = 1 /\ OnWay(c) = <<>> /\ Tail(Q) = <<>>
        \/ Head(Q) = Dg /\ lastSeed[c] = 2 /\ OnWay(c) = <<>> /\ Tail(Q) = <<>>
        \/ Head(Q) = Rq /\ lastSeed[c] = 3 /\ OnWay(c) = <<>> /\ Tail(Q) = <<>>
        \/ Head(Q) = Rd /\ lastSeed[c] = 3 /\ OnWay(c) = <<>> /\ Tail(Q) = <<>>
    <3> HIDE DEF Q
    <3>1. Shape(lastSeed[c], client[c].key, OnWay(c), Q) /\ Q # <<>>
      BY <1>1, <1>6 DEF Q
    <3> QED BY <3>1, ShapeTaken
  <2> QED BY <2>1, <2>2, Zenon
<1>10. Packet(c).type # "ack" => svKey[c] = lastSeed[c]
  BY <1>2, <1>9 DEF Talk, Vouch, Packet
<1> QED BY <1>1, <1>2, <1>5, <1>7, <1>8, <1>9, <1>10

(* The parts of Good that a packet leaves alone. *)
LEMMA PacketLeaves ==
    ASSUME Inv, NEW c \in Clients, NEW types, Receive(c, types),
           UNCHANGED <<lastSeed, toClient, client, refused, accepted>>,
           Has(delayed', {c}) \/ c \in ready' => Served(c) \/ Packet(c) = Rq,
           ready \subseteq ready'
    PROVE  OnWay(c)' = OnWay(c) /\ Results(c)' /\ Serve(c)' /\ SecretsOK(c)'
<1>1. OnWay(c)' = OnWay(c)
  BY DEF OnWay
<1>2. Settled(c)' <=> Settled(c)
  BY <1>1 DEF Settled
<1>3. Results(c)'
  BY <1>2, PacketTaken DEF Results
<1>4. Serve(c)'
  <2>0. Serve(c) /\ toServer[c] # <<>> /\ toServer'[c] = Tail(toServer[c]) /\ toServer'[c] # <<Rd>>
    BY PacketTaken
  <2>1. Settled(c)' /\ ~ client'[c].asked => toServer'[c] = <<>>
    BY <1>2, <2>0, TuplesAre DEF Serve
  <2>2. Served(c)' => Served(c) \/ Packet(c) = Rq
    BY DEF Served
  <2>3. Served(c) => client[c].asked /\ toServer'[c] = <<>>
    BY <2>0, TuplesAre DEF Serve
  <2>4. Packet(c) = Rq => client[c].asked /\ toServer'[c] = <<>>
    <3>1. ASSUME Packet(c) = Rq PROVE Settled(c) /\ toServer'[c] = <<>>
      BY <3>1, PacketTaken, MessagesAre DEF Settled
    <3>2. ASSUME Packet(c) = Rq, ~ client[c].asked PROVE FALSE
      <4>1. toServer[c] = <<Ack(3)>>
        BY <2>0, <3>1, <3>2 DEF Serve
      <4> QED BY <3>2, <4>1, TuplesAre, MessagesAre DEF Packet
    <3> QED BY <3>1, <3>2
  <2> QED BY <2>0, <2>1, <2>2, <2>3, <2>4 DEF Serve
<1>5. SecretsOK(c)'
  BY PacketTaken DEF SecretsOK
<1> QED BY <1>1, <1>3, <1>4, <1>5

LEMMA ReceiveAckKeeps == ASSUME Inv, NEW c \in Clients, ReceiveAck(c) PROVE Inv'
<1> USE DEF ReceiveAck, gameThread, history, bounds
<1>0. Types /\ Marks /\ Inside /\ Receive(c, {"ack"})
  BY DEF Inv
<1>1. Types'
  <2>1. svKey' \in [Clients -> 0 .. 3]
    BY <1>0 DEF Types, KeyOfAck
  <2> QED BY <1>0, <2>1, PacketTaken DEF Types, Listed
<1>2. Marks' /\ Inside'
  BY <1>0 DEF Marks, Inside, KeysAgree, OnlyTheAdmitted, AcceptedWereChecked, RefusedStayOut,
              AcceptedHaveState
<1>3. \A d \in Clients : d # c => Same(d) /\ EventsKept(d) /\ DelayedKept(d)
  BY <1>0, PacketTaken, EventsSame DEF Same, DelayedKept, Types
<1>4. OnWay(c)' = OnWay(c) /\ Results(c)' /\ Serve(c)' /\ SecretsOK(c)'
  BY <1>0, PacketLeaves DEF Served
<1>5. Talk(c)'
  <2>1. svKey'[c] = lastSeed[c]
    BY <1>0 DEF Types, KeyOfAck
  <2> QED BY <1>0, <1>4, <2>1, PacketTaken DEF Talk, Vouch
<1>6. Posts(c)'
  BY <1>0, <1>4, PacketTaken DEF Posts
<1>7. Admit(c)'
  <2>1. toServer'[c] # <<Au>>
    BY <1>0, PacketTaken, MessagesAre
  <2> QED BY <1>0, <2>1, PacketTaken DEF Admit, StateLost
<1>8. Good(c)'
  BY <1>0, <1>4, <1>5, <1>6, <1>7, PacketTaken DEF Good, Listed
<1> QED BY <1>1, <1>2, <1>3, <1>8, Assemble

(* Secrets of the client are read, since the key of their stage is settled. *)
LEMMA PacketIsRead ==
    ASSUME Inv, NEW c \in Clients, Receive(c, SecretToServer)
    PROVE  Decrypted(c)
<1>1. Packet(c).type # "ack" /\ Packet(c) # Rq /\ Packet(c) # Rd
  <2>1. Packet(c).type \in SecretToServer
    BY DEF Receive
  <2> QED BY <2>1, MessagesAre DEF SecretToServer
<1>2. svKey[c] = lastSeed[c]
  BY <1>1, PacketTaken
<1>3. Packet(c).key = lastSeed[c] /\ lastSeed[c] # 0
  BY <1>1, PacketTaken, MessagesAre
<1> QED BY <1>2, <1>3 DEF Decrypted, Reads, Uninitialized

LEMMA ReceiveMore ==
    ASSUME NEW c, NEW T, NEW U, Receive(c, T), T \subseteq U
    PROVE  Receive(c, U)
BY DEF Receive

LEMMA AuthAlone ==
    ASSUME Inv, NEW c \in Clients, Receive(c, {"state", "auth"}), Packet(c).type = "auth"
    PROVE  toServer[c] = <<Au>>
<1>1. Talk(c) /\ toServer[c] # <<>>
  BY PacketTaken
<1>2. Head(toServer[c]).type = "auth"
  BY DEF Packet
<1>3. Shape(lastSeed[c], client[c].key, OnWay(c), toServer[c])
  BY <1>1 DEF Talk
<1> QED BY <1>1, <1>2, <1>3, TuplesAre, MessagesAre DEF Shape

LEMMA ReceiveEventKeeps == ASSUME Inv, NEW c \in Clients, ReceiveEvent(c) PROVE Inv'
<1> USE DEF ReceiveEvent, serverVars, history, bounds
<1> DEFINE k == Packet(c).type
           e == [kind |-> k, who |-> c]
<1>0. Types /\ Marks /\ Inside /\ Receive(c, {"state", "auth"})
  BY DEF Inv
<1>a. Decrypted(c)
  BY <1>0, ReceiveMore, PacketIsRead DEF SecretToServer
<1>b. failed' = failed /\ events' = Append(events, e)
  BY <1>a DEF OnSecureMessage
<1>c. k \in EventKinds /\ (k = "state" \/ k = "auth")
  BY <1>0, PacketTaken DEF EventKinds
<1>1. Types'
  <2>1. events' \in Seq([kind : EventKinds, who : Clients])
    <3>1. e \in [kind : EventKinds, who : Clients]
      BY <1>c
    <3>2. events \in Seq([kind : EventKinds, who : Clients])
      BY <1>0 DEF Types
    <3>3. Append(events, e) \in Seq([kind : EventKinds, who : Clients])
      BY <3>1, <3>2, AppendTyped
    <3> QED BY <1>b, <3>3
  <2> QED BY <1>0, <2>1, PacketTaken DEF Types, Listed
<1>2. Marks' /\ Inside'
  BY <1>0, <1>b, MarksSame, InsideSame
<1>3. \A d \in Clients : d # c => Same(d) /\ EventsKept(d) /\ DelayedKept(d)
  <2>1. \A d \in Clients : d # c => EventsKept(d)
    BY <1>0, <1>b, <1>c, EventPosted DEF Types
  <2> QED BY <1>0, <2>1, PacketTaken DEF Same, DelayedKept, Types
<1>4. OnWay(c)' = OnWay(c) /\ Results(c)' /\ Serve(c)' /\ SecretsOK(c)'
  BY <1>0, PacketLeaves DEF Served
<1>5. Talk(c)'
  <2>1. svKey[c] = lastSeed[c]
    BY <1>0, PacketTaken
  <2> QED BY <1>0, <1>4, <2>1, PacketTaken DEF Talk, Vouch
<1>6. lastSeed[c] = 1 /\ OnWay(c) = <<>>
      /\ (k = "auth" => toServer'[c] = <<>>)
      /\ (toServer'[c] = <<Au>> => k = "state")
  BY <1>0, PacketTaken, MessagesAre
<1>7. /\ \A A : Has(events', A) <=> Has(events, A) \/ e \in A
      /\ \A A : Once(events, A) /\ (e \in A => ~ Has(events, A)) => Once(events', A)
      /\ \A A, B : NoneAfter(events, A, B) /\ (e \in B => ~ Has(events, A)) => NoneAfter(events', A, B)
      /\ \A A, B : Preceded(events, A, B) /\ (e \in A => Has(events, B)) => Preceded(events', A, B)
  BY <1>0, <1>b, <1>c, Appended DEF Types
<1>8. /\ e \notin About("create", c)
      /\ e \in About("state", c) <=> k = "state"
      /\ e \in About("auth", c) <=> k = "auth"
  BY <1>c DEF About
<1> HIDE DEF e, k
<1>9. Posts(c) /\ Admit(c) /\ ~ Has(events, About("auth", c))
  BY <1>0, PacketTaken
<1>10. Posts(c)'
  <2>1. Has(events', About("auth", c)) => k = "auth"
    BY <1>7, <1>8, <1>9
  <2>2. /\ Once(events', About("create", c)) /\ Once(events', About("auth", c))
        /\ NoneAfter(events', About("auth", c), About("state", c))
    BY <1>7, <1>8, <1>9 DEF Posts
  <2>3. Has(events', About("create", c)) => Has(events, About("create", c))
    BY <1>7, <1>8
  <2> QED BY <1>4, <1>6, <1>9, <2>1, <2>2, <2>3 DEF Posts
<1>11. Admit(c)'
  <2>1. ASSUME AuthCheck, ~ StateLost(c), k = "auth", c \notin hasState
        PROVE  Has(events, About("state", c))
    <3>1. toServer[c] = <<Au>>
      BY <1>0, <2>1, AuthAlone DEF k
    <3> QED BY <1>9, <2>1, <3>1 DEF Admit
  <2>2. AuthCheck /\ ~ StateLost(c) =>
           c \in hasState \/ Preceded(events', About("auth", c), About("state", c))
    BY <1>7, <1>8, <1>9, <2>1 DEF Admit
  <2>3. toServer'[c] = <<Au>> => Has(events', About("state", c))
    BY <1>6, <1>7, <1>8
  <2> QED BY <1>6, <1>9, <2>2, <2>3 DEF Admit, StateLost
<1>12. Good(c)'
  BY <1>0, <1>4, <1>5, <1>10, <1>11, PacketTaken DEF Good, Listed
<1> QED BY <1>1, <1>2, <1>3, <1>12, Assemble

(* A refusal, which never follows an acceptance. *)
LEMMA RefusalTold ==
    ASSUME Types, NEW c \in Clients, lastSeed[c] # 3, Refuse(c),
           Shape(lastSeed[c], client[c].key, OnWay(c), toServer[c]), Results(c),
           client' = client
    PROVE  /\ lastSeed' = lastSeed
           /\ toClient' \in [Clients -> Seq(ToClient)]
           /\ \A d \in Clients : d # c => toClient'[d] = toClient[d]
           /\ refused' = refused \cup {c}
           /\ OnWay(c)' = OnWay(c)
           /\ Results(c)'
           /\ \A A : Plain("refuse") \notin A => (Has(toClient'[c], A) <=> Has(toClient[c], A))
<1> DEFINE m == Plain("refuse")
           q == toClient[c]
<1>1. /\ m \in ToClient /\ m \notin Core /\ m \in Of("refuse") /\ m \notin Of("accept")
  BY DEF Plain, Uninitialized, ToClient, Messages, ToClientTypes, Core, Of
<1>2. q \in Seq(ToClient) /\ toClient \in [Clients -> Seq(ToClient)]
  BY DEF Types
<1>3. /\ toClient' = [toClient EXCEPT ![c] = q \o <<m>>]
      /\ lastSeed' = [lastSeed EXCEPT ![c] = lastSeed[c] + 0]
      /\ refused' = refused \cup {c}
  BY DEF Refuse, Tell
<1>4. lastSeed' = lastSeed
  <2>1. lastSeed \in [Clients -> 0 .. 3]
    BY DEF Types
  <2>2. lastSeed[c] + 0 = lastSeed[c]
    BY <2>1
  <2> QED BY <1>3, <2>1, <2>2
<1> HIDE DEF m, q
<1>5. /\ q \o <<m>> \in Seq(ToClient)
      /\ Only(q \o <<m>>, Core) = Only(q, Core)
      /\ \A A : Has(q \o <<m>>, A) <=> Has(q, A) \/ m \in A
      /\ \A A, B : NoneAfter(q, A, B) /\ (m \in B => ~ Has(q, A)) => NoneAfter(q \o <<m>>, A, B)
  BY <1>1, <1>2, SentOne
<1>6. toClient'[c] = q \o <<m>> /\ toClient' \in [Clients -> Seq(ToClient)]
      /\ \A d \in Clients : d # c => toClient'[d] = toClient[d]
  BY <1>2, <1>3, <1>5
<1>7. OnWay(c)' = OnWay(c) /\ OnWay(c) = Only(q, Core)
  BY <1>5, <1>6 DEF OnWay, q
<1>8. ~ Has(q, Of("accept"))
  <2>1. ~ Has(Only(q, Core), Of("accept"))
    BY <1>7, ShapeNotAccepted
  <2>2. Of("accept") \subseteq Core
    BY DEF Of, Core
  <2> QED BY <1>2, <2>1, <2>2, KeptByOnly
<1>9. NoneAfter(toClient'[c], Of("accept"), Of("refuse")) /\ Has(toClient'[c], Of("refuse"))
  <2>1. NoneAfter(q, Of("accept"), Of("refuse"))
    BY DEF Results, q
  <2> QED BY <1>1, <1>5, <1>6, <1>8, <2>1
<1>10. Results(c)'
  BY <1>4, <1>9 DEF Results, Settled
<1> QED BY <1>3, <1>4, <1>5, <1>6, <1>7, <1>10 DEF m, q

(* Keys and a question, to a client for which nothing else is on its way. *)
CoreMessages == {KeySync(1), KeySync(2), KeySync(3), Ch, Ask, Acc}
CoreList(m) == \E a, b, d \in CoreMessages : m = <<a, b>> \/ m = <<a, b, d>>

LEMMA CoreLists == /\ CoreList(<<KeySync(1), Ch>>) /\ CoreList(<<KeySync(2), Ask>>)
                   /\ CoreList(<<KeySync(3), Acc>>)
                   /\ CoreList(<<KeySync(1), KeySync(2), Ask>>)
BY DEF CoreList, CoreMessages

LEMMA CoreTold ==
    ASSUME Types, NEW c \in Clients, lastSeed[c] # 3, OnWay(c) = <<>>, Results(c),
           NEW n \in 1 .. 2, lastSeed[c] + n <= 3, NEW m, CoreList(m), Tell(c, n, m),
           UNCHANGED <<client, refused>>
    PROVE  /\ lastSeed' \in [Clients -> 0 .. 3] /\ lastSeed'[c] = lastSeed[c] + n
           /\ \A e \in Clients : e # c => lastSeed'[e] = lastSeed[e]
           /\ toClient' \in [Clients -> Seq(ToClient)]
           /\ \A e \in Clients : e # c => toClient'[e] = toClient[e]
           /\ OnWay(c)' = m
           /\ Results(c)'
           /\ \A t \in {"refuse", "config", "secret"} :
                 Has(toClient'[c], Of(t)) <=> Has(toClient[c], Of(t))
           /\ Has(toClient'[c], BadSecrets) <=> Has(toClient[c], BadSecrets)
<1> DEFINE q == toClient[c]
<1>0. PICK a \in CoreMessages, b \in CoreMessages, d \in CoreMessages :
         m = <<a, b>> \/ m = <<a, b, d>>
  BY DEF CoreList
<1>1. \A x \in CoreMessages :
         /\ x \in ToClient /\ x \in Core
         /\ \A t \in {"refuse", "config", "secret"} : x \notin Of(t)
         /\ x \notin BadSecrets
  <2>1. \A x \in CoreMessages : x \in ToClient /\ x \in Core
    BY DEF CoreMessages, KeySync, Ch, Ask, Acc, Plain, Uninitialized, ToClient, Messages,
           ToClientTypes, Core
  <2>2. \A x \in CoreMessages : x.type \in {"sync", "challenge", "askdigest", "accept"}
    BY MessagesAre DEF CoreMessages
  <2> QED BY <2>1, <2>2 DEF Of, BadSecrets
<1>2. q \in Seq(ToClient) /\ toClient \in [Clients -> Seq(ToClient)]
  BY DEF Types
<1>3. /\ toClient' = [toClient EXCEPT ![c] = q \o m]
      /\ lastSeed' = [lastSeed EXCEPT ![c] = lastSeed[c] + n]
  BY DEF Tell
<1>4. Only(q, Core) = <<>>
  BY DEF OnWay
<1> HIDE DEF q
<1>5. a \in ToClient \cap Core /\ b \in ToClient \cap Core /\ d \in ToClient \cap Core
  BY <1>1
<1>6. /\ q \o <<a, b>> \in Seq(ToClient) /\ q \o <<a, b, d>> \in Seq(ToClient)
      /\ Only(q \o <<a, b>>, Core) = <<a, b>>
      /\ Only(q \o <<a, b, d>>, Core) = <<a, b, d>>
      /\ \A A : a \notin A /\ b \notin A
                   => (Has(q \o <<a, b>>, A) <=> Has(q, A))
      /\ \A A : a \notin A /\ b \notin A /\ d \notin A
                   => (Has(q \o <<a, b, d>>, A) <=> Has(q, A))
      /\ \A A, B : a \notin B /\ b \notin B /\ NoneAfter(q, A, B)
                      => NoneAfter(q \o <<a, b>>, A, B)
      /\ \A A, B : a \notin B /\ b \notin B /\ d \notin B /\ NoneAfter(q, A, B)
                      => NoneAfter(q \o <<a, b, d>>, A, B)
  BY <1>2, <1>4, <1>5, SentCore
<1>7. /\ q \o m \in Seq(ToClient) /\ Only(q \o m, Core) = m
      /\ \A A : a \notin A /\ b \notin A /\ d \notin A => (Has(q \o m, A) <=> Has(q, A))
      /\ \A A, B : a \notin B /\ b \notin B /\ d \notin B /\ NoneAfter(q, A, B)
                      => NoneAfter(q \o m, A, B)
  <2>1. CASE m = <<a, b>>
    BY <1>6, <2>1
  <2>2. CASE m = <<a, b, d>>
    BY <1>6, <2>2
  <2> QED BY <1>0, <2>1, <2>2
<1>8. /\ toClient'[c] = q \o m /\ toClient' \in [Clients -> Seq(ToClient)]
      /\ \A e \in Clients : e # c => toClient'[e] = toClient[e]
  BY <1>2, <1>3, <1>7
<1>9. /\ lastSeed' \in [Clients -> 0 .. 3] /\ lastSeed'[c] = lastSeed[c] + n
      /\ \A e \in Clients : e # c => lastSeed'[e] = lastSeed[e]
  <2>1. lastSeed \in [Clients -> 0 .. 3]
    BY DEF Types
  <2>2. lastSeed[c] + n \in 0 .. 3
    BY <2>1
  <2> QED BY <1>3, <2>1, <2>2
<1>10. OnWay(c)' = m /\ m # <<>>
  <2>2. m # <<>>
    BY <1>0, TuplesAre
  <2> QED BY <1>7, <1>8, <2>2 DEF OnWay
<1>11. /\ \A t \in {"refuse", "config", "secret"} : Has(toClient'[c], Of(t)) <=> Has(toClient[c], Of(t))
       /\ Has(toClient'[c], BadSecrets) <=> Has(toClient[c], BadSecrets)
  BY <1>1, <1>7, <1>8 DEF q
<1>12. NoneAfter(toClient'[c], Of("accept"), Of("refuse"))
  <2>1. NoneAfter(q, Of("accept"), Of("refuse"))
    BY DEF Results, q
  <2> QED BY <1>1, <1>7, <1>8, <2>1
<1>13. Results(c)'
  <2>1. ~ Settled(c) /\ ~ Settled(c)'
    BY <1>10 DEF Settled
  <2> QED BY <1>11, <1>12, <2>1 DEF Results
<1> QED BY <1>8, <1>9, <1>10, <1>11, <1>13

(* Nothing after the handshake concerns a client before its third key. *)
LEMMA StillOutside ==
    ASSUME NEW c, Results(c), Serve(c), SecretsOK(c), lastSeed[c] # 3,
           UNCHANGED <<client, accepted, ready, delayed>>,
           Has(toClient'[c], Of("config")) <=> Has(toClient[c], Of("config")),
           Has(toClient'[c], Of("secret")) <=> Has(toClient[c], Of("secret")),
           Has(toClient'[c], BadSecrets) <=> Has(toClient[c], BadSecrets),
           ~ Settled(c)', toServer'[c] # <<Rd>>
    PROVE  Serve(c)' /\ SecretsOK(c)' /\ c \notin accepted
<1>1. ~ Served(c)
  BY DEF Results, Serve, Settled
<1>2. ~ Served(c)' /\ c \notin accepted
  BY <1>1 DEF Served
<1>3. Serve(c)'
  BY <1>2 DEF Serve
<1>4. SecretsOK(c)'
  BY DEF SecretsOK
<1> QED BY <1>2, <1>3, <1>4

LEMMA RefusalIsNone ==
    Plain("refuse") \notin Of("config") /\ Plain("refuse") \notin Of("secret")
    /\ Plain("refuse") \notin BadSecrets
BY DEF Plain, Of, BadSecrets

LEMMA ReceiveDigestKeeps == ASSUME Inv, NEW c \in Clients, ReceiveDigest(c) PROVE Inv'
<1> USE DEF ReceiveDigest
<1>0. Types /\ Marks /\ Inside /\ Receive(c, {"digest"})
  BY DEF Inv
<1>a. /\ Packet(c) = Dg /\ lastSeed[c] = 2 /\ OnWay(c) = <<>> /\ toServer'[c] = <<>>
      /\ svKey[c] = 2 /\ Shape(2, client[c].key, <<>>, <<>>)
      /\ Listed(c) /\ Talk(c) /\ Results(c) /\ Serve(c) /\ SecretsOK(c) /\ Posts(c) /\ Admit(c)
      /\ ~ Has(events, About("auth", c))
      /\ toServer' \in [Clients -> Seq(ToServer)]
      /\ \A d \in Clients : d # c => toServer'[d] = toServer[d]
  BY <1>0, PacketTaken, MessagesAre
<1>b. Decrypted(c)
  BY <1>0, ReceiveMore, PacketIsRead DEF SecretToServer
<1>c. failed' = failed /\ ProcessClientDigest(c)
  BY <1>b DEF OnSecureMessage
<1>d. UNCHANGED <<conn, svKey, hasState, accepted, ready, events, delayed, handling, releasing,
                  validating, client, passed, dropped, lost, fault, secrets, roundEnds>>
  BY DEF gameThread, bounds
<1>1. CASE Refuse(c) /\ UNCHANGED identified
  <2>1. /\ lastSeed' = lastSeed
        /\ toClient' \in [Clients -> Seq(ToClient)]
        /\ \A d \in Clients : d # c => toClient'[d] = toClient[d]
        /\ refused' = refused \cup {c}
        /\ OnWay(c)' = OnWay(c)
        /\ Results(c)'
        /\ \A A : Plain("refuse") \notin A => (Has(toClient'[c], A) <=> Has(toClient[c], A))
    BY <1>0, <1>1, <1>a, <1>d, RefusalTold DEF Talk
  <2>2. Types'
    BY <1>0, <1>1, <1>a, <1>d, <2>1 DEF Types, Listed
  <2>3. Serve(c)' /\ SecretsOK(c)' /\ c \notin accepted
    <3>1. ~ Settled(c)' /\ lastSeed[c] # 3
      BY <1>a, <2>1 DEF Settled
    <3>2. toServer'[c] # <<Rd>>
      BY <1>a, TuplesAre
    <3> QED BY <1>a, <1>d, <2>1, <3>1, <3>2, RefusalIsNone, StillOutside
  <2>4. Marks' /\ Inside'
    BY <1>0, <1>1, <1>c, <1>d, <2>1, <2>3 DEF Marks, Inside, KeysAgree, OnlyTheAdmitted,
       AcceptedWereChecked, RefusedStayOut, AcceptedHaveState
  <2>5. \A d \in Clients : d # c => Same(d) /\ EventsKept(d) /\ DelayedKept(d)
    BY <1>1, <1>a, <1>d, <2>1, EventsSame DEF Same, DelayedKept
  <2>6. Talk(c)'
    BY <1>a, <1>d, <2>1 DEF Talk, Vouch
  <2>7. Posts(c)'
    BY <1>a, <1>d, <2>1 DEF Posts
  <2>8. Admit(c)'
    BY <1>1, <1>a, <1>d, <2>1, TuplesAre DEF Admit, StateLost
  <2>9. Good(c)'
    BY <1>a, <1>d, <2>1, <2>3, <2>6, <2>7, <2>8 DEF Good, Listed
  <2> QED BY <2>2, <2>4, <2>5, <2>9, Assemble
<1>2. CASE /\ Tell(c, 1, <<NextKey(c, 1), Plain("accept")>>)
           /\ identified' = identified \cup {c} /\ UNCHANGED refused
  <2>0. <<NextKey(c, 1), Plain("accept")>> = <<KeySync(3), Acc>>
    BY <1>a DEF NextKey, Acc
  <2>1. /\ lastSeed' \in [Clients -> 0 .. 3] /\ lastSeed'[c] = 3
        /\ \A e \in Clients : e # c => lastSeed'[e] = lastSeed[e]
        /\ toClient' \in [Clients -> Seq(ToClient)]
        /\ \A e \in Clients : e # c => toClient'[e] = toClient[e]
        /\ OnWay(c)' = <<KeySync(3), Acc>>
        /\ Results(c)'
        /\ \A t \in {"refuse", "config", "secret"} :
              Has(toClient'[c], Of(t)) <=> Has(toClient[c], Of(t))
        /\ Has(toClient'[c], BadSecrets) <=> Has(toClient[c], BadSecrets)
    <3>1. /\ 1 \in 1 .. 2 /\ lastSeed[c] # 3 /\ lastSeed[c] + 1 <= 3 /\ lastSeed[c] + 1 = 3
          /\ Tell(c, 1, <<KeySync(3), Acc>>)
      BY <1>2, <1>a, <2>0
    <3>2. CoreList(<<KeySync(3), Acc>>)
      BY CoreLists
    <3> QED BY <1>0, <1>2, <1>a, <1>d, <3>1, <3>2, CoreTold
  <2>2. Types'
    BY <1>0, <1>2, <1>a, <1>d, <2>1 DEF Types, Listed
  <2>3. Serve(c)' /\ SecretsOK(c)'
    <3>1. ~ Settled(c)' /\ lastSeed[c] # 3
      BY <1>a, <2>1, TuplesAre DEF Settled
    <3>2. toServer'[c] # <<Rd>>
      BY <1>a, TuplesAre
    <3> QED BY <1>a, <1>d, <2>1, <3>1, <3>2, StillOutside
  <2>4. Marks' /\ Inside'
    BY <1>0, <1>2, <1>c, <1>d, MarksSame, InsideSame
  <2>5. \A d \in Clients : d # c => Same(d) /\ EventsKept(d) /\ DelayedKept(d)
    BY <1>2, <1>a, <1>d, <2>1, EventsSame DEF Same, DelayedKept
  <2>6. Talk(c)'
    <3>1. Shape(3, client[c].key, <<KeySync(3), Acc>>, <<>>)
      BY <1>a, ShapeTold
    <3> QED BY <1>a, <1>d, <2>1, <3>1, TuplesAre, MessagesAre DEF Talk, Vouch
  <2>7. Posts(c)'
    BY <1>a, <1>d, <2>1 DEF Posts
  <2>8. Admit(c)'
    BY <1>2, <1>a, <1>d, <2>1, TuplesAre DEF Admit, StateLost
  <2>9. Good(c)'
    BY <1>a, <1>d, <2>1, <2>3, <2>6, <2>7, <2>8 DEF Good, Listed
  <2> QED BY <2>2, <2>4, <2>5, <2>9, Assemble
<1> QED BY <1>1, <1>2, <1>c DEF ProcessClientDigest

LEMMA Alone == ASSUME NEW S, NEW s \in Seq(S), s # <<>>, Tail(s) = <<>> PROVE s = <<Head(s)>>
<1>1. Len(s) = 1 /\ s[1] = Head(s)
  <2>1. Len(s) \in Nat /\ Len(s) # 0 /\ Len(Tail(s)) = Len(s) - 1 /\ s[1] = Head(s)
    OBVIOUS
  <2>2. Len(<<>>) = 0
    OBVIOUS
  <2>3. Len(Tail(s)) = 0
    BY <2>2, Zenon
  <2> QED BY <2>1, <2>3
<1>2. <<Head(s)>> \in Seq(S) /\ Len(<<Head(s)>>) = 1 /\ <<Head(s)>>[1] = Head(s)
  OBVIOUS
<1>3. \A i \in 1 .. 1 : i = 1
  OBVIOUS
<1> QED BY <1>1, <1>2, <1>3, SeqEqual

LEMMA ReceiveRequestKeeps == ASSUME Inv, NEW c \in Clients, ReceiveRequest(c) PROVE Inv'
<1> USE DEF ReceiveRequest, AddDelayedPacket, serverVars, history, bounds
<1>0. Types /\ Marks /\ Inside /\ Receive(c, {"request"})
  BY DEF Inv
<1>a. \A A : Has(delayed', A) <=> Has(delayed, A) \/ c \in A
  BY <1>0, Appended DEF Types
<1>b. Packet(c) = Rq
  BY <1>0, PacketTaken, MessagesAre
<1>1. Types'
  <2>1. delayed' \in Seq(Clients)
    BY <1>0, AppendTyped DEF Types
  <2> QED BY <1>0, <2>1, PacketTaken DEF Types, Listed
<1>2. Marks' /\ Inside'
  BY <1>0, MarksSame, InsideSame
<1>3. \A d \in Clients : d # c => Same(d) /\ EventsKept(d) /\ DelayedKept(d)
  BY <1>0, <1>a, PacketTaken, EventsSame DEF Same, DelayedKept, Types
<1>4. OnWay(c)' = OnWay(c) /\ Results(c)' /\ Serve(c)' /\ SecretsOK(c)'
  BY <1>0, <1>b, PacketLeaves
<1>5. Talk(c)'
  <2>1. svKey[c] = lastSeed[c]
    BY <1>0, <1>b, PacketTaken, MessagesAre
  <2> QED BY <1>0, <1>4, <2>1, PacketTaken DEF Talk, Vouch
<1>6. Posts(c)'
  BY <1>0, <1>4, PacketTaken DEF Posts
<1>7. Admit(c)'
  <2>1. toServer'[c] # <<Au>>
    BY <1>0, <1>b, PacketTaken, MessagesAre
  <2> QED BY <1>0, <2>1, PacketTaken DEF Admit, StateLost
<1>8. Good(c)'
  BY <1>0, <1>4, <1>5, <1>6, <1>7, PacketTaken DEF Good, Listed
<1> QED BY <1>1, <1>2, <1>3, <1>8, Assemble

LEMMA ReceiveReadyKeeps == ASSUME Inv, NEW c \in Clients, ReceiveReady(c) PROVE Inv'
<1> USE DEF ReceiveReady, gameThread, history, bounds
<1>0. Types /\ Marks /\ Inside /\ Receive(c, {"ready"})
  BY DEF Inv
<1>a. Packet(c) = Rd /\ toServer[c] = <<Rd>>
  <2>1. Packet(c) = Rd /\ Tail(toServer[c]) = <<>> /\ toServer[c] # <<>>
    <3>1. Packet(c).type = "ready"
      BY <1>0 DEF Receive
    <3>2. Packet(c) = Rd /\ toServer'[c] = <<>>
      BY <1>0, <3>1, PacketTaken, MessagesAre
    <3> QED BY <1>0, <3>2, PacketTaken
  <2>2. toServer[c] \in Seq(ToServer)
    BY <1>0 DEF Types
  <2>3. toServer[c] = <<Head(toServer[c])>>
    BY <2>1, <2>2, Alone
  <2> QED BY <2>1, <2>3 DEF Packet
<1>b. ready \subseteq ready' /\ ready' \subseteq ready \cup {c} /\ ready' \subseteq hasState
  BY <1>0 DEF Types
<1>1. Types'
  BY <1>0, <1>b, PacketTaken DEF Types, Listed
<1>2. Marks' /\ Inside'
  BY <1>0, InsideSame DEF Marks
<1>3. \A d \in Clients : d # c => Same(d) /\ EventsKept(d) /\ DelayedKept(d)
  <2>1. UNCHANGED <<conn, lastSeed, svKey, hasState, accepted, toClient, validating, client,
                    passed, identified, refused, events, delayed, lost>>
    OBVIOUS
  <2>2. \A d \in Clients : d # c => toServer'[d] = toServer[d] /\ (d \in ready' <=> d \in ready)
    BY <1>0, <1>b, PacketTaken
  <2> QED BY <2>1, <2>2, EventsSame DEF Same, DelayedKept
<1>4. OnWay(c)' = OnWay(c) /\ Results(c)' /\ Serve(c)' /\ SecretsOK(c)'
  <2>1. Served(c)
    BY <1>0, <1>a, PacketTaken DEF Serve, Served
  <2> QED BY <1>0, <1>b, <2>1, PacketLeaves
<1>5. Talk(c)'
  <2>1. svKey[c] = lastSeed[c]
    BY <1>0, <1>a, PacketTaken, MessagesAre
  <2> QED BY <1>0, <1>4, <2>1, PacketTaken DEF Talk, Vouch
<1>6. Posts(c)'
  BY <1>0, <1>4, PacketTaken DEF Posts
<1>7. Admit(c)'
  <2>1. toServer'[c] # <<Au>>
    BY <1>0, <1>a, PacketTaken, MessagesAre
  <2> QED BY <1>0, <2>1, PacketTaken DEF Admit, StateLost
<1>8. Good(c)'
  BY <1>0, <1>4, <1>5, <1>6, <1>7, PacketTaken DEF Good, Listed
<1> QED BY <1>1, <1>2, <1>3, <1>8, Assemble

LEMMA LeaveKeeps == ASSUME Inv, NEW c \in Clients, Leave(c) PROVE Inv'
<1> USE DEF Leave, history, bounds
<1>0. Types /\ Marks /\ Inside
  BY DEF Inv
<1>1. Types'
  <2>1. /\ conn' \in [Clients -> {"out", "in", "erased", "gone"}]
        /\ toClient' \in [Clients -> Seq(ToClient)]
        /\ toServer' \in [Clients -> Seq(ToServer)]
    BY <1>0 DEF Types
  <2>2. validating' \subseteq {d \in Clients : Listed(d)'}
    BY <1>0 DEF Types, Listed
  <2> QED BY <1>0, <2>1, <2>2 DEF Types
<1>2. Marks' /\ Inside'
  BY <1>0, MarksSame, InsideSame
<1>3. \A d \in Clients : d # c => Same(d) /\ EventsKept(d) /\ DelayedKept(d)
  BY <1>0, EventsSame DEF Same, DelayedKept, Types
<1>4. Good(c)'
  <2>1. conn'[c] = "erased"
    BY <1>0 DEF Types
  <2> QED BY <2>1 DEF Good, Listed
<1> QED BY <1>1, <1>2, <1>3, <1>4, Assemble

LEMMA PurgeKeeps == ASSUME Inv, NEW c \in Clients, Purge(c) PROVE Inv'
<1> USE DEF Purge, history, bounds, channels
<1>0. Types /\ Marks /\ Inside
  BY DEF Inv
<1>a. /\ delayed' \in Seq(Clients)
      /\ \A A : Has(delayed', A) => Has(delayed, A)
  <2>1. delayed \in Seq(Clients) /\ delayed' = Only(delayed, Clients \ {c})
    BY <1>0 DEF Types
  <2> DEFINE t == Only(delayed, Clients \ {c})
  <2>2. \A A : Has(t, A) => Has(delayed, A)
    BY <2>1, KeptByOnly, Zenon
  <2>3. t \in Seq(Clients)
    BY <2>1, OnlyElements
  <2> QED BY <2>1, <2>2, <2>3
<1>1. Types'
  <2>1. conn' \in [Clients -> {"out", "in", "erased", "gone"}]
    BY <1>0 DEF Types
  <2>2. validating' \subseteq {d \in Clients : Listed(d)'}
    BY <1>0 DEF Types, Listed
  <2> QED BY <1>0, <1>a, <2>1, <2>2 DEF Types
<1>2. Marks' /\ Inside'
  <2>1. releasing' = releasing \/ releasing' = TRUE
    OBVIOUS
  <2>2. releasing' \in BOOLEAN
    BY <1>0, <2>1 DEF Marks
  <2> QED BY <1>0, <2>2, InsideSame DEF Marks
<1>3. \A d \in Clients : d # c => Same(d) /\ EventsKept(d) /\ DelayedKept(d)
  BY <1>0, <1>a, EventsSame DEF Same, DelayedKept, Types
<1>4. Good(c)'
  <2>1. conn'[c] = "gone"
    BY <1>0 DEF Types
  <2> QED BY <2>1 DEF Good, Listed
<1> QED BY <1>1, <1>2, <1>3, <1>4, Assemble

-----------------------------------------------------------------------------
(* The game thread of the server. *)

(* A refusal before the third key changes nothing else. *)
LEMMA Refused ==
    ASSUME Types, Inside, NEW c \in Clients, Listed(c), Good(c), lastSeed[c] # 3, Refuse(c),
           UNCHANGED <<client, svKey, toServer, accepted, ready, delayed>>
    PROVE  /\ lastSeed' = lastSeed
           /\ toClient' \in [Clients -> Seq(ToClient)]
           /\ \A d \in Clients : d # c => toClient'[d] = toClient[d]
           /\ refused' = refused \cup {c} /\ c \notin accepted
           /\ OnWay(c)' = OnWay(c)
           /\ Talk(c)' /\ Results(c)' /\ Serve(c)' /\ SecretsOK(c)'
<1>0. Talk(c) /\ Results(c) /\ Serve(c) /\ SecretsOK(c)
  BY DEF Good
<1>1. /\ lastSeed' = lastSeed
      /\ toClient' \in [Clients -> Seq(ToClient)]
      /\ \A d \in Clients : d # c => toClient'[d] = toClient[d]
      /\ refused' = refused \cup {c}
      /\ OnWay(c)' = OnWay(c)
      /\ Results(c)'
      /\ \A A : Plain("refuse") \notin A => (Has(toClient'[c], A) <=> Has(toClient[c], A))
  BY <1>0, RefusalTold DEF Talk
<1>2. Talk(c)'
  BY <1>0, <1>1 DEF Talk, Vouch
<1>3. ~ Settled(c)'
  BY <1>1 DEF Settled
<1>4. toServer'[c] # <<Rd>>
  <2>1. Shape(lastSeed[c], client[c].key, OnWay(c), toServer[c])
    BY <1>0 DEF Talk
  <2> QED BY <2>1, ShapeReady
<1>5. Serve(c)' /\ SecretsOK(c)' /\ c \notin accepted
  BY <1>0, <1>1, <1>3, <1>4, RefusalIsNone, StillOutside
<1> QED BY <1>1, <1>2, <1>5

(* A client whose creation has been handled is asked for its version. *)
LEMMA VersionAsked ==
    ASSUME Types, NEW c \in Clients, Listed(c), Good(c), lastSeed[c] = 0, CheckBuildVersion(c),
           \A k \in EventKinds : ~ Has(events', About(k, c)), c \notin validating',
           UNCHANGED <<conn, client, svKey, toServer, accepted, ready, delayed, refused, passed,
                       identified, hasState, lost>>
    PROVE  /\ lastSeed' \in [Clients -> 0 .. 3]
           /\ \A d \in Clients : d # c => lastSeed'[d] = lastSeed[d]
           /\ toClient' \in [Clients -> Seq(ToClient)]
           /\ \A d \in Clients : d # c => toClient'[d] = toClient[d]
           /\ Good(c)'
<1>0. Talk(c) /\ Results(c) /\ Serve(c) /\ SecretsOK(c) /\ Posts(c) /\ Admit(c)
  BY DEF Good
<1>1. OnWay(c) = <<>> /\ toServer[c] = <<>> /\ Shape(0, client[c].key, <<>>, <<>>)
  BY <1>0, ShapeKeys DEF Talk
<1> DEFINE n == IF AuthCheck THEN 1 ELSE 2
           m == IF AuthCheck THEN <<KeySync(1), Ch>> ELSE <<KeySync(1), KeySync(2), Ask>>
<1>2. Tell(c, n, m)
  <2>1. NextKey(c, 1) = KeySync(1) /\ NextKey(c, 2) = KeySync(2)
    BY DEF NextKey
  <2> QED BY <2>1 DEF CheckBuildVersion, Ch, Ask
<1>3. CoreList(m) /\ n \in 1 .. 2 /\ lastSeed[c] # 3 /\ lastSeed[c] + n <= 3 /\ lastSeed[c] + n = n
  BY CoreLists
<1>4. Shape(n, client[c].key, m, <<>>) /\ m # <<>> /\ Head(m) = KeySync(1)
  BY <1>1, ShapeTold, TuplesAre
<1>5. n \in 1 .. 2 /\ (AuthCheck => n = 1)
  OBVIOUS
<1> HIDE DEF n, m
<1>6. /\ lastSeed' \in [Clients -> 0 .. 3] /\ lastSeed'[c] = n
      /\ \A e \in Clients : e # c => lastSeed'[e] = lastSeed[e]
      /\ toClient' \in [Clients -> Seq(ToClient)]
      /\ \A e \in Clients : e # c => toClient'[e] = toClient[e]
      /\ OnWay(c)' = m
      /\ Results(c)'
      /\ \A t \in {"refuse", "config", "secret"} :
            Has(toClient'[c], Of(t)) <=> Has(toClient[c], Of(t))
      /\ Has(toClient'[c], BadSecrets) <=> Has(toClient[c], BadSecrets)
  <2>1. /\ lastSeed' \in [Clients -> 0 .. 3] /\ lastSeed'[c] = lastSeed[c] + n
        /\ \A e \in Clients : e # c => lastSeed'[e] = lastSeed[e]
        /\ toClient' \in [Clients -> Seq(ToClient)]
        /\ \A e \in Clients : e # c => toClient'[e] = toClient[e]
        /\ OnWay(c)' = m
        /\ Results(c)'
        /\ \A t \in {"refuse", "config", "secret"} :
              Has(toClient'[c], Of(t)) <=> Has(toClient[c], Of(t))
        /\ Has(toClient'[c], BadSecrets) <=> Has(toClient[c], BadSecrets)
    BY <1>0, <1>1, <1>2, <1>3, CoreTold
  <2> QED BY <1>3, <2>1
<1>7. toServer'[c] = <<>>
  BY <1>1
<1>8. Talk(c)'
  BY <1>4, <1>6, <1>7, MessagesAre DEF Talk, Vouch
<1>9. Serve(c)' /\ SecretsOK(c)'
  <2>1. ~ Settled(c)' /\ toServer'[c] # <<Rd>>
    BY <1>4, <1>6, <1>7, TuplesAre DEF Settled
  <2> QED BY <1>0, <1>3, <1>6, <2>1, StillOutside
<1>10. Posts(c)'
  <2>1. \A k \in EventKinds : ~ Has(events', About(k, c))
    OBVIOUS
  <2> QED BY <2>1, KindsAre, NoneThere DEF Posts
<1>11. Admit(c)'
  <2>1. toServer'[c] # <<Au>>
    BY <1>7, TuplesAre
  <2>2. Preceded(events', About("auth", c), About("state", c))
    BY KindsAre, NoneThere
  <2>3. ~ (AuthCheck /\ lastSeed'[c] >= 2) /\ lastSeed'[c] # 3
    BY <1>5, <1>6
  <2> QED BY <2>1, <2>2, <2>3 DEF Admit
<1>12. Good(c)'
  BY <1>6, <1>8, <1>9, <1>10, <1>11 DEF Good, Listed
<1> QED BY <1>6, <1>12

(* What is known of a client whose event is handled. *)
LEMMA EventHandled ==
    ASSUME Inv, NEW c \in Clients, NEW k \in EventKinds, Handle(k, c)
    PROVE  /\ Types /\ Marks /\ Inside /\ Good(c)
           /\ events # <<>> /\ Head(events) = [kind |-> k, who |-> c]
           /\ Tail(events) \in Seq([kind : EventKinds, who : Clients])
           /\ Has(events, About(k, c))
           /\ \A A : Has(events, A) <=> \/ Has(Tail(events), A)
                                        \/ [kind |-> k, who |-> c] \in A
           /\ \A A : Once(events, A) => /\ Once(Tail(events), A)
                                        /\ [kind |-> k, who |-> c] \in A => ~ Has(Tail(events), A)
           /\ \A A, B : NoneAfter(events, A, B) =>
                           /\ NoneAfter(Tail(events), A, B)
                           /\ [kind |-> k, who |-> c] \in A => ~ Has(Tail(events), B)
           /\ \A A, B : Preceded(events, A, B) =>
                           /\ [kind |-> k, who |-> c] \notin A
                           /\ \/ [kind |-> k, who |-> c] \in B
                              \/ Preceded(Tail(events), A, B)
<1>1. Types /\ Marks /\ Inside /\ Good(c)
  BY DEF Inv
<1>2. events # <<>> /\ Head(events) = [kind |-> k, who |-> c]
  BY DEF Handle
<1>3. events \in Seq([kind : EventKinds, who : Clients])
  BY <1>1 DEF Types
<1>4. Tail(events) \in Seq([kind : EventKinds, who : Clients])
  BY <1>2, <1>3
<1>5. [kind |-> k, who |-> c] \in About(k, c)
  BY DEF About
<1> DEFINE e == [kind |-> k, who |-> c]
<1>6. Head(events) = e
  BY <1>2
<1> HIDE DEF e
<1>7. /\ \A A : Has(events, A) <=> Has(Tail(events), A) \/ e \in A
      /\ \A A : Once(events, A) => Once(Tail(events), A) /\ (e \in A => ~ Has(Tail(events), A))
      /\ \A A, B : NoneAfter(events, A, B) => /\ NoneAfter(Tail(events), A, B)
                                              /\ e \in A => ~ Has(Tail(events), B)
      /\ \A A, B : Preceded(events, A, B) => /\ e \notin A
                                             /\ e \in B \/ Preceded(Tail(events), A, B)
  BY <1>2, <1>3, <1>6, Taken
<1>8. Has(events, About(k, c))
  BY <1>5, <1>7 DEF e
<1> QED BY <1>1, <1>2, <1>4, <1>7, <1>8 DEF e

LEMMA HandleCreateKeeps == ASSUME Inv, NEW c \in Clients, HandleCreate(c) PROVE Inv'
<1> USE DEF HandleCreate, history, bounds
<1> DEFINE e == [kind |-> "create", who |-> c]
<1>0. Types /\ Marks /\ Inside /\ Good(c) /\ Handle("create", c)
  BY DEF Inv
<1>a. /\ events' \in Seq([kind : EventKinds, who : Clients])
      /\ \A A : Has(events', A) => Has(events, A)
      /\ \A A : Once(events, A) /\ e \in A => ~ Has(events', A)
      /\ Has(events, About("create", c))
  BY <1>0, KindsAre, EventHandled
<1>b. \A d \in Clients : d # c => EventsKept(d)
  BY <1>0, KindsAre, EventHandled, EventTaken DEF Types
<1>c. Marks' /\ Inside'
  BY <1>0, MarksSame, InsideSame
<1>d. ASSUME Listed(c)
      PROVE  /\ lastSeed[c] = 0 /\ c \notin validating /\ Posts(c)
             /\ \A k \in EventKinds : ~ Has(events', About(k, c))
  <2>1. Posts(c)
    BY <1>0, <1>d DEF Good
  <2>2. lastSeed[c] = 0 /\ c \notin validating
    BY <1>a, <2>1 DEF Posts
  <2>3. ~ Has(events', About("create", c))
    <3>1. e \in About("create", c)
      BY DEF About
    <3> QED BY <1>a, <2>1, <3>1 DEF Posts
  <2>4. ~ Has(events', About("state", c)) /\ ~ Has(events', About("auth", c))
    BY <1>a, <2>1, <2>2 DEF Posts
  <2> QED BY <2>1, <2>2, <2>3, <2>4 DEF EventKinds
<1>e. ~ Blank(c)
  BY <1>a, KindsAre DEF Blank
<1> HIDE DEF e
<1>1. CASE Listed(c) /\ ~ CDKeyServer
  <2>1. validating' = validating /\ CheckBuildVersion(c)
    BY <1>1
  <2>2. /\ lastSeed' \in [Clients -> 0 .. 3]
        /\ \A d \in Clients : d # c => lastSeed'[d] = lastSeed[d]
        /\ toClient' \in [Clients -> Seq(ToClient)]
        /\ \A d \in Clients : d # c => toClient'[d] = toClient[d]
        /\ Good(c)'
    BY <1>0, <1>1, <1>d, <2>1, VersionAsked
  <2>3. Types'
    BY <1>0, <1>a, <2>1, <2>2 DEF Types, Listed
  <2>4. \A d \in Clients : d # c => Same(d) /\ EventsKept(d) /\ DelayedKept(d)
    BY <1>b, <2>1, <2>2 DEF Same, DelayedKept
  <2> QED BY <1>c, <2>2, <2>3, <2>4, Assemble
<1>2. CASE Listed(c) /\ CDKeyServer
  <2>1. validating' = validating \cup {c} /\ UNCHANGED <<lastSeed, toClient>>
    BY <1>2
  <2>2. Types'
    BY <1>0, <1>2, <1>a, <2>1 DEF Types, Listed
  <2>3. \A d \in Clients : d # c => Same(d) /\ EventsKept(d) /\ DelayedKept(d)
    BY <1>b, <2>1 DEF Same, DelayedKept
  <2>4. Talk(c)' /\ Results(c)' /\ Serve(c)' /\ SecretsOK(c)'
    <3>1. Talk(c) /\ Results(c) /\ Serve(c) /\ SecretsOK(c)
      BY <1>0, <1>2 DEF Good
    <3>2. UNCHANGED <<lastSeed, svKey, toClient, toServer, client, refused, delayed, accepted, ready>>
      BY <2>1
    <3> QED BY <3>1, <3>2 DEF Talk, Results, Serve, SecretsOK, OnWay, Settled, Served
  <2>5. Posts(c)'
    BY <1>2, <1>d, <2>1, KindsAre, NoneThere DEF Posts
  <2>6. Admit(c)'
    <3>1. Admit(c) /\ Preceded(events', About("auth", c), About("state", c))
      BY <1>0, <1>2, <1>d, KindsAre, NoneThere DEF Good
    <3>2. toServer[c] # <<Au>>
      <4>1. toServer[c] = <<>>
        BY <1>0, <1>2, <1>d, ShapeKeys DEF Good, Talk
      <4> QED BY <4>1, TuplesAre
    <3> QED BY <2>1, <3>1, <3>2 DEF Admit, StateLost
  <2>7. Good(c)'
    BY <1>2, <2>4, <2>5, <2>6 DEF Good, Listed
  <2> QED BY <1>c, <2>2, <2>3, <2>7, Assemble
<1>3. CASE ~ Listed(c)
  <2>1. UNCHANGED <<lastSeed, toClient, validating>>
    BY <1>3
  <2>2. Types'
    BY <1>0, <1>a, <2>1 DEF Types, Listed
  <2>3. \A d \in Clients : d # c => Same(d) /\ EventsKept(d) /\ DelayedKept(d)
    BY <1>b, <2>1 DEF Same, DelayedKept
  <2>4. Good(c)'
    BY <1>0, <1>3, <1>e DEF Good, Listed
  <2> QED BY <1>c, <2>2, <2>3, <2>4, Assemble
<1> QED BY <1>1, <1>2, <1>3

LEMMA KeyValidatedKeeps == ASSUME Inv, NEW c \in Clients, KeyValidated(c) PROVE Inv'
<1> USE DEF KeyValidated, bounds
<1>0. Types /\ Marks /\ Inside /\ Good(c)
  BY DEF Inv
<1>a. Listed(c) /\ c \in validating
  BY <1>0 DEF Types
<1>b. Posts(c) /\ Admit(c) /\ lastSeed[c] = 0
  BY <1>0, <1>a DEF Good, Posts
<1>c. \A k \in EventKinds : ~ Has(events, About(k, c))
  BY <1>a, <1>b DEF Posts, EventKinds
<1>d. validating' = validating \ {c}
  OBVIOUS
<1>1. CASE CheckBuildVersion(c) /\ UNCHANGED refused
  <2>1. /\ lastSeed' \in [Clients -> 0 .. 3]
        /\ \A d \in Clients : d # c => lastSeed'[d] = lastSeed[d]
        /\ toClient' \in [Clients -> Seq(ToClient)]
        /\ \A d \in Clients : d # c => toClient'[d] = toClient[d]
        /\ Good(c)'
    <3>1. \A k \in EventKinds : ~ Has(events', About(k, c))
      BY <1>c
    <3> QED BY <1>0, <1>1, <1>a, <1>b, <1>d, <3>1, VersionAsked
  <2>2. Types'
    BY <1>0, <1>1, <1>d, <2>1 DEF Types, Listed
  <2>3. \A d \in Clients : d # c => Same(d) /\ EventsKept(d) /\ DelayedKept(d)
    BY <1>1, <1>d, <2>1, EventsSame DEF Same, DelayedKept
  <2>4. Marks' /\ Inside'
    BY <1>0, <1>1, MarksSame, InsideSame
  <2> QED BY <2>1, <2>2, <2>3, <2>4, Assemble
<1>2. CASE Refuse(c)
  <2>1. /\ lastSeed' = lastSeed
        /\ toClient' \in [Clients -> Seq(ToClient)]
        /\ \A d \in Clients : d # c => toClient'[d] = toClient[d]
        /\ refused' = refused \cup {c} /\ c \notin accepted
        /\ OnWay(c)' = OnWay(c)
        /\ Talk(c)' /\ Results(c)' /\ Serve(c)' /\ SecretsOK(c)'
    BY <1>0, <1>2, <1>a, <1>b, Refused
  <2>2. Types'
    BY <1>0, <1>d, <2>1 DEF Types, Listed
  <2>3. \A d \in Clients : d # c => Same(d) /\ EventsKept(d) /\ DelayedKept(d)
    BY <1>d, <2>1, EventsSame DEF Same, DelayedKept
  <2>4. Marks' /\ Inside'
    BY <1>0, <2>1 DEF Marks, Inside, KeysAgree, OnlyTheAdmitted, AcceptedWereChecked,
                      RefusedStayOut, AcceptedHaveState
  <2>5. Posts(c)' /\ Admit(c)'
    BY <1>b, <1>d, <2>1 DEF Posts, Admit, StateLost
  <2>6. Good(c)'
    BY <1>a, <2>1, <2>5 DEF Good, Listed
  <2> QED BY <2>2, <2>3, <2>4, <2>6, Assemble
<1> QED BY <1>1, <1>2

(* A step that only ends the server. *)
LEMMA FaultKeeps ==
    ASSUME Inv, Marks', NEW c \in Clients,
           UNCHANGED <<serverVars, channels, validating, client, history, failed, handling,
                       delayed>>,
           EventsKept(c), \A d \in Clients : d # c => EventsKept(d),
           events' \in Seq([kind : EventKinds, who : Clients])
    PROVE  Inv'
<1> USE DEF serverVars, channels, history
<1>1. Types'
  BY DEF Inv, Types, Listed
<1>2. Inside'
  BY InsideSame DEF Inv
<1>3. \A d \in Clients : Same(d) /\ DelayedKept(d)
  BY DEF Same, DelayedKept
<1>4. Good(c)'
  BY <1>3, OthersKeep DEF Inv
<1> QED BY <1>1, <1>2, <1>3, <1>4, Assemble

LEMMA HandleStateKeeps == ASSUME Inv, NEW c \in Clients, HandleState(c) PROVE Inv'
<1> USE DEF HandleState, CleanDelayedEventFor
<1> DEFINE e == [kind |-> "state", who |-> c]
<1>0. Types /\ Marks /\ Inside /\ Good(c) /\ Handle("state", c)
  BY DEF Inv
<1>u. UNCHANGED <<conn, svKey, accepted, ready, toServer, delayed, handling, validating,
                  client, passed, identified, dropped, lost, failed, secrets, roundEnds>>
  BY DEF bounds
<1>a. Has(events, About("state", c))
  BY <1>0, KindsAre, EventHandled
<1>b. ASSUME Listed(c)
      PROVE  /\ lastSeed[c] = 1 /\ Talk(c) /\ Results(c) /\ Serve(c) /\ SecretsOK(c)
             /\ Posts(c) /\ Admit(c)
  BY <1>0, <1>a, <1>b DEF Good, Posts
<1>c. hasState' = hasState \cup {c} => ready' \subseteq hasState' /\ hasState' \subseteq Clients
  BY <1>0, <1>u DEF Types
<1> HIDE DEF e
<1>1. CASE /\ ~ Listed(c) /\ fault' = "client not found"
           /\ UNCHANGED <<hasState, lastSeed, toClient, refused, events, releasing>>
  <2>1. Marks'
    BY <1>0, <1>1, <1>u DEF Marks
  <2>2. EventsKept(c) /\ \A d \in Clients : d # c => EventsKept(d)
    BY <1>1, <1>u, EventsSame
  <2>3. events' \in Seq([kind : EventKinds, who : Clients])
    BY <1>0, <1>1 DEF Types
  <2> QED BY <1>1, <1>u, <2>1, <2>2, <2>3, FaultKeeps DEF serverVars, channels, history
<1>2. CASE /\ Listed(c) /\ hasState' = hasState \cup {c} /\ events' = Tail(events)
           /\ UNCHANGED <<lastSeed, toClient, refused, releasing, fault>>
  <2>1. /\ events' \in Seq([kind : EventKinds, who : Clients])
        /\ \A A : Has(events', A) => Has(events, A)
        /\ \A A : Once(events, A) => Once(events', A)
        /\ \A A, B : NoneAfter(events, A, B) => NoneAfter(events', A, B)
    BY <1>0, <1>2, KindsAre, EventHandled
  <2>2. Types'
    BY <1>0, <1>2, <1>c, <1>u, <2>1 DEF Types, Listed
  <2>3. Marks' /\ Inside'
    BY <1>0, <1>2, <1>u, MarksSame, InsideSame
  <2>4. \A d \in Clients : d # c => Same(d) /\ EventsKept(d) /\ DelayedKept(d)
    <3>1. \A d \in Clients : d # c => EventsKept(d)
      BY <1>0, <1>2, <1>u, KindsAre, EventHandled, EventTaken DEF Types
    <3> QED BY <1>2, <1>u, <3>1 DEF Same, DelayedKept
  <2>5. Talk(c)' /\ Results(c)' /\ Serve(c)' /\ SecretsOK(c)'
    BY <1>2, <1>b, <1>u DEF Talk, Results, Serve, SecretsOK, OnWay, Settled, Served
  <2>6. Posts(c)'
    BY <1>2, <1>b, <1>u, <2>1 DEF Posts, OnWay
  <2>7. Admit(c)'
    BY <1>2, <1>b, <1>u DEF Admit
  <2>8. Good(c)'
    BY <1>2, <1>u, <2>5, <2>6, <2>7 DEF Good, Listed
  <2> QED BY <2>2, <2>3, <2>4, <2>8, Assemble
<1>3. CASE /\ Listed(c) /\ hasState' = hasState \cup {c} /\ Refuse(c) /\ UNCHANGED fault
           /\ releasing' = TRUE /\ events' = Only(events, [kind : EventKinds, who : Clients \ {c}])
  <2>1. /\ \A d \in Clients : d # c => EventsKept(d)
        /\ \A k : ~ Has(events', About(k, c))
    BY <1>0, <1>3, <1>u, EventsErased DEF Types
  <2>2. events' \in Seq([kind : EventKinds, who : Clients])
    BY <1>0, <1>3, OnlyElements DEF Types
  <2>3. /\ lastSeed' = lastSeed
        /\ toClient' \in [Clients -> Seq(ToClient)]
        /\ \A d \in Clients : d # c => toClient'[d] = toClient[d]
        /\ refused' = refused \cup {c} /\ c \notin accepted
        /\ OnWay(c)' = OnWay(c)
        /\ Talk(c)' /\ Results(c)' /\ Serve(c)' /\ SecretsOK(c)'
    BY <1>0, <1>3, <1>b, <1>u, Refused
  <2>4. Types'
    BY <1>0, <1>3, <1>c, <1>u, <2>2, <2>3 DEF Types, Listed
  <2>5. Marks' /\ Inside'
    BY <1>0, <1>3, <1>u, <2>3 DEF Marks, Inside, KeysAgree, OnlyTheAdmitted,
       AcceptedWereChecked, RefusedStayOut, AcceptedHaveState
  <2>6. \A d \in Clients : d # c => Same(d) /\ EventsKept(d) /\ DelayedKept(d)
    BY <1>3, <1>u, <2>1, <2>3 DEF Same, DelayedKept
  <2>7. Posts(c)'
    <3>1. \A k \in EventKinds : ~ Has(events', About(k, c))
      BY <2>1
    <3>2. c \notin validating \/ lastSeed'[c] = 0
      BY <1>3, <1>b, <2>3 DEF Posts
    <3> QED BY <1>u, <3>1, <3>2, KindsAre, NoneThere DEF Posts
  <2>8. Admit(c)'
    BY <1>3, <1>b, <1>u, <2>3 DEF Admit
  <2>9. Good(c)'
    BY <1>3, <1>u, <2>3, <2>7, <2>8 DEF Good, Listed
  <2> QED BY <2>4, <2>5, <2>6, <2>9, Assemble
<1> QED BY <1>1, <1>2, <1>3

LEMMA HandleAuthKeeps == ASSUME Inv, NEW c \in Clients, HandleAuth(c) PROVE Inv'
<1> DEFINE e == [kind |-> "auth", who |-> c]
<1>0. Types /\ Marks /\ Inside /\ Good(c) /\ Handle("auth", c)
  BY DEF Inv, HandleAuth
<1>u. /\ events' = Tail(events)
      /\ UNCHANGED <<conn, svKey, hasState, accepted, ready, toServer, delayed, handling,
                     releasing, validating, client, identified, dropped, lost, failed,
                     secrets, roundEnds>>
  BY DEF HandleAuth, bounds
<1>a. /\ Has(events, About("auth", c))
      /\ events' \in Seq([kind : EventKinds, who : Clients])
      /\ \A A : Has(events', A) => Has(events, A)
      /\ \A A : Once(events, A) => Once(events', A) /\ (e \in A => ~ Has(events', A))
      /\ \A A, B : NoneAfter(events, A, B) => /\ NoneAfter(events', A, B)
                                              /\ e \in A => ~ Has(events', B)
      /\ \A A, B : Preceded(events, A, B) => e \notin A
  <2>1. /\ Has(events, About("auth", c))
        /\ Tail(events) \in Seq([kind : EventKinds, who : Clients])
        /\ \A A : Has(events, A) <=> Has(Tail(events), A) \/ e \in A
        /\ \A A : Once(events, A) => /\ Once(Tail(events), A)
                                     /\ e \in A => ~ Has(Tail(events), A)
        /\ \A A, B : NoneAfter(events, A, B) => /\ NoneAfter(Tail(events), A, B)
                                                /\ e \in A => ~ Has(Tail(events), B)
        /\ \A A, B : Preceded(events, A, B) =>
                         e \notin A /\ (e \in B \/ Preceded(Tail(events), A, B))
    BY <1>0, KindsAre, EventHandled, Zenon
  <2> HIDE DEF e
  <2> QED BY <1>u, <2>1
<1>k. e \in About("auth", c) /\ \A k \in EventKinds : \A d : d # c => e \notin About(k, d)
  BY DEF About
<1>v. \A d \in Clients : d # c => EventsKept(d)
  <2>1. events # <<>> /\ Head(events) = [kind |-> "auth", who |-> c]
    BY <1>0 DEF Handle
  <2> QED BY <1>0, <1>u, <2>1, EventTaken DEF Types
<1> HIDE DEF e
<1>b. ASSUME Listed(c)
      PROVE  /\ lastSeed[c] = 1 /\ OnWay(c) = <<>> /\ toServer[c] = <<>>
             /\ Talk(c) /\ Results(c) /\ Serve(c) /\ SecretsOK(c) /\ Posts(c) /\ Admit(c)
             /\ ~ Has(events', About("auth", c)) /\ ~ Has(events', About("state", c))
             /\ ~ Has(events', About("create", c)) /\ c \notin validating
             /\ AuthCheck /\ ~ StateLost(c) => c \in hasState
  <2>1. /\ Talk(c) /\ Results(c) /\ Serve(c) /\ SecretsOK(c) /\ Posts(c) /\ Admit(c)
    BY <1>0, <1>b DEF Good
  <2>2. lastSeed[c] = 1 /\ OnWay(c) = <<>> /\ toServer[c] = <<>>
    BY <1>a, <2>1 DEF Posts
  <2>3. ~ Has(events', About("auth", c)) /\ ~ Has(events', About("state", c))
    BY <1>a, <1>k, <2>1 DEF Posts
  <2>4. ~ Has(events', About("create", c)) /\ c \notin validating
    <3>1. ~ Has(events, About("create", c)) /\ c \notin validating
      <4>1. /\ Has(events, About("create", c)) => lastSeed[c] = 0
            /\ c \in validating => lastSeed[c] = 0
        BY <2>1 DEF Posts
      <4>2. lastSeed[c] # 0
        BY <2>2
      <4> QED BY <4>1, <4>2, Zenon
    <3> QED BY <1>a, <3>1
  <2>5. AuthCheck /\ ~ StateLost(c) => c \in hasState
    BY <1>a, <1>k, <2>1 DEF Admit
  <2> QED BY <2>1, <2>2, <2>3, <2>4, <2>5
<1>c. Listed(c) => toServer'[c] # <<Au>> /\ toServer'[c] # <<Rd>>
  BY <1>b, <1>u, TuplesAre
<1>1. CASE /\ ~ Listed(c) /\ fault' = "null client"
           /\ UNCHANGED <<lastSeed, toClient, passed, refused>>
  <2>1. Marks'
    BY <1>0, <1>1, <1>u DEF Marks
  <2>2. Types'
    BY <1>0, <1>1, <1>a, <1>u DEF Types, Listed
  <2>3. Inside'
    BY <1>0, <1>1, <1>u, InsideSame
  <2>4. \A d \in Clients : d # c => Same(d) /\ EventsKept(d) /\ DelayedKept(d)
    BY <1>1, <1>u, <1>v DEF Same, DelayedKept
  <2>5. ~ Blank(c)
    BY <1>a, KindsAre DEF Blank
  <2>6. Good(c)'
    BY <1>0, <1>1, <1>u, <2>5 DEF Good, Listed
  <2> QED BY <2>1, <2>2, <2>3, <2>4, <2>6, Assemble
<1>2. CASE Listed(c) /\ Refuse(c) /\ UNCHANGED <<passed, fault>>
  <2>1. /\ lastSeed' = lastSeed
        /\ toClient' \in [Clients -> Seq(ToClient)]
        /\ \A d \in Clients : d # c => toClient'[d] = toClient[d]
        /\ refused' = refused \cup {c} /\ c \notin accepted
        /\ OnWay(c)' = OnWay(c)
        /\ Talk(c)' /\ Results(c)' /\ Serve(c)' /\ SecretsOK(c)'
    BY <1>0, <1>2, <1>b, <1>u, Refused
  <2>2. Types'
    BY <1>0, <1>2, <1>a, <1>u, <2>1 DEF Types, Listed
  <2>3. Marks' /\ Inside'
    BY <1>0, <1>2, <1>u, <2>1 DEF Marks, Inside, KeysAgree, OnlyTheAdmitted,
       AcceptedWereChecked, RefusedStayOut, AcceptedHaveState
  <2>4. \A d \in Clients : d # c => Same(d) /\ EventsKept(d) /\ DelayedKept(d)
    BY <1>2, <1>u, <1>v, <2>1 DEF Same, DelayedKept
  <2>5. Posts(c)'
    BY <1>2, <1>b, <1>u, <2>1, NoneThere DEF Posts
  <2>6. Admit(c)'
    BY <1>2, <1>b, <1>c, <1>u, <2>1 DEF Admit, StateLost
  <2>7. Good(c)'
    BY <1>2, <1>u, <2>1, <2>5, <2>6 DEF Good, Listed
  <2> QED BY <2>2, <2>3, <2>4, <2>7, Assemble
<1>3. CASE /\ Listed(c) /\ RequestClientDigest(c) /\ passed' = passed \cup {c}
           /\ UNCHANGED <<refused, fault>>
  <2>0. Tell(c, 1, <<KeySync(2), Ask>>)
    <3>1. NextKey(c, 1) = KeySync(2)
      BY <1>3, <1>b DEF NextKey
    <3> QED BY <1>3, <3>1 DEF RequestClientDigest, Ask
  <2>1. /\ lastSeed' \in [Clients -> 0 .. 3] /\ lastSeed'[c] = 2
        /\ \A d \in Clients : d # c => lastSeed'[d] = lastSeed[d]
        /\ toClient' \in [Clients -> Seq(ToClient)]
        /\ \A d \in Clients : d # c => toClient'[d] = toClient[d]
        /\ OnWay(c)' = <<KeySync(2), Ask>>
        /\ Results(c)'
        /\ \A t \in {"refuse", "config", "secret"} :
              Has(toClient'[c], Of(t)) <=> Has(toClient[c], Of(t))
        /\ Has(toClient'[c], BadSecrets) <=> Has(toClient[c], BadSecrets)
    <3>1. 1 \in 1 .. 2 /\ lastSeed[c] # 3 /\ lastSeed[c] + 1 <= 3 /\ lastSeed[c] + 1 = 2
      BY <1>3, <1>b
    <3>2. CoreList(<<KeySync(2), Ask>>)
      BY CoreLists
    <3> QED BY <1>0, <1>3, <1>b, <1>u, <2>0, <3>1, <3>2, CoreTold
  <2>2. Types'
    BY <1>0, <1>3, <1>a, <1>u, <2>1 DEF Types, Listed
  <2>3. Marks' /\ Inside'
    BY <1>0, <1>3, <1>u, MarksSame, InsideSame
  <2>4. \A d \in Clients : d # c => Same(d) /\ EventsKept(d) /\ DelayedKept(d)
    BY <1>3, <1>u, <1>v, <2>1 DEF Same, DelayedKept
  <2>5. Talk(c)'
    <3>1. Shape(2, client[c].key, <<KeySync(2), Ask>>, <<>>)
      BY <1>3, <1>b, ShapeTold DEF Talk
    <3> QED BY <1>3, <1>b, <1>u, <2>1, <3>1, TuplesAre, MessagesAre DEF Talk, Vouch
  <2>6. Serve(c)' /\ SecretsOK(c)'
    <3>1. ~ Settled(c)' /\ lastSeed[c] # 3
      BY <1>3, <1>b, <2>1 DEF Settled
    <3> QED BY <1>3, <1>b, <1>c, <1>u, <2>1, <3>1, StillOutside
  <2>7. Posts(c)'
    BY <1>3, <1>b, <1>u, <2>1, NoneThere DEF Posts
  <2>8. Admit(c)'
    BY <1>3, <1>b, <1>c, <1>u, <2>1, NoneThere DEF Admit, StateLost
  <2>9. Good(c)'
    BY <1>3, <1>u, <2>1, <2>5, <2>6, <2>7, <2>8 DEF Good, Listed
  <2> QED BY <2>2, <2>3, <2>4, <2>9, Assemble
<1> QED BY <1>1, <1>2, <1>3 DEF HandleAuth

LEMMA AllKeep ==
    ASSUME Inv, Types', Marks', Inside',
           \A d \in Clients : Same(d) /\ EventsKept(d) /\ DelayedKept(d)
    PROVE  Inv'
BY OthersKeep DEF Inv

LEMMA ChangeRoundKeeps == ASSUME Inv, ChangeRound PROVE Inv'
<1>0. Types /\ Marks /\ Inside
  BY DEF Inv
<1>a. /\ events' = <<>>
      /\ UNCHANGED <<conn, lastSeed, svKey, hasState, accepted, ready, toClient, toServer,
                     delayed, handling, releasing, validating, client, passed, identified,
                     refused, dropped, failed, fault, secrets>>
  BY DEF ChangeRound, serverVars, channels
<1>b. roundEnds' \in 0 .. MaxRoundEnds
  <2>1. roundEnds \in 0 .. MaxRoundEnds /\ MaxRoundEnds \in Nat
    BY <1>0, LimitsAssumption DEF Marks
  <2>2. roundEnds < MaxRoundEnds /\ roundEnds' = roundEnds + 1
    BY DEF ChangeRound
  <2> QED BY <2>1, <2>2
<1>c. lost' = lost \cup {events[i] : i \in DOMAIN events}
  BY DEF ChangeRound
<1>1. Types'
  <2>1. events' \in Seq([kind : EventKinds, who : Clients])
    BY <1>a
  <2> QED BY <1>0, <1>a, <2>1 DEF Types, Listed
<1>2. Marks' /\ Inside'
  <2>1. lost' \subseteq [kind : EventKinds, who : Clients]
    <3>1. events \in Seq([kind : EventKinds, who : Clients])
      BY <1>0 DEF Types
    <3> DEFINE Posted == [kind : EventKinds, who : Clients]
    <3> HIDE DEF Posted
    <3>2. \A i \in DOMAIN events : events[i] \in Posted
      <4>1. events \in Seq(Posted)
        BY <3>1 DEF Posted
      <4> QED BY <4>1
    <3> USE DEF Posted
    <3>3. {events[i] : i \in DOMAIN events} \subseteq [kind : EventKinds, who : Clients]
      BY <3>2
    <3>4. lost \subseteq [kind : EventKinds, who : Clients]
      BY <1>0 DEF Marks
    <3> QED BY <1>c, <3>3, <3>4
  <2> QED BY <1>0, <1>a, <1>b, <1>c, <2>1, InsideSame DEF Marks
<1>3. ASSUME NEW d \in Clients PROVE Same(d) /\ EventsKept(d) /\ DelayedKept(d)
  <2>1. EventsKept(d)
    <3>1. Has(events, About("state", d)) => StateLost(d)'
      BY <1>c DEF Has, About, StateLost
    <3>2. StateLost(d) => StateLost(d)'
      BY <1>c DEF StateLost
    <3> QED BY <1>a, <3>1, <3>2, EmptyQueue DEF EventsKept
  <2> QED BY <1>a, <2>1 DEF Same, DelayedKept
<1> QED BY <1>1, <1>2, <1>3, AllKeep

(* An event that is popped unhandled. *)
LEMMA EventLost ==
    ASSUME events \in Seq([kind : EventKinds, who : Clients]), events # <<>>,
           events' = Tail(events), lost' = lost \cup {Head(events)}
    PROVE  \A d : EventsKept(d)
<1> DEFINE h == Head(events)
<1>1. \A d : h \in About("state", d) => StateLost(d)'
  BY DEF About, StateLost
<1>2. \A d : StateLost(d) => StateLost(d)'
  BY DEF StateLost
<1>3. /\ \A A : Has(events, A) <=> Has(events', A) \/ h \in A
      /\ \A A : Once(events, A) => Once(events', A)
      /\ \A A, B : NoneAfter(events, A, B) => NoneAfter(events', A, B)
      /\ \A A, B : Preceded(events, A, B) => h \in B \/ Preceded(events', A, B)
  BY Taken
<1> HIDE DEF h
<1> QED BY <1>1, <1>2, <1>3 DEF EventsKept

LEMMA ReleaseKeeps == ASSUME Inv, Release PROVE Inv'
<1>0. Types /\ Marks /\ Inside /\ events \in Seq([kind : EventKinds, who : Clients])
  BY DEF Inv, Types
<1>u. UNCHANGED <<conn, lastSeed, svKey, hasState, accepted, ready, toClient, toServer, delayed,
                  handling, validating, client, passed, identified, refused, dropped, failed,
                  secrets, roundEnds>>
  BY DEF Release, serverVars, channels, bounds
<1>1. \/ UNCHANGED <<events, lost>>
      \/ events # <<>> /\ events' = Tail(events) /\ lost' = lost \cup {Head(events)}
  BY DEF Release
<1>2. /\ events' \in Seq([kind : EventKinds, who : Clients])
      /\ lost' \subseteq [kind : EventKinds, who : Clients]
      /\ lost \subseteq lost'
  <2> DEFINE Posted == [kind : EventKinds, who : Clients]
  <2>0. events \in Seq(Posted)
    BY <1>0
  <2> HIDE DEF Posted
  <2>1. events # <<>> => Tail(events) \in Seq(Posted) /\ Head(events) \in Posted
    BY <2>0
  <2> USE DEF Posted
  <2>2. lost \subseteq [kind : EventKinds, who : Clients]
    BY <1>0 DEF Marks
  <2> HIDE DEF Event
  <2> QED BY <1>0, <1>1, <2>1, <2>2
<1>3. Types'
  BY <1>0, <1>u, <1>2 DEF Types, Listed
<1>4. Marks' /\ Inside'
  BY <1>0, <1>u, <1>2, InsideSame DEF Marks, Release
<1>5. \A d : EventsKept(d)
  BY <1>0, <1>1, EventsSame, EventLost
<1>6. \A d \in Clients : Same(d) /\ EventsKept(d) /\ DelayedKept(d)
  BY <1>u, <1>5 DEF Same, DelayedKept
<1> QED BY <1>3, <1>4, <1>6, AllKeep

(* A message that is neither part of the handshake nor a refusal. *)
LEMMA ToldAside ==
    ASSUME Types, NEW c \in Clients, Results(c), NEW m \in ToClient, m \notin Core,
           m \notin Of("refuse"), Tell(c, 0, <<m>>), UNCHANGED <<client, refused>>
    PROVE  /\ lastSeed' = lastSeed
           /\ toClient' \in [Clients -> Seq(ToClient)]
           /\ \A d \in Clients : d # c => toClient'[d] = toClient[d]
           /\ OnWay(c)' = OnWay(c)
           /\ Results(c)'
           /\ \A A : Has(toClient'[c], A) <=> Has(toClient[c], A) \/ m \in A
<1> DEFINE q == toClient[c]
<1>1. q \in Seq(ToClient) /\ toClient \in [Clients -> Seq(ToClient)]
  BY DEF Types
<1>2. /\ toClient' = [toClient EXCEPT ![c] = q \o <<m>>]
      /\ lastSeed' = [lastSeed EXCEPT ![c] = lastSeed[c] + 0]
  BY DEF Tell
<1>3. lastSeed' = lastSeed
  <2>1. lastSeed \in [Clients -> 0 .. 3]
    BY DEF Types
  <2>2. lastSeed[c] + 0 = lastSeed[c]
    BY <2>1
  <2> QED BY <1>2, <2>1, <2>2
<1> HIDE DEF q
<1>4. /\ q \o <<m>> \in Seq(ToClient)
      /\ Only(q \o <<m>>, Core) = Only(q, Core)
      /\ \A A : Has(q \o <<m>>, A) <=> Has(q, A) \/ m \in A
      /\ \A A, B : NoneAfter(q, A, B) /\ (m \in B => ~ Has(q, A)) => NoneAfter(q \o <<m>>, A, B)
  BY <1>1, SentOne
<1>5. toClient'[c] = q \o <<m>> /\ toClient' \in [Clients -> Seq(ToClient)]
      /\ \A d \in Clients : d # c => toClient'[d] = toClient[d]
  BY <1>1, <1>2, <1>4
<1>6. OnWay(c)' = OnWay(c)
  BY <1>4, <1>5 DEF OnWay, q
<1>7. Results(c)'
  <2>1. NoneAfter(toClient'[c], Of("accept"), Of("refuse"))
    BY <1>4, <1>5 DEF Results, q
  <2>2. Has(toClient'[c], Of("refuse")) <=> Has(toClient[c], Of("refuse"))
    BY <1>4, <1>5 DEF q
  <2> QED BY <1>3, <1>6, <2>1, <2>2 DEF Results, Settled
<1> QED BY <1>3, <1>4, <1>5, <1>6, <1>7 DEF q

LEMMA BeginDelayedKeeps == ASSUME Inv, NEW c \in Clients, BeginDelayed(c) PROVE Inv'
<1>0. Types /\ Marks /\ Inside /\ Good(c) /\ delayed # <<>> /\ Head(delayed) = c
  BY DEF Inv, BeginDelayed
<1>u. UNCHANGED <<conn, svKey, hasState, ready, toServer, events, delayed, releasing,
                  validating, client, passed, identified, refused, dropped, lost, secrets,
                  roundEnds>>
  BY DEF BeginDelayed, history, bounds
<1>1. CASE ~ Listed(c)
  <2>1. fault' = "no client" /\ UNCHANGED <<accepted, lastSeed, toClient, handling, failed>>
    BY <1>1 DEF BeginDelayed
  <2>2. Marks'
    BY <1>0, <1>u, <2>1 DEF Marks
  <2>3. Types'
    BY <1>0, <1>u, <2>1 DEF Types, Listed
  <2>4. Inside'
    BY <1>0, <1>u, <2>1, InsideSame
  <2>5. \A d \in Clients : Same(d) /\ EventsKept(d) /\ DelayedKept(d)
    BY <1>u, <2>1, EventsSame DEF Same, DelayedKept
  <2> QED BY <2>2, <2>3, <2>4, <2>5, AllKeep
<1>2. CASE Listed(c)
  <2>1. /\ accepted' = accepted \cup {c} /\ Tell(c, 0, <<Plain("config")>>) /\ handling' = c
        /\ failed' = IF c \in hasState THEN failed ELSE failed \cup {"no player state"}
        /\ UNCHANGED fault
    BY <1>2 DEF BeginDelayed
  <2>2. Talk(c) /\ Results(c) /\ Serve(c) /\ SecretsOK(c) /\ Posts(c) /\ Admit(c)
    BY <1>0, <1>2 DEF Good
  <2>3. Served(c)
    <3>1. delayed \in Seq(Clients) /\ Head(delayed) \in {c}
      BY <1>0 DEF Types
    <3>2. Has(delayed, {c})
      BY <1>0, <3>1, Taken
    <3> QED BY <3>2 DEF Served
  <2>4. client[c].asked /\ Settled(c) /\ c \notin refused
    BY <2>2, <2>3 DEF Serve, Results
  <2>5. lastSeed[c] = 3 /\ lastSeed[c] >= 2
    BY <2>4 DEF Settled
  <2>6. /\ lastSeed' = lastSeed
        /\ toClient' \in [Clients -> Seq(ToClient)]
        /\ \A d \in Clients : d # c => toClient'[d] = toClient[d]
        /\ OnWay(c)' = OnWay(c)
        /\ Results(c)'
        /\ \A A : Has(toClient'[c], A) <=> Has(toClient[c], A) \/ Plain("config") \in A
    <3>1. Plain("config") \in ToClient /\ Plain("config") \notin Core /\ Plain("config") \notin Of("refuse")
      BY DEF Plain, Uninitialized, ToClient, Messages, ToClientTypes, Core, Of
    <3> QED BY <1>0, <1>u, <2>1, <2>2, <3>1, ToldAside
  <2>7. Types'
    <3>1. handling' \in accepted' \cup {NoClient}
      BY <2>1
    <3>2. accepted' \cup passed' \cup identified' \cup refused' \cup dropped' \subseteq Clients
      <4>1. accepted \cup passed \cup identified \cup refused \cup dropped \subseteq Clients
        BY <1>0 DEF Types
      <4>2. accepted' = accepted \cup {c} /\ c \in Clients
        BY <2>1
      <4>3. UNCHANGED <<passed, identified, refused, dropped>>
        BY <1>u
      <4> QED BY <4>1, <4>2, <4>3
    <3> QED BY <1>0, <1>u, <2>6, <3>1, <3>2 DEF Types, Listed
  <2>8. Marks'
    BY <1>0, <1>u, <2>1 DEF Marks
  <2>9. Inside'
    <3>1. AuthCheck => c \in passed /\ c \in identified
      BY <2>2, <2>5 DEF Admit
    <3>2. AuthCheck /\ c \notin hasState => StateLost(c)
      BY <2>2, <2>5 DEF Admit
    <3> QED BY <1>0, <1>u, <2>1, <2>4, <3>1, <3>2 DEF Inside, KeysAgree, OnlyTheAdmitted,
               AcceptedWereChecked, RefusedStayOut, AcceptedHaveState, StateLost
  <2>10. \A d \in Clients : d # c => Same(d) /\ EventsKept(d) /\ DelayedKept(d)
    BY <1>u, <2>1, <2>6, EventsSame DEF Same, DelayedKept
  <2>11. Talk(c)'
    BY <1>u, <2>2, <2>6 DEF Talk
  <2>12. Serve(c)'
    BY <1>u, <2>2, <2>3, <2>4 DEF Serve
  <2>13. SecretsOK(c)'
    <3>1. Plain("config") \notin Of("secret") /\ Plain("config") \notin BadSecrets
      BY DEF Plain, Of, BadSecrets
    <3> QED BY <1>u, <2>2, <2>6, <3>1 DEF SecretsOK
  <2>14. Posts(c)' /\ Admit(c)'
    BY <1>u, <2>2, <2>6 DEF Posts, Admit, StateLost
  <2>15. Good(c)'
    BY <1>2, <1>u, <2>6, <2>11, <2>12, <2>13, <2>14 DEF Good, Listed
  <2> QED BY <2>7, <2>8, <2>9, <2>10, <2>15, Assemble
<1> QED BY <1>1, <1>2

LEMMA EndDelayedKeeps == ASSUME Inv, EndDelayed PROVE Inv'
<1>0. Types /\ Marks /\ Inside
  BY DEF Inv
<1>u. UNCHANGED <<conn, lastSeed, svKey, hasState, accepted, ready, toClient, toServer, events,
                  releasing, validating, client, passed, identified, refused, lost, failed,
                  secrets, roundEnds>>
  BY DEF EndDelayed, serverVars, channels, bounds
<1>1. delayed \in Seq(Clients)
  BY <1>0 DEF Types
<1>2. delayed' = <<>> \/ (delayed # <<>> /\ delayed' = Tail(delayed))
  BY DEF EndDelayed
<1>3. delayed' \in Seq(Clients) /\ \A A : Has(delayed', A) => Has(delayed, A)
  <2>1. CASE delayed' = <<>>
    BY <2>1, EmptyQueue
  <2>2. CASE delayed # <<>> /\ delayed' = Tail(delayed)
    <3>1. Tail(delayed) \in Seq(Clients) /\ \A A : Has(Tail(delayed), A) => Has(delayed, A)
      BY <1>1, <2>2, FirstTaken
    <3> QED BY <2>2, <3>1
  <2> QED BY <1>2, <2>1, <2>2
<1>4. dropped' \subseteq Clients
  <2>1. dropped \subseteq Clients
    BY <1>0 DEF Types
  <2>2. delayed # <<>> => Head(delayed) \in Clients
    BY <1>1
  <2> QED BY <2>1, <2>2 DEF EndDelayed
<1>5. Types'
  BY <1>0, <1>u, <1>3, <1>4 DEF Types, Listed, EndDelayed
<1>6. Marks' /\ Inside'
  BY <1>0, <1>u, InsideSame DEF Marks, EndDelayed
<1>7. \A d \in Clients : Same(d) /\ EventsKept(d) /\ DelayedKept(d)
  BY <1>u, <1>3, EventsSame DEF Same, DelayedKept
<1> QED BY <1>5, <1>6, <1>7, AllKeep

LEMMA SendSecretKeeps == ASSUME Inv, NEW c \in Clients, SendSecret(c) PROVE Inv'
<1> DEFINE m == Secret("secret", svKey[c])
<1>0. Types /\ Marks /\ Inside /\ Listed(c) /\ Good(c) /\ MayTell(c) /\ Tell(c, 0, <<m>>)
  BY DEF Inv, SendSecret
<1>u. UNCHANGED <<conn, svKey, hasState, accepted, ready, toServer, events, delayed, handling,
                  releasing, validating, client, passed, identified, refused, dropped, lost,
                  failed, fault, roundEnds>>
  BY DEF SendSecret, gameThread, history
<1>1. Talk(c) /\ Results(c) /\ Serve(c) /\ SecretsOK(c) /\ Posts(c) /\ Admit(c)
  BY <1>0 DEF Good
<1>2. m \in ToClient /\ m \notin Core /\ m \notin Of("refuse") /\ m.key = svKey[c]
  <2>1. svKey[c] \in 0 .. 3
    BY <1>0 DEF Types
  <2> QED BY <2>1 DEF Secret, ToClient, Messages, ToClientTypes, Core, Of
<1> HIDE DEF m
<1>3. /\ lastSeed' = lastSeed
      /\ toClient' \in [Clients -> Seq(ToClient)]
      /\ \A d \in Clients : d # c => toClient'[d] = toClient[d]
      /\ OnWay(c)' = OnWay(c)
      /\ Results(c)'
      /\ \A A : Has(toClient'[c], A) <=> Has(toClient[c], A) \/ m \in A
  BY <1>0, <1>u, <1>1, <1>2, ToldAside
<1>4. Types'
  BY <1>0, <1>u, <1>3 DEF Types, Listed
<1>5. Marks'
  <2>1. secrets' \in 0 .. MaxSecrets
    <3>1. secrets \in 0 .. MaxSecrets /\ MaxSecrets \in Nat
      BY <1>0, LimitsAssumption DEF Marks
    <3>2. secrets < MaxSecrets /\ secrets' = secrets + 1
      BY DEF SendSecret
    <3> QED BY <3>1, <3>2
  <2> QED BY <1>0, <1>u, <2>1 DEF Marks
<1>6. Inside'
  BY <1>0, <1>u, InsideSame
<1>7. \A d \in Clients : d # c => Same(d) /\ EventsKept(d) /\ DelayedKept(d)
  BY <1>u, <1>3, EventsSame DEF Same, DelayedKept
<1>8. Talk(c)'
  BY <1>u, <1>1, <1>3 DEF Talk
<1>9. Serve(c)'
  <2>1. m \notin Of("config")
    BY DEF m, Secret, Of
  <2>2. Served(c)' <=> Served(c)
    BY <1>u, <1>3, <2>1 DEF Served
  <2> QED BY <1>u, <1>1, <1>3, <2>2 DEF Serve, Settled
<1>10. SecretsOK(c)'
  <2> SUFFICES ASSUME ~ EarlySecrets PROVE c \in ready' /\ ~ Has(toClient'[c], BadSecrets)
    BY DEF SecretsOK
  <2>1. c \in ready /\ Served(c)
    BY <1>0 DEF MayTell, Served
  <2>2. Settled(c) /\ (toServer[c] = <<>> \/ toServer[c] = <<Rd>>)
    BY <1>1, <2>1 DEF Serve, Results
  <2>3. svKey[c] = 3
    <3>1. lastSeed[c] = 3 /\ OnWay(c) = <<>>
      BY <2>2 DEF Settled
    <3>2. ~ (toServer[c] # <<>> /\ Head(toServer[c]).type = "ack")
      BY <2>2, TuplesAre, MessagesAre
    <3> QED BY <1>1, <3>1, <3>2 DEF Talk, Vouch
  <2>4. m \notin BadSecrets
    BY <1>2, <2>3 DEF BadSecrets
  <2>5. ~ Has(toClient[c], BadSecrets)
    <3>1. BadSecrets \subseteq Of("secret")
      BY DEF BadSecrets, Of
    <3>2. Has(toClient[c], BadSecrets) => Has(toClient[c], Of("secret"))
      BY <3>1 DEF Has
    <3> QED BY <1>1, <3>2 DEF SecretsOK
  <2> QED BY <1>u, <1>3, <2>1, <2>4, <2>5
<1>11. Posts(c)' /\ Admit(c)'
  BY <1>u, <1>1, <1>3 DEF Posts, Admit, StateLost
<1>12. Good(c)'
  BY <1>0, <1>u, <1>3, <1>8, <1>9, <1>10, <1>11 DEF Good, Listed
<1> QED BY <1>4, <1>5, <1>6, <1>7, <1>12, Assemble

-----------------------------------------------------------------------------
(* The client. *)

(* What is known of a client that hears a message. *)
LEMMA Heard ==
    ASSUME Inv, NEW c \in Clients, NEW t, Hear(c, t)
    PROVE  /\ Types /\ Marks /\ Inside /\ Listed(c) /\ Good(c)
           /\ toClient[c] # <<>> /\ News(c) \in ToClient /\ News(c) \in Of(t)
           /\ UNCHANGED <<conn, lastSeed, svKey, hasState, accepted, ready, events, delayed,
                          handling, releasing, validating, passed, identified, refused, dropped, lost,
                          fault, secrets, roundEnds>>
           /\ toClient' \in [Clients -> Seq(ToClient)]
           /\ \A d \in Clients : d # c => toClient'[d] = toClient[d]
           /\ toClient'[c] = Tail(toClient[c])
<1>1. /\ Listed(c) /\ toClient[c] # <<>> /\ News(c).type = t
      /\ toClient' = [toClient EXCEPT ![c] = Tail(@)]
  BY DEF Hear, ClientRuns
<1>2. UNCHANGED <<conn, lastSeed, svKey, hasState, accepted, ready, events, delayed,
                  handling, releasing, validating, passed, identified, refused, dropped, lost,
                  fault, secrets, roundEnds>>
  BY DEF Hear, serverVars, gameThread, history, bounds
<1>3. Types /\ Marks /\ Inside /\ Good(c)
  BY DEF Inv
<1>4. toClient \in [Clients -> Seq(ToClient)] /\ toClient[c] \in Seq(ToClient)
  BY <1>3 DEF Types
<1>5. News(c) \in ToClient /\ Tail(toClient[c]) \in Seq(ToClient)
  BY <1>1, <1>4 DEF News
<1>6. News(c) \in Of(t)
  BY <1>1, <1>5 DEF ToClient, Messages, Of
<1>7. /\ toClient' \in [Clients -> Seq(ToClient)]
      /\ \A d \in Clients : d # c => toClient'[d] = toClient[d]
      /\ toClient'[c] = Tail(toClient[c])
  BY <1>1, <1>4, <1>5
<1> QED BY <1>1, <1>2, <1>3, <1>5, <1>6, <1>7

LEMMA HeardQueue ==
    ASSUME Inv, NEW c \in Clients, NEW t, Hear(c, t)
    PROVE  /\ \A A : Has(toClient'[c], A) => Has(toClient[c], A)
           /\ \A A : Has(toClient[c], A) /\ News(c) \notin A => Has(toClient'[c], A)
           /\ \A A : News(c) \in A => Has(toClient[c], A)
           /\ \A A, B : NoneAfter(toClient[c], A, B) =>
                           /\ NoneAfter(toClient'[c], A, B)
                           /\ News(c) \in A => ~ Has(toClient'[c], B)
           /\ News(c) \in Core => /\ OnWay(c) # <<>> /\ News(c) = Head(OnWay(c))
                                  /\ OnWay(c)' = Tail(OnWay(c))
           /\ News(c) \notin Core => OnWay(c)' = OnWay(c)
<1> DEFINE q == toClient[c]
<1>1. q # <<>> /\ News(c) = Head(q) /\ toClient'[c] = Tail(q) /\ q \in Seq(ToClient)
  BY Heard DEF News, Types
<1>2. OnWay(c) = Only(q, Core) /\ OnWay(c)' = Only(toClient'[c], Core)
  BY DEF OnWay
<1> HIDE DEF q
<1>3. /\ Head(q) \in Core => /\ Only(q, Core) # <<>>
                             /\ Head(q) = Head(Only(q, Core))
                             /\ Only(Tail(q), Core) = Tail(Only(q, Core))
      /\ Head(q) \notin Core => Only(Tail(q), Core) = Only(q, Core)
      /\ \A A : Has(Tail(q), A) => Has(q, A)
      /\ \A A : Has(q, A) /\ Head(q) \notin A => Has(Tail(q), A)
      /\ \A A : Head(q) \in A => Has(q, A)
      /\ \A A, B : NoneAfter(q, A, B) => /\ NoneAfter(Tail(q), A, B)
                                         /\ Head(q) \in A => ~ Has(Tail(q), B)
  BY <1>1, FirstTaken
<1>4. /\ News(c) \in Core => /\ OnWay(c) # <<>> /\ News(c) = Head(OnWay(c))
                             /\ OnWay(c)' = Tail(OnWay(c))
      /\ News(c) \notin Core => OnWay(c)' = OnWay(c)
  BY <1>1, <1>2, <1>3, Zenon
<1>5. /\ \A A : Has(toClient'[c], A) => Has(q, A)
      /\ \A A : Has(q, A) /\ News(c) \notin A => Has(toClient'[c], A)
      /\ \A A : News(c) \in A => Has(q, A)
      /\ \A A, B : NoneAfter(q, A, B) => /\ NoneAfter(toClient'[c], A, B)
                                         /\ News(c) \in A => ~ Has(toClient'[c], B)
  <2> DEFINE h == Head(q)
             r == Tail(q)
  <2>1. /\ \A A : Has(r, A) => Has(q, A)
        /\ \A A : Has(q, A) /\ h \notin A => Has(r, A)
        /\ \A A : h \in A => Has(q, A)
        /\ \A A, B : NoneAfter(q, A, B) => NoneAfter(r, A, B) /\ (h \in A => ~ Has(r, B))
    BY <1>3
  <2>2. News(c) = h /\ toClient'[c] = r
    BY <1>1
  <2> HIDE DEF h, r
  <2> QED BY <2>1, <2>2
<1> QED BY <1>4, <1>5 DEF q

LEMMA Sent ==
    ASSUME Types, NEW c \in Clients, NEW m \in Seq(ToServer), Send(c, m)
    PROVE  /\ toServer' \in [Clients -> Seq(ToServer)] /\ toServer'[c] = toServer[c] \o m
           /\ \A d \in Clients : d # c => toServer'[d] = toServer[d]
<1>1. toServer \in [Clients -> Seq(ToServer)]
  BY DEF Types
<1>2. toServer[c] \o m \in Seq(ToServer)
  BY <1>1
<1> QED BY <1>1, <1>2 DEF Send

(* A key or a question heard, and answered. *)
LEMMA HandshakeHeard ==
    ASSUME Inv, NEW c \in Clients, NEW t \in {"sync", "challenge", "askdigest"}, Hear(c, t),
           toServer' \in [Clients -> Seq(ToServer)],
           \A d \in Clients : d # c => toServer'[d] = toServer[d] /\ client'[d] = client[d],
           client' \in [Clients -> [key : 0 .. 3, received : BOOLEAN, ok : BOOLEAN,
                                    asked : BOOLEAN, configured : BOOLEAN,
                                    announced : BOOLEAN]],
           client'[c].received = client[c].received, client'[c].ok = client[c].ok,
           client'[c].asked = client[c].asked, client'[c].configured = client[c].configured,
           client'[c].announced = client[c].announced,
           UNCHANGED failed,
           Talk(c)', ~ Settled(c)', toServer'[c] # <<Au>>, toServer'[c] # <<Rd>>
    PROVE  Inv'
<1>0. /\ Types /\ Marks /\ Inside /\ Listed(c) /\ Good(c)
      /\ News(c) \in Of(t)
      /\ UNCHANGED <<conn, lastSeed, svKey, hasState, accepted, ready, events, delayed,
                     handling, releasing, validating, passed, identified, refused, dropped, lost,
                     fault, secrets, roundEnds>>
      /\ toClient' \in [Clients -> Seq(ToClient)]
      /\ \A d \in Clients : d # c => toClient'[d] = toClient[d]
  BY Heard
<1>1. Talk(c) /\ Results(c) /\ Serve(c) /\ SecretsOK(c) /\ Posts(c) /\ Admit(c)
  BY <1>0 DEF Good
<1>2. News(c) \in Core /\ News(c) \notin Of("refuse")
  BY <1>0 DEF Of, Core
<1>3. /\ \A A : Has(toClient'[c], A) => Has(toClient[c], A)
      /\ \A A : Has(toClient[c], A) /\ News(c) \notin A => Has(toClient'[c], A)
      /\ \A A, B : NoneAfter(toClient[c], A, B) => NoneAfter(toClient'[c], A, B)
      /\ OnWay(c) # <<>>
  BY <1>2, HeardQueue
<1>4. ~ Settled(c) /\ ~ Served(c)
  BY <1>1, <1>3 DEF Settled, Results, Serve
<1>5. Types'
  BY <1>0 DEF Types, Listed
<1>6. Marks' /\ Inside'
  BY <1>0, MarksSame, InsideSame
<1>7. \A d \in Clients : d # c => Same(d) /\ EventsKept(d) /\ DelayedKept(d)
  BY <1>0, EventsSame DEF Same, DelayedKept
<1>8. Results(c)'
  BY <1>0, <1>1, <1>2, <1>3, <1>4 DEF Results
<1>9. Serve(c)'
  <2>1. ~ Served(c)'
    BY <1>0, <1>3, <1>4 DEF Served
  <2> QED BY <2>1 DEF Serve
<1>10. SecretsOK(c)'
  BY <1>0, <1>1, <1>3 DEF SecretsOK
<1>11. Posts(c)'
  BY <1>0, <1>1, <1>3 DEF Posts
<1>12. Admit(c)'
  BY <1>0, <1>1 DEF Admit, StateLost
<1>13. Good(c)'
  BY <1>0, <1>8, <1>9, <1>10, <1>11, <1>12 DEF Good, Listed
<1> QED BY <1>5, <1>6, <1>7, <1>13, Assemble

(* What is at the front of the handshake, and how it is answered. *)
LEMMA FrontIs ==
    ASSUME Inv, NEW c \in Clients, NEW t \in {"sync", "challenge", "askdigest", "accept"},
           Hear(c, t)
    PROVE  LET s == lastSeed[c]
               k == client[c].key
               v == svKey[c]
               C == OnWay(c)'
               Q == toServer[c]
           IN /\ OnWay(c) # <<>> /\ News(c) = Head(OnWay(c)) /\ C = Tail(OnWay(c))
              /\ t = "sync" => \E n \in 1 .. 3 : /\ News(c) = KeySync(n) /\ C # <<>>
                                                 /\ Shape(s, n, C, Q \o <<Ack(n)>>)
                                                 /\ Vouch(s, v, C, Q \o <<Ack(n)>>)
              /\ t = "challenge" => /\ s = 1 /\ k = 1
                                    /\ Shape(s, k, C, Q \o <<St, Au>>)
                                    /\ Vouch(s, v, C, Q \o <<St, Au>>)
              /\ t = "askdigest" => /\ s = 2 /\ k = 2
                                    /\ Shape(s, k, C, Q \o <<Dg>>)
                                    /\ Vouch(s, v, C, Q \o <<Dg>>)
              /\ t = "accept" => /\ s = 3 /\ C = <<>> /\ Shape(s, k, C, Q) /\ Vouch(s, v, C, Q)
                                 /\ Q = <<Ack(3)>> \/ Q = <<>>
<1> DEFINE s == lastSeed[c]
           k == client[c].key
           v == svKey[c]
           O == OnWay(c)
           Q == toServer[c]
           h == News(c)
<1>1. h \in Of(t) /\ Good(c) /\ Listed(c)
  BY Heard
<1>2. h \in Core
  BY <1>1 DEF Of, Core
<1>3. O # <<>> /\ h = Head(O) /\ OnWay(c)' = Tail(O)
  BY <1>2, HeardQueue
<1>4. Shape(s, k, O, Q) /\ Vouch(s, v, O, Q)
  BY <1>1 DEF Good, Talk
<1>5. h.type = t
  BY <1>1 DEF Of
<1> HIDE DEF s, k, v, O, Q, h
<1>6. \/ \E n \in 1 .. 3 : /\ Head(O) = KeySync(n)
                           /\ Shape(s, n, Tail(O), Q \o <<Ack(n)>>)
                           /\ Vouch(s, v, Tail(O), Q \o <<Ack(n)>>)
      \/ /\ Head(O) = Ch /\ s = 1 /\ k = 1 /\ Tail(O) = <<>>
         /\ Shape(s, k, Tail(O), Q \o <<St, Au>>)
         /\ Vouch(s, v, Tail(O), Q \o <<St, Au>>)
      \/ /\ Head(O) = Ask /\ s = 2 /\ k = 2 /\ Tail(O) = <<>>
         /\ Shape(s, k, Tail(O), Q \o <<Dg>>)
         /\ Vouch(s, v, Tail(O), Q \o <<Dg>>)
      \/ /\ Head(O) = Acc /\ s = 3 /\ k = 3 /\ Tail(O) = <<>>
         /\ Shape(s, k, Tail(O), Q)
         /\ Vouch(s, v, Tail(O), Q)
  BY <1>3, <1>4, ShapeHeard
<1>7. t = "sync" => Tail(O) # <<>>
  BY <1>3, <1>4, <1>5, ShapeSync
<1>8. Head(O) = Acc => Q = <<Ack(3)>> \/ Q = <<>>
  BY <1>3, <1>4, ShapeAccepted
<1>9. /\ \A n : KeySync(n).type = "sync"
      /\ Ch.type = "challenge" /\ Ask.type = "askdigest" /\ Acc.type = "accept"
  BY MessagesAre
<1>10. Head(O).type = t
  BY <1>3, <1>5
<1>a. t = "sync" => \E n \in 1 .. 3 : /\ Head(O) = KeySync(n)
                                      /\ Shape(s, n, Tail(O), Q \o <<Ack(n)>>)
                                      /\ Vouch(s, v, Tail(O), Q \o <<Ack(n)>>)
  BY <1>6, <1>9, <1>10
<1>b. t = "challenge" => /\ s = 1 /\ k = 1
                         /\ Shape(s, k, Tail(O), Q \o <<St, Au>>)
                         /\ Vouch(s, v, Tail(O), Q \o <<St, Au>>)
  BY <1>6, <1>9, <1>10
<1>c. t = "askdigest" => /\ s = 2 /\ k = 2
                         /\ Shape(s, k, Tail(O), Q \o <<Dg>>)
                         /\ Vouch(s, v, Tail(O), Q \o <<Dg>>)
  BY <1>6, <1>9, <1>10
<1>d. t = "accept" => /\ Head(O) = Acc /\ s = 3 /\ Tail(O) = <<>>
                      /\ Shape(s, k, Tail(O), Q)
                      /\ Vouch(s, v, Tail(O), Q)
  BY <1>6, <1>9, <1>10
<1>e. /\ O # <<>> /\ h = Head(O) /\ OnWay(c)' = Tail(O)
      /\ t = "sync" => \E n \in 1 .. 3 : /\ h = KeySync(n) /\ OnWay(c)' # <<>>
                                         /\ Shape(s, n, OnWay(c)', Q \o <<Ack(n)>>)
                                         /\ Vouch(s, v, OnWay(c)', Q \o <<Ack(n)>>)
      /\ t = "challenge" => /\ s = 1 /\ k = 1
                            /\ Shape(s, k, OnWay(c)', Q \o <<St, Au>>)
                            /\ Vouch(s, v, OnWay(c)', Q \o <<St, Au>>)
      /\ t = "askdigest" => /\ s = 2 /\ k = 2
                            /\ Shape(s, k, OnWay(c)', Q \o <<Dg>>)
                            /\ Vouch(s, v, OnWay(c)', Q \o <<Dg>>)
      /\ t = "accept" => /\ s = 3 /\ OnWay(c)' = <<>> /\ Shape(s, k, OnWay(c)', Q)
                         /\ Vouch(s, v, OnWay(c)', Q)
                         /\ Q = <<Ack(3)>> \/ Q = <<>>
  BY <1>3, <1>7, <1>8, <1>a, <1>b, <1>c, <1>d
<1> QED BY <1>e, Zenon DEF s, k, v, O, Q, h

LEMMA HearKeyKeeps == ASSUME Inv, NEW c \in Clients, HearKey(c) PROVE Inv'
<1> DEFINE Q == toServer[c]
<1>0. Hear(c, "sync") /\ UNCHANGED failed /\ Types
  BY DEF HearKey, Inv
<1>1. PICK n \in 1 .. 3 : /\ News(c) = KeySync(n) /\ OnWay(c)' # <<>>
                          /\ Shape(lastSeed[c], n, OnWay(c)', Q \o <<Ack(n)>>)
                          /\ Vouch(lastSeed[c], svKey[c], OnWay(c)', Q \o <<Ack(n)>>)
  BY <1>0, FrontIs
<1>2. News(c).key = n
  BY <1>1, MessagesAre
<1>3. client' = [client EXCEPT ![c].key = n] /\ Send(c, <<Ack(n)>>)
  BY <1>2 DEF HearKey, Ack
<1>4. /\ client' \in [Clients -> [key : 0 .. 3, received : BOOLEAN, ok : BOOLEAN,
                                  asked : BOOLEAN, configured : BOOLEAN,
                                  announced : BOOLEAN]]
      /\ \A d \in Clients : d # c => client'[d] = client[d]
      /\ client'[c].received = client[c].received /\ client'[c].ok = client[c].ok
      /\ client'[c].asked = client[c].asked /\ client'[c].configured = client[c].configured
      /\ client'[c].announced = client[c].announced /\ client'[c].key = n
  <2>1. client \in [Clients -> [key : 0 .. 3, received : BOOLEAN, ok : BOOLEAN,
                                asked : BOOLEAN, configured : BOOLEAN,
                                announced : BOOLEAN]]
    BY <1>0 DEF Types
  <2>2. n \in 0 .. 3
    OBVIOUS
  <2> QED BY <1>3, <2>1, <2>2
<1>5. /\ toServer' \in [Clients -> Seq(ToServer)] /\ toServer'[c] = Q \o <<Ack(n)>>
      /\ \A d \in Clients : d # c => toServer'[d] = toServer[d]
  <2>1. Ack(n) \in ToServer
    BY DEF Ack, ToServer, Messages, ToServerTypes
  <2>2. <<Ack(n)>> \in Seq(ToServer)
    BY <2>1
  <2> QED BY <1>0, <1>3, <2>2, Sent
<1>6. lastSeed' = lastSeed /\ svKey' = svKey
  BY <1>0, Heard
<1>7. Talk(c)'
  BY <1>1, <1>4, <1>5, <1>6 DEF Talk
<1>8. ~ Settled(c)'
  BY <1>1 DEF Settled
<1>9. toServer'[c] # <<Au>> /\ toServer'[c] # <<Rd>>
  BY <1>1, <1>5, ShapeReady, ShapeAuth
<1> HIDE DEF Q
<1> QED BY <1>0, <1>4, <1>5, <1>7, <1>8, <1>9, HandshakeHeard

LEMMA HearChallengeKeeps == ASSUME Inv, NEW c \in Clients, HearChallenge(c) PROVE Inv'
<1> DEFINE Q == toServer[c]
<1>0. Hear(c, "challenge") /\ UNCHANGED <<client, failed>> /\ Types
  BY DEF HearChallenge, Inv
<1>1. /\ lastSeed[c] = 1 /\ client[c].key = 1
      /\ Shape(1, 1, OnWay(c)', Q \o <<St, Au>>)
      /\ Vouch(1, svKey[c], OnWay(c)', Q \o <<St, Au>>)
  BY <1>0, FrontIs
<1>2. Send(c, <<St, Au>>)
  BY <1>1 DEF HearChallenge, St, Au
<1>3. St \in ToServer /\ Au \in ToServer
  BY DEF St, Au, Secret, ToServer, Messages, ToServerTypes, SecretToServer
<1>4. /\ toServer' \in [Clients -> Seq(ToServer)] /\ toServer'[c] = Q \o <<St, Au>>
      /\ \A d \in Clients : d # c => toServer'[d] = toServer[d]
  <2>1. <<St, Au>> \in Seq(ToServer)
    BY <1>3
  <2> QED BY <1>0, <1>2, <2>1, Sent
<1>5. lastSeed' = lastSeed /\ svKey' = svKey
  BY <1>0, Heard
<1>6. Talk(c)'
  BY <1>0, <1>1, <1>4, <1>5 DEF Talk
<1>7. ~ Settled(c)'
  BY <1>1, <1>5 DEF Settled
<1>8. toServer'[c] # <<Rd>>
  <2>1. Shape(1, 1, OnWay(c)', toServer'[c]) /\ 1 # 3
    BY <1>1, <1>4
  <2> QED BY <2>1, ShapeReady
<1>9. toServer'[c] # <<Au>>
  <2> DEFINE r == Q \o <<St, Au>>
  <2>1. Q \in Seq(ToServer)
    BY <1>0 DEF Types
  <2>2. Len(r) = Len(Q) + 2 /\ Len(Q) \in Nat
    BY <1>3, <2>1
  <2>3. Len(r) # 1
    BY <2>2
  <2>4. Len(<<Au>>) = 1
    OBVIOUS
  <2> HIDE DEF r
  <2>5. r # <<Au>>
    BY <2>3, <2>4, Zenon
  <2> QED BY <1>4, <2>5 DEF r
<1>10. client \in [Clients -> [key : 0 .. 3, received : BOOLEAN, ok : BOOLEAN, asked : BOOLEAN,
                               configured : BOOLEAN, announced : BOOLEAN]]
  BY <1>0 DEF Types
<1> HIDE DEF Q
<1> QED BY <1>0, <1>4, <1>6, <1>7, <1>8, <1>9, <1>10, HandshakeHeard

LEMMA HearDigestRequestKeeps == ASSUME Inv, NEW c \in Clients, HearDigestRequest(c) PROVE Inv'
<1> DEFINE Q == toServer[c]
<1>0. Hear(c, "askdigest") /\ UNCHANGED <<client, failed>> /\ Types
  BY DEF HearDigestRequest, Inv
<1>1. /\ lastSeed[c] = 2 /\ client[c].key = 2
      /\ Shape(2, 2, OnWay(c)', Q \o <<Dg>>)
      /\ Vouch(2, svKey[c], OnWay(c)', Q \o <<Dg>>)
  BY <1>0, FrontIs
<1>2. Send(c, <<Dg>>)
  BY <1>1 DEF HearDigestRequest, Dg
<1>4. /\ toServer' \in [Clients -> Seq(ToServer)] /\ toServer'[c] = Q \o <<Dg>>
      /\ \A d \in Clients : d # c => toServer'[d] = toServer[d]
  <2>1. Dg \in ToServer
    BY DEF Dg, Secret, ToServer, Messages, ToServerTypes, SecretToServer
  <2>2. <<Dg>> \in Seq(ToServer)
    BY <2>1
  <2> QED BY <1>0, <1>2, <2>2, Sent
<1>5. lastSeed' = lastSeed /\ svKey' = svKey
  BY <1>0, Heard
<1>6. Talk(c)'
  BY <1>0, <1>1, <1>4, <1>5 DEF Talk
<1>7. ~ Settled(c)'
  BY <1>1, <1>5 DEF Settled
<1>8. toServer'[c] # <<Rd>> /\ toServer'[c] # <<Au>>
  <2>1. Shape(2, 2, OnWay(c)', toServer'[c]) /\ 2 # 3 /\ 2 # 1
    BY <1>1, <1>4
  <2> QED BY <2>1, ShapeReady, ShapeAuth
<1>9. client \in [Clients -> [key : 0 .. 3, received : BOOLEAN, ok : BOOLEAN, asked : BOOLEAN,
                              configured : BOOLEAN, announced : BOOLEAN]]
  BY <1>0 DEF Types
<1> HIDE DEF Q
<1> QED BY <1>0, <1>4, <1>6, <1>7, <1>8, <1>9, HandshakeHeard

ClientTypes == [Clients -> [key : 0 .. 3, received : BOOLEAN, ok : BOOLEAN, asked : BOOLEAN,
                            configured : BOOLEAN, announced : BOOLEAN]]

LEMMA HearResultKeeps == ASSUME Inv, NEW c \in Clients, HearResult(c) PROVE Inv'
<1>1. PICK t \in {"accept", "refuse"} :
         /\ Hear(c, t)
         /\ client' = [client EXCEPT ![c].received = TRUE,
                                     ![c].ok = ResultIsBoth(@, t = "accept")]
         /\ UNCHANGED <<toServer, failed>>
  BY DEF HearResult
<1>0. /\ Types /\ Marks /\ Inside /\ Listed(c) /\ Good(c)
      /\ News(c) \in Of(t)
      /\ UNCHANGED <<conn, lastSeed, svKey, hasState, accepted, ready, events, delayed,
                     handling, releasing, validating, passed, identified, refused, dropped, lost,
                     fault, secrets, roundEnds>>
      /\ toClient' \in [Clients -> Seq(ToClient)]
      /\ \A d \in Clients : d # c => toClient'[d] = toClient[d]
  BY <1>1, Heard
<1>2. Talk(c) /\ Results(c) /\ Serve(c) /\ SecretsOK(c) /\ Posts(c) /\ Admit(c)
  BY <1>0 DEF Good
<1>3. client \in ClientTypes
  BY <1>0 DEF Types, ClientTypes
<1>4. /\ client' \in ClientTypes
      /\ \A d \in Clients : d # c => client'[d] = client[d]
      /\ client'[c].received /\ client'[c].asked = client[c].asked
      /\ client'[c].ok = (client[c].ok /\ t = "accept")
      /\ client'[c].configured = client[c].configured
      /\ client'[c].announced = client[c].announced /\ client'[c].key = client[c].key
  BY <1>1, <1>3 DEF ClientTypes, ResultIsBoth
<1>5. /\ \A A : Has(toClient'[c], A) => Has(toClient[c], A)
      /\ \A A : Has(toClient[c], A) /\ News(c) \notin A => Has(toClient'[c], A)
      /\ \A A : News(c) \in A => Has(toClient[c], A)
      /\ \A A, B : NoneAfter(toClient[c], A, B) =>
                      /\ NoneAfter(toClient'[c], A, B)
                      /\ News(c) \in A => ~ Has(toClient'[c], B)
      /\ News(c) \notin Core => OnWay(c)' = OnWay(c)
  BY <1>1, HeardQueue
<1>6. Types'
  BY <1>0, <1>1, <1>4 DEF Types, Listed, ClientTypes
<1>7. Marks' /\ Inside'
  BY <1>0, <1>1, MarksSame, InsideSame
<1>8. \A d \in Clients : d # c => Same(d) /\ EventsKept(d) /\ DelayedKept(d)
  BY <1>0, <1>1, <1>4, EventsSame DEF Same, DelayedKept
<1>9. SecretsOK(c)'
  BY <1>0, <1>2, <1>5 DEF SecretsOK
<1>10. Served(c)' => Served(c)
  BY <1>0, <1>4, <1>5 DEF Served
<1>11. CASE t = "accept"
  <2>1. /\ OnWay(c) # <<>> /\ lastSeed[c] = 3 /\ OnWay(c)' = <<>>
        /\ Shape(3, client[c].key, <<>>, toServer[c])
        /\ Vouch(3, svKey[c], <<>>, toServer[c])
        /\ toServer[c] = <<Ack(3)>> \/ toServer[c] = <<>>
    BY <1>1, <1>11, FrontIs
  <2>2. Talk(c)'
    BY <1>0, <1>1, <1>4, <2>1 DEF Talk
  <2>3. Settled(c)' /\ ~ Settled(c)
    BY <1>0, <2>1 DEF Settled
  <2>4. ~ Has(toClient'[c], Of("refuse"))
    BY <1>0, <1>2, <1>5, <1>11 DEF Results
  <2>5. c \in refused => ~ client'[c].ok
    <3>1. News(c) \notin Of("refuse")
      BY <1>0, <1>11 DEF Of
    <3> QED BY <1>2, <1>4, <1>5, <2>4, <3>1 DEF Results
  <2>6. ~ client[c].asked
    BY <1>2, <2>3 DEF Results
  <2>7. NoneAfter(toClient'[c], Of("accept"), Of("refuse"))
    BY <1>2, <1>5 DEF Results
  <2>8. Results(c)'
    BY <1>0, <1>4, <2>3, <2>4, <2>5, <2>6, <2>7 DEF Results
  <2>9. Serve(c)'
    <3>1. ~ Served(c)'
      BY <1>2, <1>10, <2>6 DEF Serve
    <3>2. toServer[c] # <<Rd>>
      BY <2>1, TuplesAre, MessagesAre
    <3> QED BY <1>1, <2>1, <3>1, <3>2 DEF Serve
  <2>10. Posts(c)'
    <3>1. ~ Has(events, About("auth", c))
      BY <1>2, <2>1 DEF Posts
    <3> QED BY <1>0, <1>2, <3>1 DEF Posts
  <2>11. Admit(c)'
    BY <1>0, <1>1, <1>2 DEF Admit, StateLost
  <2>12. Good(c)'
    BY <1>0, <1>9, <2>2, <2>8, <2>9, <2>10, <2>11 DEF Good, Listed
  <2> QED BY <1>6, <1>7, <1>8, <2>12, Assemble
<1>12. CASE t = "refuse"
  <2>1. News(c) \notin Core /\ Has(toClient[c], Of("refuse"))
    BY <1>0, <1>5, <1>12 DEF Of, Core
  <2>2. OnWay(c)' = OnWay(c) /\ (Settled(c)' <=> Settled(c)) /\ ~ Settled(c)
    BY <1>0, <1>2, <1>5, <2>1 DEF Settled, Results
  <2>3. ~ client[c].asked /\ ~ client'[c].ok
    BY <1>2, <1>4, <1>12, <2>2 DEF Results
  <2>4. Talk(c)'
    BY <1>0, <1>1, <1>2, <1>4, <2>2 DEF Talk
  <2>5. NoneAfter(toClient'[c], Of("accept"), Of("refuse"))
    BY <1>2, <1>5 DEF Results
  <2>6. Results(c)'
    BY <1>4, <2>2, <2>3, <2>5 DEF Results
  <2>7. Serve(c)'
    BY <1>1, <1>2, <1>4, <1>10, <2>2, <2>3 DEF Serve
  <2>8. Posts(c)' /\ Admit(c)'
    BY <1>0, <1>1, <1>2, <2>2 DEF Posts, Admit, StateLost
  <2>9. Good(c)'
    BY <1>0, <1>9, <2>4, <2>6, <2>7, <2>8 DEF Good, Listed
  <2> QED BY <1>6, <1>7, <1>8, <2>9, Assemble
<1> QED BY <1>1, <1>11, <1>12

LEMMA HearConfigKeeps == ASSUME Inv, NEW c \in Clients, HearConfig(c) PROVE Inv'
<1>1. /\ Hear(c, "config") /\ client' = [client EXCEPT ![c].configured = TRUE]
      /\ UNCHANGED <<toServer, failed>>
  BY DEF HearConfig
<1>0. /\ Types /\ Marks /\ Inside /\ Listed(c) /\ Good(c)
      /\ News(c) \in Of("config")
      /\ UNCHANGED <<conn, lastSeed, svKey, hasState, accepted, ready, events, delayed,
                     handling, releasing, validating, passed, identified, refused, dropped, lost,
                     fault, secrets, roundEnds>>
      /\ toClient' \in [Clients -> Seq(ToClient)]
      /\ \A d \in Clients : d # c => toClient'[d] = toClient[d]
  BY <1>1, Heard
<1>2. Talk(c) /\ Results(c) /\ Serve(c) /\ SecretsOK(c) /\ Posts(c) /\ Admit(c)
  BY <1>0 DEF Good
<1>3. client \in ClientTypes
  BY <1>0 DEF Types, ClientTypes
<1>4. /\ client' \in ClientTypes
      /\ \A d \in Clients : d # c => client'[d] = client[d]
      /\ client'[c].received = client[c].received /\ client'[c].asked = client[c].asked
      /\ client'[c].ok = client[c].ok
      /\ client'[c].announced = client[c].announced /\ client'[c].key = client[c].key
  BY <1>1, <1>3 DEF ClientTypes
<1>n. News(c) \notin Core /\ News(c) \notin Of("refuse")
  BY <1>0 DEF Of, Core
<1>5. /\ \A A : Has(toClient'[c], A) => Has(toClient[c], A)
      /\ \A A : Has(toClient[c], A) /\ News(c) \notin A => Has(toClient'[c], A)
      /\ \A A : News(c) \in A => Has(toClient[c], A)
      /\ \A A, B : NoneAfter(toClient[c], A, B) => NoneAfter(toClient'[c], A, B)
      /\ OnWay(c)' = OnWay(c)
  BY <1>1, <1>n, HeardQueue
<1>6. Types'
  BY <1>0, <1>1, <1>4 DEF Types, Listed, ClientTypes
<1>7. Marks' /\ Inside'
  BY <1>0, <1>1, MarksSame, InsideSame
<1>8. \A d \in Clients : d # c => Same(d) /\ EventsKept(d) /\ DelayedKept(d)
  BY <1>0, <1>1, <1>4, EventsSame DEF Same, DelayedKept
<1>9. SecretsOK(c)'
  BY <1>0, <1>2, <1>5 DEF SecretsOK
<1>10. Served(c)
  BY <1>0, <1>5 DEF Served
<1>11. Settled(c)' <=> Settled(c)
  BY <1>0, <1>5 DEF Settled
<1>12. Talk(c)'
  BY <1>0, <1>1, <1>2, <1>4, <1>5 DEF Talk
<1>13. Results(c)'
  BY <1>0, <1>2, <1>4, <1>5, <1>n, <1>11 DEF Results
<1>14. Serve(c)'
  BY <1>1, <1>2, <1>4, <1>10, <1>11 DEF Serve
<1>15. Posts(c)' /\ Admit(c)'
  BY <1>0, <1>1, <1>2, <1>5 DEF Posts, Admit, StateLost
<1>16. Good(c)'
  BY <1>0, <1>9, <1>12, <1>13, <1>14, <1>15 DEF Good, Listed
<1> QED BY <1>6, <1>7, <1>8, <1>16, Assemble

LEMMA HearSecretKeeps == ASSUME Inv, NEW c \in Clients, HearSecret(c) PROVE Inv'
<1>1. /\ Hear(c, "secret") /\ UNCHANGED <<client, toServer>>
      /\ failed' = IF Reads(client[c].key, News(c)) THEN failed
                   ELSE failed \cup {"client checksum"}
  BY DEF HearSecret
<1>0. /\ Types /\ Marks /\ Inside /\ Listed(c) /\ Good(c)
      /\ News(c) \in Of("secret")
      /\ UNCHANGED <<conn, lastSeed, svKey, hasState, accepted, ready, events, delayed,
                     handling, releasing, validating, passed, identified, refused, dropped, lost,
                     fault, secrets, roundEnds>>
      /\ toClient' \in [Clients -> Seq(ToClient)]
      /\ \A d \in Clients : d # c => toClient'[d] = toClient[d]
  BY <1>1, Heard
<1>2. Talk(c) /\ Results(c) /\ Serve(c) /\ SecretsOK(c) /\ Posts(c) /\ Admit(c)
  BY <1>0 DEF Good
<1>n. News(c) \notin Core /\ News(c) \notin Of("refuse")
  BY <1>0 DEF Of, Core
<1>5. /\ \A A : Has(toClient'[c], A) => Has(toClient[c], A)
      /\ \A A : Has(toClient[c], A) /\ News(c) \notin A => Has(toClient'[c], A)
      /\ \A A : News(c) \in A => Has(toClient[c], A)
      /\ \A A, B : NoneAfter(toClient[c], A, B) => NoneAfter(toClient'[c], A, B)
      /\ OnWay(c)' = OnWay(c)
  BY <1>1, <1>n, HeardQueue
<1>6. Types'
  BY <1>0, <1>1 DEF Types, Listed
<1>7. ~ EarlySecrets => failed' = failed
  <2> SUFFICES ASSUME ~ EarlySecrets PROVE Reads(client[c].key, News(c))
    BY <1>1
  <2>1. c \in ready /\ ~ Has(toClient[c], BadSecrets)
    BY <1>0, <1>2, <1>5 DEF SecretsOK
  <2>2. Settled(c)
    BY <1>2, <2>1 DEF Serve, Results, Served
  <2>3. client[c].key = 3
    BY <1>2, <2>2, ShapeKeys DEF Talk, Settled
  <2>4. News(c).key = 3
    <3>1. News(c) \notin BadSecrets
      BY <1>5, <2>1
    <3> QED BY <1>0, <3>1 DEF Of, BadSecrets
  <2> QED BY <2>3, <2>4 DEF Reads, Uninitialized
<1>8. Marks' /\ Inside'
  BY <1>0, <1>1, <1>7 DEF Marks, Inside, KeysAgree, OnlyTheAdmitted, AcceptedWereChecked,
                          RefusedStayOut, AcceptedHaveState
<1>9. \A d \in Clients : d # c => Same(d) /\ EventsKept(d) /\ DelayedKept(d)
  BY <1>0, <1>1, EventsSame DEF Same, DelayedKept
<1>10. SecretsOK(c)'
  BY <1>0, <1>2, <1>5 DEF SecretsOK
<1>11. Settled(c)' <=> Settled(c)
  BY <1>0, <1>5 DEF Settled
<1>12. Talk(c)'
  BY <1>0, <1>1, <1>2, <1>5 DEF Talk
<1>13. Results(c)'
  BY <1>0, <1>1, <1>2, <1>5, <1>n, <1>11 DEF Results
<1>14. Serve(c)'
  <2>1. Served(c)' => Served(c)
    BY <1>0, <1>1, <1>5 DEF Served
  <2> QED BY <1>1, <1>2, <1>11, <2>1 DEF Serve
<1>15. Posts(c)' /\ Admit(c)'
  BY <1>0, <1>1, <1>2, <1>5 DEF Posts, Admit, StateLost
<1>16. Good(c)'
  BY <1>0, <1>10, <1>12, <1>13, <1>14, <1>15 DEF Good, Listed
<1> QED BY <1>6, <1>8, <1>9, <1>16, Assemble

(* A step the client takes by itself. *)
LEMMA Stepped ==
    ASSUME Inv, NEW c \in Clients, ClientStep(c),
           toServer' \in [Clients -> Seq(ToServer)], client' \in ClientTypes,
           \A d \in Clients : d # c => toServer'[d] = toServer[d] /\ client'[d] = client[d],
           Talk(c)', Results(c)', Serve(c)', Posts(c)', Admit(c)'
    PROVE  Inv'
<1>1. Listed(c) /\ UNCHANGED <<conn, lastSeed, svKey, hasState, accepted, ready, toClient,
                               events, delayed, handling, releasing, validating, passed,
                               identified, refused, dropped, lost, failed, fault, secrets,
                               roundEnds>>
  BY DEF ClientStep, ClientRuns, serverVars, gameThread, history, bounds
<1>2. Types /\ Marks /\ Inside /\ SecretsOK(c)
  BY <1>1 DEF Inv, Good
<1>3. Types'
  BY <1>1, <1>2 DEF Types, Listed, ClientTypes
<1>4. Marks' /\ Inside'
  BY <1>1, <1>2, MarksSame, InsideSame
<1>5. \A d \in Clients : d # c => Same(d) /\ EventsKept(d) /\ DelayedKept(d)
  BY <1>1, EventsSame DEF Same, DelayedKept
<1>6. SecretsOK(c)'
  BY <1>1, <1>2 DEF SecretsOK
<1>7. Good(c)'
  BY <1>1, <1>6 DEF Good, Listed
<1> QED BY <1>3, <1>4, <1>5, <1>7, Assemble

LEMMA StepTaken ==
    ASSUME Inv, NEW c \in Clients, ClientStep(c)
    PROVE  /\ Types /\ client \in ClientTypes /\ toServer[c] \in Seq(ToServer)
           /\ Talk(c) /\ Results(c) /\ Serve(c) /\ Posts(c) /\ Admit(c)
           /\ UNCHANGED <<lastSeed, svKey, hasState, accepted, ready, toClient, events, delayed,
                          validating, passed, identified, refused, lost>>
           /\ OnWay(c)' = OnWay(c)
<1>1. Listed(c) /\ UNCHANGED <<lastSeed, svKey, hasState, accepted, ready, toClient, events,
                               delayed, validating, passed, identified, refused, lost>>
  BY DEF ClientStep, ClientRuns, serverVars, gameThread, history, bounds
<1>2. Types /\ Good(c)
  BY DEF Inv
<1>3. client \in ClientTypes /\ toServer[c] \in Seq(ToServer)
  BY <1>2 DEF Types, ClientTypes
<1> QED BY <1>1, <1>2, <1>3 DEF Good, OnWay

LEMMA TimeOutKeeps == ASSUME Inv, NEW c \in Clients, TimeOut(c) PROVE Inv'
<1>0. /\ ClientStep(c) /\ UNCHANGED toServer
      /\ client' = [client EXCEPT ![c].received = TRUE, ![c].ok = FALSE]
  BY DEF TimeOut
<1>1. /\ Types /\ client \in ClientTypes
      /\ Talk(c) /\ Results(c) /\ Serve(c) /\ Posts(c) /\ Admit(c)
      /\ UNCHANGED <<lastSeed, svKey, hasState, accepted, ready, toClient, events, delayed,
                     validating, passed, identified, refused, lost>>
      /\ OnWay(c)' = OnWay(c)
  BY <1>0, StepTaken
<1>2. /\ client' \in ClientTypes
      /\ \A d \in Clients : d # c => client'[d] = client[d]
      /\ client'[c].asked = client[c].asked /\ ~ client'[c].ok
      /\ client'[c].configured = client[c].configured
      /\ client'[c].announced = client[c].announced /\ client'[c].key = client[c].key
  BY <1>0, <1>1 DEF ClientTypes
<1>3. toServer' \in [Clients -> Seq(ToServer)]
  BY <1>0, <1>1 DEF Types
<1>4. Talk(c)' /\ Posts(c)' /\ Admit(c)'
  BY <1>0, <1>1, <1>2 DEF Talk, Posts, Admit, StateLost
<1>5. Settled(c)' <=> Settled(c)
  BY <1>1 DEF Settled
<1>6. Results(c)'
  BY <1>1, <1>2, <1>5 DEF Results
<1>7. Serve(c)'
  BY <1>0, <1>1, <1>2, <1>5 DEF Serve, Served
<1> QED BY <1>0, <1>2, <1>3, <1>4, <1>6, <1>7, Stepped

LEMMA RequestKeeps == ASSUME Inv, NEW c \in Clients, Request(c) PROVE Inv'
<1>0. /\ ClientStep(c) /\ Send(c, <<Rq>>)
      /\ client[c].received /\ client[c].ok /\ ~ client[c].asked
      /\ client' = [client EXCEPT ![c].asked = TRUE]
  BY DEF Request, Rq
<1>1. /\ Types /\ client \in ClientTypes
      /\ Talk(c) /\ Results(c) /\ Serve(c) /\ Posts(c) /\ Admit(c)
      /\ UNCHANGED <<lastSeed, svKey, hasState, accepted, ready, toClient, events, delayed,
                     validating, passed, identified, refused, lost>>
      /\ OnWay(c)' = OnWay(c)
  BY <1>0, StepTaken
<1>2. /\ client' \in ClientTypes
      /\ \A d \in Clients : d # c => client'[d] = client[d]
      /\ client'[c].asked /\ client'[c].ok /\ client'[c].received
      /\ client'[c].configured = client[c].configured
      /\ client'[c].announced = client[c].announced /\ client'[c].key = client[c].key
  BY <1>0, <1>1 DEF ClientTypes
<1>3. /\ toServer' \in [Clients -> Seq(ToServer)] /\ toServer'[c] = toServer[c] \o <<Rq>>
      /\ \A d \in Clients : d # c => toServer'[d] = toServer[d]
  <2>1. Rq \in ToServer
    BY DEF Rq, Plain, Uninitialized, ToServer, Messages, ToServerTypes
  <2>2. <<Rq>> \in Seq(ToServer)
    BY <2>1
  <2> QED BY <1>0, <1>1, <2>2, Sent
<1>4. Settled(c) /\ c \notin refused /\ lastSeed[c] = 3 /\ OnWay(c) = <<>>
  BY <1>0, <1>1 DEF Results, Settled
<1>5. toServer[c] = <<Ack(3)>> \/ toServer[c] = <<>>
  BY <1>0, <1>1, <1>4 DEF Serve
<1>6. toServer'[c] = <<Ack(3), Rq>> \/ toServer'[c] = <<Rq>>
  BY <1>3, <1>5, TuplesJoin
<1>7. toServer'[c] # <<Rd>> /\ toServer'[c] # <<Au>>
  BY <1>6, TuplesAre, MessagesAre
<1>8. Talk(c)'
  <2>1. Shape(3, client'[c].key, <<>>, toServer'[c])
    BY <1>1, <1>2, <1>4, <1>6, ShapeTold DEF Talk
  <2>2. Vouch(3, svKey[c], <<>>, toServer'[c])
    <3>1. CASE toServer[c] = <<>>
      <4>1. svKey[c] = 3
        BY <1>1, <1>4, <3>1 DEF Talk, Vouch
      <4> QED BY <4>1 DEF Vouch
    <3>2. CASE toServer[c] = <<Ack(3)>>
      <4>1. toServer'[c] = <<Ack(3), Rq>>
        BY <1>3, <3>2, TuplesJoin
      <4> QED BY <4>1, TuplesAre, MessagesAre DEF Vouch
    <3> QED BY <1>5, <3>1, <3>2
  <2> QED BY <1>1, <1>4, <2>1, <2>2 DEF Talk
<1>9. Results(c)'
  BY <1>1, <1>2, <1>4 DEF Results, Settled
<1>10. Serve(c)'
  <2>1. ~ Served(c)
    BY <1>0, <1>1 DEF Serve
  <2>2. ~ Served(c)'
    BY <1>1, <1>2, <2>1 DEF Served
  <2> QED BY <1>2, <1>7, <2>2 DEF Serve
<1>11. Posts(c)'
  <2>1. ~ Has(events, About("auth", c))
    BY <1>1, <1>4 DEF Posts
  <2> QED BY <1>1, <2>1 DEF Posts
<1>12. Admit(c)'
  BY <1>1, <1>7 DEF Admit, StateLost
<1> QED BY <1>0, <1>2, <1>3, <1>8, <1>9, <1>10, <1>11, <1>12, Stepped

LEMMA AnnounceKeeps == ASSUME Inv, NEW c \in Clients, Announce(c) PROVE Inv'
<1>0. /\ ClientStep(c) /\ Send(c, <<Rd>>)
      /\ client[c].configured /\ ~ client[c].announced
      /\ client' = [client EXCEPT ![c].announced = TRUE]
  BY DEF Announce, Rd
<1>1. /\ Types /\ client \in ClientTypes
      /\ Talk(c) /\ Results(c) /\ Serve(c) /\ Posts(c) /\ Admit(c)
      /\ UNCHANGED <<lastSeed, svKey, hasState, accepted, ready, toClient, events, delayed,
                     validating, passed, identified, refused, lost>>
      /\ OnWay(c)' = OnWay(c)
  BY <1>0, StepTaken
<1>2. /\ client' \in ClientTypes
      /\ \A d \in Clients : d # c => client'[d] = client[d]
      /\ client'[c].asked = client[c].asked /\ client'[c].ok = client[c].ok
      /\ client'[c].received = client[c].received
      /\ client'[c].announced /\ client'[c].key = client[c].key
  BY <1>0, <1>1 DEF ClientTypes
<1>3. /\ toServer' \in [Clients -> Seq(ToServer)] /\ toServer'[c] = toServer[c] \o <<Rd>>
      /\ \A d \in Clients : d # c => toServer'[d] = toServer[d]
  <2>1. Rd \in ToServer
    BY DEF Rd, Plain, Uninitialized, ToServer, Messages, ToServerTypes
  <2>2. <<Rd>> \in Seq(ToServer)
    BY <2>1
  <2> QED BY <1>0, <1>1, <2>2, Sent
<1>4. client[c].asked /\ toServer[c] = <<>>
  BY <1>0, <1>1 DEF Serve, Served
<1>5. Settled(c) /\ lastSeed[c] = 3 /\ OnWay(c) = <<>>
  BY <1>1, <1>4 DEF Results, Settled
<1>6. toServer'[c] = <<Rd>>
  BY <1>3, <1>4, TuplesJoin
<1>7. Talk(c)'
  <2>1. Shape(3, client'[c].key, <<>>, <<Rd>>)
    BY <1>1, <1>2, <1>4, <1>5, ShapeTold DEF Talk
  <2>2. svKey[c] = 3
    BY <1>1, <1>4, <1>5 DEF Talk, Vouch
  <2> QED BY <1>1, <1>5, <1>6, <2>1, <2>2 DEF Talk, Vouch
<1>8. Results(c)'
  BY <1>1, <1>2 DEF Results, Settled
<1>9. Serve(c)'
  BY <1>2, <1>4, <1>6 DEF Serve
<1>10. Posts(c)'
  <2>1. ~ Has(events, About("auth", c))
    BY <1>1, <1>5 DEF Posts
  <2> QED BY <1>1, <2>1 DEF Posts
<1>11. Admit(c)'
  <2>1. toServer'[c] # <<Au>>
    BY <1>6, TuplesAre, MessagesAre
  <2> QED BY <1>1, <2>1 DEF Admit, StateLost
<1> QED BY <1>0, <1>2, <1>3, <1>7, <1>8, <1>9, <1>10, <1>11, Stepped

-----------------------------------------------------------------------------
(* The theorems. *)

LEMMA StutterKeeps == ASSUME Inv, UNCHANGED vars PROVE Inv'
<1>1. UNCHANGED <<conn, lastSeed, svKey, hasState, accepted, ready, toClient, toServer, events,
                  delayed, handling, releasing, validating, client, passed, identified,
                  refused, dropped, lost, failed, fault, secrets, roundEnds>>
  BY DEF vars, serverVars, channels, gameThread, history, bounds
<1>2. Types' /\ Marks' /\ Inside'
  BY <1>1, MarksSame, InsideSame DEF Inv, Types, Listed
<1>3. \A d \in Clients : Same(d) /\ EventsKept(d) /\ DelayedKept(d)
  BY <1>1, EventsSame DEF Same, DelayedKept
<1> QED BY <1>2, <1>3, AllKeep

LEMMA NextKeepsInv == ASSUME Inv, [Next]_vars PROVE Inv'
<1>1. ASSUME NEW c \in Clients, OnMessage(c) PROVE Inv'
  BY <1>1, ReceiveAckKeeps, ReceiveEventKeeps, ReceiveDigestKeeps, ReceiveRequestKeeps,
     ReceiveReadyKeeps DEF OnMessage
<1>2. ASSUME NEW c \in Clients, Game(c) PROVE Inv'
  BY <1>2, HandleCreateKeeps, KeyValidatedKeeps, HandleStateKeeps, HandleAuthKeeps,
     BeginDelayedKeeps DEF Game
<1>3. ASSUME NEW c \in Clients, Client(c) PROVE Inv'
  BY <1>3, HearKeyKeeps, HearChallengeKeeps, HearDigestRequestKeeps, HearResultKeeps,
     HearConfigKeeps, HearSecretKeeps, RequestKeeps, AnnounceKeeps DEF Client
<1>4. ASSUME NEW c \in Clients, Join(c) \/ Leave(c) \/ Purge(c) \/ TimeOut(c) \/ SendSecret(c)
      PROVE  Inv'
  BY <1>4, JoinKeeps, LeaveKeeps, PurgeKeeps, TimeOutKeeps, SendSecretKeeps
<1>5. CASE EndDelayed
  BY <1>5, EndDelayedKeeps
<1>6. CASE ChangeRound
  BY <1>6, ChangeRoundKeeps
<1>7. CASE Release
  BY <1>7, ReleaseKeeps
<1>8. CASE UNCHANGED vars
  BY <1>8, StutterKeeps
<1> QED BY <1>1, <1>2, <1>3, <1>4, <1>5, <1>6, <1>7, <1>8 DEF Next

LEMMA InvHolds == Spec => []Inv
<1>1. Inv /\ [Next]_vars => Inv'
  BY NextKeepsInv
<1> QED BY <1>1, InitInv, PTL DEF Spec

LEMMA InvTypes == Inv => TypeOK
<1> SUFFICES ASSUME Types, Marks PROVE TypeOK
  BY DEF Inv
<1>1. ASSUME NEW c \in Clients
      PROVE  /\ \A i \in DOMAIN toClient[c] : toClient[c][i] \in Messages(ToClientTypes)
             /\ \A i \in DOMAIN toServer[c] : toServer[c][i] \in Messages(ToServerTypes)
  <2>1. toClient[c] \in Seq(ToClient) /\ toServer[c] \in Seq(ToServer)
    BY DEF Types
  <2>2. \A S : \A s \in Seq(S) : \A i \in DOMAIN s : s[i] \in S
    OBVIOUS
  <2> QED BY <2>1, <2>2 DEF ToClient, ToServer
<1>2. /\ \A i \in DOMAIN events : events[i] \in [kind : EventKinds, who : Clients]
      /\ \A i \in DOMAIN delayed : delayed[i] \in Clients
  <2>1. events \in Seq([kind : EventKinds, who : Clients]) /\ delayed \in Seq(Clients)
    BY DEF Types
  <2>2. \A S : \A s \in Seq(S) : \A i \in DOMAIN s : s[i] \in S
    OBVIOUS
  <2> QED BY <2>1, <2>2
<1>3. {lastSeed, svKey} \subseteq [Clients -> 0 .. 3]
  BY DEF Types
<1> QED BY <1>1, <1>2, <1>3 DEF Types, Marks, TypeOK

(* Every variable keeps its type: in particular the server never has more     *)
(* than three keys for a client, whoever is refused, leaves or asks twice,  *)
(* and the clients in the game are among those with a player state.         *)
THEOREM TypeCorrect == Spec => []TypeOK
BY InvHolds, InvTypes, PTL

(* However the renewals of the key overlap with the messages, each end reads  *)
(* every secret message of the other, if the server sends its own only to   *)
(* players in the game.                                                     *)
THEOREM KeysAlwaysAgree == ASSUME ~ EarlySecrets PROVE Spec => []KeysAgree
<1>1. Inv => KeysAgree
  BY DEF Inv, Inside
<1> QED BY <1>1, InvHolds, PTL

(* With the check of versions on, whoever gets the game's data has passed it  *)
(* and the ban list, was sent no refusal, and has a player state unless the *)
(* event that makes it was lost: erased by a round change, or popped by the *)
(* Release that follows the handler of an event which was itself erased.    *)
THEOREM AdmittedWereChecked == ASSUME AuthCheck PROVE Spec => []OnlyTheAdmitted
<1>1. Inv => OnlyTheAdmitted
  BY DEF Inv, Inside
<1> QED BY <1>1, InvHolds, PTL

(* The steps that leave the packet being handled, and the queue, alone. *)
LEMMA FrontSame ==
    ASSUME DelayedIsFront, UNCHANGED <<delayed, handling>>,
           handling # NoClient /\ conn[handling] = "gone" => conn'[handling] = "gone"
    PROVE  DelayedIsFront'
BY DEF DelayedIsFront

LEMMA NextKeepsFront == ASSUME Inv, DelayedIsFront, [Next]_vars PROVE DelayedIsFront'
<1>0. /\ Types /\ delayed \in Seq(Clients) /\ (handling # NoClient => handling \in Clients)
      /\ conn \in [Clients -> {"out", "in", "erased", "gone"}]
  BY DEF Inv, Types
<1>1. ASSUME NEW c \in Clients, ReceiveRequest(c) PROVE DelayedIsFront'
  <2>1. delayed' = Append(delayed, c) /\ UNCHANGED <<conn, handling>>
    BY <1>1 DEF ReceiveRequest, AddDelayedPacket, serverVars
  <2>2. delayed # <<>> => delayed' # <<>> /\ Head(delayed') = Head(delayed)
    <3>1. delayed # <<>> => /\ Append(delayed, c) # <<>>
                            /\ Head(Append(delayed, c)) = Head(delayed)
      BY <1>0, HeadTailAppend
    <3> QED BY <2>1, <3>1
  <2> QED BY <2>1, <2>2 DEF DelayedIsFront
<1>2. ASSUME NEW c \in Clients, Purge(c) PROVE DelayedIsFront'
  <2>1. /\ conn' = [conn EXCEPT ![c] = "gone"] /\ UNCHANGED handling
        /\ delayed' = Only(delayed, Clients \ {c})
    BY <1>2 DEF Purge
  <2>2. conn'[c] = "gone" /\ \A d \in Clients : d # c => conn'[d] = conn[d]
    BY <1>0, <2>1
  <2>3. ASSUME delayed # <<>>, Head(delayed) = handling, handling \in Clients, handling # c
        PROVE  delayed' # <<>> /\ Head(delayed') = handling
    <3>1. Head(delayed) \in Clients \ {c}
      BY <2>3
    <3>2. /\ Only(delayed, Clients \ {c}) # <<>>
          /\ Head(Only(delayed, Clients \ {c})) = Head(delayed)
      BY <1>0, <2>3, <3>1, OnlyTaken
    <3> QED BY <2>1, <2>3, <3>2
  <2> QED BY <1>0, <2>1, <2>2, <2>3 DEF DelayedIsFront
<1>3. ASSUME NEW c \in Clients, BeginDelayed(c) PROVE DelayedIsFront'
  <2>1. /\ delayed # <<>> /\ Head(delayed) = c /\ handling = NoClient
        /\ UNCHANGED delayed /\ (handling' = c \/ handling' = handling)
    BY <1>3 DEF BeginDelayed, Idle
  <2> QED BY <2>1 DEF DelayedIsFront
<1>4. CASE EndDelayed
  BY <1>4 DEF EndDelayed, DelayedIsFront
<1>5. ASSUME NEW c \in Clients, Join(c) \/ Leave(c) PROVE DelayedIsFront'
  <2>1. UNCHANGED <<delayed, handling>> /\ conn[c] # "gone"
    BY <1>5 DEF Join, Leave, Listed
  <2>2. \A d \in Clients : d # c => conn'[d] = conn[d]
    BY <1>0, <1>5 DEF Join, Leave
  <2> QED BY <1>0, <2>1, <2>2, FrontSame
<1>6. ASSUME NEW c \in Clients,
             \/ ReceiveAck(c) \/ ReceiveEvent(c) \/ ReceiveDigest(c) \/ ReceiveReady(c)
             \/ HandleCreate(c) \/ KeyValidated(c) \/ HandleState(c) \/ HandleAuth(c)
             \/ SendSecret(c)
      PROVE  UNCHANGED <<conn, delayed, handling>>
  BY <1>6 DEF ReceiveAck, ReceiveEvent, ReceiveDigest, ReceiveReady, HandleCreate, KeyValidated,
     HandleState, HandleAuth, SendSecret, serverVars, gameThread
<1>7. ASSUME NEW c \in Clients, Client(c) \/ TimeOut(c) PROVE UNCHANGED <<conn, delayed, handling>>
  BY <1>7 DEF Client, HearKey, HearChallenge, HearDigestRequest, HearResult, HearConfig,
     HearSecret, Request, Announce, TimeOut, Hear, ClientStep, serverVars, gameThread
<1>8. CASE Release \/ ChangeRound \/ UNCHANGED vars
  BY <1>8, FrontSame DEF Release, ChangeRound, vars, serverVars, gameThread
<1>9. UNCHANGED <<conn, delayed, handling>> => DelayedIsFront'
  BY FrontSame
<1> QED BY <1>1, <1>2, <1>3, <1>4, <1>5, <1>6, <1>7, <1>8, <1>9 DEF Next, OnMessage, Game

(* While a delayed packet is handled, other clients' packets may be appended  *)
(* and purged, but it stays at the front, where it will be popped, unless   *)
(* its own sender's packets are purged.                                     *)
THEOREM HandledIsFront == Spec => []DelayedIsFront
<1>1. Init => DelayedIsFront
  BY DEF Init, DelayedIsFront
<1>2. Inv /\ DelayedIsFront /\ [Next]_vars => DelayedIsFront'
  BY NextKeepsFront
<1> QED BY <1>1, <1>2, InvHolds, PTL DEF Spec

-----------------------------------------------------------------------------
(* The cipher.  First its words: two of them combined with each other, and   *)
(* one with the same two words twice.                                       *)
LEMMA XorTwice ==
    ASSUME NEW a \in Bytes, NEW k \in Bytes, NEW l \in Bytes
    PROVE  /\ XorBytes(XorBytes(a, k), l) \in Bytes
           /\ XorBytes(XorBytes(XorBytes(XorBytes(a, k), l), k), l) = a
<1>1. XorBytes(a, k) \in Bytes /\ XorBytes(a, l) \in Bytes /\ XorBytes(XorBytes(a, k), l) \in Bytes
  BY XorAssumption
<1>2. XorBytes(XorBytes(XorBytes(a, k), l), k) = XorBytes(XorBytes(XorBytes(a, k), k), l)
  BY <1>1, XorAssumption
<1>3. XorBytes(XorBytes(a, k), k) = a /\ XorBytes(XorBytes(a, l), l) = a
  BY XorAssumption
<1> QED BY <1>1, <1>2, <1>3

LEMMA WordTypes ==
    /\ AllOnes \in Words
    /\ \A v, w \in Words : XorWords(v, w) \in Words
    /\ \A w \in Words, n \in Nat : Masked(w, n) \in Words
    /\ \A w \in Words : Masked(w, WordBytes) = w
<1>1. 0 \in Bytes /\ MaxByte \in Bytes /\ WordBytes \in Nat
  BY WidthsAssumption DEF Bytes
<1>2. AllOnes \in Words
  BY <1>1 DEF AllOnes, Words
<1>3. \A v, w \in Words : XorWords(v, w) \in Words
  BY XorAssumption DEF XorWords, Words
<1>4. \A w \in Words, n \in Nat : Masked(w, n) \in Words
  BY <1>1 DEF Masked, Words
<1>5. \A w \in Words : Masked(w, WordBytes) = w
  BY <1>1 DEF Masked, Words
<1> QED BY <1>2, <1>3, <1>4, <1>5

(* The number of a word. *)
Horners(w, m, h) ==
    h = [n \in 0 .. m |-> IF n = 0 THEN 0
                          ELSE (MaxByte + 1) * h[n - 1] + w[WordBytes + 1 - n]]

LEMMA HornersExist == \A w : \A m \in Nat : \E h : Horners(w, m, h)
<1> TAKE w
<1> DEFINE S == {m \in Nat : \E h : Horners(w, m, h)}
<1>1. 0 \in S
  <2>1. Horners(w, 0, [n \in 0 .. 0 |-> 0])
    BY DEF Horners
  <2> QED BY <2>1
<1>2. ASSUME NEW m \in Nat, m \in S PROVE m + 1 \in S
  <2>1. PICK h : Horners(w, m, h)
    BY <1>2
  <2> DEFINE g == [n \in 0 .. m + 1 |->
                      IF n <= m THEN h[n]
                      ELSE (MaxByte + 1) * h[n - 1] + w[WordBytes + 1 - n]]
  <2>2. \A n \in 0 .. m :
           h[n] = IF n = 0 THEN 0 ELSE (MaxByte + 1) * h[n - 1] + w[WordBytes + 1 - n]
    BY <2>1 DEF Horners
  <2>3. ASSUME NEW n \in 0 .. m + 1
        PROVE  g[n] = IF n = 0 THEN 0
                      ELSE (MaxByte + 1) * g[n - 1] + w[WordBytes + 1 - n]
    <3>1. CASE n = 0
      BY <3>1, <2>2
    <3>2. CASE n # 0
      <4>1. n - 1 \in 0 .. m /\ g[n - 1] = h[n - 1]
        BY <3>2
      <4>2. g[n] = (MaxByte + 1) * h[n - 1] + w[WordBytes + 1 - n]
        BY <3>2, <2>2
      <4> QED BY <4>1, <4>2, <3>2
    <3> QED BY <3>1, <3>2
  <2>4. Horners(w, m + 1, g)
    BY <2>3 DEF Horners
  <2> QED BY <2>4
<1> HIDE DEF S
<1>3. Nat \subseteq S
  BY <1>1, <1>2, Induction
<1> QED BY <1>3 DEF S

LEMMA ValueType == \A w \in Words : Value(w) \in Nat
<1> TAKE w \in Words
<1>0. WordBytes \in Nat /\ MaxByte \in Nat
  BY WidthsAssumption
<1> DEFINE h == CHOOSE f : Horners(w, WordBytes, f)
<1>1. Horners(w, WordBytes, h)
  BY <1>0, HornersExist, Zenon
<1>2. Value(w) = h[WordBytes]
  BY Zenon DEF Value, Horners
<1> HIDE DEF h
<1> DEFINE S == {n \in Nat : n <= WordBytes => h[n] \in Nat}
<1>3. 0 \in S
  BY <1>0, <1>1 DEF Horners
<1>4. ASSUME NEW n \in Nat, n \in S PROVE n + 1 \in S
  <2> SUFFICES ASSUME n + 1 <= WordBytes PROVE h[n + 1] \in Nat
    OBVIOUS
  <2>1. h[n] \in Nat
    BY <1>0, <1>4
  <2>2. h[n + 1] = (MaxByte + 1) * h[n] + w[WordBytes - n]
    BY <1>0, <1>1 DEF Horners
  <2>3. w[WordBytes - n] \in Nat
    BY <1>0 DEF Words, Bytes
  <2>4. (MaxByte + 1) * h[n] \in Nat
    BY <1>0, <2>1, SMT
  <2> QED BY <2>2, <2>3, <2>4
<1> HIDE DEF S
<1>5. Nat \subseteq S
  BY <1>3, <1>4, Induction
<1> QED BY <1>0, <1>2, <1>5 DEF S

LEMMA SumType ==
    /\ Wraps \in Nat \ {0}
    /\ \A s \in 0 .. Wraps - 1, w \in Words : (s + Value(w)) % Wraps \in 0 .. Wraps - 1
<1>1. Wraps \in Nat \ {0}
  <2>1. Value(AllOnes) \in Nat
    BY WordTypes, ValueType, Zenon
  <2> QED BY <2>1 DEF Wraps
<1>2. ASSUME NEW s \in 0 .. Wraps - 1, NEW w \in Words
      PROVE  (s + Value(w)) % Wraps \in 0 .. Wraps - 1
  <2>1. s + Value(w) \in Nat
    BY <1>1, ValueType
  <2> QED BY <1>1, <2>1, DivMod
<1> QED BY <1>1, <1>2

-----------------------------------------------------------------------------
(* The words of a buffer: where each of its bytes is.                       *)
LEMMA Places ==
    ASSUME NEW data, Len(data) \in Nat
    PROVE  /\ Count(data) \in Nat
           /\ \A i \in 1 .. Count(data) :
                 /\ BytesOf(data, i) \in 1 .. WordBytes
                 /\ i < Count(data) => BytesOf(data, i) = WordBytes
                 /\ \A b \in 1 .. BytesOf(data, i) : (i - 1) * WordBytes + b \in 1 .. Len(data)
           /\ \A j \in 1 .. Len(data) :
                 /\ WordOf(j) \in 1 .. Count(data)
                 /\ ByteOf(j) \in 1 .. BytesOf(data, WordOf(j))
                 /\ (WordOf(j) - 1) * WordBytes + ByteOf(j) = j
<1> DEFINE N == WordBytes
           L == Len(data)
           C == Count(data)
<1>0. N \in Nat \ {0} /\ L \in Nat
  BY WidthsAssumption
<1>1. C \in Nat /\ C * N >= L /\ C * N <= L + N - 1
  <2>1. L + N - 1 \in Nat
    BY <1>0
  <2> DEFINE x == L + N - 1
             r == x % N
  <2>2. C \in Nat /\ r \in 0 .. N - 1 /\ x = C * N + r
    BY <1>0, <2>1, DivMod DEF Count
  <2>3. C * N \in Nat
    BY <1>0, <2>2, SMT
  <2> HIDE DEF r, C
  <2> QED BY <1>0, <2>2, <2>3
<1>2. \A i \in 1 .. C : BytesOf(data, i) = IF i * N <= L THEN N ELSE L - (i - 1) * N
  BY DEF BytesOf
<1> HIDE DEF N, L, C
<1>3. ASSUME NEW i \in 1 .. C
      PROVE  /\ BytesOf(data, i) \in 1 .. N
             /\ i < C => BytesOf(data, i) = N
             /\ \A b \in 1 .. BytesOf(data, i) : (i - 1) * N + b \in 1 .. L
  <2> DEFINE m == (i - 1) * N
  <2>1. m \in Nat /\ i * N = m + N /\ i \in Nat
    BY <1>0, <1>1, SMT
  <2>2. m < L
    <3>1. C - i \in Nat /\ (C - i) * N \in Nat
      BY <1>0, <1>1, SMT
    <3>2. C * N = i * N + (C - i) * N
      BY <1>0, <1>1, SMT
    <3> QED BY <1>0, <1>1, <2>1, <3>1, <3>2
  <2>3. i < C => m + N < L
    <3> SUFFICES ASSUME i < C PROVE m + N < L
      OBVIOUS
    <3>1. C - i - 1 \in Nat /\ (C - i - 1) * N \in Nat
      BY <1>0, <1>1, SMT
    <3>2. C * N = i * N + N + (C - i - 1) * N
      BY <1>0, <1>1, SMT
    <3> HIDE DEF m
    <3> QED BY <1>0, <1>1, <2>1, <3>1, <3>2
  <2>4. BytesOf(data, i) = IF m + N <= L THEN N ELSE L - m
    BY <1>2, <2>1
  <2> HIDE DEF m
  <2>5. /\ BytesOf(data, i) \in 1 .. N
        /\ i < C => BytesOf(data, i) = N
        /\ m + BytesOf(data, i) <= L
    BY <1>0, <2>1, <2>2, <2>3, <2>4
  <2>6. \A b \in 1 .. BytesOf(data, i) : m + b \in 1 .. L
    BY <1>0, <2>1, <2>5
  <2> QED BY <2>5, <2>6 DEF m
<1>4. ASSUME NEW j \in 1 .. L
      PROVE  /\ WordOf(j) \in 1 .. C
             /\ ByteOf(j) \in 1 .. BytesOf(data, WordOf(j))
             /\ (WordOf(j) - 1) * N + ByteOf(j) = j
  <2> DEFINE q == (j - 1) \div N
             r == (j - 1) % N
  <2>0. j - 1 \in Nat /\ j <= L
    BY <1>0
  <2>1. q \in Nat /\ r \in 0 .. N - 1 /\ j - 1 = q * N + r
    BY <1>0, <2>0, DivMod
  <2> HIDE DEF q, r
  <2> DEFINE m == q * N
  <2>2. m \in Nat /\ (q + 1) * N = m + N
    BY <1>0, <2>1, SMT
  <2>3. q + 1 <= C
    <3> SUFFICES ASSUME C <= q PROVE FALSE
      BY <1>1, <2>1
    <3>1. q - C \in Nat /\ (q - C) * N \in Nat
      BY <1>0, <1>1, <2>1, SMT
    <3>2. m = C * N + (q - C) * N
      BY <1>0, <1>1, <2>1, SMT
    <3>3. C * N \in Nat
      BY <1>0, <1>1, SMT
    <3> QED BY <1>0, <1>1, <2>0, <2>1, <3>1, <3>2, <3>3
  <2>4. q + 1 \in 1 .. C
    BY <1>1, <2>1, <2>3
  <2>5. BytesOf(data, q + 1) = IF m + N <= L THEN N ELSE L - m
    BY <1>2, <2>1, <2>2, <2>4
  <2>6. m + r + 1 = j
    BY <1>0, <2>1, <2>2
  <2> HIDE DEF m
  <2>7. r + 1 \in 1 .. BytesOf(data, q + 1)
    BY <1>0, <2>0, <2>1, <2>2, <2>5, <2>6
  <2>8. WordOf(j) = q + 1 /\ ByteOf(j) = r + 1
    BY DEF WordOf, ByteOf, N, q, r
  <2>9. WordOf(j) - 1 = q
    BY <2>1, <2>8
  <2>10. (WordOf(j) - 1) * N = m
    BY <2>9 DEF m
  <2> QED BY <2>4, <2>6, <2>7, <2>8, <2>10, <2>1, <2>2
<1> QED BY <1>1, <1>3, <1>4 DEF N, L, C

LEMMA SameLength ==
    ASSUME NEW c, NEW d, Len(c) = Len(d)
    PROVE  Count(c) = Count(d) /\ \A i : BytesOf(c, i) = BytesOf(d, i)
BY Zenon DEF Count, BytesOf

LEMMA WordAtType ==
    ASSUME NEW data, Len(data) \in Nat, data \in [1 .. Len(data) -> Bytes]
    PROVE  \A i \in 1 .. Count(data) : WordAt(data, i) \in Words
<1> TAKE i \in 1 .. Count(data)
<1>1. 0 \in Bytes /\ WordBytes \in Nat
  BY WidthsAssumption DEF Bytes
<1>2. BytesOf(data, i) \in 1 .. WordBytes
      /\ \A b \in 1 .. BytesOf(data, i) : (i - 1) * WordBytes + b \in 1 .. Len(data)
  BY Places
<1>3. ASSUME NEW b \in 1 .. WordBytes
      PROVE  (IF b <= BytesOf(data, i) THEN data[(i - 1) * WordBytes + b] ELSE 0) \in Bytes
  <2>1. CASE b <= BytesOf(data, i)
    <3>1. b \in 1 .. BytesOf(data, i)
      BY <1>1, <1>2, <2>1
    <3>2. (i - 1) * WordBytes + b \in 1 .. Len(data)
      BY <1>2, <3>1
    <3> QED BY <2>1, <3>2
  <2>2. CASE ~ (b <= BytesOf(data, i))
    BY <1>1, <2>2
  <2> QED BY <2>1, <2>2
<1> QED BY <1>3 DEF WordAt, Words

-----------------------------------------------------------------------------
(* The loop. *)
Loops(data, sk, action, m, f) ==
    f = [i \in 0 .. m |->
            IF i = 0 THEN Start
            ELSE Step(action, f[i - 1], WordAt(data, i), KeyWord(sk, i), BytesOf(data, i))]

LEMMA LoopsExist == \A data, sk, action : \A m \in Nat : \E f : Loops(data, sk, action, m, f)
<1> TAKE data, sk, action
<1> DEFINE S == {m \in Nat : \E f : Loops(data, sk, action, m, f)}
<1>1. 0 \in S
  <2>1. Loops(data, sk, action, 0, [i \in 0 .. 0 |-> Start])
    BY DEF Loops
  <2> QED BY <2>1
<1>2. ASSUME NEW m \in Nat, m \in S PROVE m + 1 \in S
  <2>1. PICK f : Loops(data, sk, action, m, f)
    BY <1>2
  <2>2. f = [i \in 0 .. m |-> IF i = 0 THEN Start
             ELSE Step(action, f[i - 1], WordAt(data, i), KeyWord(sk, i), BytesOf(data, i))]
    BY <2>1, Zenon DEF Loops
  <2> DEFINE g == [i \in 0 .. m + 1 |->
                     IF i <= m THEN f[i]
                     ELSE Step(action, f[i - 1], WordAt(data, i), KeyWord(sk, i), BytesOf(data, i))]
  <2>3. ASSUME NEW i \in 0 .. m + 1
        PROVE  g[i] = IF i = 0 THEN Start
                      ELSE Step(action, g[i - 1], WordAt(data, i), KeyWord(sk, i), BytesOf(data, i))
    <3>1. CASE i = 0
      BY <3>1, <2>2
    <3>2. CASE i # 0
      <4>1. i - 1 \in 0 .. m /\ g[i - 1] = f[i - 1]
        BY <3>2
      <4>2. g[i] = Step(action, f[i - 1], WordAt(data, i), KeyWord(sk, i), BytesOf(data, i))
        BY <3>2, <2>2
      <4> QED BY <4>1, <4>2, <3>2
    <3> QED BY <3>1, <3>2
  <2>4. Loops(data, sk, action, m + 1, g)
    BY <2>3 DEF Loops
  <2> QED BY <2>4
<1> HIDE DEF S
<1>3. Nat \subseteq S
  BY <1>1, <1>2, Induction
<1> QED BY <1>3 DEF S

(* A loop f over data. *)
Runs(f, data, sk, action) ==
    /\ f[0] = Start
    /\ \A i \in 1 .. Count(data) :
          f[i] = Step(action, f[i - 1], WordAt(data, i), KeyWord(sk, i), BytesOf(data, i))

(* The n bytes it copies back. *)
Written(f, n) == [j \in 1 .. n |-> f[WordOf(j)].new[ByteOf(j)]]

(* xray_crypt is what a function f that unfolds as the loop says gives. *)
LEMMA LoopUnfolds ==
    ASSUME NEW data, NEW sk, NEW action, Len(data) \in Nat
    PROVE  \E f : /\ Runs(f, data, sk, action)
                  /\ xray_crypt(data, sk, action).sum = f[Count(data)].sum
                  /\ xray_crypt(data, sk, action).out = Written(f, Len(data))
<1>0. Count(data) \in Nat
  BY Places
<1> DEFINE f == CHOOSE g : Loops(data, sk, action, Count(data), g)
<1>1. Loops(data, sk, action, Count(data), f)
  BY <1>0, LoopsExist, Zenon
<1>2. /\ xray_crypt(data, sk, action).sum = f[Count(data)].sum
      /\ xray_crypt(data, sk, action).out = Written(f, Len(data))
  BY Zenon DEF xray_crypt, Loops, Copied, Written
<1> HIDE DEF f
<1>3. f = [i \in 0 .. Count(data) |->
            IF i = 0 THEN Start
            ELSE Step(action, f[i - 1], WordAt(data, i), KeyWord(sk, i), BytesOf(data, i))]
  BY <1>1, Zenon DEF Loops
<1>4. f[0] = Start
  BY <1>0, <1>3
<1>5. \A i \in 1 .. Count(data) :
         f[i] = Step(action, f[i - 1], WordAt(data, i), KeyWord(sk, i), BytesOf(data, i))
  BY <1>0, <1>3
<1>6. Runs(f, data, sk, action)
  BY <1>4, <1>5 DEF Runs
<1> QED BY <1>2, <1>6

LEMMA StartIs == Start.new \in Words /\ Start.last \in Words /\ Start.sum \in 0 .. Wraps - 1
<1>1. Wraps \in Nat \ {0} /\ AllOnes \in Words
  BY SumType, WordTypes
<1> QED BY <1>1 DEF Start

LEMMA StepType ==
    ASSUME NEW action, NEW before, before.last \in Words, before.sum \in 0 .. Wraps - 1,
           NEW raw \in Words, NEW k \in Words, NEW n \in Nat
    PROVE  LET new     == XorWords(XorWords(raw, k), before.last)
               message == MessageWord(action, raw, new)
               after   == Step(action, before, raw, k, n)
           IN  /\ new \in Words
               /\ after.new = new
               /\ after.last = message
               /\ after.last \in Words
               /\ after.sum = (before.sum + Value(Masked(message, n))) % Wraps
               /\ after.sum \in 0 .. Wraps - 1
<1> DEFINE new     == XorWords(XorWords(raw, k), before.last)
           message == MessageWord(action, raw, new)
           after   == Step(action, before, raw, k, n)
<1>1. new \in Words
  BY WordTypes
<1>2. message \in Words
  BY <1>1 DEF MessageWord
<1>3. /\ after.new = new
      /\ after.last = message
      /\ after.sum = (before.sum + Value(Masked(message, n))) % Wraps
  BY DEF Step
<1>4. Masked(message, n) \in Words
  BY <1>2, WordTypes
<1> HIDE DEF new, message, after
<1>5. (before.sum + Value(Masked(message, n))) % Wraps \in 0 .. Wraps - 1
  BY <1>4, SumType
<1> QED BY <1>1, <1>2, <1>3, <1>5 DEF new, message, after

Text(s)   == Len(s) \in Nat /\ s \in [1 .. Len(s) -> Bytes]
IsKey(sk) == Len(sk) \in Nat \ {0} /\ sk \in [1 .. Len(sk) -> Words]

LEMMA KeyWordType == ASSUME NEW sk, IsKey(sk) PROVE \A i \in Nat \ {0} : KeyWord(sk, i) \in Words
<1> TAKE i \in Nat \ {0}
<1>1. Len(sk) \in Nat \ {0} /\ i - 1 \in Nat
  BY DEF IsKey
<1>2. (i - 1) % Len(sk) \in 0 .. Len(sk) - 1
  BY <1>1, DivMod
<1>3. ((i - 1) % Len(sk)) + 1 \in 1 .. Len(sk)
  BY <1>1, <1>2
<1> QED BY <1>3 DEF KeyWord, IsKey

LEMMA LoopType ==
    ASSUME NEW sk, IsKey(sk), NEW data, Text(data), NEW action, NEW f, Runs(f, data, sk, action)
    PROVE  \A i \in 0 .. Count(data) :
              f[i].new \in Words /\ f[i].last \in Words /\ f[i].sum \in 0 .. Wraps - 1
<1>0. Len(data) \in Nat /\ Count(data) \in Nat
  BY Places DEF Text
<1> DEFINE InRange(i) == f[i].new \in Words /\ f[i].last \in Words /\ f[i].sum \in 0 .. Wraps - 1
           S == {i \in Nat : i <= Count(data) => InRange(i)}
<1>1. 0 \in S
  BY StartIs DEF Runs
<1>2. ASSUME NEW m \in Nat, m \in S PROVE m + 1 \in S
  <2> SUFFICES ASSUME m + 1 <= Count(data) PROVE InRange(m + 1)
    OBVIOUS
  <2> DEFINE i == m + 1
  <2>1. i \in 1 .. Count(data) /\ i - 1 = m /\ i \in Nat \ {0}
    BY <1>0
  <2>2. InRange(m)
    BY <1>0, <1>2
  <2>3. WordAt(data, i) \in Words /\ KeyWord(sk, i) \in Words
    BY <2>1, WordAtType, KeyWordType DEF Text
  <2>4. BytesOf(data, i) \in Nat
    <3>1. BytesOf(data, i) \in 1 .. WordBytes
      BY <1>0, <2>1, Places
    <3> QED BY <3>1
  <2>5. f[i] = Step(action, f[m], WordAt(data, i), KeyWord(sk, i), BytesOf(data, i))
    <3>1. f[i] = Step(action, f[i - 1], WordAt(data, i), KeyWord(sk, i), BytesOf(data, i))
      BY <2>1 DEF Runs
    <3> QED BY <3>1, <2>1
  <2> HIDE DEF i
  <2>6. InRange(i)
    BY <2>2, <2>3, <2>4, <2>5, StepType
  <2> QED BY <2>6 DEF i
<1> HIDE DEF S
<1>3. Nat \subseteq S
  BY <1>1, <1>2, Induction
<1> QED BY <1>0, <1>3 DEF S

(* What the loop makes of a buffer is as long and of bytes. *)
LEMMA CryptType ==
    ASSUME NEW sk, IsKey(sk), NEW data, Text(data), NEW action
    PROVE  LET result == xray_crypt(data, sk, action)
           IN  /\ Text(result.out)
               /\ Len(result.out) = Len(data)
               /\ result.sum \in 0 .. Wraps - 1
<1>0. Len(data) \in Nat /\ Count(data) \in Nat /\ 0 \in Nat
  BY Places DEF Text
<1>1. PICK f : /\ Runs(f, data, sk, action)
               /\ xray_crypt(data, sk, action).sum = f[Count(data)].sum
               /\ xray_crypt(data, sk, action).out = Written(f, Len(data))
  BY <1>0, LoopUnfolds
<1>2. \A i \in 0 .. Count(data) :
         f[i].new \in Words /\ f[i].last \in Words /\ f[i].sum \in 0 .. Wraps - 1
  BY <1>1, LoopType
<1>3. xray_crypt(data, sk, action).sum \in 0 .. Wraps - 1
  BY <1>0, <1>1, <1>2
<1>4. ASSUME NEW j \in 1 .. Len(data) PROVE f[WordOf(j)].new[ByteOf(j)] \in Bytes
  <2>1. WordOf(j) \in 1 .. Count(data) /\ ByteOf(j) \in 1 .. BytesOf(data, WordOf(j))
    BY <1>0, Places
  <2>2. BytesOf(data, WordOf(j)) \in 1 .. WordBytes
    BY <1>0, <2>1, Places
  <2>3. ByteOf(j) \in 1 .. WordBytes
    BY <2>1, <2>2, WidthsAssumption
  <2>4. f[WordOf(j)].new \in Words
    BY <1>0, <1>2, <2>1
  <2> QED BY <2>3, <2>4 DEF Words
<1> DEFINE out == Written(f, Len(data))
<1>5. out \in [1 .. Len(data) -> Bytes]
  BY <1>4 DEF Written
<1> HIDE DEF out
<1>6. out \in Seq(Bytes) /\ Len(out) = Len(data)
  BY <1>0, <1>5
<1>7. Text(out) /\ Len(out) = Len(data)
  BY <1>0, <1>5, <1>6 DEF Text
<1> QED BY <1>1, <1>3, <1>7 DEF out

-----------------------------------------------------------------------------
(* Decryption of what was encrypted. *)

(* The first n bytes of two words. *)
Agree(v, w, n) == \A b \in 1 .. n : v[b] = w[b]

(* A word of n bytes, encrypted and cut to them, is decrypted to what it was. *)
LEMMA WordComesBack ==
    ASSUME NEW raw \in Words, NEW k \in Words, NEW l \in Words, NEW n \in 1 .. WordBytes,
           NEW cut \in Words, Agree(cut, XorWords(XorWords(raw, k), l), n)
    PROVE  Agree(XorWords(XorWords(cut, k), l), raw, n)
<1> SUFFICES ASSUME NEW b \in 1 .. n PROVE XorWords(XorWords(cut, k), l)[b] = raw[b]
  BY Zenon DEF Agree
<1>1. b \in 1 .. WordBytes
  BY WidthsAssumption
<1>2. raw[b] \in Bytes /\ k[b] \in Bytes /\ l[b] \in Bytes
  BY <1>1 DEF Words
<1>3. /\ cut[b] = XorBytes(XorBytes(raw[b], k[b]), l[b])
      /\ XorWords(XorWords(cut, k), l)[b] = XorBytes(XorBytes(cut[b], k[b]), l[b])
  BY <1>1 DEF XorWords, Agree
<1> QED BY <1>2, <1>3, XorTwice

LEMMA MaskedIs ==
    ASSUME NEW data, Len(data) \in Nat, NEW i \in 1 .. Count(data), NEW w \in Words,
           Agree(w, WordAt(data, i), BytesOf(data, i))
    PROVE  /\ Masked(w, BytesOf(data, i)) = WordAt(data, i)
           /\ Masked(WordAt(data, i), BytesOf(data, i)) = WordAt(data, i)
<1>1. BytesOf(data, i) \in 1 .. WordBytes
  BY Places
<1>2. \A b \in 1 .. WordBytes : b <= BytesOf(data, i) => w[b] = WordAt(data, i)[b]
  BY <1>1 DEF Agree
<1> HIDE DEF Count
<1>3. \A b \in 1 .. WordBytes : ~ (b <= BytesOf(data, i)) => WordAt(data, i)[b] = 0
  BY DEF WordAt
<1>4. WordAt(data, i) = [b \in 1 .. WordBytes |-> WordAt(data, i)[b]]
  BY DEF WordAt
<1> QED BY <1>2, <1>3, <1>4 DEF Masked

(* The loop e that encrypts p and the loop d that decrypts it, at word i.    *)
InStep(p, e, d, i) == /\ d[i].sum = e[i].sum
                      /\ i # 0 => Agree(d[i].new, WordAt(p, i), BytesOf(p, i))
                      /\ i < Count(p) => d[i].last = e[i].last

(* The two loops go in lockstep.  p is the message, e the loop that encrypts *)
(* it, c what it leaves in the buffer, and d the loop that decrypts that.    *)
LEMMA Lockstep ==
    ASSUME NEW sk, IsKey(sk), NEW p, Text(p), NEW c, Text(c), Len(c) = Len(p),
           NEW e, Runs(e, p, sk, "encrypt"), NEW d, Runs(d, c, sk, "decrypt"),
           c = Written(e, Len(p))
    PROVE  \A i \in 0 .. Count(p) : InStep(p, e, d, i)
<1> DEFINE C == Count(p)
           S == {i \in Nat : i <= C => InStep(p, e, d, i)}
<1>0. /\ Len(p) \in Nat /\ Len(c) \in Nat /\ C \in Nat
      /\ Count(c) = C /\ \A i : BytesOf(c, i) = BytesOf(p, i)
  BY Places, SameLength DEF Text
<1>1. 0 \in S
  BY <1>0 DEF Runs, InStep
<1>2. ASSUME NEW m \in Nat, m \in S PROVE m + 1 \in S
  <2> SUFFICES ASSUME m + 1 <= C PROVE InStep(p, e, d, m + 1)
    OBVIOUS
  <2> DEFINE i == m + 1
             n == BytesOf(p, i)
             k == KeyWord(sk, i)
             l == e[m].last
             raw == WordAt(p, i)
             cut == WordAt(c, i)
             new == XorWords(XorWords(raw, k), l)
             back == XorWords(XorWords(cut, k), l)
  <2>1. /\ i \in 1 .. C /\ i - 1 = m /\ i \in Nat \ {0}
        /\ m \in 0 .. C /\ m < C /\ i \in 0 .. C
    BY <1>0
  <2>2. d[m].sum = e[m].sum /\ d[m].last = l
    BY <1>2, <2>1 DEF InStep
  <2>3. l \in Words /\ e[m].sum \in 0 .. Wraps - 1
    BY <2>1, LoopType
  <2>4. raw \in Words /\ cut \in Words /\ k \in Words
    BY <1>0, <2>1, WordAtType, KeyWordType DEF Text
  <2>5. n \in 1 .. WordBytes /\ n \in Nat
    <3>1. n \in 1 .. WordBytes
      BY <1>0, <2>1, Places
    <3> QED BY <3>1
  <2>6. e[i] = Step("encrypt", e[m], raw, k, n) /\ d[i] = Step("decrypt", d[m], cut, k, n)
    <3>1. /\ e[i] = Step("encrypt", e[i - 1], WordAt(p, i), KeyWord(sk, i), BytesOf(p, i))
          /\ d[i] = Step("decrypt", d[i - 1], WordAt(c, i), KeyWord(sk, i), BytesOf(c, i))
      BY <1>0, <2>1 DEF Runs
    <3> QED BY <3>1, <2>1, <1>0
  <2>7. ASSUME NEW b \in 1 .. n PROVE cut[b] = new[b]
    <3> DEFINE j == (i - 1) * WordBytes + b
    <3>1. j \in 1 .. Len(p) /\ b \in 1 .. WordBytes /\ b <= BytesOf(c, i)
      <4>1. \A a \in 1 .. BytesOf(p, i) : (i - 1) * WordBytes + a \in 1 .. Len(p)
        BY <1>0, <2>1, Places
      <4>2. j \in 1 .. Len(p)
        BY <4>1
      <4>3. BytesOf(c, i) = n
        BY <1>0
      <4> HIDE DEF n
      <4>4. b \in 1 .. WordBytes /\ b <= n
        BY <2>5, WidthsAssumption
      <4> QED BY <4>2, <4>3, <4>4
    <3>2. WordOf(j) = i /\ ByteOf(j) = b
      <4>1. j - 1 = m * WordBytes + (b - 1) /\ b - 1 \in 0 .. WordBytes - 1
        BY <2>1, <3>1, WidthsAssumption, SMT
      <4>2. (j - 1) \div WordBytes = m /\ (j - 1) % WordBytes = b - 1
        BY <4>1, WidthsAssumption, DivModUnique
      <4> HIDE DEF j
      <4> QED BY <4>2, <3>1 DEF WordOf, ByteOf
    <3>3. c[j] = e[i].new[b]
      BY <3>1, <3>2 DEF Written
    <3>4. cut[b] = c[j]
      BY <3>1 DEF WordAt
    <3>5. e[i].new = new
      BY <2>6 DEF Step
    <3> QED BY <3>3, <3>4, <3>5
  <2>8. Agree(cut, new, n)
    BY <2>7 DEF Agree
  <2>9. /\ e[i].last = raw
        /\ e[i].sum = (e[m].sum + Value(Masked(raw, n))) % Wraps
    BY <2>6 DEF Step, MessageWord
  <2>10. /\ d[i].new = back /\ d[i].last = back
        /\ d[i].sum = (e[m].sum + Value(Masked(back, n))) % Wraps
    BY <2>2, <2>6 DEF Step, MessageWord
  <2>11. back \in Words
    BY <2>3, <2>4, WordTypes
  <2>12. Agree(back, raw, n)
    <3> HIDE DEF n, k, l, raw, cut
    <3> QED BY <2>3, <2>4, <2>5, <2>8, WordComesBack
  <2>13. Masked(back, n) = raw /\ Masked(raw, n) = raw
    <3> HIDE DEF back
    <3> QED BY <1>0, <2>1, <2>11, <2>12, MaskedIs
  <2>14. i < C => back = raw
    <3> SUFFICES ASSUME i < C PROVE back = raw
      OBVIOUS
    <3>1. n = WordBytes
      BY <1>0, <2>1, Places
    <3>2. Masked(back, WordBytes) = back
      BY <2>11, WordTypes
    <3> QED BY <2>13, <3>1, <3>2
  <2> HIDE DEF back, raw, cut, new, n, k, l
  <2>15. /\ d[i].sum = e[i].sum
         /\ Agree(d[i].new, raw, n)
         /\ i < C => d[i].last = e[i].last
    BY <2>9, <2>10, <2>12, <2>13, <2>14
  <2> QED BY <2>15 DEF raw, n, InStep
<1> HIDE DEF S
<1>3. Nat \subseteq S
  BY <1>1, <1>2, Induction
<1> QED BY <1>0, <1>3 DEF S

(* What is encrypted and then decrypted is what it was, with the same sum.  *)
LEMMA ComesBack ==
    ASSUME NEW sk, IsKey(sk), NEW p, Text(p)
    PROVE  LET secret == xray_crypt(p, sk, "encrypt")
               read   == xray_crypt(secret.out, sk, "decrypt")
           IN  read.out = p /\ read.sum = secret.sum
<1> DEFINE secret == xray_crypt(p, sk, "encrypt")
           c      == secret.out
           read   == xray_crypt(c, sk, "decrypt")
           C      == Count(p)
<1>1. Text(c) /\ Len(c) = Len(p)
  BY CryptType
<1>0. /\ Len(p) \in Nat /\ Len(c) \in Nat /\ C \in Nat
      /\ Count(c) = C
  BY <1>1, Places, SameLength DEF Text
<1>2. PICK e : /\ Runs(e, p, sk, "encrypt")
               /\ secret.sum = e[C].sum
               /\ c = Written(e, Len(p))
  BY <1>0, LoopUnfolds
<1> HIDE DEF c
<1>3. PICK d : /\ Runs(d, c, sk, "decrypt")
               /\ read.sum = d[Count(c)].sum
               /\ read.out = Written(d, Len(c))
  BY <1>0, LoopUnfolds
<1> HIDE DEF secret, read
<1>4. \A i \in 0 .. C : InStep(p, e, d, i)
  BY <1>1, <1>2, <1>3, Lockstep
<1>5. \A i \in 0 .. C :
         /\ d[i].sum = e[i].sum
         /\ i # 0 => Agree(d[i].new, WordAt(p, i), BytesOf(p, i))
  BY <1>4 DEF InStep
<1>6. read.sum = secret.sum
  BY <1>0, <1>2, <1>3, <1>5
<1>7. ASSUME NEW j \in 1 .. Len(p) PROVE d[WordOf(j)].new[ByteOf(j)] = p[j]
  <2> DEFINE i == WordOf(j)
             b == ByteOf(j)
  <2>1. i \in 1 .. C /\ b \in 1 .. BytesOf(p, i) /\ (i - 1) * WordBytes + b = j
    BY <1>0, Places
  <2>2. BytesOf(p, i) \in 1 .. WordBytes
    BY <1>0, <2>1, Places
  <2> HIDE DEF i, b
  <2>3. i \in 0 .. C /\ i # 0 /\ b \in 1 .. WordBytes /\ b <= BytesOf(p, i)
    BY <1>0, <2>1, <2>2, WidthsAssumption
  <2>4. d[i].new[b] = WordAt(p, i)[b]
    BY <1>5, <2>1, <2>3 DEF Agree
  <2>5. WordAt(p, i)[b] = p[j]
    BY <2>1, <2>3 DEF WordAt
  <2> QED BY <2>4, <2>5 DEF i, b
<1>8. p = [j \in 1 .. Len(p) |-> p[j]]
  BY DEF Text
<1>9. read.out = p
  BY <1>1, <1>3, <1>7, <1>8 DEF Written
<1> QED BY <1>6, <1>9 DEF secret, read, c

-----------------------------------------------------------------------------
(* The inductive invariant: what the buffer and the checksums hold between   *)
(* the two steps is what the loop makes of the message.                      *)
Ciphered ==
    LET secret == xray_crypt(plain, key, "encrypt")
    IN  /\ stage = "plain"  => buffer = plain
        /\ stage = "secret" => buffer = secret.out /\ sums.encrypt = secret.sum
CryptInv == CryptTypeOK /\ plain \in Buffers /\ Ciphered /\ RoundTrip

LEMMA BuffersAre ==
    /\ \A s \in Buffers : Text(s) /\ Len(s) \in 0 .. MaxBuffer
    /\ \A s, t : Text(s) /\ t \in Buffers /\ Len(s) = Len(t) => s \in Buffers
    /\ \A s \in Keys : IsKey(s)
<1>1. ASSUME NEW s \in Buffers PROVE Text(s) /\ Len(s) \in 0 .. MaxBuffer
  <2>1. PICK n \in 0 .. MaxBuffer : s \in [1 .. n -> Bytes]
    BY DEF Buffers
  <2>2. n \in Nat
    BY LengthsAssumption
  <2>3. s \in Seq(Bytes) /\ Len(s) = n
    BY <2>1, <2>2
  <2> QED BY <2>1, <2>2, <2>3 DEF Text
<1>2. ASSUME NEW s, NEW t, Text(s), t \in Buffers, Len(s) = Len(t) PROVE s \in Buffers
  <2>1. Len(s) \in 0 .. MaxBuffer /\ s \in [1 .. Len(s) -> Bytes]
    BY <1>1, <1>2 DEF Text
  <2> QED BY <2>1 DEF Buffers
<1>3. ASSUME NEW s \in Keys PROVE IsKey(s)
  <2>1. PICK n \in KeyLengths : s \in [1 .. n -> Words]
    BY DEF Keys
  <2>2. n \in Nat \ {0}
    BY LengthsAssumption
  <2>3. s \in Seq(Words) /\ Len(s) = n
    BY <2>1, <2>2
  <2> QED BY <2>1, <2>2, <2>3 DEF IsKey
<1> QED BY <1>1, <1>2, <1>3

LEMMA CryptStarts == CryptInit => CryptInv
<1> SUFFICES ASSUME CryptInit PROVE CryptInv
  OBVIOUS
<1>1. sums \in [{"encrypt", "decrypt"} -> 0 .. Wraps - 1]
  BY SumType DEF CryptInit
<1> QED BY <1>1 DEF CryptInit, CryptInv, CryptTypeOK, Ciphered, RoundTrip

(* A step of either direction. *)
LEMMA CryptStepType ==
    ASSUME CryptInv, NEW action \in {"encrypt", "decrypt"}, NEW from,
           NEW to \in {"plain", "secret", "read"}, Crypt(action, from, to)
    PROVE  CryptTypeOK' /\ (plain \in Buffers)' /\ key' = key /\ plain' = plain
<1> DEFINE result == xray_crypt(buffer, key, action)
<1>1. /\ buffer' = result.out /\ sums' = [sums EXCEPT ![action] = result.sum]
      /\ stage' = to /\ key' = key /\ plain' = plain
  BY DEF Crypt
<1>2. Text(buffer) /\ IsKey(key) /\ Len(buffer) = Len(plain)
  BY BuffersAre DEF CryptInv, CryptTypeOK
<1>3. Text(result.out) /\ Len(result.out) = Len(buffer) /\ result.sum \in 0 .. Wraps - 1
  BY <1>2, CryptType
<1> HIDE DEF result
<1>4. buffer' \in Buffers /\ Len(buffer') = Len(plain')
  BY <1>1, <1>2, <1>3, BuffersAre DEF CryptInv, CryptTypeOK
<1>5. sums' \in [{"encrypt", "decrypt"} -> 0 .. Wraps - 1]
  BY <1>1, <1>3 DEF CryptInv, CryptTypeOK
<1> QED BY <1>1, <1>4, <1>5 DEF CryptInv, CryptTypeOK

LEMMA CryptKeeps == CryptInv /\ [CryptNext]_CryptVars => CryptInv'
<1> SUFFICES ASSUME CryptInv, [CryptNext]_CryptVars PROVE CryptInv'
  OBVIOUS
<1>1. CASE Encrypt
  <2>1. CryptTypeOK' /\ (plain \in Buffers)' /\ key' = key /\ plain' = plain
    BY <1>1, CryptStepType DEF Encrypt
  <2> DEFINE secret == xray_crypt(plain, key, "encrypt")
  <2>2. buffer = plain
    BY <1>1 DEF CryptInv, Ciphered, Encrypt, Crypt
  <2>3. /\ stage' = "secret" /\ buffer' = xray_crypt(buffer, key, "encrypt").out
        /\ sums' = [sums EXCEPT !.encrypt = xray_crypt(buffer, key, "encrypt").sum]
    BY <1>1 DEF Encrypt, Crypt
  <2>4. "encrypt" \in DOMAIN sums
    BY DEF CryptInv, CryptTypeOK
  <2>5. buffer' = secret.out /\ sums'.encrypt = secret.sum
    BY <2>2, <2>3, <2>4
  <2> QED BY <2>1, <2>3, <2>5 DEF CryptInv, Ciphered, RoundTrip
<1>2. CASE Decrypt
  <2>1. CryptTypeOK' /\ (plain \in Buffers)' /\ key' = key /\ plain' = plain
    BY <1>2, CryptStepType DEF Decrypt
  <2> DEFINE secret == xray_crypt(plain, key, "encrypt")
             read   == xray_crypt(secret.out, key, "decrypt")
  <2>2. buffer = secret.out /\ sums.encrypt = secret.sum
    BY <1>2 DEF CryptInv, Ciphered, Decrypt, Crypt
  <2>3. /\ stage' = "read" /\ buffer' = xray_crypt(buffer, key, "decrypt").out
        /\ sums' = [sums EXCEPT !.decrypt = xray_crypt(buffer, key, "decrypt").sum]
    BY <1>2 DEF Decrypt, Crypt
  <2>4. sums \in [{"encrypt", "decrypt"} -> 0 .. Wraps - 1]
    BY DEF CryptInv, CryptTypeOK
  <2>5. buffer' = read.out /\ sums'.decrypt = read.sum /\ sums'.encrypt = sums.encrypt
    BY <2>2, <2>3, <2>4
  <2>6. IsKey(key) /\ Text(plain)
    BY BuffersAre DEF CryptInv, CryptTypeOK
  <2>7. read.out = plain /\ read.sum = secret.sum
    BY <2>6, ComesBack
  <2> HIDE DEF secret, read
  <2>8. buffer' = plain' /\ sums'.decrypt = sums'.encrypt
    BY <2>1, <2>2, <2>5, <2>7
  <2> QED BY <2>1, <2>3, <2>8 DEF CryptInv, Ciphered, RoundTrip
<1>3. CASE UNCHANGED CryptVars
  BY <1>3 DEF CryptVars, CryptInv, CryptTypeOK, Ciphered, RoundTrip
<1> QED BY <1>1, <1>2, <1>3 DEF CryptNext

(* The buffer keeps its length, and its bytes are bytes, in both directions. *)
THEOREM CryptTypes == CryptSpec => []CryptTypeOK
<1>1. CryptInv => CryptTypeOK
  BY DEF CryptInv
<1> QED BY CryptStarts, CryptKeeps, <1>1, PTL DEF CryptSpec

(* What is decrypted is what was encrypted, and so is the checksum. *)
THEOREM SecretsComeBack == CryptSpec => []RoundTrip
<1>1. CryptInv => RoundTrip
  BY DEF CryptInv
<1> QED BY CryptStarts, CryptKeeps, <1>1, PTL DEF CryptSpec
=============================================================================
