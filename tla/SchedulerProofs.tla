-------------------------- MODULE SchedulerProofs ---------------------------
(***************************************************************************)
(* Proofs about Scheduler, for any number of objects, requests and entries.*)
(***************************************************************************)
EXTENDS Scheduler, SequenceTheorems, WellFoundedInduction, TLAPS

-----------------------------------------------------------------------------
(* Requests about one object, in any list of requests. *)

Asked(R, o) == \E k \in DOMAIN R : R[k].Object = o

IsLast(R, o, k) ==
    /\ k \in DOMAIN R
    /\ R[k].Object = o
    /\ \A j \in DOMAIN R : R[j].Object = o => j <= k

LastOf(R, o) ==
    CHOOSE k \in DOMAIN R :
        /\ R[k].Object = o
        /\ \A j \in DOMAIN R : R[j].Object = o => j <= k

LastSays(R, o) == R[LastOf(R, o)]

IsFirst(R, o, k) ==
    /\ k \in DOMAIN R
    /\ R[k].Object = o
    /\ \A j \in DOMAIN R : R[j].Object = o => k <= j

\* Two lists of requests say the same about an object.
Agree(R, Q, o) ==
    /\ Asked(Q, o) <=> Asked(R, o)
    /\ Asked(R, o) => LastSays(Q, o) = LastSays(R, o)
    /\ \A k : IsFirst(Q, o, k) => \E n : IsFirst(R, o, n) /\ Q[k] = R[n]

\* Between two requests to register there is one to unregister.
Alternates(R) ==
    \A j, k \in DOMAIN R :
        (j < k /\ R[j].Object = R[k].Object /\ R[j].OP /\ R[k].OP) =>
            \E n \in DOMAIN R : /\ j < n /\ n < k
                               /\ R[n].Object = R[j].Object
                               /\ ~R[n].OP

-----------------------------------------------------------------------------
(* The inductive invariant. *)

InPass == phase \in {"rt", "rtcall", "step", "stepcall", "full"}

Has(s, o) == \E k \in DOMAIN s : s[k] = o

\* No object is in two places.
Single(s)  == \A j, k \in DOMAIN s : s[j] = s[k] => j = k
Singles(s) == \A j, k \in DOMAIN s :
                 s[j].Object \in Objs /\ s[j].Object = s[k].Object => j = k

Entries ==
    /\ Single(ItemsRT)
    /\ Singles(Items)
    /\ Singles(ItemsProcessed)
    /\ \A o \in Objs :
        /\ ~(InRT(o) /\ In(o, Items))
        /\ ~(In(o, ItemsProcessed) /\ (InRT(o) \/ In(o, Items)))
        /\ current = o => ~(InRT(o) \/ In(o, Items) \/ In(o, ItemsProcessed))

\* The first request about a listed object takes it off its list.
FirstFits ==
    \A o \in Objs : \A k \in DOMAIN Registration :
        Listed(o) /\ IsFirst(Registration, o, k) =>
            ~Registration[k].OP /\ (Registration[k].RT <=> InRT(o))

\* Without a request, the object knows its list.
FlagFits ==
    \A o \in Objs : Listed(o) /\ ~Requested(o) => (b_RT[o] <=> InRT(o))

Alive == \A o \in Objs : Registered(o) => life[o] \in {"needed", "unneeded"}

\* What a pass looks at has no request.
PassClean ==
    /\ InPass => \A o \in Objs : InRT(o) \/ In(o, Items) \/ current = o => ~Requested(o)
    /\ current # Null => phase = "stepcall"
    /\ phase \notin {"step", "stepcall", "full"} => ItemsProcessed = <<>>

\* Whom the pass has called is behind it.
Behind ==
    /\ phase \in {"idle", "first"} => called = {}
    /\ phase \in {"rt", "rtcall", "step", "stepcall"} =>
          \A o \in called : ~In(o, Items)
    /\ phase = "rt" =>
          \A k \in DOMAIN ItemsRT : ItemsRT[k] \in called => k < it
    /\ phase = "rtcall" =>
          \A k \in DOMAIN ItemsRT : ItemsRT[k] \in called => k <= it

IInv == /\ TypeOK /\ Entries /\ FirstFits /\ Alternates(Registration) /\ FlagFits /\ Alive
        /\ PassClean /\ Behind

-----------------------------------------------------------------------------
(* Sequences. *)

LEMMA EraseElement ==
    ASSUME NEW S, NEW s \in Seq(S), NEW k \in DOMAIN s
    PROVE  /\ Erase(s, k) \in Seq(S)
           /\ Len(Erase(s, k)) = Len(s) - 1
           /\ \A j \in DOMAIN Erase(s, k) :
                 /\ j < k => Erase(s, k)[j] = s[j]
                 /\ ~(j < k) => Erase(s, k)[j] = s[j + 1]
<1>1. /\ Len(s) \in Nat /\ DOMAIN s = 1 .. Len(s) /\ k \in 1 .. Len(s)
  BY LenProperties
<1>2. /\ SubSeq(s, 1, k - 1) \in Seq(S)
      /\ Len(SubSeq(s, 1, k - 1)) = k - 1
      /\ \A j \in 1 .. k - 1 : SubSeq(s, 1, k - 1)[j] = s[j]
  BY <1>1, SubSeqProperties
<1>3. /\ SubSeq(s, k + 1, Len(s)) \in Seq(S)
      /\ Len(SubSeq(s, k + 1, Len(s))) = Len(s) - k
      /\ \A j \in 1 .. Len(s) - k : SubSeq(s, k + 1, Len(s))[j] = s[k + j]
  BY <1>1, SubSeqProperties
<1>4. PICK a : a = SubSeq(s, 1, k - 1)
  OBVIOUS
<1>5. PICK b : b = SubSeq(s, k + 1, Len(s))
  OBVIOUS
<1>6. /\ a \in Seq(S) /\ Len(a) = k - 1 /\ \A j \in 1 .. k - 1 : a[j] = s[j]
      /\ b \in Seq(S) /\ Len(b) = Len(s) - k
      /\ \A j \in 1 .. Len(s) - k : b[j] = s[k + j]
  BY <1>2, <1>3, <1>4, <1>5
<1>7. /\ a \o b \in Seq(S)
      /\ Len(a \o b) = Len(a) + Len(b)
      /\ \A j \in 1 .. Len(a) + Len(b) :
            (a \o b)[j] = IF j <= Len(a) THEN a[j] ELSE b[j - Len(a)]
  BY <1>6, ConcatProperties
<1>8. Len(a) + Len(b) = Len(s) - 1
  BY <1>1, <1>6
<1>9. DOMAIN (a \o b) = 1 .. Len(s) - 1
  BY <1>7, <1>8, LenProperties
<1>10. ASSUME NEW j \in 1 .. Len(s) - 1
       PROVE  /\ j < k => (a \o b)[j] = s[j]
              /\ ~(j < k) => (a \o b)[j] = s[j + 1]
  <2>1. CASE j < k
    <3>1. j \in 1 .. k - 1 /\ j <= Len(a)
      BY <1>1, <1>6, <2>1
    <3>2. a[j] = s[j]
      BY <1>6, <3>1
    <3> QED BY <1>7, <1>8, <2>1, <3>1, <3>2
  <2>2. CASE ~(j < k)
    <3>1. /\ j - Len(a) \in 1 .. Len(s) - k
          /\ k + (j - Len(a)) = j + 1
          /\ ~(j <= Len(a))
      BY <1>1, <1>6, <2>2
    <3>2. b[j - Len(a)] = s[j + 1]
      BY <1>6, <3>1
    <3> QED BY <1>7, <1>8, <2>2, <3>1, <3>2
  <2> QED BY <2>1, <2>2
<1> QED BY <1>4, <1>5, <1>7, <1>8, <1>9, <1>10 DEF Erase

(* A list of requests in which an object occurs has a last one about it.   *)
LEMMA LastExists ==
    ASSUME NEW R \in Seq(ItemReg), NEW o, Asked(R, o)
    PROVE  IsLast(R, o, LastOf(R, o))
<1> DEFINE S == {n \in Nat : \E k \in DOMAIN R : R[k].Object = o /\ n = Len(R) - k}
<1>1. Len(R) \in Nat /\ DOMAIN R = 1 .. Len(R)
  BY LenProperties
<1>2. S \subseteq Nat /\ S # {}
  <2>1. PICK k \in DOMAIN R : R[k].Object = o
    BY DEF Asked
  <2>2. Len(R) - k \in S
    BY <1>1, <2>1
  <2> QED BY <2>2
<1> HIDE DEF S
<1>3. \E n \in S : \A m \in S : ~(<<m, n>> \in OpToRel(<, Nat))
  BY <1>2, NatLessThanWellFounded, WFMin
<1>4. \A m, n \in Nat : m < n => <<m, n>> \in OpToRel(<, Nat)
  BY DEF OpToRel
<1>5. PICK n \in S : \A m \in S : ~(m < n)
  BY <1>2, <1>3, <1>4
<1>6. PICK k \in DOMAIN R : R[k].Object = o /\ n = Len(R) - k
  BY <1>5 DEF S
<1>7. \A j \in DOMAIN R : R[j].Object = o => j <= k
  <2> SUFFICES ASSUME NEW j \in DOMAIN R, R[j].Object = o PROVE j <= k
    OBVIOUS
  <2>1. Len(R) - j \in S
    BY <1>1 DEF S
  <2>2. ~(Len(R) - j < Len(R) - k)
    BY <1>5, <1>6, <2>1
  <2> QED BY <1>1, <2>2
<1>8. \E k_ \in DOMAIN R : /\ R[k_].Object = o
                          /\ \A j \in DOMAIN R : R[j].Object = o => j <= k_
  BY <1>6, <1>7
<1> QED BY <1>8 DEF IsLast, LastOf

LEMMA LastUnique ==
    ASSUME NEW R \in Seq(ItemReg), NEW o, NEW k, IsLast(R, o, k)
    PROVE  LastOf(R, o) = k
<1>1. IsLast(R, o, LastOf(R, o))
  BY LastExists DEF IsLast, Asked
<1>2. DOMAIN R = 1 .. Len(R) /\ Len(R) \in Nat
  BY LenProperties
<1> QED BY <1>1, <1>2 DEF IsLast

-----------------------------------------------------------------------------
(* What becomes of the requests about an object when one is added, or some *)
(* are carried out.                                                        *)

\* Q is R and the request r.
Adds(R, r, Q) ==
    /\ \A p : Asked(Q, p) <=> Asked(R, p) \/ p = r.Object
    /\ LastSays(Q, r.Object) = r
    /\ \A p : p # r.Object /\ Asked(R, p) => LastSays(Q, p) = LastSays(R, p)
    /\ \A p, k : IsFirst(Q, p, k) /\ Asked(R, p) => IsFirst(R, p, k) /\ Q[k] = R[k]
    /\ \A k : IsFirst(Q, r.Object, k) /\ ~Asked(R, r.Object) => Q[k] = r
    /\ (Alternates(R) /\ (r.OP /\ Asked(R, r.Object) => ~LastSays(R, r.Object).OP))
          => Alternates(Q)

LEMMA AddedRequest ==
    ASSUME NEW R \in Seq(ItemReg), NEW r \in ItemReg
    PROVE  /\ Append(R, r) \in Seq(ItemReg)
           /\ Adds(R, r, Append(R, r))
<1> DEFINE Q == Append(R, r)
           n == Len(R)
<1>1. n \in Nat /\ DOMAIN R = 1 .. n
  BY LenProperties
<1>2. /\ Q \in Seq(ItemReg)
      /\ Len(Q) = n + 1
      /\ \A j \in 1 .. n : Q[j] = R[j]
      /\ Q[n + 1] = r
  BY AppendProperties
<1> HIDE DEF Q
<1>3. DOMAIN Q = 1 .. n + 1
  BY <1>2, LenProperties
<1> HIDE DEF n
<1>4. \A p : Asked(Q, p) <=> Asked(R, p) \/ p = r.Object
  BY <1>1, <1>2, <1>3 DEF Asked
<1>5. IsLast(Q, r.Object, n + 1)
  BY <1>1, <1>2, <1>3 DEF IsLast
<1>6. LastSays(Q, r.Object) = r
  BY <1>2, <1>5, LastUnique DEF LastSays
<1>7. ASSUME NEW p, p # r.Object, Asked(R, p)
      PROVE  LastSays(Q, p) = LastSays(R, p)
  <2>1. IsLast(R, p, LastOf(R, p))
    BY <1>7, LastExists
  <2>2. IsLast(Q, p, LastOf(R, p))
    BY <1>1, <1>2, <1>3, <1>7, <2>1 DEF IsLast
  <2>3. LastOf(Q, p) = LastOf(R, p)
    BY <1>2, <2>2, LastUnique
  <2> QED BY <1>1, <1>2, <2>1, <2>3 DEF IsLast, LastSays
<1>8. \A p, k : IsFirst(Q, p, k) /\ Asked(R, p) => IsFirst(R, p, k) /\ Q[k] = R[k]
  <2> SUFFICES ASSUME NEW p, NEW k, IsFirst(Q, p, k), Asked(R, p)
               PROVE  IsFirst(R, p, k) /\ Q[k] = R[k]
    OBVIOUS
  <2>1. PICK j \in 1 .. n : R[j].Object = p
    BY <1>1 DEF Asked
  <2>2. k <= j /\ k \in 1 .. n + 1
    BY <1>1, <1>2, <1>3, <2>1 DEF IsFirst
  <2>3. k \in 1 .. n
    BY <1>1, <2>1, <2>2
  <2> QED BY <1>1, <1>2, <1>3, <2>3 DEF IsFirst
<1>9. \A k : IsFirst(Q, r.Object, k) /\ ~Asked(R, r.Object) => Q[k] = r
  BY <1>1, <1>2, <1>3 DEF IsFirst, Asked
<1>10. ASSUME Alternates(R), r.OP /\ Asked(R, r.Object) => ~LastSays(R, r.Object).OP
       PROVE  Alternates(Q)
  <2> SUFFICES ASSUME NEW j \in DOMAIN Q, NEW k \in DOMAIN Q,
                      j < k, Q[j].Object = Q[k].Object, Q[j].OP, Q[k].OP
               PROVE  \E x \in DOMAIN Q : /\ j < x /\ x < k
                                         /\ Q[x].Object = Q[j].Object
                                         /\ ~Q[x].OP
    BY DEF Alternates
  <2>1. j \in 1 .. n /\ Q[j] = R[j]
    BY <1>1, <1>2, <1>3
  <2>2. CASE k \in 1 .. n
    <3>1. PICK x \in DOMAIN R : /\ j < x /\ x < k
                                /\ R[x].Object = R[j].Object /\ ~R[x].OP
      BY <1>1, <1>2, <1>10, <2>1, <2>2 DEF Alternates
    <3> QED BY <1>1, <1>2, <1>3, <2>1, <3>1
  <2>3. CASE k = n + 1
    <3> DEFINE x == LastOf(R, r.Object)
    <3>1. R[j].Object = r.Object /\ r.OP
      BY <1>2, <2>1, <2>3
    <3>2. Asked(R, r.Object)
      BY <1>1, <2>1, <3>1 DEF Asked
    <3>3. IsLast(R, r.Object, x)
      BY <3>2, LastExists
    <3>4. ~R[x].OP
      BY <1>10, <3>1, <3>2 DEF LastSays
    <3> HIDE DEF x
    <3>5. x \in 1 .. n /\ j <= x /\ R[x].Object = r.Object
      BY <1>1, <2>1, <3>1, <3>3 DEF IsLast
    <3>6. x # j
      BY <2>1, <3>4
    <3>7. Q[x] = R[x] /\ x \in DOMAIN Q /\ j < x /\ x < k
      BY <1>1, <1>2, <1>3, <2>1, <2>3, <3>5, <3>6
    <3> QED BY <2>1, <3>1, <3>4, <3>5, <3>7
  <2> QED BY <1>1, <1>3, <2>2, <2>3
<1>11. Adds(R, r, Q)
  BY <1>4, <1>6, <1>7, <1>8, <1>9, <1>10 DEF Adds
<1> QED BY <1>2, <1>11 DEF Q

\* Q is what is left of R, and all that R says about p is in it.
LEMMA KeptRequests ==
    ASSUME NEW R \in Seq(ItemReg), NEW Q \in Seq(ItemReg),
           NEW f \in [DOMAIN Q -> DOMAIN R],
           \A j, k \in DOMAIN Q : j < k => f[j] < f[k],
           \A j \in DOMAIN Q : Q[j] = R[f[j]],
           NEW p,
           \A k \in DOMAIN R : R[k].Object = p => \E j \in DOMAIN Q : f[j] = k
    PROVE  Agree(R, Q, p)
<1>1. DOMAIN R = 1 .. Len(R) /\ Len(R) \in Nat /\ DOMAIN Q = 1 .. Len(Q) /\ Len(Q) \in Nat
  BY LenProperties
<1>2. Asked(Q, p) <=> Asked(R, p)
  BY DEF Asked
<1>3. ASSUME Asked(R, p)
      PROVE  LastSays(Q, p) = LastSays(R, p)
  <2>1. IsLast(Q, p, LastOf(Q, p))
    BY <1>2, <1>3, LastExists
  <2>2. PICK k \in DOMAIN Q : IsLast(Q, p, k) /\ k = LastOf(Q, p)
    BY <2>1 DEF IsLast
  <2>3. IsLast(R, p, f[k])
    <3>1. f[k] \in DOMAIN R /\ R[f[k]].Object = p
      BY <2>2 DEF IsLast
    <3>2. ASSUME NEW n \in DOMAIN R, R[n].Object = p
          PROVE  n <= f[k]
      <4>1. PICK j \in DOMAIN Q : f[j] = n
        BY <3>2
      <4>2. Q[j].Object = p
        BY <3>2, <4>1
      <4>3. j <= k
        BY <2>2, <4>2 DEF IsLast
      <4>4. j < k \/ j = k
        BY <1>1, <4>3
      <4> QED BY <1>1, <3>1, <4>1, <4>4
    <3> QED BY <3>1, <3>2 DEF IsLast
  <2>4. LastOf(R, p) = f[k]
    BY <2>3, LastUnique
  <2> QED BY <2>2, <2>4 DEF LastSays
<1>4. ASSUME NEW k, IsFirst(Q, p, k)
      PROVE  IsFirst(R, p, f[k])
  <2>1. k \in DOMAIN Q /\ f[k] \in DOMAIN R /\ R[f[k]].Object = p
    BY <1>4 DEF IsFirst
  <2>2. ASSUME NEW n \in DOMAIN R, R[n].Object = p
        PROVE  f[k] <= n
    <3>1. PICK j \in DOMAIN Q : f[j] = n
      BY <2>2
    <3>2. Q[j].Object = p
      BY <2>2, <3>1
    <3>3. k < j \/ k = j
      BY <1>1, <1>4, <2>1, <3>2 DEF IsFirst
    <3> QED BY <1>1, <2>1, <3>1, <3>3
  <2> QED BY <2>1, <2>2 DEF IsFirst
<1>5. \A k : IsFirst(Q, p, k) => \E n : IsFirst(R, p, n) /\ Q[k] = R[n]
  <2> SUFFICES ASSUME NEW k, IsFirst(Q, p, k) PROVE \E n : IsFirst(R, p, n) /\ Q[k] = R[n]
    OBVIOUS
  <2>1. k \in DOMAIN Q /\ Q[k] = R[f[k]]
    BY DEF IsFirst
  <2> QED BY <1>4, <2>1
<1> QED BY <1>2, <1>3, <1>5 DEF Agree

LEMMA FirstRequestDone ==
    ASSUME NEW R \in Seq(ItemReg), R # <<>>,
           NEW Q, Q = Tail(R), NEW o, o = Head(R).Object
    PROVE  /\ Q \in Seq(ItemReg)
           /\ \A p : p # o => Agree(R, Q, p)
           /\ Asked(Q, o) => LastSays(Q, o) = LastSays(R, o)
           /\ ~Asked(Q, o) => LastSays(R, o) = Head(R)
           /\ IsFirst(R, o, 1) /\ Head(R) = R[1] /\ Asked(R, o)
           /\ Alternates(R) => Alternates(Q)
           /\ Alternates(R) /\ Head(R).OP /\ Pairs(o, Q) = {} => ~Asked(Q, o)
<1>1. DOMAIN R = 1 .. Len(R) /\ Len(R) \in Nat /\ Len(R) >= 1
  BY LenProperties, EmptySeq
<1>2. /\ Q \in Seq(ItemReg)
      /\ Len(Q) = Len(R) - 1
      /\ \A j \in 1 .. Len(R) - 1 : Q[j] = R[j + 1]
      /\ Head(R) = R[1]
  BY HeadTailProperties
<1>3. DOMAIN Q = 1 .. Len(R) - 1
  BY <1>2, LenProperties
<1> DEFINE f == [j \in DOMAIN Q |-> j + 1]
<1>4. /\ f \in [DOMAIN Q -> DOMAIN R]
      /\ \A j, k \in DOMAIN Q : j < k => f[j] < f[k]
      /\ \A j \in DOMAIN Q : Q[j] = R[f[j]]
      /\ \A k \in DOMAIN R : k # 1 => \E j \in DOMAIN Q : f[j] = k
  <2>1. ASSUME NEW k \in DOMAIN R, k # 1
        PROVE  \E j \in DOMAIN Q : f[j] = k
    <3>1. k - 1 \in DOMAIN Q /\ (k - 1) + 1 = k
      BY <1>1, <1>3, <2>1
    <3> QED BY <3>1
  <2> QED BY <1>1, <1>2, <1>3, <2>1
<1> HIDE DEF f
<1>5. ASSUME NEW p, p # o
      PROVE  Agree(R, Q, p)
  <2>1. \A k \in DOMAIN R : R[k].Object = p => \E j \in DOMAIN Q : f[j] = k
    BY <1>2, <1>4, <1>5
  <2> QED BY <1>2, <1>4, <2>1, KeptRequests
<1>6. IsFirst(R, o, 1) /\ Asked(R, o)
  BY <1>1, <1>2 DEF IsFirst, Asked
<1>7. ASSUME Asked(Q, o)
      PROVE  LastSays(Q, o) = LastSays(R, o)
  <2>1. IsLast(Q, o, LastOf(Q, o))
    BY <1>2, <1>7, LastExists
  <2>2. PICK k \in DOMAIN Q : IsLast(Q, o, k) /\ k = LastOf(Q, o)
    BY <2>1 DEF IsLast
  <2>3. ASSUME NEW n \in DOMAIN R, R[n].Object = o
        PROVE  n <= k + 1
    <3>1. CASE n = 1
      BY <1>1, <1>3, <3>1
    <3>2. CASE n # 1
      <4>1. n - 1 \in DOMAIN Q /\ (n - 1) + 1 = n
        BY <1>1, <1>3, <3>2
      <4>2. Q[n - 1].Object = o
        BY <1>2, <1>3, <2>3, <4>1
      <4> QED BY <1>1, <1>3, <2>2, <4>1, <4>2 DEF IsLast
    <3> QED BY <3>1, <3>2
  <2>4. k + 1 \in DOMAIN R /\ R[k + 1] = Q[k]
    BY <1>1, <1>2, <1>3
  <2>5. IsLast(R, o, k + 1)
    BY <2>2, <2>3, <2>4 DEF IsLast
  <2> QED BY <2>2, <2>4, <2>5, LastUnique DEF LastSays
<1>8. ASSUME ~Asked(Q, o)
      PROVE  LastSays(R, o) = Head(R)
  <2>1. \A n \in DOMAIN R : R[n].Object = o => n = 1
    <3> SUFFICES ASSUME NEW n \in DOMAIN R, R[n].Object = o, n # 1 PROVE FALSE
      OBVIOUS
    <3>1. PICK j \in DOMAIN Q : f[j] = n
      BY <1>4
    <3> QED BY <1>4, <1>8, <3>1 DEF Asked
  <2>2. IsLast(R, o, 1)
    BY <1>1, <1>6, <2>1 DEF IsLast, IsFirst
  <2> QED BY <1>2, <2>2, LastUnique DEF LastSays
<1>9. ASSUME Alternates(R)
      PROVE  Alternates(Q)
  <2> SUFFICES ASSUME NEW j \in DOMAIN Q, NEW k \in DOMAIN Q,
                      j < k, Q[j].Object = Q[k].Object, Q[j].OP, Q[k].OP
               PROVE  \E x \in DOMAIN Q : /\ j < x /\ x < k
                                         /\ Q[x].Object = Q[j].Object
                                         /\ ~Q[x].OP
    BY DEF Alternates
  <2>1. /\ j + 1 \in DOMAIN R /\ k + 1 \in DOMAIN R /\ j + 1 < k + 1
        /\ Q[j] = R[j + 1] /\ Q[k] = R[k + 1]
    BY <1>1, <1>2, <1>3
  <2>2. PICK y \in DOMAIN R : /\ j + 1 < y /\ y < k + 1
                              /\ R[y].Object = R[j + 1].Object /\ ~R[y].OP
    BY <1>9, <2>1 DEF Alternates
  <2>3. /\ y - 1 \in DOMAIN Q /\ j < y - 1 /\ y - 1 < k
        /\ (y - 1) + 1 = y
    BY <1>1, <1>3, <2>2
  <2>4. Q[y - 1] = R[y]
    BY <1>2, <1>3, <2>3
  <2> QED BY <2>1, <2>2, <2>3, <2>4
<1>10. ASSUME Alternates(R), Head(R).OP, Pairs(o, Q) = {}
       PROVE  ~Asked(Q, o)
  <2> SUFFICES ASSUME NEW k \in DOMAIN Q, Q[k].Object = o PROVE FALSE
    BY DEF Asked
  <2>1. \A j \in DOMAIN Q : Q[j].Object = o => Q[j].OP
    BY <1>10 DEF Pairs
  <2>2. /\ 1 \in DOMAIN R /\ k + 1 \in DOMAIN R /\ 1 < k + 1
        /\ R[k + 1] = Q[k] /\ R[1].Object = o /\ R[1].OP
    BY <1>1, <1>2, <1>3, <1>10
  <2>3. PICK y \in DOMAIN R : 1 < y /\ R[y].Object = o /\ ~R[y].OP
    BY <1>10, <2>1, <2>2 DEF Alternates
  <2>4. y - 1 \in DOMAIN Q /\ (y - 1) + 1 = y
    BY <1>1, <1>3, <2>3
  <2>5. Q[y - 1] = R[y]
    BY <1>2, <1>3, <2>4
  <2> QED BY <2>1, <2>3, <2>4, <2>5
<1> QED BY <1>2, <1>5, <1>6, <1>7, <1>8, <1>9, <1>10

\* Q is R without its first request and the one that takes it back.
TakenBack(R, Q, o) ==
    /\ \A p : p # o => Agree(R, Q, p)
    /\ Asked(Q, o) => LastSays(Q, o) = LastSays(R, o)
    /\ ~Asked(Q, o) => ~LastSays(R, o).OP
    /\ IsFirst(R, o, 1) /\ Asked(R, o)
    /\ Alternates(Q)

LEMMA PairDone ==
    ASSUME NEW R \in Seq(ItemReg), NEW T \in Seq(ItemReg),
           NEW Q \in Seq(ItemReg), NEW k \in DOMAIN T, NEW o,
           Len(R) >= 1, Len(T) = Len(R) - 1, Len(Q) = Len(T) - 1,
           \A j \in DOMAIN T : T[j] = R[j + 1],
           \A j \in DOMAIN Q : /\ j < k => Q[j] = T[j]
                               /\ ~(j < k) => Q[j] = T[j + 1],
           Alternates(R), R[1].OP, R[1].Object = o,
           ~T[k].OP, T[k].Object = o,
           \A j \in DOMAIN T : T[j].Object = o /\ ~T[j].OP => k <= j
    PROVE  TakenBack(R, Q, o)
<1>1. DOMAIN R = 1 .. Len(R) /\ Len(R) \in Nat /\ Len(R) >= 1
  BY LenProperties
<1>2. \A j \in 1 .. Len(R) - 1 : T[j] = R[j + 1]
  BY LenProperties
<1>3. DOMAIN T = 1 .. Len(R) - 1
  BY LenProperties
<1>4. k \in DOMAIN T /\ ~T[k].OP /\ T[k].Object = o
  OBVIOUS
<1>5. \A j \in DOMAIN T : T[j].Object = o /\ ~T[j].OP => k <= j
  OBVIOUS
<1>6. \A j \in DOMAIN Q : /\ j < k => Q[j] = T[j]
                          /\ ~(j < k) => Q[j] = T[j + 1]
  OBVIOUS
<1>7. DOMAIN Q = 1 .. Len(R) - 2
  <2>1. Len(R) \in Nat /\ Len(Q) = Len(R) - 2
    BY LenProperties
  <2> QED BY <2>1, LenProperties
<1>7a. k \in 1 .. Len(R) - 1
  BY <1>3, <1>4
<1> DEFINE g(j) == IF j < k THEN j + 1 ELSE j + 2
<1>7b. /\ \A j \in DOMAIN Q : g(j) \in DOMAIN R /\ g(j) # 1 /\ g(j) # k + 1
       /\ \A j, n \in DOMAIN Q : j < n => g(j) < g(n)
       /\ \A j : /\ j < k => g(j) = j + 1
                 /\ ~(j < k) => g(j) = j + 2
  BY <1>1, <1>7, <1>7a
<1> HIDE DEF g
<1> DEFINE f == [j \in DOMAIN Q |-> g(j)]
<1>8. /\ f \in [DOMAIN Q -> DOMAIN R]
      /\ \A j, n \in DOMAIN Q : j < n => f[j] < f[n]
      /\ \A j \in DOMAIN Q : f[j] # 1 /\ f[j] # k + 1
      /\ \A j \in DOMAIN Q : /\ j < k => f[j] = j + 1
                             /\ ~(j < k) => f[j] = j + 2
  BY <1>7b
<1> HIDE DEF f
<1>9. ASSUME NEW j \in DOMAIN Q
      PROVE  Q[j] = R[f[j]]
  <2>1. CASE j < k
    <3>1. j \in 1 .. Len(R) - 1
      BY <1>1, <1>7
    <3> QED BY <1>2, <1>6, <1>8, <2>1, <3>1
  <2>2. CASE ~(j < k)
    <3>1. j + 1 \in 1 .. Len(R) - 1 /\ j + 1 + 1 = j + 2
      BY <1>1, <1>7
    <3>2. T[j + 1] = R[j + 2]
      BY <1>2, <3>1
    <3> QED BY <1>6, <1>8, <2>2, <3>2
  <2> QED BY <2>1, <2>2
<1>10. ASSUME NEW n \in DOMAIN R, n # 1, n # k + 1
       PROVE  \E j \in DOMAIN Q : f[j] = n
  <2>1. CASE n < k + 1
    <3>1. n - 1 \in DOMAIN Q /\ n - 1 < k /\ (n - 1) + 1 = n
      BY <1>1, <1>3, <1>4, <1>7, <1>10, <2>1
    <3> QED BY <1>8, <3>1
  <2>2. CASE ~(n < k + 1)
    <3>1. n - 2 \in DOMAIN Q /\ ~(n - 2 < k) /\ (n - 2) + 2 = n
      BY <1>1, <1>3, <1>4, <1>7, <1>10, <2>2
    <3> QED BY <1>8, <3>1
  <2> QED BY <2>1, <2>2
<1>11. /\ k + 1 \in DOMAIN R /\ R[k + 1] = T[k]
       /\ 1 \in DOMAIN R /\ R[1].Object = o /\ R[1].OP
  BY <1>1, <1>2, <1>3, <1>4
\* Between the pair there is no other request about the object.
<1>12. ASSUME NEW n \in DOMAIN R, R[n].Object = o, n # 1
       PROVE  n >= k + 1
  <2> SUFFICES ASSUME n < k + 1 PROVE FALSE
    BY <1>1, <1>3, <1>4
  <2>1. n - 1 \in DOMAIN T /\ (n - 1) + 1 = n /\ ~(k <= n - 1)
    BY <1>1, <1>3, <1>4, <1>12
  <2>2. R[n].OP
    BY <1>2, <1>3, <1>5, <1>12, <2>1
  <2>3. 1 < n
    BY <1>1, <1>12
  <2>4. PICK y \in DOMAIN R : /\ 1 < y /\ y < n /\ R[y].Object = o /\ ~R[y].OP
    BY <1>11, <1>12, <2>2, <2>3 DEF Alternates
  <2>5. y - 1 \in DOMAIN T /\ (y - 1) + 1 = y /\ ~(k <= y - 1)
    BY <1>1, <1>3, <1>4, <2>4
  <2> QED BY <1>2, <1>3, <1>5, <2>4, <2>5
<1>13. ASSUME NEW p, p # o
       PROVE  Agree(R, Q, p)
  <2>1. \A n \in DOMAIN R : R[n].Object = p => \E j \in DOMAIN Q : f[j] = n
    BY <1>4, <1>10, <1>11, <1>13
  <2>2. /\ \A j, n \in DOMAIN Q : j < n => f[j] < f[n]
        /\ \A j \in DOMAIN Q : Q[j] = R[f[j]]
        /\ f \in [DOMAIN Q -> DOMAIN R]
    BY <1>8, <1>9
  <2> QED BY <2>1, <2>2, KeptRequests
<1>14. IsFirst(R, o, 1) /\ Asked(R, o)
  BY <1>1, <1>11 DEF IsFirst, Asked
<1>15. PICK z \in DOMAIN R : IsLast(R, o, z) /\ z = LastOf(R, o)
  BY <1>14, LastExists DEF IsLast
<1>16. z >= k + 1
  BY <1>1, <1>3, <1>4, <1>11, <1>15 DEF IsLast
<1>17. ASSUME z = k + 1
       PROVE  ~Asked(Q, o) /\ ~LastSays(R, o).OP
  <2>1. ~Asked(Q, o)
    <3> SUFFICES ASSUME NEW j \in DOMAIN Q, Q[j].Object = o PROVE FALSE
      BY DEF Asked
    <3>1. f[j] \in DOMAIN R /\ R[f[j]].Object = o /\ f[j] # 1 /\ f[j] # k + 1
      BY <1>8, <1>9
    <3>2. f[j] >= k + 1 /\ f[j] <= k + 1
      BY <1>12, <1>15, <1>17, <3>1 DEF IsLast
    <3> QED BY <1>1, <1>3, <1>4, <3>1, <3>2
  <2>2. ~LastSays(R, o).OP
    BY <1>4, <1>11, <1>15, <1>17 DEF LastSays
  <2> QED BY <2>1, <2>2
<1>18. ASSUME z # k + 1
       PROVE  Asked(Q, o) /\ LastSays(Q, o) = LastSays(R, o)
  <2>1. z # 1
    BY <1>3, <1>4, <1>16
  <2>2. PICK j \in DOMAIN Q : f[j] = z
    BY <1>10, <1>18, <2>1
  <2>3. Q[j].Object = o
    BY <1>9, <1>15, <2>2 DEF IsLast
  <2>4. ASSUME NEW n \in DOMAIN Q, Q[n].Object = o
        PROVE  n <= j
    <3>1. f[n] <= z
      BY <1>8, <1>9, <1>15, <2>4 DEF IsLast
    <3>2. ~(j < n)
      BY <1>1, <1>8, <2>2, <3>1
    <3> QED BY <1>7, <3>2
  <2>5. IsLast(Q, o, j)
    BY <2>3, <2>4 DEF IsLast
  <2>6. LastOf(Q, o) = j
    BY <1>6, <2>5, LastUnique
  <2> QED BY <1>9, <1>15, <2>2, <2>3, <2>6 DEF Asked, LastSays
<1>19. Alternates(Q)
  <2> SUFFICES ASSUME NEW j \in DOMAIN Q, NEW n \in DOMAIN Q,
                      j < n, Q[j].Object = Q[n].Object, Q[j].OP, Q[n].OP
               PROVE  \E x \in DOMAIN Q : /\ j < x /\ x < n
                                         /\ Q[x].Object = Q[j].Object
                                         /\ ~Q[x].OP
    BY DEF Alternates
  <2>1. /\ f[j] \in DOMAIN R /\ f[n] \in DOMAIN R /\ f[j] < f[n] /\ f[j] # 1
        /\ Q[j] = R[f[j]] /\ Q[n] = R[f[n]]
    BY <1>8, <1>9
  <2>2. PICK y \in DOMAIN R : /\ f[j] < y /\ y < f[n]
                              /\ R[y].Object = R[f[j]].Object /\ ~R[y].OP
    <3>1. /\ R[f[j]].Object = R[f[n]].Object /\ R[f[j]].OP /\ R[f[n]].OP
      BY <2>1
    <3> QED BY <2>1, <3>1 DEF Alternates
  <2>3. y # 1
    BY <1>1, <2>1, <2>2
  <2>4. y # k + 1
    <3> SUFFICES ASSUME y = k + 1 PROVE FALSE
      OBVIOUS
    <3>1. R[f[j]].Object = o
      BY <1>4, <1>11, <2>2
    <3>2. f[j] >= k + 1
      BY <1>12, <2>1, <3>1
    <3> QED BY <1>1, <1>3, <1>4, <2>1, <2>2, <3>2
  <2>5. PICK x \in DOMAIN Q : f[x] = y
    BY <1>10, <2>3, <2>4
  <2>6. Q[x] = R[y]
    BY <1>9, <2>5
  <2>7. ~(x < j) /\ x # j /\ ~(n < x) /\ x # n
    BY <1>1, <1>8, <2>1, <2>2, <2>5
  <2>8. j < x /\ x < n
    BY <1>7, <2>7
  <2> QED BY <2>1, <2>2, <2>6, <2>8
<1> QED BY <1>2, <1>6, <1>13, <1>14, <1>17, <1>18, <1>19 DEF TakenBack

-----------------------------------------------------------------------------
(* Who is in a list after an operation on it.                              *)

LEMMA EraseIndex ==
    ASSUME NEW S, NEW s \in Seq(S), NEW k \in DOMAIN s, NEW e, e = Erase(s, k)
    PROVE  /\ e \in Seq(S)
           /\ Len(e) = Len(s) - 1
           /\ \A j \in DOMAIN e : \E n \in DOMAIN s : n # k /\ j <= n /\ e[j] = s[n]
           /\ \A n \in DOMAIN s : n # k => \E j \in DOMAIN e : e[j] = s[n]
           /\ \A j, l \in DOMAIN e : j # l =>
                 \E m, n \in DOMAIN s : m # n /\ e[j] = s[m] /\ e[l] = s[n]
<1>1. /\ e \in Seq(S)
      /\ Len(e) = Len(s) - 1
      /\ \A j \in DOMAIN e : /\ j < k => e[j] = s[j]
                             /\ ~(j < k) => e[j] = s[j + 1]
  BY EraseElement
<1>2. /\ Len(s) \in Nat /\ DOMAIN s = 1 .. Len(s) /\ k \in 1 .. Len(s)
      /\ DOMAIN e = 1 .. Len(s) - 1
  BY <1>1, LenProperties
<1>3. ASSUME NEW j \in DOMAIN e
      PROVE  \E n \in DOMAIN s : n # k /\ j <= n /\ e[j] = s[n]
  <2>1. CASE j < k
    BY <1>1, <1>2, <2>1
  <2>2. CASE ~(j < k)
    <3>1. j + 1 \in DOMAIN s /\ j + 1 # k /\ j <= j + 1
      BY <1>2, <2>2
    <3> QED BY <1>1, <2>2, <3>1
  <2> QED BY <2>1, <2>2
<1>4. ASSUME NEW n \in DOMAIN s, n # k
      PROVE  \E j \in DOMAIN e : e[j] = s[n]
  <2>1. CASE n < k
    <3>1. n \in DOMAIN e
      BY <1>2, <2>1
    <3> QED BY <1>1, <2>1, <3>1
  <2>2. CASE ~(n < k)
    <3>1. n - 1 \in DOMAIN e /\ ~(n - 1 < k) /\ (n - 1) + 1 = n
      BY <1>2, <1>4, <2>2
    <3> QED BY <1>1, <3>1
  <2> QED BY <2>1, <2>2
<1>5. ASSUME NEW j \in DOMAIN e, NEW l \in DOMAIN e, j # l
      PROVE  \E m, n \in DOMAIN s : m # n /\ e[j] = s[m] /\ e[l] = s[n]
  <2>1. PICK m \in DOMAIN s : /\ e[j] = s[m]
                              /\ j < k => m = j
                              /\ ~(j < k) => m = j + 1
    <3>1. j < k => j \in DOMAIN s
      BY <1>2
    <3>2. j + 1 \in DOMAIN s
      BY <1>2
    <3> QED BY <1>1, <3>1, <3>2
  <2>2. PICK n \in DOMAIN s : /\ e[l] = s[n]
                              /\ l < k => n = l
                              /\ ~(l < k) => n = l + 1
    <3>1. l < k => l \in DOMAIN s
      BY <1>2
    <3>2. l + 1 \in DOMAIN s
      BY <1>2
    <3> QED BY <1>1, <3>1, <3>2
  <2>3. m # n
    BY <1>2, <1>5, <2>1, <2>2
  <2> QED BY <2>1, <2>2, <2>3
<1> QED BY <1>1, <1>3, <1>4, <1>5

LEMMA EraseRT ==
    ASSUME NEW s \in Seq(Objs), NEW k \in DOMAIN s, NEW e, e = Erase(s, k),
           Single(s)
    PROVE  /\ e \in Seq(Objs)
           /\ Single(e)
           /\ \A p : Has(e, p) <=> Has(s, p) /\ p # s[k]
           /\ \A j \in DOMAIN e : \E n \in DOMAIN s : j <= n /\ e[j] = s[n]
<1>1. /\ e \in Seq(Objs)
      /\ \A j \in DOMAIN e : \E n \in DOMAIN s : n # k /\ j <= n /\ e[j] = s[n]
      /\ \A n \in DOMAIN s : n # k => \E j \in DOMAIN e : e[j] = s[n]
      /\ \A j, l \in DOMAIN e : j # l =>
            \E m, n \in DOMAIN s : m # n /\ e[j] = s[m] /\ e[l] = s[n]
  BY EraseIndex
<1>2. Single(e)
  BY <1>1 DEF Single
<1>3. ASSUME NEW p PROVE Has(e, p) <=> Has(s, p) /\ p # s[k]
  <2>1. ASSUME Has(e, p) PROVE Has(s, p) /\ p # s[k]
    BY <1>1, <2>1 DEF Has, Single
  <2>2. ASSUME Has(s, p), p # s[k] PROVE Has(e, p)
    BY <1>1, <2>2 DEF Has
  <2> QED BY <2>1, <2>2
<1> QED BY <1>1, <1>2, <1>3

LEMMA EraseItem ==
    ASSUME NEW s \in Seq(Item), NEW k \in DOMAIN s, NEW e, e = Erase(s, k),
           Singles(s)
    PROVE  /\ e \in Seq(Item)
           /\ Singles(e)
           /\ \A p \in Objs : In(p, e) <=> In(p, s) /\ p # s[k].Object
<1>1. /\ e \in Seq(Item)
      /\ \A j \in DOMAIN e : \E n \in DOMAIN s : n # k /\ j <= n /\ e[j] = s[n]
      /\ \A n \in DOMAIN s : n # k => \E j \in DOMAIN e : e[j] = s[n]
      /\ \A j, l \in DOMAIN e : j # l =>
            \E m, n \in DOMAIN s : m # n /\ e[j] = s[m] /\ e[l] = s[n]
  BY EraseIndex
<1>2. Singles(e)
  <2> SUFFICES ASSUME NEW j \in DOMAIN e, NEW l \in DOMAIN e, j # l,
                      e[j].Object \in Objs, e[j].Object = e[l].Object
               PROVE  FALSE
    BY DEF Singles
  <2>1. PICK m \in DOMAIN s, n \in DOMAIN s : m # n /\ e[j] = s[m] /\ e[l] = s[n]
    BY <1>1
  <2> QED BY <2>1 DEF Singles
<1>3. ASSUME NEW p \in Objs PROVE In(p, e) <=> In(p, s) /\ p # s[k].Object
  <2>1. ASSUME In(p, e) PROVE In(p, s) /\ p # s[k].Object
    BY <1>1, <2>1 DEF In, Singles
  <2>2. ASSUME In(p, s), p # s[k].Object PROVE In(p, e)
    BY <1>1, <2>2 DEF In
  <2> QED BY <2>1, <2>2
<1> QED BY <1>1, <1>2, <1>3

LEMMA AppendRT ==
    ASSUME NEW s \in Seq(Objs), NEW o \in Objs, NEW e, e = Append(s, o),
           Single(s), ~Has(s, o)
    PROVE  /\ e \in Seq(Objs)
           /\ Single(e)
           /\ \A p : Has(e, p) <=> Has(s, p) \/ p = o
<1>1. /\ e \in Seq(Objs) /\ Len(e) = Len(s) + 1
      /\ \A j \in 1 .. Len(s) : e[j] = s[j]
      /\ e[Len(s) + 1] = o
  BY AppendProperties
<1>2. /\ Len(s) \in Nat /\ DOMAIN s = 1 .. Len(s) /\ DOMAIN e = 1 .. Len(s) + 1
  BY <1>1, LenProperties
<1>3. \A p : Has(e, p) <=> Has(s, p) \/ p = o
  BY <1>1, <1>2 DEF Has
<1>4. Single(e)
  BY <1>1, <1>2 DEF Single, Has
<1> QED BY <1>1, <1>3, <1>4

LEMMA AppendItem ==
    ASSUME NEW s \in Seq(Item), NEW x \in Item, NEW e, e = Append(s, x),
           Singles(s), x.Object \in Objs, ~In(x.Object, s)
    PROVE  /\ e \in Seq(Item)
           /\ Singles(e)
           /\ \A p : In(p, e) <=> In(p, s) \/ p = x.Object
<1>1. /\ e \in Seq(Item) /\ Len(e) = Len(s) + 1
      /\ \A j \in 1 .. Len(s) : e[j] = s[j]
      /\ e[Len(s) + 1] = x
  BY AppendProperties
<1>2. /\ Len(s) \in Nat /\ DOMAIN s = 1 .. Len(s) /\ DOMAIN e = 1 .. Len(s) + 1
  BY <1>1, LenProperties
<1>3. \A p : In(p, e) <=> In(p, s) \/ p = x.Object
  BY <1>1, <1>2 DEF In
<1>4. Singles(e)
  BY <1>1, <1>2 DEF Singles, In
<1> QED BY <1>1, <1>3, <1>4

\* internal_Unregister overwrites the pointer in the heap.
LEMMA OverwriteItem ==
    ASSUME NEW s \in Seq(Item), NEW k \in DOMAIN s,
           NEW e \in [DOMAIN s -> Item], e[k].Object = Null,
           \A j \in DOMAIN s : j # k => e[j] = s[j], Singles(s)
    PROVE  /\ e \in Seq(Item)
           /\ Singles(e)
           /\ \A p \in Objs : In(p, e) <=> In(p, s) /\ p # s[k].Object
<1>1. DOMAIN s = 1 .. Len(s) /\ Len(s) \in Nat
  BY LenProperties
<1>3. /\ DOMAIN e = DOMAIN s
      /\ \A j \in DOMAIN s : e[j] \in Item
      /\ e[k].Object = Null
      /\ \A j \in DOMAIN s : j # k => e[j] = s[j]
  OBVIOUS
<1>4. e \in Seq(Item)
  <2>1. \A j \in 1 .. Len(s) : e[j] \in Item
    BY <1>1, <1>3
  <2>2. e = [j \in 1 .. Len(s) |-> e[j]]
    BY <1>1, <1>3
  <2> QED BY <1>1, <2>1, <2>2, IsASeq
<1>5. Singles(e)
  BY <1>3, NullAssumption DEF Singles
<1>6. ASSUME NEW p \in Objs PROVE In(p, e) <=> In(p, s) /\ p # s[k].Object
  <2>1. ASSUME In(p, e) PROVE In(p, s) /\ p # s[k].Object
    <3>1. PICK j \in DOMAIN e : e[j].Object = p
      BY <2>1 DEF In
    <3>2. j # k /\ j \in DOMAIN s /\ s[j].Object = p
      BY <1>3, <3>1, NullAssumption
    <3> QED BY <3>2 DEF In, Singles
  <2>2. ASSUME In(p, s), p # s[k].Object PROVE In(p, e)
    BY <1>3, <2>2 DEF In
  <2> QED BY <2>1, <2>2
<1> QED BY <1>4, <1>5, <1>6

LEMMA JoinItems ==
    ASSUME NEW s \in Seq(Item), NEW t \in Seq(Item), NEW e, e = s \o t,
           Singles(s), Singles(t), \A p \in Objs : ~(In(p, s) /\ In(p, t))
    PROVE  /\ e \in Seq(Item)
           /\ Singles(e)
           /\ \A p : In(p, e) <=> In(p, s) \/ In(p, t)
<1>1. /\ e \in Seq(Item)
      /\ Len(e) = Len(s) + Len(t)
      /\ \A j \in 1 .. Len(s) + Len(t) : e[j] =
            IF j <= Len(s) THEN s[j] ELSE t[j - Len(s)]
  BY ConcatProperties
<1>2. /\ Len(s) \in Nat /\ DOMAIN s = 1 .. Len(s)
      /\ Len(t) \in Nat /\ DOMAIN t = 1 .. Len(t)
      /\ DOMAIN e = 1 .. Len(s) + Len(t)
  BY <1>1, LenProperties
<1>3. \A j \in DOMAIN e :
         \/ j \in DOMAIN s /\ e[j] = s[j]
         \/ j - Len(s) \in DOMAIN t /\ e[j] = t[j - Len(s)]
  BY <1>1, <1>2
<1>4. \A j \in DOMAIN s : j \in DOMAIN e /\ e[j] = s[j]
  BY <1>1, <1>2
<1>5. \A j \in DOMAIN t : \E n \in DOMAIN e : e[n] = t[j]
  <2> TAKE j \in DOMAIN t
  <2>1. j + Len(s) \in DOMAIN e /\ ~(j + Len(s) <= Len(s)) /\ (j + Len(s)) - Len(s) = j
    BY <1>2
  <2> QED BY <1>1, <1>2, <2>1
<1>6. ASSUME NEW p PROVE In(p, e) <=> In(p, s) \/ In(p, t)
  <2>1. In(p, e) => In(p, s) \/ In(p, t)
    BY <1>3 DEF In
  <2>2. In(p, s) => In(p, e)
    BY <1>4 DEF In
  <2>3. In(p, t) => In(p, e)
    BY <1>5 DEF In
  <2> QED BY <2>1, <2>2, <2>3
<1>7. Singles(e)
  <2> SUFFICES ASSUME NEW j \in DOMAIN e, NEW k \in DOMAIN e,
                      e[j].Object \in Objs, e[j].Object = e[k].Object
               PROVE  j = k
    BY DEF Singles
  <2>1. CASE j \in DOMAIN s /\ e[j] = s[j] /\ k \in DOMAIN s /\ e[k] = s[k]
    BY <2>1 DEF Singles
  <2>2. CASE /\ j - Len(s) \in DOMAIN t /\ e[j] = t[j - Len(s)]
             /\ k - Len(s) \in DOMAIN t /\ e[k] = t[k - Len(s)]
    <3>1. j - Len(s) = k - Len(s)
      BY <2>2 DEF Singles
    <3> QED BY <1>2, <3>1
  <2>3. CASE /\ j \in DOMAIN s /\ e[j] = s[j]
             /\ k - Len(s) \in DOMAIN t /\ e[k] = t[k - Len(s)]
    BY <2>3 DEF In
  <2>4. CASE /\ k \in DOMAIN s /\ e[k] = s[k]
             /\ j - Len(s) \in DOMAIN t /\ e[j] = t[j - Len(s)]
    BY <2>4 DEF In
  <2> QED BY <1>3, <2>1, <2>2, <2>3, <2>4
<1> QED BY <1>1, <1>6, <1>7

\* The frame advances: deadlines change, pointers do not.
LEMMA AgeItems ==
    ASSUME NEW s \in Seq(Item), NEW e,
           e = [k \in DOMAIN s |-> [s[k] EXCEPT !.time = @ - 1]], Singles(s)
    PROVE  /\ e \in Seq(Item)
           /\ Singles(e)
           /\ \A p : In(p, e) <=> In(p, s)
<1>1. DOMAIN s = 1 .. Len(s) /\ Len(s) \in Nat
  BY LenProperties
<1>2. \A j \in DOMAIN s : s[j] \in Item
  BY ElementOfSeq, <1>1
<1>3. DOMAIN e = DOMAIN s /\ \A j \in DOMAIN s : e[j] \in Item /\ e[j].Object = s[j].Object
  BY <1>2 DEF Item
<1>4. e \in Seq(Item)
  <2>1. e = [j \in 1 .. Len(s) |-> e[j]]
    BY <1>1, <1>3
  <2> QED BY <1>1, <1>3, <2>1, IsASeq
<1>5. Singles(e)
  BY <1>3 DEF Singles
<1>6. \A p : In(p, e) <=> In(p, s)
  BY <1>3 DEF In
<1> QED BY <1>4, <1>5, <1>6

-----------------------------------------------------------------------------
(* Steps in terms of who is where.                                         *)

LEMMA Struck ==
    ASSUME TypeOK, Entries, NEW o \in Objs, NEW RT \in BOOLEAN,
           internal_Unregister(o, RT), ItemsProcessed' = ItemsProcessed,
           Listed(o) => (RT <=> InRT(o)), ~In(o, ItemsProcessed)
    PROVE  /\ ItemsRT' \in Seq(Objs)
           /\ Items' \in Seq(Item)
           /\ current' \in Objs \cup {Null}
           /\ Entries'
           /\ ~Listed(o)'
           /\ \A p \in Objs : p # o =>
                 /\ InRT(p)' <=> InRT(p)
                 /\ In(p, Items)' <=> In(p, Items)
                 /\ current' = p <=> current = p
           /\ current' = current \/ current' = Null
           /\ \A j \in DOMAIN ItemsRT' :
                 \E n \in DOMAIN ItemsRT : j <= n /\ ItemsRT'[j] = ItemsRT[n]
<1>1. /\ ItemsRT \in Seq(Objs) /\ Items \in Seq(Item)
      /\ current \in Objs \cup {Null}
      /\ Single(ItemsRT) /\ Singles(Items) /\ Singles(ItemsProcessed)
  BY DEF TypeOK, Entries
<1>2. \A p : (InRT(p) <=> Has(ItemsRT, p)) /\ (InRT(p)' <=> Has(ItemsRT', p))
  BY DEF InRT, Has
<1>3. \A p : (In(p, Items)' <=> In(p, Items')) /\ (In(p, ItemsProcessed)' <=> In(p, ItemsProcessed))
  OBVIOUS
<1>4. DOMAIN ItemsRT \subseteq Int
  BY <1>1, LenProperties
<1>5. CASE /\ RT
           /\ \E k \in DOMAIN ItemsRT : /\ ItemsRT[k] = o
                                        /\ ItemsRT' = Erase(ItemsRT, k)
           /\ UNCHANGED <<Items, current>>
  <2>1. PICK k \in DOMAIN ItemsRT : ItemsRT[k] = o /\ ItemsRT' = Erase(ItemsRT, k)
    BY <1>5
  <2>2. /\ ItemsRT' \in Seq(Objs)
        /\ Single(ItemsRT')
        /\ \A p : Has(ItemsRT', p) <=> Has(ItemsRT, p) /\ p # o
        /\ \A j \in DOMAIN ItemsRT' :
              \E n \in DOMAIN ItemsRT : j <= n /\ ItemsRT'[j] = ItemsRT[n]
    BY <1>1, <2>1, EraseRT
  <2>3. InRT(o)
    BY <2>1 DEF InRT
  <2>4. \A p : InRT(p)' <=> InRT(p) /\ p # o
    BY <1>2, <2>2
  <2>5. Items' = Items /\ current' = current
    BY <1>5
  <2>6. Entries'
    BY <1>1, <1>3, <2>2, <2>4, <2>5 DEF Entries
  <2>7. ~Listed(o)'
    BY <1>3, <2>3, <2>4, <2>5 DEF Entries, Listed
  <2> QED BY <1>1, <2>2, <2>4, <2>5, <2>6, <2>7
<1>6. CASE /\ ~RT
           /\ \E k \in DOMAIN Items : /\ Items[k].Object = o
                                      /\ Items' = [Items EXCEPT ![k].Object = Null]
           /\ UNCHANGED <<ItemsRT, current>>
  <2>1. PICK k \in DOMAIN Items : /\ Items[k].Object = o
                                  /\ Items' = [Items EXCEPT ![k].Object = Null]
    BY <1>6
  <2>2. /\ Items' \in Seq(Item)
        /\ Singles(Items')
        /\ \A p \in Objs : In(p, Items') <=> In(p, Items) /\ p # o
    <3>1. \A j \in DOMAIN Items : Items[j] \in Item
      BY <1>1, LenProperties, ElementOfSeq
    <3>2. /\ Items' \in [DOMAIN Items -> Item]
          /\ Items'[k].Object = Null
          /\ \A j \in DOMAIN Items : j # k => Items'[j] = Items[j]
      BY <2>1, <3>1 DEF Item
    <3>3. /\ Items' \in Seq(Item)
          /\ Singles(Items')
          /\ \A p \in Objs : In(p, Items') <=> In(p, Items) /\ p # Items[k].Object
      <4>1. Items \in Seq(Item) /\ Singles(Items)
        BY <1>1
      <4> QED BY <4>1, <3>2, OverwriteItem
    <3>4. Items[k].Object = o
      BY <2>1
    <3> QED BY <3>3, <3>4
  <2>3. In(o, Items)
    BY <2>1 DEF In
  <2>4. ItemsRT' = ItemsRT /\ current' = current
    BY <1>6
  <2>5. \A p : InRT(p)' <=> InRT(p)
    BY <1>2, <2>4
  <2>6. Entries'
    BY <1>1, <1>3, <2>2, <2>4, <2>5 DEF Entries
  <2>7. ~Listed(o)'
    BY <1>3, <2>2, <2>3, <2>4, <2>5 DEF Entries, Listed
  <2>8. \A j \in DOMAIN ItemsRT' :
           \E n \in DOMAIN ItemsRT : j <= n /\ ItemsRT'[j] = ItemsRT[n]
    BY <1>4, <2>4
  <2> QED BY <1>1, <1>3, <2>2, <2>4, <2>5, <2>6, <2>7, <2>8
<1>7. CASE /\ ~Finds(o, RT)
           /\ current' = IF current = o THEN Null ELSE current
           /\ UNCHANGED <<ItemsRT, Items>>
  <2>1. ~InRT(o) /\ ~In(o, Items)
    BY <1>7 DEF Finds, Listed
  <2>2. ItemsRT' = ItemsRT /\ Items' = Items
    BY <1>7
  <2>3. \A p : InRT(p)' <=> InRT(p)
    BY <1>2, <2>2
  <2>4. /\ current' # o
        /\ \A p \in Objs : p # o => (current' = p <=> current = p)
        /\ current' = current \/ current' = Null
    BY <1>7, NullAssumption
  <2>5. Entries'
    BY <1>1, <1>3, <2>2, <2>3, <2>4, NullAssumption DEF Entries
  <2>6. ~Listed(o)'
    BY <1>3, <2>1, <2>2, <2>3, <2>4 DEF Listed
  <2>7. \A j \in DOMAIN ItemsRT' :
           \E n \in DOMAIN ItemsRT : j <= n /\ ItemsRT'[j] = ItemsRT[n]
    BY <1>4, <2>2
  <2> QED BY <1>1, <1>3, <2>2, <2>3, <2>4, <2>5, <2>6, <2>7
<1> QED BY <1>5, <1>6, <1>7 DEF internal_Unregister

\* What is listed and not asked about is registered, and so is what a pass
\* may look at.
LEMMA Seen ==
    ASSUME IInv, NEW o \in Objs, Listed(o), ~Requested(o)
    PROVE  /\ Registered(o)
           /\ life[o] \in {"needed", "unneeded"}
           /\ b_RT[o] <=> InRT(o)
BY DEF IInv, Alive, FlagFits, Registered

LEMMA SeenInPass ==
    ASSUME IInv, InPass, NEW o \in Objs, InRT(o) \/ In(o, Items) \/ current = o
    PROVE  ~Requested(o) /\ Listed(o)
BY DEF IInv, PassClean, Listed

\* The requests stay, the lists lose somebody or nobody.
LEMMA SameRequests ==
    ASSUME FirstFits, Alternates(Registration), FlagFits,
           Registration' = Registration,
           \A p \in Objs : Listed(p)' =>
               /\ Listed(p)
               /\ InRT(p)' <=> InRT(p)
               /\ b_RT'[p] = b_RT[p]
    PROVE  FirstFits' /\ Alternates(Registration)' /\ FlagFits'
<1>1. \A p : Requested(p)' <=> Requested(p)
  BY DEF Requested
<1>2. FirstFits'
  BY DEF FirstFits, IsFirst
<1>3. Alternates(Registration)'
  BY DEF Alternates
<1>4. FlagFits'
  BY <1>1 DEF FlagFits
<1> QED BY <1>2, <1>3, <1>4

LEMMA SameRoll ==
    ASSUME Registration' = Registration, NEW p,
           ~Requested(p) => (Listed(p)' <=> Listed(p))
    PROVE  Registered(p)' <=> Registered(p)
<1>1. Requested(p)' <=> Requested(p)
  BY DEF Requested
<1>2. LastRequest(p)' = LastRequest(p)
  BY DEF LastRequest
<1>3. CASE Requested(p)
  BY <1>1, <1>2, <1>3 DEF Registered
<1>4. CASE ~Requested(p)
  BY <1>1, <1>4 DEF Registered
<1> QED BY <1>3, <1>4

LEMMA RegisteredSays ==
    ASSUME NEW o
    PROVE  /\ Registered(o) <=> IF Asked(Registration, o) THEN LastSays(Registration, o).OP
                                ELSE Listed(o)
           /\ Registered(o)' <=> IF Asked(Registration', o) THEN LastSays(Registration', o).OP
                                 ELSE Listed(o)'
           /\ Requested(o) <=> Asked(Registration, o)
           /\ Requested(o)' <=> Asked(Registration', o)
BY DEF Registered, Requested, Asked, LastRequest, LastSays, LastOf

-----------------------------------------------------------------------------
(* The invariant is kept: unregistering.                                   *)

Lives == {"none", "fresh", "needed", "unneeded"}

\* At once, in the middle of a pass.
LEMMA StrikeAtOnce ==
    ASSUME IInv, NEW o \in Objs, NEW RT \in BOOLEAN, ClientsRun,
           InPass, Finds(o, RT) \/ current = o,
           Registered(o) => (RT <=> b_RT[o]),
           internal_Unregister(o, RT),
           UNCHANGED <<Registration, ItemsProcessed, phase, it, i, called>>,
           life' \in [Objs -> Lives], b_RT' \in [Objs -> BOOLEAN],
           \A p \in Objs : p # o => life'[p] = life[p] /\ b_RT'[p] = b_RT[p]
    PROVE  /\ IInv'
           /\ ~Registered(o)'
           /\ \A p \in Objs : p # o => (Registered(p)' <=> Registered(p))
<1>1. InRT(o) \/ In(o, Items) \/ current = o
  BY DEF Finds
<1>2. ~Requested(o) /\ Listed(o)
  BY <1>1, SeenInPass
<1>3. RT <=> InRT(o)
  BY <1>2, Seen
<1>4. TypeOK /\ Entries
  BY DEF IInv
<1>5. ~In(o, ItemsProcessed)
  BY <1>1, <1>4 DEF Entries
<1>6. /\ ItemsRT' \in Seq(Objs)
      /\ Items' \in Seq(Item)
      /\ current' \in Objs \cup {Null}
      /\ Entries'
      /\ ~Listed(o)'
      /\ \A p \in Objs : p # o =>
            /\ InRT(p)' <=> InRT(p)
            /\ In(p, Items)' <=> In(p, Items)
            /\ current' = p <=> current = p
      /\ current' = current \/ current' = Null
      /\ \A j \in DOMAIN ItemsRT' :
            \E n \in DOMAIN ItemsRT : j <= n /\ ItemsRT'[j] = ItemsRT[n]
  BY <1>3, <1>4, <1>5, Struck
<1>7. \A p \in Objs : p # o => (Listed(p)' <=> Listed(p))
  BY <1>6 DEF Listed
<1>8. FirstFits' /\ Alternates(Registration)' /\ FlagFits'
  <2>1. \A p \in Objs : Listed(p)' =>
           Listed(p) /\ (InRT(p)' <=> InRT(p)) /\ b_RT'[p] = b_RT[p]
    BY <1>6, <1>7
  <2> QED BY <2>1, SameRequests DEF IInv
<1>9. \A p : Requested(p)' <=> Requested(p)
  BY DEF Requested
<1>10. ~Registered(o)'
  BY <1>2, <1>6, <1>9 DEF Registered
<1>11. \A p \in Objs : p # o => (Registered(p)' <=> Registered(p))
  BY <1>7, SameRoll
<1>12. TypeOK'
  BY <1>4, <1>6 DEF TypeOK, Lives
<1>13. Alive'
  BY <1>10, <1>11 DEF IInv, Alive
<1>14. PassClean'
  <2>1. ASSUME InPass', NEW p \in Objs, (InRT(p) \/ In(p, Items) \/ current = p)'
        PROVE  ~Requested(p)'
    <3>1. p # o
      BY <1>6, <2>1 DEF Listed
    <3>2. InRT(p) \/ In(p, Items) \/ current = p
      BY <1>6, <2>1, <3>1
    <3> QED BY <1>9, <3>2, SeenInPass
  <2>2. (current # Null => phase = "stepcall")'
    BY <1>6 DEF IInv, PassClean
  <2> QED BY <2>1, <2>2 DEF IInv, PassClean
<1>15. Behind'
  <2>1. phase' = phase /\ phase \in {"rtcall", "stepcall"} /\ called' = called /\ it' = it
    BY DEF ClientsRun, InPass
  <2>2. \A p \in Objs : In(p, Items)' => In(p, Items)
    BY <1>6 DEF Listed
  <2>3. called \subseteq Objs
    BY <1>4 DEF TypeOK
  <2>4. \A p \in called' : ~In(p, Items)'
    BY <2>1, <2>2, <2>3 DEF IInv, Behind
  <2>5. ASSUME phase = "rtcall", NEW j \in DOMAIN ItemsRT', ItemsRT'[j] \in called
        PROVE  j <= it
    <3>1. PICK n \in DOMAIN ItemsRT : j <= n /\ ItemsRT'[j] = ItemsRT[n]
      BY <1>6
    <3>2. n <= it
      BY <2>5, <3>1 DEF IInv, Behind
    <3>3. j \in Nat /\ n \in Nat /\ it \in Nat
      BY <1>4, <1>6, LenProperties DEF TypeOK
    <3> QED BY <3>1, <3>2, <3>3
  <2> QED BY <2>1, <2>4, <2>5 DEF Behind
<1> QED BY <1>6, <1>8, <1>10, <1>11, <1>12, <1>13, <1>14, <1>15 DEF IInv

\* By a request that waits.
LEMMA StrikeByRequest ==
    ASSUME IInv, NEW o \in Objs, NEW RT \in BOOLEAN, ClientsRun,
           InPass => ~(Finds(o, RT) \/ current = o),
           Registered(o) => (RT <=> b_RT[o]),
           Request(FALSE, RT, o),
           UNCHANGED <<ItemsRT, Items, current, ItemsProcessed, phase, it, i, called>>,
           life' \in [Objs -> Lives], b_RT' \in [Objs -> BOOLEAN],
           \A p \in Objs : p # o => life'[p] = life[p] /\ b_RT'[p] = b_RT[p]
    PROVE  /\ IInv'
           /\ ~Registered(o)'
           /\ \A p \in Objs : p # o => (Registered(p)' <=> Registered(p))
<1> DEFINE r == [OP |-> FALSE, RT |-> RT, Object |-> o]
<1>1. r \in ItemReg /\ r.Object = o /\ r.OP = FALSE /\ r.RT = RT
  BY DEF ItemReg
<1>2. Registration' = Append(Registration, r)
  BY DEF Request
<1> HIDE DEF r
<1>3. TypeOK /\ Registration \in Seq(ItemReg)
  BY DEF IInv, TypeOK
<1>4. /\ Registration' \in Seq(ItemReg)
      /\ \A p : Asked(Registration', p) <=> Asked(Registration, p) \/ p = o
      /\ LastSays(Registration', o) = r
      /\ \A p : p # o /\ Asked(Registration, p) =>
            LastSays(Registration', p) = LastSays(Registration, p)
      /\ \A p, k : IsFirst(Registration', p, k) /\ Asked(Registration, p) =>
            IsFirst(Registration, p, k) /\ Registration'[k] = Registration[k]
      /\ \A k : IsFirst(Registration', o, k) /\ ~Asked(Registration, o) =>
            Registration'[k] = r
      /\ Alternates(Registration) => Alternates(Registration')
  <2>1. Registration' \in Seq(ItemReg) /\ Adds(Registration, r, Registration')
    BY <1>1, <1>2, <1>3, AddedRequest
  <2>2. r.Object = o /\ ~r.OP
    BY <1>1
  <2> QED BY <2>1, <2>2, Zenon DEF Adds
<1>5. \A p : /\ Listed(p)' <=> Listed(p)
             /\ InRT(p)' <=> InRT(p)
             /\ In(p, Items)' <=> In(p, Items)
             /\ In(p, ItemsProcessed)' <=> In(p, ItemsProcessed)
  BY DEF Listed, InRT, In
<1>6. ~Registered(o)'
  BY <1>1, <1>4, RegisteredSays
<1>7. \A p \in Objs : p # o => (Registered(p)' <=> Registered(p))
  BY <1>4, <1>5, RegisteredSays
<1>8. TypeOK'
  BY <1>3, <1>4 DEF TypeOK, Lives
<1>9. Entries'
  BY <1>5 DEF IInv, Entries
<1>10. FirstFits'
  <2> SUFFICES ASSUME NEW p \in Objs, NEW k \in DOMAIN Registration', Listed(p)',
                      IsFirst(Registration', p, k)
               PROVE  ~Registration'[k].OP /\ (Registration'[k].RT <=> InRT(p)')
    BY DEF FirstFits
  <2>1. CASE Asked(Registration, p)
    <3>1. IsFirst(Registration, p, k) /\ Registration'[k] = Registration[k]
      BY <1>4, <2>1
    <3>2. ~Registration[k].OP /\ (Registration[k].RT <=> InRT(p))
      BY <1>5, <3>1 DEF IInv, FirstFits, IsFirst
    <3> QED BY <1>5, <3>1, <3>2
  <2>2. CASE ~Asked(Registration, p)
    <3>1. p = o
      <4>1. Asked(Registration', p)
        BY DEF IsFirst, Asked
      <4> QED BY <1>4, <2>2, <4>1
    <3>2. Registration'[k] = r
      BY <1>4, <2>2, <3>1
    <3>3. Listed(o) /\ ~Requested(o)
      BY <1>5, <2>2, <3>1, RegisteredSays
    <3>4. RT <=> InRT(o)
      BY <3>3, Seen
    <3> QED BY <1>1, <1>5, <3>1, <3>2, <3>4
  <2> QED BY <2>1, <2>2
<1>11. Alternates(Registration)'
  BY <1>4 DEF IInv
<1>12. FlagFits'
  <2> SUFFICES ASSUME NEW p \in Objs, Listed(p)', ~Requested(p)'
               PROVE  b_RT'[p] <=> InRT(p)'
    BY DEF FlagFits
  <2>1. p # o /\ ~Requested(p) /\ Listed(p)
    BY <1>4, <1>5, RegisteredSays
  <2>2. b_RT[p] <=> InRT(p)
    BY <2>1, Seen
  <2> QED BY <1>5, <2>1, <2>2
<1>13. Alive'
  BY <1>6, <1>7 DEF IInv, Alive
<1>14. PassClean'
  <2>1. ASSUME InPass, NEW p \in Objs, InRT(p) \/ In(p, Items) \/ current = p
        PROVE  ~Requested(p)'
    <3>1. ~Requested(p) /\ Listed(p)
      BY <2>1, SeenInPass
    <3>2. p # o
      <4> SUFFICES ASSUME p = o PROVE FALSE
        OBVIOUS
      <4>1. RT <=> InRT(o)
        BY <3>1, Seen
      <4>2. Finds(o, RT) \/ current = o
        BY <2>1, <4>1 DEF Finds
      <4> QED BY <2>1, <4>2
    <3> QED BY <1>4, <3>1, <3>2, RegisteredSays
  <2>2. InPass' <=> InPass
    BY DEF InPass
  <2> QED BY <1>5, <2>1, <2>2 DEF IInv, PassClean
<1>15. Behind'
  BY <1>5 DEF IInv, Behind
<1> QED BY <1>6, <1>7, <1>8, <1>9, <1>10, <1>11, <1>12, <1>13, <1>14, <1>15 DEF IInv

LEMMA StrikeKeeps ==
    ASSUME IInv, NEW o \in Objs, NEW RT \in BOOLEAN, ClientsRun, Strike(o, RT),
           Registered(o) => (RT <=> b_RT[o]),
           life' \in [Objs -> Lives], b_RT' \in [Objs -> BOOLEAN],
           \A p \in Objs : p # o => life'[p] = life[p] /\ b_RT'[p] = b_RT[p]
    PROVE  /\ IInv'
           /\ ~Registered(o)'
           /\ \A p \in Objs : p # o => (Registered(p)' <=> Registered(p))
           /\ UNCHANGED <<phase, called>>
<1>1. m_processing_now <=> InPass
  BY DEF m_processing_now, InPass
<1>2. CASE m_processing_now /\ (Finds(o, RT) \/ current = o)
  <2>1. /\ internal_Unregister(o, RT)
        /\ UNCHANGED <<Registration, ItemsProcessed, phase, it, i, called>>
    BY <1>2 DEF Strike
  <2> QED BY <1>1, <1>2, <2>1, StrikeAtOnce
<1>3. CASE ~(m_processing_now /\ (Finds(o, RT) \/ current = o))
  <2>1. /\ Request(FALSE, RT, o)
        /\ UNCHANGED <<ItemsRT, Items, current, ItemsProcessed, phase, it, i, called>>
    BY <1>3 DEF Strike
  <2> QED BY <1>1, <1>3, <2>1, StrikeByRequest
<1> QED BY <1>2, <1>3

-----------------------------------------------------------------------------
(* The invariant is kept: registering.                                     *)

LEMMA RegisterKeeps ==
    ASSUME IInv, NEW o \in Objs, NEW RT \in BOOLEAN, Register(o, RT)
    PROVE  /\ IInv'
           /\ ~Registered(o) /\ Registered(o)'
           /\ \A p \in Objs : p # o => (Registered(p)' <=> Registered(p))
           /\ UNCHANGED <<phase, called>>
           /\ \A p \in Objs : life'[p] \in {"fresh", "needed"} <=> life[p] \in {"fresh", "needed"}
<1> DEFINE r == [OP |-> TRUE, RT |-> RT, Object |-> o]
<1>1. r \in ItemReg /\ r.Object = o /\ r.OP = TRUE /\ r.RT = RT
  BY DEF ItemReg
<1>2. Registration' = Append(Registration, r)
  BY DEF Register, Request
<1> HIDE DEF r
<1>3. TypeOK /\ Registration \in Seq(ItemReg)
  BY DEF IInv, TypeOK
<1>4. ~Registered(o)
  BY DEF Register
<1>5. ~(Listed(o) /\ ~Requested(o))
  BY <1>4, Seen
<1>6. /\ Registration' \in Seq(ItemReg)
      /\ \A p : Asked(Registration', p) <=> Asked(Registration, p) \/ p = o
      /\ LastSays(Registration', o) = r
      /\ \A p : p # o /\ Asked(Registration, p) =>
            LastSays(Registration', p) = LastSays(Registration, p)
      /\ \A p, k : IsFirst(Registration', p, k) /\ Asked(Registration, p) =>
            IsFirst(Registration, p, k) /\ Registration'[k] = Registration[k]
      /\ Alternates(Registration')
  <2>1. Registration' \in Seq(ItemReg) /\ Adds(Registration, r, Registration')
    BY <1>1, <1>2, <1>3, AddedRequest
  <2>2. r.Object = o
    BY <1>1
  <2>3. Asked(Registration, o) => ~LastSays(Registration, o).OP
    BY <1>4, RegisteredSays
  <2>4. Alternates(Registration)
    BY DEF IInv
  <2> QED BY <2>1, <2>2, <2>3, <2>4, Zenon DEF Adds
<1>7. UNCHANGED <<ItemsRT, Items, ItemsProcessed, current, phase, it, i, called>>
  BY DEF Register
<1>8. \A p : /\ Listed(p)' <=> Listed(p)
             /\ InRT(p)' <=> InRT(p)
             /\ In(p, Items)' <=> In(p, Items)
             /\ In(p, ItemsProcessed)' <=> In(p, ItemsProcessed)
  BY <1>7 DEF Listed, InRT, In
<1>9. /\ life' \in [Objs -> Lives]
      /\ b_RT' \in [Objs -> BOOLEAN]
      /\ \A p \in Objs : p # o => life'[p] = life[p] /\ b_RT'[p] = b_RT[p]
      /\ life'[o] \in {"needed", "unneeded"}
      /\ life'[o] = "needed" <=> life[o] \in {"fresh", "needed"}
  <2>1. life' = [life EXCEPT ![o] = IF life[o] = "fresh" THEN "needed" ELSE life[o]]
    BY DEF Register
  <2>2. b_RT' = [b_RT EXCEPT ![o] = RT] /\ life[o] # "none"
    BY DEF Register
  <2>3. life \in [Objs -> Lives] /\ b_RT \in [Objs -> BOOLEAN]
    BY <1>3 DEF TypeOK, Lives
  <2> QED BY <2>1, <2>2, <2>3 DEF Lives
<1>10. Registered(o)'
  BY <1>1, <1>6, RegisteredSays
<1>11. \A p \in Objs : p # o => (Registered(p)' <=> Registered(p))
  BY <1>6, <1>8, RegisteredSays
<1>12. TypeOK'
  BY <1>3, <1>6, <1>7, <1>9 DEF TypeOK, Lives
<1>13. Entries'
  BY <1>7, <1>8 DEF IInv, Entries
<1>14. FirstFits'
  <2> SUFFICES ASSUME NEW p \in Objs, NEW k \in DOMAIN Registration', Listed(p)',
                      IsFirst(Registration', p, k)
               PROVE  ~Registration'[k].OP /\ (Registration'[k].RT <=> InRT(p)')
    BY DEF FirstFits
  <2>1. Asked(Registration', p) /\ Listed(p)
    BY <1>8 DEF IsFirst, Asked
  <2>2. Asked(Registration, p)
    <3>1. CASE p = o
      BY <1>5, <2>1, <3>1, RegisteredSays
    <3>2. CASE p # o
      BY <1>6, <2>1, <3>2
    <3> QED BY <3>1, <3>2
  <2>3. IsFirst(Registration, p, k) /\ Registration'[k] = Registration[k]
    BY <1>6, <2>2
  <2>4. ~Registration[k].OP /\ (Registration[k].RT <=> InRT(p))
    BY <2>1, <2>3 DEF IInv, FirstFits, IsFirst
  <2> QED BY <1>8, <2>3, <2>4
<1>15. Alternates(Registration)'
  BY <1>6
<1>16. FlagFits'
  <2> SUFFICES ASSUME NEW p \in Objs, Listed(p)', ~Requested(p)'
               PROVE  b_RT'[p] <=> InRT(p)'
    BY DEF FlagFits
  <2>1. p # o /\ ~Requested(p) /\ Listed(p)
    BY <1>6, <1>8, RegisteredSays
  <2>2. b_RT[p] <=> InRT(p)
    BY <2>1, Seen
  <2> QED BY <1>8, <1>9, <2>1, <2>2
<1>17. Alive'
  BY <1>9, <1>11 DEF IInv, Alive
<1>18. PassClean'
  <2>1. ASSUME InPass, NEW p \in Objs, InRT(p) \/ In(p, Items) \/ current = p
        PROVE  ~Requested(p)'
    <3>1. ~Requested(p) /\ Listed(p)
      BY <2>1, SeenInPass
    <3>2. p # o
      BY <1>5, <3>1
    <3> QED BY <1>6, <3>1, <3>2, RegisteredSays
  <2>2. InPass' <=> InPass
    BY <1>7 DEF InPass
  <2> QED BY <1>7, <1>8, <2>1, <2>2 DEF IInv, PassClean
<1>19. Behind'
  BY <1>7, <1>8 DEF IInv, Behind
<1>20. \A p \in Objs : life'[p] \in {"fresh", "needed"} <=> life[p] \in {"fresh", "needed"}
  BY <1>9
<1> QED BY <1>4, <1>7, <1>10, <1>11, <1>12, <1>13, <1>14, <1>15, <1>16, <1>17, <1>18,
           <1>19, <1>20 DEF IInv

-----------------------------------------------------------------------------
(* The invariant is kept: carrying out the requests.                       *)

\* What a step outside the pass has to show, when it leaves called alone.
LEMMA OutsidePass ==
    ASSUME IInv, phase \in {"first", "last"},
           UNCHANGED <<life, ItemsProcessed, phase, it, i, called>>,
           ItemsRT' \in Seq(Objs), Items' \in Seq(Item), current' = Null,
           Registration' \in Seq(ItemReg), b_RT' \in [Objs -> BOOLEAN],
           Entries', FirstFits', Alternates(Registration)', FlagFits',
           \A p \in Objs : Registered(p)' <=> Registered(p)
    PROVE  IInv'
<1>1. TypeOK'
  BY DEF IInv, TypeOK
<1>2. Alive'
  BY DEF IInv, Alive
<1>3. PassClean'
  BY DEF IInv, PassClean, InPass
<1>4. Behind'
  BY DEF IInv, Behind
<1> QED BY <1>1, <1>2, <1>3, <1>4 DEF IInv

LEMMA RegistrationHead ==
    ASSUME IInv, phase \in {"first", "last"}, Registration # <<>>
    PROVE  /\ current = Null
           /\ ItemsProcessed = <<>>
           /\ \A p : ~In(p, ItemsProcessed)
           /\ Head(Registration).Object \in Objs
           /\ Head(Registration).RT \in BOOLEAN
           /\ Listed(Head(Registration).Object) =>
                 /\ ~Head(Registration).OP
                 /\ Head(Registration).RT <=> InRT(Head(Registration).Object)
<1>1. current = Null /\ ItemsProcessed = <<>>
  BY DEF IInv, PassClean
<1>2. Registration \in Seq(ItemReg)
  BY DEF IInv, TypeOK
<1>3. Head(Registration) \in ItemReg
  BY <1>2, HeadTailProperties
<1>4. Head(Registration).Object \in Objs /\ Head(Registration).RT \in BOOLEAN
  BY <1>3 DEF ItemReg
<1> DEFINE o == Head(Registration).Object
<1>5. IsFirst(Registration, o, 1) /\ Head(Registration) = Registration[1]
  BY <1>2, FirstRequestDone
<1>6. ASSUME Listed(o)
      PROVE  ~Head(Registration).OP /\ (Head(Registration).RT <=> InRT(o))
  BY <1>4, <1>5, <1>6 DEF IInv, FirstFits, IsFirst
<1>7. \A p : ~In(p, ItemsProcessed)
  BY <1>1 DEF In
<1> QED BY <1>1, <1>4, <1>6, <1>7

\* The requests about the others say the same as before.
LEMMA OthersAgree ==
    ASSUME NEW o, NEW Q, Registration' = Q,
           \A p : p # o => Agree(Registration, Q, p),
           \A p \in Objs : p # o => (Listed(p)' <=> Listed(p)) /\ (InRT(p)' <=> InRT(p)),
           FirstFits
    PROVE  /\ \A p \in Objs : p # o => (Registered(p)' <=> Registered(p))
           /\ \A p \in Objs : p # o => (Requested(p)' <=> Requested(p))
           /\ \A p \in Objs : \A k \in DOMAIN Registration' :
                 p # o /\ Listed(p)' /\ IsFirst(Registration', p, k) =>
                    ~Registration'[k].OP /\ (Registration'[k].RT <=> InRT(p)')
<1>1. \A p : p # o =>
        /\ Asked(Registration', p) <=> Asked(Registration, p)
        /\ Asked(Registration, p) => LastSays(Registration', p) = LastSays(Registration, p)
        /\ \A k : IsFirst(Registration', p, k) =>
              \E n : IsFirst(Registration, p, n) /\ Registration'[k] = Registration[n]
  BY DEF Agree
<1>2. ASSUME NEW p \in Objs, p # o
      PROVE  (Registered(p)' <=> Registered(p)) /\ (Requested(p)' <=> Requested(p))
  <2>1. /\ Asked(Registration', p) <=> Asked(Registration, p)
        /\ Asked(Registration, p) => LastSays(Registration', p) = LastSays(Registration, p)
        /\ Listed(p)' <=> Listed(p)
    BY <1>1, <1>2
  <2> QED BY <2>1, RegisteredSays
<1>3. ASSUME NEW p \in Objs, NEW k \in DOMAIN Registration', p # o, Listed(p)',
             IsFirst(Registration', p, k)
      PROVE  ~Registration'[k].OP /\ (Registration'[k].RT <=> InRT(p)')
  <2>1. PICK n : IsFirst(Registration, p, n) /\ Registration'[k] = Registration[n]
    BY <1>1, <1>3
  <2>2. Listed(p) /\ (InRT(p)' <=> InRT(p))
    BY <1>3
  <2>3. ~Registration[n].OP /\ (Registration[n].RT <=> InRT(p))
    BY <2>1, <2>2 DEF FirstFits, IsFirst
  <2> QED BY <2>1, <2>2, <2>3
<1> QED BY <1>2, <1>3

\* A request to register that is taken back.
LEMMA PairKeeps ==
    ASSUME IInv, phase \in {"first", "last"}, Registration # <<>>,
           NEW R, R = Head(Registration), R.OP,
           NEW k \in Pairs(R.Object, Tail(Registration)),
           \A j \in Pairs(R.Object, Tail(Registration)) : k <= j,
           Registration' = Erase(Tail(Registration), k),
           UNCHANGED <<b_RT, ItemsRT, Items, current, life, ItemsProcessed, phase, it, i, called>>
    PROVE  IInv' /\ \A p \in Objs : Registered(p)' <=> Registered(p)
<1>1. PICK T : T = Tail(Registration)
  OBVIOUS
<1>2. PICK Q : Q = Registration'
  OBVIOUS
<1>3. PICK o : o = R.Object
  OBVIOUS
<1>4. /\ Registration \in Seq(ItemReg) /\ Alternates(Registration) /\ FirstFits
      /\ TypeOK /\ Entries /\ FlagFits
  BY DEF IInv, TypeOK
<1>5. /\ Len(Registration) \in Nat /\ Len(Registration) >= 1
      /\ T \in Seq(ItemReg) /\ Len(T) = Len(Registration) - 1
      /\ \A j \in 1 .. Len(T) : T[j] = Registration[j + 1]
      /\ Registration[1] = R
  <2>1. Len(Registration) \in Nat /\ Len(Registration) >= 1
    BY <1>4, EmptySeq, LenProperties
  <2>2. /\ T \in Seq(ItemReg) /\ Len(T) = Len(Registration) - 1
        /\ \A j \in 1 .. Len(T) : T[j] = Registration[j + 1]
    BY <1>1, <1>4, HeadTailProperties
  <2> QED BY <2>1, <2>2
<1>6. DOMAIN T = 1 .. Len(T)
  BY <1>5, LenProperties
<1>7. /\ k \in DOMAIN T /\ ~T[k].OP /\ T[k].Object = o
      /\ \A j \in DOMAIN T : T[j].Object = o /\ ~T[j].OP => k <= j
  BY <1>1, <1>3 DEF Pairs
<1>8. /\ Q \in Seq(ItemReg) /\ Len(Q) = Len(T) - 1
      /\ \A j \in DOMAIN Q : /\ j < k => Q[j] = T[j]
                             /\ ~(j < k) => Q[j] = T[j + 1]
  <2>1. Q = Erase(T, k)
    BY <1>1, <1>2
  <2> QED BY <1>5, <1>7, <2>1, EraseElement
<1>9. /\ \A p : p # o => Agree(Registration, Q, p)
      /\ Asked(Q, o) => LastSays(Q, o) = LastSays(Registration, o)
      /\ ~Asked(Q, o) => ~LastSays(Registration, o).OP
      /\ IsFirst(Registration, o, 1) /\ Asked(Registration, o)
      /\ Alternates(Q)
  <2>1. Registration[1].OP /\ Registration[1].Object = o
    BY <1>3, <1>5
  <2>2. \A j \in DOMAIN T : T[j] = Registration[j + 1]
    BY <1>5, <1>6
  <2>3. TakenBack(Registration, Q, o)
    BY <1>4, <1>5, <1>7, <1>8, <2>1, <2>2, PairDone
  <2> QED BY <2>3 DEF TakenBack
<1>10. current = Null /\ o \in Objs /\ ~Listed(o)
  BY <1>3, RegistrationHead
<1>11. \A p : /\ Listed(p)' <=> Listed(p)
              /\ InRT(p)' <=> InRT(p)
              /\ In(p, Items)' <=> In(p, Items)
              /\ In(p, ItemsProcessed)' <=> In(p, ItemsProcessed)
  BY DEF Listed, InRT, In
<1>12. /\ \A p \in Objs : p # o => (Registered(p)' <=> Registered(p))
       /\ \A p \in Objs : p # o => (Requested(p)' <=> Requested(p))
       /\ \A p \in Objs : \A n \in DOMAIN Registration' :
             p # o /\ Listed(p)' /\ IsFirst(Registration', p, n) =>
                ~Registration'[n].OP /\ (Registration'[n].RT <=> InRT(p)')
  BY <1>2, <1>4, <1>9, <1>11, OthersAgree
<1>13. Registered(o)' <=> Registered(o)
  BY <1>2, <1>9, <1>10, <1>11, RegisteredSays
<1>14. \A p \in Objs : Registered(p)' <=> Registered(p)
  BY <1>12, <1>13
<1>15. FirstFits'
  BY <1>10, <1>11, <1>12 DEF FirstFits
<1>16. FlagFits'
  BY <1>4, <1>10, <1>11, <1>12 DEF FlagFits
<1>17. Entries'
  BY <1>4, <1>11 DEF Entries
<1>18. /\ ItemsRT' \in Seq(Objs) /\ Items' \in Seq(Item) /\ current' = Null
       /\ Registration' \in Seq(ItemReg) /\ b_RT' \in [Objs -> BOOLEAN]
       /\ Alternates(Registration)'
  BY <1>2, <1>4, <1>8, <1>9, <1>10 DEF TypeOK
<1>19. IInv'
  BY <1>14, <1>15, <1>16, <1>17, <1>18, OutsidePass
<1> QED BY <1>14, <1>19

\* A request to register.
LEMMA EnterKeeps ==
    ASSUME IInv, phase \in {"first", "last"}, Registration # <<>>,
           NEW R, R = Head(Registration), R.OP,
           Pairs(R.Object, Tail(Registration)) = {},
           internal_Register(R.Object, R.RT),
           Registration' = Tail(Registration),
           UNCHANGED <<current, life, ItemsProcessed, phase, it, i, called>>
    PROVE  IInv' /\ \A p \in Objs : Registered(p)' <=> Registered(p)
<1>1. PICK Q : Q = Registration'
  OBVIOUS
<1>2. PICK o : o = R.Object
  OBVIOUS
<1>3. PICK RT : RT = R.RT
  OBVIOUS
<1>4. /\ Registration \in Seq(ItemReg) /\ Alternates(Registration) /\ FirstFits
      /\ TypeOK /\ Entries /\ FlagFits
  BY DEF IInv, TypeOK
<1>5. /\ current = Null /\ o \in Objs /\ RT \in BOOLEAN /\ ~Listed(o)
      /\ \A p : ~In(p, ItemsProcessed)
  BY <1>2, <1>3, RegistrationHead
<1>6. /\ Q \in Seq(ItemReg)
      /\ \A p : p # o => Agree(Registration, Q, p)
      /\ ~Asked(Q, o) => LastSays(Registration, o) = R
      /\ IsFirst(Registration, o, 1) /\ Asked(Registration, o)
      /\ Alternates(Q)
      /\ ~Asked(Q, o)
  <2>1. Q = Tail(Registration) /\ o = Head(Registration).Object
        /\ Head(Registration).OP /\ Pairs(o, Q) = {}
    BY <1>1, <1>2
  <2> QED BY <1>4, <2>1, FirstRequestDone
<1>7. ~InRT(o) /\ ~In(o, Items)
  BY <1>5 DEF Listed
<1>8. /\ ItemsRT' \in Seq(Objs) /\ Single(ItemsRT')
      /\ Items' \in Seq(Item) /\ Singles(Items')
      /\ \A p \in Objs : InRT(p)' <=> InRT(p) \/ (p = o /\ RT)
      /\ \A p \in Objs : In(p, Items)' <=> In(p, Items) \/ (p = o /\ ~RT)
  <2>1. /\ ItemsRT \in Seq(Objs) /\ Single(ItemsRT)
        /\ Items \in Seq(Item) /\ Singles(Items)
    BY <1>4 DEF TypeOK, Entries
  <2>2. CASE RT /\ ItemsRT' = Append(ItemsRT, o) /\ UNCHANGED Items
    <3>1. ~Has(ItemsRT, o)
      BY <1>7 DEF InRT, Has
    <3>2. /\ ItemsRT' \in Seq(Objs) /\ Single(ItemsRT')
          /\ \A p : Has(ItemsRT', p) <=> Has(ItemsRT, p) \/ p = o
      BY <1>5, <2>1, <2>2, <3>1, AppendRT
    <3>3. \A p \in Objs : InRT(p)' <=> InRT(p) \/ p = o
      BY <3>2 DEF InRT, Has
    <3>4. \A p \in Objs : In(p, Items)' <=> In(p, Items)
      BY <2>2
    <3>5. Items' = Items /\ RT
      BY <2>2
    <3> QED BY <2>1, <3>2, <3>3, <3>4, <3>5
  <2>3. CASE ~RT /\ Items' = Append(Items, [Object |-> o, time |-> 0]) /\ UNCHANGED ItemsRT
    <3> DEFINE x == [Object |-> o, time |-> 0]
    <3>1. x \in Item /\ x.Object = o
      BY <1>5 DEF Item
    <3>2. Items' = Append(Items, x)
      BY <2>3
    <3> HIDE DEF x
    <3>3. /\ Items' \in Seq(Item) /\ Singles(Items')
          /\ \A p : In(p, Items') <=> In(p, Items) \/ p = x.Object
      BY <1>5, <1>7, <2>1, <3>1, <3>2, AppendItem
    <3>4. \A p \in Objs : In(p, Items)' <=> In(p, Items) \/ p = o
      BY <3>1, <3>3
    <3>5. \A p \in Objs : InRT(p)' <=> InRT(p)
      BY <2>3 DEF InRT
    <3>6. ItemsRT' = ItemsRT /\ ~RT
      BY <2>3
    <3> QED BY <2>1, <3>3, <3>4, <3>5, <3>6
  <2>4. \/ RT /\ ItemsRT' = Append(ItemsRT, o) /\ UNCHANGED Items
        \/ ~RT /\ Items' = Append(Items, [Object |-> o, time |-> 0]) /\ UNCHANGED ItemsRT
    BY <1>2, <1>3 DEF internal_Register
  <2> QED BY <2>2, <2>3, <2>4
<1>9. b_RT' = [b_RT EXCEPT ![o] = RT]
  BY <1>2, <1>3 DEF internal_Register
<1>10. /\ b_RT' \in [Objs -> BOOLEAN]
       /\ b_RT'[o] = RT
       /\ \A p \in Objs : p # o => b_RT'[p] = b_RT[p]
  BY <1>4, <1>5, <1>9 DEF TypeOK
<1>11. \A p : In(p, ItemsProcessed)' <=> In(p, ItemsProcessed)
  BY DEF In
<1>12. \A p \in Objs : p # o => (Listed(p)' <=> Listed(p)) /\ (InRT(p)' <=> InRT(p))
  BY <1>8, <1>11 DEF Listed
<1>13. /\ \A p \in Objs : p # o => (Registered(p)' <=> Registered(p))
       /\ \A p \in Objs : p # o => (Requested(p)' <=> Requested(p))
       /\ \A p \in Objs : \A n \in DOMAIN Registration' :
             p # o /\ Listed(p)' /\ IsFirst(Registration', p, n) =>
                ~Registration'[n].OP /\ (Registration'[n].RT <=> InRT(p)')
  BY <1>1, <1>4, <1>6, <1>12, OthersAgree
<1>14. Listed(o)' /\ (InRT(o)' <=> RT)
  BY <1>5, <1>7, <1>8 DEF Listed
<1>15. Registered(o)' /\ Registered(o)
  BY <1>1, <1>6, <1>14, RegisteredSays
<1>16. \A p \in Objs : Registered(p)' <=> Registered(p)
  BY <1>13, <1>15
<1>17. FirstFits'
  <2>1. \A k \in DOMAIN Registration' : ~IsFirst(Registration', o, k)
    BY <1>1, <1>6 DEF IsFirst, Asked
  <2> QED BY <1>13, <2>1 DEF FirstFits
<1>18. FlagFits'
  <2> SUFFICES ASSUME NEW p \in Objs, Listed(p)', ~Requested(p)'
               PROVE  b_RT'[p] <=> InRT(p)'
    BY DEF FlagFits
  <2>1. CASE p = o
    BY <1>10, <1>14, <2>1
  <2>2. CASE p # o
    <3>1. b_RT[p] <=> InRT(p)
      BY <1>4, <1>12, <1>13, <2>2 DEF FlagFits
    <3> QED BY <1>10, <1>12, <2>2, <3>1
  <2> QED BY <2>1, <2>2
<1>19. Entries'
  <2>1. ItemsProcessed' = ItemsProcessed /\ current' = current
    OBVIOUS
  <2> QED BY <1>4, <1>5, <1>7, <1>8, <1>11, <2>1, NullAssumption DEF Entries
<1>20. current' = Null /\ Registration' \in Seq(ItemReg) /\ Alternates(Registration)'
  BY <1>1, <1>5, <1>6
<1>21. IInv'
  BY <1>8, <1>10, <1>16, <1>17, <1>18, <1>19, <1>20, OutsidePass
<1> QED BY <1>16, <1>21

\* A request to unregister.
LEMMA LeaveKeeps ==
    ASSUME IInv, phase \in {"first", "last"}, Registration # <<>>,
           NEW R, R = Head(Registration), ~R.OP,
           internal_Unregister(R.Object, R.RT),
           Registration' = Tail(Registration),
           UNCHANGED <<b_RT, life, ItemsProcessed, phase, it, i, called>>
    PROVE  IInv' /\ \A p \in Objs : Registered(p)' <=> Registered(p)
<1>1. PICK Q : Q = Registration'
  OBVIOUS
<1>2. PICK o : o = R.Object
  OBVIOUS
<1>3. PICK RT : RT = R.RT
  OBVIOUS
<1>4. /\ Registration \in Seq(ItemReg) /\ Alternates(Registration) /\ FirstFits
      /\ TypeOK /\ Entries /\ FlagFits
  BY DEF IInv, TypeOK
<1>5. /\ current = Null /\ o \in Objs /\ RT \in BOOLEAN
      /\ Listed(o) => (RT <=> InRT(o))
      /\ \A p : ~In(p, ItemsProcessed)
  BY <1>2, <1>3, RegistrationHead
<1>6. /\ Q \in Seq(ItemReg)
      /\ \A p : p # o => Agree(Registration, Q, p)
      /\ Asked(Q, o) => LastSays(Q, o) = LastSays(Registration, o)
      /\ ~Asked(Q, o) => LastSays(Registration, o) = R
      /\ IsFirst(Registration, o, 1) /\ Asked(Registration, o)
      /\ Alternates(Q)
  <2>1. Q = Tail(Registration) /\ o = Head(Registration).Object
    BY <1>1, <1>2
  <2> QED BY <1>4, <2>1, FirstRequestDone
<1>7. /\ ItemsRT' \in Seq(Objs)
      /\ Items' \in Seq(Item)
      /\ Entries'
      /\ ~Listed(o)'
      /\ \A p \in Objs : p # o =>
            /\ InRT(p)' <=> InRT(p)
            /\ In(p, Items)' <=> In(p, Items)
            /\ current' = p <=> current = p
      /\ current' = Null
  <2>1. internal_Unregister(o, RT)
    BY <1>2, <1>3
  <2> QED BY <1>4, <1>5, <2>1, Struck
<1>8. \A p : In(p, ItemsProcessed)' <=> In(p, ItemsProcessed)
  BY DEF In
<1>9. \A p \in Objs : p # o => (Listed(p)' <=> Listed(p)) /\ (InRT(p)' <=> InRT(p))
  BY <1>7, <1>8 DEF Listed
<1>10. /\ \A p \in Objs : p # o => (Registered(p)' <=> Registered(p))
       /\ \A p \in Objs : p # o => (Requested(p)' <=> Requested(p))
       /\ \A p \in Objs : \A n \in DOMAIN Registration' :
             p # o /\ Listed(p)' /\ IsFirst(Registration', p, n) =>
                ~Registration'[n].OP /\ (Registration'[n].RT <=> InRT(p)')
  BY <1>1, <1>4, <1>6, <1>9, OthersAgree
<1>11. Registered(o)' <=> Registered(o)
  BY <1>1, <1>6, <1>7, RegisteredSays
<1>12. \A p \in Objs : Registered(p)' <=> Registered(p)
  BY <1>10, <1>11
<1>13. FirstFits'
  BY <1>7, <1>10 DEF FirstFits
<1>14. FlagFits'
  BY <1>4, <1>7, <1>9, <1>10 DEF FlagFits
<1>15. /\ Registration' \in Seq(ItemReg) /\ b_RT' \in [Objs -> BOOLEAN]
       /\ Alternates(Registration)'
  BY <1>1, <1>4, <1>6 DEF TypeOK
<1>16. IInv'
  BY <1>7, <1>12, <1>13, <1>14, <1>15, OutsidePass
<1> QED BY <1>12, <1>16

LEMMA RegistrationKeeps ==
    ASSUME IInv, internal_Registration
    PROVE  /\ IInv'
           /\ \A p \in Objs : Registered(p)' <=> Registered(p)
           /\ UNCHANGED <<life, phase, called>>
<1> DEFINE R == Head(Registration)
<1>1. phase \in {"first", "last"} /\ Registration # <<>>
  BY DEF internal_Registration
<1>2. UNCHANGED <<life, ItemsProcessed, phase, it, i, called>>
  BY DEF internal_Registration
<1>3. CASE /\ R.OP
           /\ \E k \in Pairs(R.Object, Tail(Registration)) :
                 /\ \A j \in Pairs(R.Object, Tail(Registration)) : k <= j
                 /\ Registration' = Erase(Tail(Registration), k)
           /\ UNCHANGED <<b_RT, ItemsRT, Items, current>>
  <2>1. PICK k \in Pairs(R.Object, Tail(Registration)) :
           /\ \A j \in Pairs(R.Object, Tail(Registration)) : k <= j
           /\ Registration' = Erase(Tail(Registration), k)
    BY <1>3
  <2>2. UNCHANGED <<b_RT, ItemsRT, Items, current, life, ItemsProcessed, phase, it, i, called>>
    BY <1>2, <1>3
  <2> QED BY <1>1, <1>2, <1>3, <2>1, <2>2, PairKeeps
<1>4. CASE /\ R.OP
           /\ Pairs(R.Object, Tail(Registration)) = {}
           /\ internal_Register(R.Object, R.RT)
           /\ Registration' = Tail(Registration)
           /\ UNCHANGED current
  <2>1. UNCHANGED <<current, life, ItemsProcessed, phase, it, i, called>>
    BY <1>2, <1>4
  <2> QED BY <1>1, <1>2, <1>4, <2>1, EnterKeeps
<1>5. CASE /\ ~R.OP
           /\ internal_Unregister(R.Object, R.RT)
           /\ Registration' = Tail(Registration)
           /\ UNCHANGED b_RT
  <2>1. UNCHANGED <<b_RT, life, ItemsProcessed, phase, it, i, called>>
    BY <1>2, <1>5
  <2> QED BY <1>1, <1>2, <1>5, <2>1, LeaveKeeps
<1> QED BY <1>3, <1>4, <1>5 DEF internal_Registration

-----------------------------------------------------------------------------
(* The invariant is kept: the steps that move nobody.                      *)

LEMMA QuietKeeps ==
    ASSUME IInv, UNCHANGED <<b_RT, lists, current>>
    PROVE  /\ Entries' /\ FirstFits' /\ Alternates(Registration)' /\ FlagFits'
           /\ \A p : Registered(p)' <=> Registered(p)
           /\ \A p : Requested(p)' <=> Requested(p)
           /\ \A p : InRT(p)' <=> InRT(p)
           /\ \A p : In(p, Items)' <=> In(p, Items)
<1>1. /\ ItemsRT' = ItemsRT /\ Items' = Items /\ ItemsProcessed' = ItemsProcessed
      /\ Registration' = Registration /\ current' = current /\ b_RT' = b_RT
  BY DEF lists
<1>2. \A p : /\ Listed(p)' <=> Listed(p)
             /\ InRT(p)' <=> InRT(p)
             /\ In(p, Items)' <=> In(p, Items)
             /\ In(p, ItemsProcessed)' <=> In(p, ItemsProcessed)
             /\ Requested(p)' <=> Requested(p)
  BY <1>1 DEF Listed, InRT, In, Requested
<1>3. \A p : Registered(p)' <=> Registered(p)
  BY <1>1, <1>2, SameRoll
<1>4. FirstFits' /\ Alternates(Registration)' /\ FlagFits'
  BY <1>1, <1>2, SameRequests DEF IInv
<1>5. Entries'
  BY <1>1, <1>2 DEF IInv, Entries
<1> QED BY <1>2, <1>3, <1>4, <1>5

LEMMA ConstructKeeps ==
    ASSUME IInv, NEW o \in Objs, Construct(o)
    PROVE  /\ IInv' /\ \A p : Registered(p)' <=> Registered(p)
           /\ ~Registered(o)
<1>1. /\ Entries' /\ FirstFits' /\ Alternates(Registration)' /\ FlagFits'
      /\ \A p : /\ Registered(p)' <=> Registered(p)
                /\ Requested(p)' <=> Requested(p)
                /\ InRT(p)' <=> InRT(p)
                /\ In(p, Items)' <=> In(p, Items)
  BY QuietKeeps DEF Construct
<1>2. ~Registered(o)
  BY DEF Construct, IInv, Alive
<1>3. TypeOK'
  BY DEF Construct, IInv, TypeOK, lists
<1>4. Alive'
  BY <1>1, <1>2 DEF Construct, IInv, Alive, TypeOK
<1>5. PassClean'
  BY <1>1 DEF Construct, IInv, PassClean, InPass, lists
<1>6. Behind'
  BY <1>1 DEF Construct, IInv, Behind, lists
<1> QED BY <1>1, <1>2, <1>3, <1>4, <1>5, <1>6 DEF IInv

LEMMA StopNeedingKeeps ==
    ASSUME IInv, NEW o \in Objs, StopNeeding(o)
    PROVE  IInv' /\ \A p : Registered(p)' <=> Registered(p)
<1>1. /\ Entries' /\ FirstFits' /\ Alternates(Registration)' /\ FlagFits'
      /\ \A p : /\ Registered(p)' <=> Registered(p)
                /\ Requested(p)' <=> Requested(p)
                /\ InRT(p)' <=> InRT(p)
                /\ In(p, Items)' <=> In(p, Items)
  BY QuietKeeps DEF StopNeeding
<1>2. TypeOK'
  BY DEF StopNeeding, IInv, TypeOK, lists
<1>3. Alive'
  BY <1>1 DEF StopNeeding, IInv, Alive, TypeOK
<1>4. PassClean'
  BY <1>1 DEF StopNeeding, IInv, PassClean, InPass, lists
<1>5. Behind'
  BY <1>1 DEF StopNeeding, IInv, Behind, lists
<1> QED BY <1>1, <1>2, <1>3, <1>4, <1>5 DEF IInv

\* Where the pass is.
PassOn == \/ BeginRT \/ SkipRT \/ CallRT \/ ReturnRT \/ BeginSteps \/ ReturnGone
          \/ EndUpdate

LEMMA PassOnKeeps ==
    ASSUME IInv, PassOn
    PROVE  /\ IInv'
           /\ \A p : Registered(p)' <=> Registered(p)
           /\ life' = life
<1> USE DEF lists
<1>1. UNCHANGED <<life, b_RT, lists, current>>
  BY DEF PassOn, BeginRT, SkipRT, CallRT, ReturnRT, BeginSteps, ReturnGone, EndUpdate
<1>2. /\ Entries' /\ FirstFits' /\ Alternates(Registration)' /\ FlagFits'
      /\ \A p : /\ Registered(p)' <=> Registered(p)
                /\ Requested(p)' <=> Requested(p)
                /\ InRT(p)' <=> InRT(p)
                /\ In(p, Items)' <=> In(p, Items)
  BY <1>1, QuietKeeps
<1>3. Alive'
  BY <1>1, <1>2 DEF IInv, Alive
<1>4. TypeOK /\ PassClean /\ Behind
  BY DEF IInv
<1>5. /\ it \in Nat \ {0} /\ DOMAIN ItemsRT = 1 .. Len(ItemsRT) /\ Len(ItemsRT) \in Nat
      /\ \A k \in DOMAIN ItemsRT : ItemsRT[k] \in Objs
  BY <1>4, LenProperties, ElementOfSeq DEF TypeOK
<1>6. CASE BeginRT
  <2>1. TypeOK'
    BY <1>1, <1>4, <1>6 DEF TypeOK, BeginRT, Phases
  <2>2. \A p : ~Requested(p)
    BY <1>6 DEF BeginRT, Requested
  <2>3. PassClean' /\ Behind'
    BY <1>1, <1>2, <1>4, <1>6, <2>2 DEF BeginRT, PassClean, Behind, InPass
  <2> QED BY <1>1, <1>2, <1>3, <2>1, <2>3 DEF IInv
<1>7. CASE SkipRT
  <2>1. TypeOK'
    BY <1>1, <1>4, <1>7 DEF TypeOK, SkipRT, Phases
  <2>2. PassClean' /\ Behind'
    BY <1>1, <1>2, <1>4, <1>5, <1>7 DEF SkipRT, PassClean, Behind, InPass
  <2> QED BY <1>1, <1>2, <1>3, <2>1, <2>2 DEF IInv
<1>8. CASE CallRT
  <2>1. it \in DOMAIN ItemsRT
    BY <1>5, <1>8 DEF CallRT
  <2>2. TypeOK'
    BY <1>1, <1>4, <1>5, <1>8, <2>1 DEF TypeOK, CallRT, Phases
  <2>3. PassClean'
    BY <1>1, <1>2, <1>4, <1>8 DEF CallRT, PassClean, InPass
  <2>4. ~In(ItemsRT[it], Items)
    BY <1>5, <2>1 DEF IInv, Entries, InRT
  <2>5. \A k \in DOMAIN ItemsRT : ItemsRT[k] = ItemsRT[it] => k = it
    BY <2>1 DEF IInv, Entries, Single
  <2>6. \A k \in DOMAIN ItemsRT : ItemsRT[k] \in called' => k <= it
    BY <1>4, <1>5, <1>8, <2>5 DEF CallRT, Behind
  <2>7. Behind'
    BY <1>1, <1>2, <1>4, <1>8, <2>4, <2>6 DEF CallRT, Behind
  <2> QED BY <1>1, <1>2, <1>3, <2>2, <2>3, <2>7 DEF IInv
<1>9. CASE ReturnRT
  <2>1. TypeOK'
    BY <1>1, <1>4, <1>9 DEF TypeOK, ReturnRT, Phases
  <2>2. PassClean' /\ Behind'
    BY <1>1, <1>2, <1>4, <1>5, <1>9 DEF ReturnRT, PassClean, Behind, InPass
  <2> QED BY <1>1, <1>2, <1>3, <2>1, <2>2 DEF IInv
<1>10. CASE BeginSteps
  <2>1. TypeOK'
    BY <1>1, <1>4, <1>10 DEF TypeOK, BeginSteps, Phases
  <2>2. PassClean' /\ Behind'
    BY <1>1, <1>2, <1>4, <1>10 DEF BeginSteps, PassClean, Behind, InPass
  <2> QED BY <1>1, <1>2, <1>3, <2>1, <2>2 DEF IInv
<1>11. CASE ReturnGone
  <2>1. TypeOK'
    BY <1>1, <1>4, <1>11 DEF TypeOK, ReturnGone, Phases
  <2>2. PassClean' /\ Behind'
    BY <1>1, <1>2, <1>4, <1>11 DEF ReturnGone, PassClean, Behind, InPass
  <2> QED BY <1>1, <1>2, <1>3, <2>1, <2>2 DEF IInv
<1>12. CASE EndUpdate
  <2>1. TypeOK'
    BY <1>1, <1>4, <1>12 DEF TypeOK, EndUpdate, Phases
  <2>2. PassClean' /\ Behind'
    BY <1>1, <1>2, <1>4, <1>12 DEF EndUpdate, PassClean, Behind, InPass
  <2> QED BY <1>1, <1>2, <1>3, <2>1, <2>2 DEF IInv
<1> QED BY <1>6, <1>7, <1>8, <1>9, <1>10, <1>11, <1>12 DEF PassOn

-----------------------------------------------------------------------------
(* The invariant is kept: the steps that move objects between the lists.   *)

LEMMA BeginUpdateKeeps ==
    ASSUME IInv, BeginUpdate
    PROVE  IInv' /\ \A p \in Objs : Registered(p)' <=> Registered(p)
<1> USE DEF lists
<1>1. TypeOK /\ Entries /\ PassClean /\ Behind
  BY DEF IInv
<1>2. UNCHANGED <<life, b_RT, ItemsRT, ItemsProcessed, Registration, current, it, i, called>>
      /\ phase = "idle" /\ phase' = "first"
  BY DEF BeginUpdate
<1>3. /\ Items' \in Seq(Item) /\ Singles(Items')
      /\ \A p : In(p, Items') <=> In(p, Items)
  <2>1. Items \in Seq(Item) /\ Singles(Items)
    BY <1>1 DEF TypeOK, Entries
  <2>2. Items' = [k \in DOMAIN Items |-> [Items[k] EXCEPT !.time = Items[k].time - 1]]
    BY DEF BeginUpdate
  <2> QED BY <2>1, <2>2, AgeItems
<1>4. \A p : /\ InRT(p)' <=> InRT(p)
             /\ In(p, ItemsProcessed)' <=> In(p, ItemsProcessed)
             /\ In(p, Items)' <=> In(p, Items)
  BY <1>2, <1>3 DEF InRT, In
<1>5. \A p : Listed(p)' <=> Listed(p)
  BY <1>2, <1>4 DEF Listed
<1>6. FirstFits' /\ Alternates(Registration)' /\ FlagFits'
  BY <1>2, <1>4, <1>5, SameRequests DEF IInv
<1>7. \A p : Registered(p)' <=> Registered(p)
  BY <1>2, <1>5, SameRoll
<1>8. Entries'
  BY <1>1, <1>2, <1>3, <1>4 DEF Entries
<1>9. TypeOK'
  BY <1>1, <1>2, <1>3 DEF TypeOK, Phases
<1>10. PassClean' /\ Behind'
  BY <1>1, <1>2 DEF PassClean, Behind, InPass
<1>11. Alive'
  BY <1>2, <1>7 DEF IInv, Alive
<1> QED BY <1>6, <1>7, <1>8, <1>9, <1>10, <1>11 DEF IInv

LEMMA DropStepKeeps ==
    ASSUME IInv, DropStep
    PROVE  /\ IInv'
           /\ UNCHANGED <<life, phase, called>>
           /\ phase = "step"
           /\ \/ \A p \in Objs : Registered(p)' <=> Registered(p)
              \/ \E o \in Objs :
                    /\ Registered(o) /\ ~Registered(o)' /\ life[o] = "unneeded"
                    /\ \A p \in Objs : p # o => (Registered(p)' <=> Registered(p))
<1>1. TypeOK /\ Entries /\ PassClean /\ Behind
  BY DEF IInv
<1>2. PICK k \in DOMAIN Items :
        /\ Items' = Erase(Items, k)
        /\ Items[k].Object = Null \/ life[Items[k].Object] # "needed"
  BY DEF DropStep
<1>3. PICK x : x = Items[k].Object
  OBVIOUS
<1>4. UNCHANGED <<life, b_RT, ItemsRT, ItemsProcessed, Registration, current, phase, it, called>>
      /\ phase = "step" /\ i' = (i + 1) % 3
  BY DEF DropStep
<1>5. /\ Items' \in Seq(Item) /\ Singles(Items')
      /\ \A p \in Objs : In(p, Items') <=> In(p, Items) /\ p # x
  <2>1. Items \in Seq(Item) /\ Singles(Items)
    BY <1>1 DEF TypeOK, Entries
  <2> QED BY <1>2, <1>3, <2>1, EraseItem
<1>6. \A p \in Objs : /\ InRT(p)' <=> InRT(p)
                      /\ In(p, ItemsProcessed)' <=> In(p, ItemsProcessed)
                      /\ In(p, Items)' <=> In(p, Items) /\ p # x
  BY <1>4, <1>5 DEF InRT, In
<1>7. In(x, Items)
  BY <1>2, <1>3 DEF In
<1>8. \A p \in Objs : p # x => (Listed(p)' <=> Listed(p))
  BY <1>4, <1>6 DEF Listed
<1>9. \A p \in Objs : Listed(p)' => Listed(p)
  BY <1>4, <1>6 DEF Listed
<1>10. FirstFits' /\ Alternates(Registration)' /\ FlagFits'
  BY <1>4, <1>6, <1>9, SameRequests DEF IInv
<1>11. \A p \in Objs : p # x => (Registered(p)' <=> Registered(p))
  BY <1>4, <1>8, SameRoll
<1>12. \A p : Requested(p)' <=> Requested(p)
  BY <1>4 DEF Requested
<1>13. ASSUME x \in Objs
       PROVE  Registered(x) /\ ~Registered(x)' /\ life[x] = "unneeded"
  <2>1. ~Requested(x) /\ Listed(x)
    BY <1>4, <1>7, <1>13, SeenInPass DEF InPass
  <2>2. Registered(x) /\ life[x] \in {"needed", "unneeded"}
    BY <1>13, <2>1, Seen
  <2>3. x # Null
    BY <1>13, NullAssumption
  <2>4. life[x] = "unneeded"
    BY <1>2, <1>3, <2>2, <2>3
  <2>5. ~Listed(x)'
    BY <1>1, <1>4, <1>6, <1>7, <1>13 DEF Listed, Entries
  <2> QED BY <1>12, <2>1, <2>2, <2>4, <2>5 DEF Registered
<1>14. Entries'
  BY <1>1, <1>4, <1>5, <1>6 DEF Entries
<1>15. TypeOK'
  <2>1. (i + 1) % 3 \in 0 .. 2
    BY <1>1 DEF TypeOK
  <2> QED BY <1>1, <1>4, <1>5, <2>1 DEF TypeOK
<1>16. Alive'
  BY <1>4, <1>11, <1>13 DEF IInv, Alive
<1>17. PassClean'
  BY <1>1, <1>4, <1>6, <1>12 DEF PassClean, InPass
<1>18. Behind'
  <2>1. called \subseteq Objs
    BY <1>1 DEF TypeOK
  <2> QED BY <1>1, <1>4, <1>6, <2>1 DEF Behind
<1>19. CASE x \in Objs
  BY <1>4, <1>10, <1>11, <1>13, <1>14, <1>15, <1>16, <1>17, <1>18, <1>19 DEF IInv
<1>20. CASE x \notin Objs
  <2>1. \A p \in Objs : Registered(p)' <=> Registered(p)
    BY <1>11, <1>20
  <2> QED BY <1>4, <1>10, <1>14, <1>15, <1>16, <1>17, <1>18, <2>1 DEF IInv
<1> QED BY <1>19, <1>20

LEMMA CallStepKeeps ==
    ASSUME IInv, CallStep
    PROVE  /\ IInv'
           /\ \A p \in Objs : Registered(p)' <=> Registered(p)
           /\ life' = life /\ phase = "step" /\ phase' = "stepcall"
           /\ \E o \in Objs : /\ Registered(o) /\ life[o] = "needed" /\ o \notin called
                              /\ called' = called \cup {o}
<1>1. TypeOK /\ Entries /\ PassClean /\ Behind
  BY DEF IInv
<1>2. PICK k \in DOMAIN Items :
        /\ Items' = Erase(Items, k)
        /\ Items[k].Object # Null
        /\ life[Items[k].Object] = "needed"
        /\ current' = Items[k].Object
        /\ called' = called \cup {Items[k].Object}
  BY DEF CallStep
<1>3. PICK x : x = Items[k].Object
  OBVIOUS
<1>4. /\ UNCHANGED <<life, b_RT, ItemsRT, ItemsProcessed, Registration, it, i>>
      /\ phase = "step" /\ phase' = "stepcall"
  BY DEF CallStep
<1>5. x \in Objs
  <2>1. Items[k] \in Item
    BY <1>1, LenProperties, ElementOfSeq DEF TypeOK
  <2> QED BY <1>2, <1>3, <2>1 DEF Item
<1>6. /\ Items' \in Seq(Item) /\ Singles(Items')
      /\ \A p \in Objs : In(p, Items') <=> In(p, Items) /\ p # x
  <2>1. Items \in Seq(Item) /\ Singles(Items)
    BY <1>1 DEF TypeOK, Entries
  <2> QED BY <1>2, <1>3, <2>1, EraseItem
<1>7. \A p \in Objs : /\ InRT(p)' <=> InRT(p)
                      /\ In(p, ItemsProcessed)' <=> In(p, ItemsProcessed)
                      /\ In(p, Items)' <=> In(p, Items) /\ p # x
  BY <1>4, <1>6 DEF InRT, In
<1>8. In(x, Items) /\ current = Null /\ current' = x
  BY <1>1, <1>2, <1>3, <1>4 DEF In, PassClean
<1>9. \A p \in Objs : Listed(p)' <=> Listed(p)
  BY <1>7, <1>8, NullAssumption DEF Listed
<1>10. FirstFits' /\ Alternates(Registration)' /\ FlagFits'
  BY <1>4, <1>7, <1>9, SameRequests DEF IInv
<1>11. \A p \in Objs : Registered(p)' <=> Registered(p)
  BY <1>4, <1>9, SameRoll
<1>12. \A p : Requested(p)' <=> Requested(p)
  BY <1>4 DEF Requested
<1>13. Registered(x) /\ life[x] = "needed"
  <2>1. ~Requested(x) /\ Listed(x)
    BY <1>4, <1>5, <1>8, SeenInPass DEF InPass
  <2> QED BY <1>2, <1>3, <1>5, <2>1, Seen
<1>14. x \notin called /\ called' = called \cup {x}
  BY <1>1, <1>2, <1>3, <1>4, <1>8 DEF Behind
<1>15. Entries'
  BY <1>1, <1>4, <1>6, <1>7, <1>8 DEF Entries
<1>16. TypeOK'
  BY <1>1, <1>4, <1>5, <1>6, <1>8, <1>14 DEF TypeOK, Phases
<1>17. Alive'
  BY <1>4, <1>11 DEF IInv, Alive
<1>18. PassClean'
  <2>1. \A p \in Objs : InRT(p)' \/ In(p, Items)' \/ current' = p => ~Requested(p)'
    BY <1>1, <1>4, <1>7, <1>8, <1>12 DEF PassClean, InPass
  <2> QED BY <1>1, <1>4, <2>1 DEF PassClean
<1>19. Behind'
  <2>1. called \subseteq Objs
    BY <1>1 DEF TypeOK
  <2>2. \A p \in called' : ~In(p, Items)'
    BY <1>1, <1>4, <1>5, <1>7, <1>14, <2>1 DEF Behind
  <2> QED BY <1>4, <2>2 DEF Behind
<1> QED BY <1>4, <1>5, <1>10, <1>11, <1>13, <1>14, <1>15, <1>16, <1>17, <1>18, <1>19 DEF IInv

LEMMA ReturnStepKeeps ==
    ASSUME IInv, ReturnStep
    PROVE  /\ IInv'
           /\ \A p \in Objs : Registered(p)' <=> Registered(p)
           /\ UNCHANGED <<life, called>>
           /\ phase = "stepcall" /\ phase' \in {"step", "full"}
<1>1. TypeOK /\ Entries /\ PassClean /\ Behind
  BY DEF IInv
<1>2. PICK u \in Intervals :
        ItemsProcessed' = Append(ItemsProcessed, [Object |-> current, time |-> u])
  BY DEF ReturnStep
<1>3. /\ UNCHANGED <<life, b_RT, ItemsRT, Items, Registration, it, called>>
      /\ phase = "stepcall" /\ phase' \in {"step", "full"}
      /\ current # Null /\ current' = Null /\ i' = (i + 1) % 3
  BY DEF ReturnStep
<1>4. PICK x : x = [Object |-> current, time |-> u]
  OBVIOUS
<1>5. x \in Item /\ x.Object = current /\ current \in Objs
  BY <1>1, <1>3, <1>4, IntervalsAssumption DEF TypeOK, Item
<1>6. /\ ItemsProcessed' \in Seq(Item) /\ Singles(ItemsProcessed')
      /\ \A p : In(p, ItemsProcessed') <=> In(p, ItemsProcessed) \/ p = current
  <2>1. /\ ItemsProcessed \in Seq(Item) /\ Singles(ItemsProcessed)
        /\ ~In(x.Object, ItemsProcessed) /\ x.Object \in Objs
    BY <1>1, <1>5 DEF TypeOK, Entries
  <2>2. ItemsProcessed' = Append(ItemsProcessed, x)
    BY <1>2, <1>4
  <2>3. /\ ItemsProcessed' \in Seq(Item) /\ Singles(ItemsProcessed')
        /\ \A p : In(p, ItemsProcessed') <=> In(p, ItemsProcessed) \/ p = x.Object
    BY <1>5, <2>1, <2>2, AppendItem
  <2> QED BY <1>5, <2>3
<1>7. \A p : /\ InRT(p)' <=> InRT(p)
             /\ In(p, ItemsProcessed)' <=> In(p, ItemsProcessed) \/ p = current
             /\ In(p, Items)' <=> In(p, Items)
  BY <1>3, <1>6 DEF InRT, In
<1>8. \A p \in Objs : Listed(p)' <=> Listed(p)
  BY <1>3, <1>7, NullAssumption DEF Listed
<1>9. FirstFits' /\ Alternates(Registration)' /\ FlagFits'
  BY <1>3, <1>7, <1>8, SameRequests DEF IInv
<1>10. \A p \in Objs : Registered(p)' <=> Registered(p)
  BY <1>3, <1>8, SameRoll
<1>11. \A p : Requested(p)' <=> Requested(p)
  BY <1>3 DEF Requested
<1>12. Entries'
  BY <1>1, <1>3, <1>5, <1>6, <1>7, NullAssumption DEF Entries
<1>13. TypeOK'
  <2>1. (i + 1) % 3 \in 0 .. 2
    BY <1>1 DEF TypeOK
  <2> QED BY <1>1, <1>3, <1>6, <2>1 DEF TypeOK, Phases
<1>14. Alive'
  BY <1>3, <1>10 DEF IInv, Alive
<1>15. PassClean'
  <2>1. \A p \in Objs : InRT(p)' \/ In(p, Items)' \/ current' = p => ~Requested(p)'
    BY <1>1, <1>3, <1>7, <1>11, NullAssumption DEF PassClean, InPass
  <2> QED BY <1>3, <2>1 DEF PassClean
<1>16. Behind'
  BY <1>1, <1>3, <1>7 DEF Behind
<1> QED BY <1>3, <1>9, <1>10, <1>12, <1>13, <1>14, <1>15, <1>16 DEF IInv

LEMMA EndStepsKeeps ==
    ASSUME IInv, EndSteps
    PROVE  /\ IInv'
           /\ \A p \in Objs : Registered(p)' <=> Registered(p)
           /\ UNCHANGED <<life, called>>
           /\ phase \in {"step", "full"} /\ phase' = "last"
<1>1. TypeOK /\ Entries /\ PassClean /\ Behind
  BY DEF IInv
<1>2. /\ UNCHANGED <<life, b_RT, ItemsRT, Registration, current, it, called>>
      /\ phase \in {"step", "full"} /\ phase' = "last" /\ i' = 0
      /\ Items' = Items \o ItemsProcessed
      /\ ItemsProcessed' = <<>>
  BY DEF EndSteps
<1>3. /\ Items' \in Seq(Item) /\ Singles(Items')
      /\ \A p : In(p, Items') <=> In(p, Items) \/ In(p, ItemsProcessed)
  <2>1. /\ Items \in Seq(Item) /\ Singles(Items)
        /\ ItemsProcessed \in Seq(Item) /\ Singles(ItemsProcessed)
        /\ \A p \in Objs : ~(In(p, Items) /\ In(p, ItemsProcessed))
    BY <1>1 DEF TypeOK, Entries
  <2> QED BY <1>2, <2>1, JoinItems
<1>4. /\ ItemsProcessed' \in Seq(Item) /\ Singles(ItemsProcessed')
      /\ \A p : ~In(p, ItemsProcessed')
  BY <1>2, EmptySeq DEF Singles, In
<1>5. \A p : /\ InRT(p)' <=> InRT(p)
             /\ ~In(p, ItemsProcessed)'
             /\ In(p, Items)' <=> In(p, Items) \/ In(p, ItemsProcessed)
  BY <1>2, <1>3, <1>4 DEF InRT, In
<1>6. \A p : Listed(p)' <=> Listed(p)
  BY <1>2, <1>5 DEF Listed
<1>7. FirstFits' /\ Alternates(Registration)' /\ FlagFits'
  BY <1>2, <1>5, <1>6, SameRequests DEF IInv
<1>8. \A p \in Objs : Registered(p)' <=> Registered(p)
  BY <1>2, <1>6, SameRoll
<1>9. current = Null
  BY <1>1, <1>2 DEF PassClean
<1>10. Entries'
  BY <1>1, <1>2, <1>3, <1>4, <1>5, <1>9, NullAssumption DEF Entries
<1>11. TypeOK'
  BY <1>1, <1>2, <1>3, <1>4 DEF TypeOK, Phases
<1>12. Alive'
  BY <1>2, <1>8 DEF IInv, Alive
<1>13. PassClean' /\ Behind'
  BY <1>2, <1>9 DEF PassClean, Behind, InPass
<1> QED BY <1>2, <1>7, <1>8, <1>10, <1>11, <1>12, <1>13 DEF IInv

-----------------------------------------------------------------------------
(* Every step keeps the invariant and is a step of the roll, or none.      *)

OnRoll == {o \in Objs : Registered(o)}
Wanted == {o \in Objs : life[o] \in {"fresh", "needed"}}
Turn   == IF phase = "idle" THEN "outside"
          ELSE IF phase \in {"rtcall", "stepcall"} THEN "call"
          ELSE "scheduler"

RollStep == [Roll!RollNext]_(Roll!rollVars)

LEMMA RollStutters ==
    ASSUME OnRoll' = OnRoll, Wanted' = Wanted, Turn' = Turn, called' = called
    PROVE  RollStep
BY DEF RollStep, Roll!rollVars, OnRoll, Wanted, Turn

\* The scheduler calls somebody.
LEMMA RollCalls ==
    ASSUME NEW o \in Objs, Turn = "scheduler", Turn' = "call",
           o \in OnRoll, o \in Wanted, o \notin called,
           called' = called \cup {o}, OnRoll' = OnRoll, Wanted' = Wanted
    PROVE  RollStep
<1>1. Roll!Call(o)
  BY DEF Roll!Call, OnRoll, Wanted, Turn
<1> QED BY <1>1 DEF RollStep, Roll!RollNext

LEMMA NextKeeps ==
    ASSUME IInv, [Next]_vars
    PROVE  IInv' /\ RollStep
<1>1. TypeOK /\ Alive
  BY DEF IInv
<1>2. ClientsRun => (Turn = "outside" \/ Turn = "call") /\ Roll!ClientsRun
  BY DEF ClientsRun, Turn, Roll!ClientsRun
<1>3. ASSUME NEW o \in Objs, Construct(o) PROVE IInv' /\ RollStep
  <2>1. IInv' /\ ~Registered(o) /\ \A p : Registered(p)' <=> Registered(p)
    BY <1>3, ConstructKeeps
  <2>2. OnRoll' = OnRoll /\ Turn' = Turn /\ called' = called /\ ClientsRun /\ o \notin OnRoll
    BY <1>3, <2>1 DEF Construct, OnRoll, Turn
  <2>3. Wanted' = Wanted \cup {o}
    BY <1>1, <1>3 DEF Construct, Wanted, TypeOK
  <2>4. Roll!Want(o)
    BY <1>2, <2>2, <2>3 DEF Roll!Want, OnRoll, Turn, Wanted
  <2> QED BY <2>1, <2>4 DEF RollStep, Roll!RollNext
<1>4. ASSUME NEW o \in Objs, StopNeeding(o) PROVE IInv' /\ RollStep
  <2>1. IInv' /\ \A p : Registered(p)' <=> Registered(p)
    BY <1>4, StopNeedingKeeps
  <2>2. OnRoll' = OnRoll /\ Turn' = Turn /\ called' = called /\ ClientsRun
    BY <1>4, <2>1 DEF StopNeeding, OnRoll, Turn
  <2>3. Wanted' = Wanted \ {o}
    BY <1>1, <1>4 DEF StopNeeding, Wanted, TypeOK
  <2>4. Roll!Unwant(o)
    BY <1>2, <2>2, <2>3 DEF Roll!Unwant, OnRoll, Turn, Wanted
  <2> QED BY <2>1, <2>4 DEF RollStep, Roll!RollNext
<1>5. ASSUME NEW o \in Objs, NEW RT \in BOOLEAN, Register(o, RT) PROVE IInv' /\ RollStep
  <2>1. /\ IInv'
        /\ ~Registered(o) /\ Registered(o)'
        /\ \A p \in Objs : p # o => (Registered(p)' <=> Registered(p))
        /\ UNCHANGED <<phase, called>>
        /\ \A p \in Objs : life'[p] \in {"fresh", "needed"} <=> life[p] \in {"fresh", "needed"}
    BY <1>5, RegisterKeeps
  <2>2. OnRoll' = OnRoll \cup {o} /\ o \notin OnRoll
    BY <2>1 DEF OnRoll
  <2>3. Wanted' = Wanted /\ Turn' = Turn /\ called' = called /\ ClientsRun
    BY <1>5, <2>1 DEF Wanted, Turn, Register
  <2>4. Roll!Join(o)
    BY <1>2, <2>2, <2>3 DEF Roll!Join, OnRoll, Turn, Wanted
  <2> QED BY <2>1, <2>4 DEF RollStep, Roll!RollNext
<1>6. ASSUME NEW o \in Objs, Unregister(o) PROVE IInv' /\ RollStep
  <2>1. /\ ClientsRun /\ Registered(o) /\ Strike(o, b_RT[o]) /\ UNCHANGED <<life, b_RT>>
        /\ b_RT[o] \in BOOLEAN
        /\ life \in [Objs -> Lives] /\ b_RT \in [Objs -> BOOLEAN]
    BY <1>1, <1>6 DEF Unregister, TypeOK, Lives
  <2>2. /\ IInv'
        /\ ~Registered(o)'
        /\ \A p \in Objs : p # o => (Registered(p)' <=> Registered(p))
        /\ UNCHANGED <<phase, called>>
    BY <2>1, StrikeKeeps
  <2>3. OnRoll' = OnRoll \ {o} /\ o \in OnRoll
    BY <2>1, <2>2 DEF OnRoll
  <2>4. Wanted' = Wanted /\ Turn' = Turn /\ called' = called
    BY <2>1, <2>2 DEF Wanted, Turn
  <2>5. Roll!Quit(o)
    BY <1>2, <2>1, <2>3, <2>4 DEF Roll!Quit, OnRoll, Turn, Wanted
  <2> QED BY <2>2, <2>5 DEF RollStep, Roll!RollNext
<1>7. ASSUME NEW o \in Objs, Destruct(o) PROVE IInv' /\ RollStep
  <2>1. PICK RT \in IF life[o] = "fresh" THEN BOOLEAN ELSE {b_RT[o]} : Strike(o, RT)
    BY <1>7 DEF Destruct
  <2>2. /\ ClientsRun
        /\ life' = [life EXCEPT ![o] = "none"]
        /\ b_RT' = [b_RT EXCEPT ![o] = FALSE]
    BY <1>7 DEF Destruct
  <2>3. RT \in BOOLEAN
    BY <1>1, <2>1 DEF TypeOK
  <2>4. Registered(o) => RT = b_RT[o]
    BY <1>1, <2>1 DEF Alive
  <2>5. /\ life' \in [Objs -> Lives] /\ b_RT' \in [Objs -> BOOLEAN]
        /\ \A p \in Objs : p # o => life'[p] = life[p] /\ b_RT'[p] = b_RT[p]
        /\ life'[o] = "none"
    BY <1>1, <2>2 DEF TypeOK, Lives
  <2>6. /\ IInv'
        /\ ~Registered(o)'
        /\ \A p \in Objs : p # o => (Registered(p)' <=> Registered(p))
        /\ UNCHANGED <<phase, called>>
    BY <2>1, <2>2, <2>3, <2>4, <2>5, StrikeKeeps
  <2>7. OnRoll' = OnRoll \ {o} /\ Wanted' = Wanted \ {o}
    BY <2>5, <2>6 DEF OnRoll, Wanted
  <2>8. Turn' = Turn /\ called' = called
    BY <2>6 DEF Turn
  <2>9. Roll!Vanish(o)
    BY <1>2, <2>2, <2>7, <2>8 DEF Roll!Vanish, OnRoll, Turn, Wanted
  <2> QED BY <2>6, <2>9 DEF RollStep, Roll!RollNext
<1>8. ASSUME BeginUpdate PROVE IInv' /\ RollStep
  <2>1. IInv' /\ \A p \in Objs : Registered(p)' <=> Registered(p)
    BY <1>8, BeginUpdateKeeps
  <2>2. OnRoll' = OnRoll /\ Wanted' = Wanted /\ called' = called
        /\ Turn = "outside" /\ Turn' = "scheduler"
    BY <1>8, <2>1 DEF BeginUpdate, OnRoll, Wanted, Turn
  <2>3. Roll!StartPass
    BY <2>2 DEF Roll!StartPass, OnRoll, Turn, Wanted
  <2> QED BY <2>1, <2>3 DEF RollStep, Roll!RollNext
<1>9. ASSUME internal_Registration PROVE IInv' /\ RollStep
  <2>1. /\ IInv'
        /\ \A p \in Objs : Registered(p)' <=> Registered(p)
        /\ UNCHANGED <<life, phase, called>>
    BY <1>9, RegistrationKeeps
  <2>2. OnRoll' = OnRoll /\ Wanted' = Wanted /\ called' = called /\ Turn' = Turn
    BY <2>1 DEF OnRoll, Wanted, Turn
  <2> QED BY <2>1, <2>2, RollStutters
<1>10. ASSUME PassOn PROVE IInv' /\ OnRoll' = OnRoll /\ Wanted' = Wanted
  <2>1. IInv' /\ (\A p : Registered(p)' <=> Registered(p)) /\ life' = life
    BY <1>10, PassOnKeeps
  <2> QED BY <2>1 DEF OnRoll, Wanted
<1>11. ASSUME BeginRT \/ SkipRT \/ BeginSteps PROVE IInv' /\ RollStep
  <2>1. IInv' /\ OnRoll' = OnRoll /\ Wanted' = Wanted
    BY <1>10, <1>11 DEF PassOn
  <2>2. Turn' = Turn /\ called' = called
    BY <1>11 DEF Turn, BeginRT, SkipRT, BeginSteps
  <2> QED BY <2>1, <2>2, RollStutters
<1>12. ASSUME CallRT PROVE IInv' /\ RollStep
  <2>1. IInv' /\ OnRoll' = OnRoll /\ Wanted' = Wanted
    BY <1>10, <1>12 DEF PassOn
  <2>2. PICK o : o = ItemsRT[it]
    OBVIOUS
  <2>3. /\ phase = "rt" /\ phase' = "rtcall" /\ life[o] = "needed" /\ it <= Len(ItemsRT)
        /\ called' = called \cup {o}
    BY <1>12, <2>2 DEF CallRT
  <2>4. it \in DOMAIN ItemsRT /\ o \in Objs
    BY <1>1, <2>2, <2>3, LenProperties, ElementOfSeq DEF TypeOK
  <2>5. InRT(o)
    BY <2>2, <2>4 DEF InRT
  <2>6. ~Requested(o) /\ Listed(o)
    BY <2>3, <2>4, <2>5, SeenInPass DEF InPass
  <2>7. Registered(o)
    BY <2>4, <2>6, Seen
  <2>8. o \notin called
    BY <1>1, <2>2, <2>3, <2>4 DEF IInv, Behind, TypeOK
  <2>9. Turn = "scheduler" /\ Turn' = "call" /\ o \in OnRoll /\ o \in Wanted
    BY <2>3, <2>4, <2>7 DEF Turn, OnRoll, Wanted
  <2> QED BY <2>1, <2>3, <2>4, <2>8, <2>9, RollCalls
<1>13. ASSUME ReturnRT \/ ReturnGone PROVE IInv' /\ RollStep
  <2>1. IInv' /\ OnRoll' = OnRoll /\ Wanted' = Wanted
    BY <1>10, <1>13 DEF PassOn
  <2>2. Turn = "call" /\ Turn' = "scheduler" /\ called' = called
    BY <1>13 DEF Turn, ReturnRT, ReturnGone
  <2>3. Roll!Return
    BY <2>1, <2>2 DEF Roll!Return, OnRoll, Turn, Wanted
  <2> QED BY <2>1, <2>3 DEF RollStep, Roll!RollNext
<1>14. ASSUME ReturnStep PROVE IInv' /\ RollStep
  <2>1. /\ IInv'
        /\ \A p \in Objs : Registered(p)' <=> Registered(p)
        /\ UNCHANGED <<life, called>>
        /\ phase = "stepcall" /\ phase' \in {"step", "full"}
    BY <1>14, ReturnStepKeeps
  <2>2. OnRoll' = OnRoll /\ Wanted' = Wanted /\ Turn = "call" /\ Turn' = "scheduler"
        /\ called' = called
    BY <2>1 DEF OnRoll, Wanted, Turn
  <2>3. Roll!Return
    BY <2>2 DEF Roll!Return, OnRoll, Turn, Wanted
  <2> QED BY <2>1, <2>3 DEF RollStep, Roll!RollNext
<1>15. ASSUME DropStep PROVE IInv' /\ RollStep
  <2>1. /\ IInv'
        /\ UNCHANGED <<life, phase, called>>
        /\ phase = "step"
        /\ \/ \A p \in Objs : Registered(p)' <=> Registered(p)
           \/ \E o \in Objs :
                 /\ Registered(o) /\ ~Registered(o)' /\ life[o] = "unneeded"
                 /\ \A p \in Objs : p # o => (Registered(p)' <=> Registered(p))
    BY <1>15, DropStepKeeps
  <2>2. Wanted' = Wanted /\ Turn' = Turn /\ Turn = "scheduler" /\ called' = called
    BY <2>1 DEF Wanted, Turn
  <2>3. CASE \A p \in Objs : Registered(p)' <=> Registered(p)
    <3>1. OnRoll' = OnRoll
      BY <2>3 DEF OnRoll
    <3> QED BY <2>1, <2>2, <3>1, RollStutters
  <2>4. ASSUME NEW o \in Objs, Registered(o), ~Registered(o)', life[o] = "unneeded",
               \A p \in Objs : p # o => (Registered(p)' <=> Registered(p))
        PROVE  RollStep
    <3>1. OnRoll' = OnRoll \ {o} /\ o \in OnRoll /\ o \notin Wanted
      BY <2>4 DEF OnRoll, Wanted
    <3>2. Roll!Lapse(o)
      BY <2>2, <3>1 DEF Roll!Lapse, OnRoll, Turn, Wanted
    <3> QED BY <3>2 DEF RollStep, Roll!RollNext
  <2> QED BY <2>1, <2>3, <2>4
<1>16. ASSUME CallStep PROVE IInv' /\ RollStep
  <2>1. /\ IInv'
        /\ \A p \in Objs : Registered(p)' <=> Registered(p)
        /\ life' = life /\ phase = "step" /\ phase' = "stepcall"
    BY <1>16, CallStepKeeps
  <2>2. PICK o \in Objs : /\ Registered(o) /\ life[o] = "needed" /\ o \notin called
                          /\ called' = called \cup {o}
    BY <1>16, CallStepKeeps
  <2>3. /\ OnRoll' = OnRoll /\ Wanted' = Wanted /\ Turn = "scheduler" /\ Turn' = "call"
        /\ o \in OnRoll /\ o \in Wanted
    BY <2>1, <2>2 DEF OnRoll, Wanted, Turn
  <2> QED BY <2>1, <2>2, <2>3, RollCalls
<1>17. ASSUME EndSteps PROVE IInv' /\ RollStep
  <2>1. /\ IInv'
        /\ \A p \in Objs : Registered(p)' <=> Registered(p)
        /\ UNCHANGED <<life, called>>
        /\ phase \in {"step", "full"} /\ phase' = "last"
    BY <1>17, EndStepsKeeps
  <2>2. OnRoll' = OnRoll /\ Wanted' = Wanted /\ called' = called /\ Turn' = Turn
    BY <2>1 DEF OnRoll, Wanted, Turn
  <2> QED BY <2>1, <2>2, RollStutters
<1>18. ASSUME EndUpdate PROVE IInv' /\ RollStep
  <2>1. IInv' /\ OnRoll' = OnRoll /\ Wanted' = Wanted
    BY <1>10, <1>18 DEF PassOn
  <2>2. Turn = "scheduler" /\ Turn' = "outside" /\ called' = {}
    BY <1>18 DEF Turn, EndUpdate
  <2>3. Roll!EndPass
    BY <2>1, <2>2 DEF Roll!EndPass, OnRoll, Turn, Wanted
  <2> QED BY <2>1, <2>3 DEF RollStep, Roll!RollNext
<1>19. ASSUME UNCHANGED vars PROVE IInv' /\ RollStep
  <2>1. UNCHANGED <<life, b_RT, ItemsRT, Items, ItemsProcessed, Registration, current,
                    phase, it, i, called>>
    BY <1>19 DEF vars, lists
  <2>2. /\ Entries' /\ FirstFits' /\ Alternates(Registration)' /\ FlagFits'
        /\ \A p : Registered(p)' <=> Registered(p)
        /\ \A p : Requested(p)' <=> Requested(p)
    BY <2>1, QuietKeeps DEF lists
  <2>3. OnRoll' = OnRoll /\ Wanted' = Wanted /\ called' = called /\ Turn' = Turn
    BY <2>1, <2>2 DEF OnRoll, Wanted, Turn
  <2>4. TypeOK'
    BY <1>1, <2>1 DEF TypeOK
  <2>5. Alive'
    BY <1>1, <2>1, <2>2 DEF Alive
  <2>6. PassClean' /\ Behind'
    BY <2>1, <2>2 DEF IInv, PassClean, Behind, InPass, InRT, In
  <2> QED BY <2>2, <2>3, <2>4, <2>5, <2>6, RollStutters DEF IInv
<1> QED BY <1>3, <1>4, <1>5, <1>6, <1>7, <1>8, <1>9, <1>11, <1>12, <1>13, <1>14, <1>15,
           <1>16, <1>17, <1>18, <1>19 DEF Next, Clients, Update, Returns

-----------------------------------------------------------------------------
(* The theorems.                                                           *)

LEMMA InitHolds == Init => IInv /\ Roll!RollInit
<1> SUFFICES ASSUME Init PROVE IInv /\ Roll!RollInit
  OBVIOUS
<1>1. TypeOK
  BY EmptySeq DEF Init, TypeOK, Phases
<1>2. ASSUME NEW o \in Objs PROVE ~Listed(o) /\ ~Requested(o)
  <2>1. ~InRT(o) /\ ~Requested(o)
    BY DEF Init, InRT, Requested
  <2>2. ~In(o, Items) /\ ~In(o, ItemsProcessed)
    BY DEF Init, In
  <2>3. current # o
    BY NullAssumption DEF Init
  <2> QED BY <2>1, <2>2, <2>3 DEF Listed
<1>3. \A o \in Objs : ~Registered(o)
  BY <1>2 DEF Registered
<1>4. Entries
  BY NullAssumption DEF Init, Entries, Single, Singles, InRT, In
<1>5. FirstFits /\ FlagFits /\ Alive
  BY <1>2, <1>3 DEF FirstFits, FlagFits, Alive
<1>6. Alternates(Registration)
  BY DEF Init, Alternates
<1>7. PassClean /\ Behind
  BY DEF Init, PassClean, Behind, InPass
<1>8. Roll!RollInit
  BY <1>3 DEF Init, Roll!RollInit
<1> QED BY <1>1, <1>4, <1>5, <1>6, <1>7, <1>8 DEF IInv

LEMMA Invariant == Spec => []IInv
<1>1. Init => IInv
  BY InitHolds
<1>2. IInv /\ [Next]_vars => IInv'
  BY NextKeeps
<1> QED BY <1>1, <1>2, PTL DEF Spec

(* Every object is on at most one list, once: the VERIFYs in Registered()  *)
(* (xrSheduler.cpp:161) hold for any number of objects and requests.       *)
THEOREM OneEntry == Spec => []OneEntryEach
<1>1. IInv => OneEntryEach
  <2> SUFFICES ASSUME IInv PROVE OneEntryEach
    OBVIOUS
  <2>1. TypeOK /\ Entries
    BY DEF IInv
  <2>2. ASSUME NEW o \in Objs
        PROVE  /\ \A j, k \in DOMAIN ItemsRT : ItemsRT[j] = o /\ ItemsRT[k] = o => j = k
               /\ \A s \in {Items, ItemsProcessed} : \A j, k \in DOMAIN s :
                     s[j].Object = o /\ s[k].Object = o => j = k
    BY <2>1 DEF Entries, Single, Singles
  <2> QED BY <2>1, <2>2 DEF OneEntryEach, Entries
<1> QED BY <1>1, Invariant, PTL

(* The scheduler never holds a pointer to an object that has been deleted: *)
(* not on its lists where a pass will look, not in a request that counts.  *)
THEOREM LivePointers == Spec => []PointersAreLive
<1>1. IInv => PointersAreLive
  <2> SUFFICES ASSUME IInv PROVE PointersAreLive
    OBVIOUS
  <2>1. TypeOK /\ Alive /\ PassClean
    BY DEF IInv
  <2>2. ASSUME InPass, NEW o \in Objs, InRT(o) \/ In(o, Items) \/ current = o
        PROVE  life[o] # "none"
    BY <2>2, SeenInPass, Seen
  <2>3. \A o \in Objs : Registered(o) => life[o] # "none"
    BY <2>1 DEF Alive
  <2>4. phase = "rt" => \A k \in DOMAIN ItemsRT : k >= it => life[ItemsRT[k]] # "none"
    <3> SUFFICES ASSUME phase = "rt", NEW k \in DOMAIN ItemsRT PROVE life[ItemsRT[k]] # "none"
      OBVIOUS
    <3>1. ItemsRT[k] \in Objs /\ InRT(ItemsRT[k])
      BY <2>1, LenProperties, ElementOfSeq DEF TypeOK, InRT
    <3> QED BY <2>2, <3>1 DEF InPass
  <2>5. phase \in {"rt", "rtcall", "step", "stepcall"} =>
          \A k \in DOMAIN Items : Items[k].Object # Null => life[Items[k].Object] # "none"
    <3> SUFFICES ASSUME phase \in {"rt", "rtcall", "step", "stepcall"},
                        NEW k \in DOMAIN Items, Items[k].Object # Null
                 PROVE  life[Items[k].Object] # "none"
      OBVIOUS
    <3>1. Items[k] \in Item
      BY <2>1, LenProperties, ElementOfSeq DEF TypeOK
    <3>2. Items[k].Object \in Objs /\ In(Items[k].Object, Items)
      BY <3>1 DEF Item, In
    <3> QED BY <2>2, <3>2 DEF InPass
  <2>6. current # Null => life[current] # "none"
    BY <2>1, <2>2 DEF TypeOK, PassClean, InPass
  <2> QED BY <2>3, <2>4, <2>5, <2>6 DEF PointersAreLive
<1> QED BY <1>1, Invariant, PTL

(* The lists, the requests and the pass together are a roll that changes   *)
(* at once, and whose members are called at most once in a frame.          *)
THEOREM SchedulerImplementsRoll == Spec => ImplementsRoll
<1>1. Init => Roll!RollInit
  BY InitHolds
<1>2. IInv /\ [Next]_vars => [Roll!RollNext]_(Roll!rollVars)
  BY NextKeeps DEF RollStep
<1> QED BY <1>1, <1>2, Invariant, PTL DEF Spec, ImplementsRoll, Roll!RollSpec
=============================================================================
