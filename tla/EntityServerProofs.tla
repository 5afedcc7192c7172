------------------------- MODULE EntityServerProofs -------------------------
(***************************************************************************)
(* Proofs about EntityServer, for every set of ids and of clients.          *)
(*                                                                         *)
(* The lists of children say little by themselves, so the invariant speaks *)
(* of parents only: Tree translates between the two once and for all, and  *)
(* each operation on the registry has a lemma (HandKeeps, LooseKeeps,      *)
(* TransferKeeps, RemoveKeeps, SpawnKeeps, BuriedKeeps) that says what it  *)
(* does to parents, kinds and owners.  The lemma of an action then has to  *)
(* look at the ids kept outside of the registry: the game thread's lists,  *)
(* the clients' bodies, and the operations that are under way.             *)
(***************************************************************************)
EXTENDS EntityServer, FilterProofs, SequenceTheorems

-----------------------------------------------------------------------------
(* The registry as a forest.  Tree: parents and lists of children agree, and *)
(* a bag is the first child.  Order: players' bodies are roots, a bag is on  *)
(* the ground or an actor's, an item on the ground, an actor's or in a bag.  *)

Entity == [kind : Kinds, parent : Ids \cup {None}, children : Seq(Ids),
           owner : Clients \cup {Server, Nobody}]
Living(E) == {i \in Ids : E[i].kind # "none"}

Distinct(s) == \A m, n \in DOMAIN s : s[m] = s[n] => m = n

Up(E, i) == E[i].parent # None =>
                /\ E[i].parent \in Living(E)
                /\ \E n \in DOMAIN E[E[i].parent].children : E[E[i].parent].children[n] = i

Down(E, i) ==
    LET s == E[i].children
    IN  /\ Distinct(s)
        /\ \A n \in DOMAIN s : /\ s[n] \in Living(E) /\ E[s[n]].parent = i
                               /\ E[s[n]].kind = "bag" => n = 1

Tree(E) == /\ E \in [Ids -> Entity]
           /\ \A i \in Living(E) : Up(E, i) /\ Down(E, i)

Held(E, x) == E[x].parent # None =>
                 \/ E[x].kind \in Items /\ E[E[x].parent].kind \in {"actor", "bag"}
                 \/ E[x].kind = "bag" /\ E[E[x].parent].kind = "actor"

(* A player owns bodies only. *)
Owned(E, x) == /\ E[x].owner # Nobody
               /\ E[x].kind \in Items \cup {"bag"} => E[x].owner = Server

(* One gun of an actor. *)
GunOf(E, x, a) == x \in Living(E) /\ E[x].kind = "gun" /\ E[x].parent = a

Order(E) == /\ \A x \in Living(E) : Held(E, x) /\ Owned(E, x)
            /\ \A a \in Living(E) : E[a].kind = "actor" =>
                  \A x, y \in Ids : GunOf(E, x, a) /\ GunOf(E, y, a) => x = y

Bagged(E, a)   == \E b \in Living(E) : E[b].kind = "bag" /\ E[b].parent = a
Childless(E, i) == \A x \in Living(E) : E[x].parent # i

-----------------------------------------------------------------------------
Actors  == {i \in live : Kind(i) = "actor"}
Figures == {i \in live : Kind(i) \in {"actor", "spectator"}}
Given   == {i \in live : Owner(i) = Server}

Types == /\ valid \subseteq live /\ ground \subseteq valid
         /\ dead \subseteq Actors
         /\ removable \subseteq Actors \cap Given
         /\ corpses \subseteq Figures \cap Given
         /\ \A b \in ground : Kind(b) = "bag" => Parent(b) = None
         /\ avatar \in [Clients -> Ids \cup {None}]
         /\ conn \in [Clients -> {"out", "in", "left", "lost", "done"}]
         /\ veryDead \subseteq Clients
         /\ fault \in {"none", "null client"}

(* The game thread's handler, and its client. *)
Respawns == {"actor", "bag", "items"}
Jobs == /\ job \in [at : {"idle", "ending", "starting", "entering", "clearing"} \cup Respawns,
                    todo : SUBSET Clients]
        /\ job.at = "idle" => job = Idle
        /\ job.at \in Respawns => \E c \in Clients : job.todo = {c}
        /\ ForAll => \A c \in job.todo : conn[c] = "in"
        /\ \A c \in job.todo :
              /\ job.at \in {"bag", "items"} => avatar[c] \in Actors \ dead
              /\ job.at = "bag" => avatar[c] \notin valid /\ Childless(ent, avatar[c])

Avatars == \A c \in Clients :
    /\ conn[c] \in {"out", "done"} => avatar[c] = None
    /\ \/ avatar[c] = None
       \/ job.at = "actor" /\ c \in job.todo
       \/ avatar[c] \in Figures /\ Owner(avatar[c]) = c

Bags == /\ ~ InClear => \A a \in Actors \ dead :
              Bagged(ent, a) \/ (job.at = "bag" /\ \E c \in job.todo : avatar[c] = a)
        /\ \A a \in dead : Bagged(ent, a) \/ Childless(ent, a)

Emptying == emptying # Done =>
    /\ detach = Done /\ destroying = <<>> /\ ~ InClear /\ ~ ForAll
    /\ \E p \in Actors \cap valid, b \in live :
          /\ emptying = <<p, b>>
          /\ Bagged(ent, p)
          /\ Kind(b) = "bag" /\ Parent(b) = None

Detachment == [bag : Ids, from : Ids, drop : Ids \cup {None}, at : {1}, move : Seq(Ids)]

(* Among the children of the actor d.from are its bag, what OnDetach is to  *)
(* move and what it is to drop, and nothing else.                           *)
Moving(E, d) ==
    LET b == d.bag   p == d.from   m == d.move
    IN  /\ d \in Detachment
        /\ p \in Living(E) /\ E[p].kind = "actor"
        /\ b \in Living(E) /\ E[b].kind = "bag" /\ E[b].parent = p
        /\ Distinct(m)
        /\ \A k \in DOMAIN m : /\ m[k] \in Living(E) /\ E[m[k]].kind \in Items
                               /\ E[m[k]].parent = p /\ m[k] # d.drop
        /\ d.drop # None =>
              d.drop \in Living(E) /\ E[d.drop].kind \in Items /\ E[d.drop].parent = p
        /\ \A x \in Living(E) : E[x].parent = p =>
              x = b \/ x = d.drop \/ \E k \in DOMAIN m : m[k] = x

Detached == detach # Done =>
    /\ emptying = Done /\ destroying = <<>> /\ (InClear \/ job = Idle)
    /\ Moving(ent, detach) /\ (~ InClear => detach.from \in dead)

Destroyed ==
    /\ destroying \in Seq(live)
    /\ destroying # <<>> =>
          /\ job = Idle /\ emptying = Done /\ detach = Done
          /\ Kind(destroying[1]) = "bag" \/ Childless(ent, destroying[1])
          /\ Kind(destroying[1]) = "bag" => Parent(destroying[1]) = None
          /\ Owner(destroying[1]) = Server
          /\ \/ Len(destroying) = 1
             \/ /\ Len(destroying) = 2
                /\ Kind(destroying[1]) = "bag" /\ Kind(destroying[2]) \in Items

Cleared ==
    /\ clearing \in Seq(live) /\ Distinct(clearing)
    /\ \A m \in DOMAIN clearing : Parent(clearing[m]) = None
    /\ ~ InClear => clearing = <<>>
    /\ InClear => QuietClear /\ corpses = {} /\ emptying = Done /\ destroying = <<>>
    /\ job.at = "entering" => clearing # <<>>

Core == /\ Tree(ent) /\ Order(ent) /\ Types /\ Jobs /\ Avatars /\ Bags
        /\ Emptying /\ Detached /\ Destroyed /\ Cleared

(* Either no packet arrives while SLS_Clear runs, or it has not run yet.    *)
Calm == QuietClear \/ rounds = 0 \/ (rounds = 1 /\ phase = "pending")

(* The rounds: one that ends was in progress and was not the last.          *)
Course == /\ job \in [at : {"idle", "ending", "starting", "entering", "clearing"} \cup Respawns,
                      todo : SUBSET Clients]
          /\ rounds \in 0 .. MaxRounds
          /\ phase \in {"inprogress", "pending"}
          /\ phase = "pending" => rounds # 0
          /\ job.at = "ending" => rounds < MaxRounds /\ phase = "inprogress"

Inv == Course /\ (Calm => Core)


-----------------------------------------------------------------------------
(* Sequences without repetition, and what is left without one element.      *)


LEMMA PlaceOf ==
    ASSUME NEW S, NEW s \in Seq(S), Distinct(s), NEW e, NEW k \in DOMAIN s, s[k] = e
    PROVE  LET I == {i \in 1 .. Len(s) : s[i] = e}
           IN  I # {} /\ Min(I) = k
<1> DEFINE I == {i \in 1 .. Len(s) : s[i] = e}
<1>1. DOMAIN s = 1 .. Len(s) /\ k \in Nat
  OBVIOUS
<1>2. I = {k}
  BY <1>1 DEF Distinct
<1>3. Min({k}) = k
  BY <1>1 DEF Min
<1> HIDE DEF I
<1>4. I # {} /\ Min(I) = k
  BY <1>2, <1>3
<1> QED BY <1>4 DEF I

LEMMA WithoutPlace ==
    ASSUME NEW S, NEW s \in Seq(S), NEW k \in DOMAIN s
    PROVE  LET t == RemoveAt(s, k)
           IN  /\ t \in Seq(S) /\ Len(t) = Len(s) - 1 /\ DOMAIN t = 1 .. Len(s) - 1
               /\ \A j \in 1 .. Len(s) - 1 : t[j] = IF j < k THEN s[j] ELSE s[j + 1]
<1>1. k \in 1 .. Len(s) /\ Len(s) \in Nat /\ k - 1 \in 0 .. Len(s) /\ k + 1 \in 1 .. Len(s) + 1
  OBVIOUS
<1> DEFINE a == SubSeq(s, 1, k - 1)
           b == SubSeq(s, k + 1, Len(s))
<1>2. a \in Seq(S) /\ Len(a) = k - 1 /\ \A j \in 1 .. k - 1 : a[j] = s[j]
  BY <1>1, SubSeqProperties
<1>3. b \in Seq(S) /\ Len(b) = Len(s) - k /\ \A j \in 1 .. Len(s) - k : b[j] = s[k + j]
  BY <1>1, SubSeqProperties
<1>4. RemoveAt(s, k) = a \o b
  BY DEF RemoveAt
<1> HIDE DEF a, b
<1>5. /\ a \o b \in Seq(S) /\ Len(a \o b) = Len(s) - 1
      /\ \A j \in 1 .. Len(s) - 1 : (a \o b)[j] = IF j <= k - 1 THEN a[j] ELSE b[j - (k - 1)]
  <2>1. /\ a \o b \in Seq(S) /\ Len(a \o b) = Len(a) + Len(b)
        /\ \A j \in 1 .. Len(a) + Len(b) :
              (a \o b)[j] = IF j <= Len(a) THEN a[j] ELSE b[j - Len(a)]
    BY <1>2, <1>3, ConcatProperties
  <2>2. Len(a) + Len(b) = Len(s) - 1
    BY <1>1, <1>2, <1>3
  <2> QED BY <1>2, <2>1, <2>2
<1>6. ASSUME NEW j \in 1 .. Len(s) - 1
      PROVE  (a \o b)[j] = IF j < k THEN s[j] ELSE s[j + 1]
  <2>1. CASE j < k
    BY <1>1, <1>2, <1>5, <2>1
  <2>2. CASE ~ j < k
    <3>1. j - (k - 1) \in 1 .. Len(s) - k /\ k + (j - (k - 1)) = j + 1 /\ ~ j <= k - 1
      BY <1>1, <2>2
    <3> QED BY <1>3, <1>5, <2>2, <3>1
  <2> QED BY <2>1, <2>2
<1>7. DOMAIN (a \o b) = 1 .. Len(s) - 1
  BY <1>5
<1> QED BY <1>4, <1>5, <1>6, <1>7

LEMMA FirstIs ==
    ASSUME NEW S, NEW s \in Seq(S), Distinct(s), NEW e, NEW k \in DOMAIN s, s[k] = e
    PROVE  RemoveFirst(s, e) = RemoveAt(s, k)
<1>1. \E i \in 1 .. Len(s) : s[i] = e
  OBVIOUS
<1> DEFINE I == {i \in 1 .. Len(s) : s[i] = e}
<1>2. I # {} /\ Min(I) = k
  BY PlaceOf
<1>3. RemoveFirst(s, e) = RemoveAt(s, IF I # {} THEN Min(I) ELSE 0)
  BY <1>1 DEF RemoveFirst, SelectInSeq
<1> HIDE DEF I
<1> QED BY <1>2, <1>3

(* A child that leaves: the others stay, in their order.                    *)
LEMMA WithoutFirst ==
    ASSUME NEW S, NEW s \in Seq(S), Distinct(s), NEW e, NEW k \in DOMAIN s, s[k] = e
    PROVE  LET t == RemoveFirst(s, e)
           IN  /\ t \in Seq(S) /\ Distinct(t)
               /\ \A j \in DOMAIN t : t[j] # e
               /\ \A j \in DOMAIN t : \E i \in DOMAIN s : s[i] = t[j] /\ (i = 1 => j = 1)
               /\ \A i \in DOMAIN s : s[i] # e => \E j \in DOMAIN t : t[j] = s[i] /\ j <= i
               /\ s[1] # e => t # <<>> /\ t[1] = s[1]
<1> DEFINE t == RemoveAt(s, k)
           n == Len(s)
<1>1. RemoveFirst(s, e) = t
  BY FirstIs
<1>b. DOMAIN s = 1 .. n /\ n \in Nat /\ k \in 1 .. n
  OBVIOUS
<1>c. /\ t \in Seq(S) /\ Len(t) = n - 1 /\ DOMAIN t = 1 .. n - 1
      /\ \A j \in 1 .. n - 1 : t[j] = IF j < k THEN s[j] ELSE s[j + 1]
  BY WithoutPlace
<1>2. /\ t \in Seq(S) /\ DOMAIN t = 1 .. n - 1 /\ DOMAIN s = 1 .. n /\ n \in Nat /\ k \in 1 .. n /\ Len(t) = n - 1
      /\ \A j \in 1 .. n - 1 : t[j] = IF j < k THEN s[j] ELSE s[j + 1]
  BY <1>b, <1>c
<1>a. t = <<>> <=> n = 1
  BY <1>2
<1> HIDE DEF t, n
<1>3. ASSUME NEW j \in DOMAIN t
      PROVE  \E i \in 1 .. n : /\ i = (IF j < k THEN j ELSE j + 1)
                               /\ t[j] = s[i] /\ i # k /\ j \in Nat /\ i \in Nat
  <2>1. CASE j < k
    BY <1>2, <2>1
  <2>2. CASE ~ j < k
    BY <1>2, <2>2
  <2> QED BY <2>1, <2>2
<1>4. ASSUME NEW i \in DOMAIN s, i # k
      PROVE  \E j \in DOMAIN t : t[j] = s[i] /\ j <= i
  <2>1. CASE i < k
    BY <1>2, <2>1
  <2>2. CASE i > k
    <3>1. i - 1 \in 1 .. n - 1 /\ ~ i - 1 < k /\ (i - 1) + 1 = i
      BY <1>2, <2>2
    <3> QED BY <1>2, <3>1
  <2> QED BY <1>2, <1>4, <2>1, <2>2
<1>5. \A j \in DOMAIN t : t[j] # e
  BY <1>2, <1>3 DEF Distinct
<1>6. Distinct(t)
  <2> SUFFICES ASSUME NEW j \in DOMAIN t, NEW l \in DOMAIN t, t[j] = t[l] PROVE j = l
    BY DEF Distinct
  <2>1. PICK a \in 1 .. n : /\ a = (IF j < k THEN j ELSE j + 1) /\ t[j] = s[a] /\ j \in Nat
    BY <1>3
  <2>2. PICK b \in 1 .. n : /\ b = (IF l < k THEN l ELSE l + 1) /\ t[l] = s[b] /\ l \in Nat
    BY <1>3
  <2>3. a = b
    BY <1>2, <2>1, <2>2 DEF Distinct
  <2> QED BY <1>2, <2>1, <2>2, <2>3
<1>7. \A j \in DOMAIN t : \E i \in DOMAIN s : s[i] = t[j] /\ (i = 1 => j = 1)
  <2> TAKE j \in DOMAIN t
  <2>1. PICK a \in 1 .. n : /\ a = (IF j < k THEN j ELSE j + 1) /\ t[j] = s[a] /\ j \in Nat
    BY <1>3
  <2>2. a = 1 => j = 1
    BY <1>2, <2>1
  <2> QED BY <1>2, <2>1, <2>2
<1>8. s[1] # e => t # <<>> /\ t[1] = s[1]
  <2> SUFFICES ASSUME s[1] # e PROVE t # <<>> /\ t[1] = s[1]
    OBVIOUS
  <2>1. k # 1
    OBVIOUS
  <2>2. 1 \in 1 .. n - 1 /\ 1 < k /\ n # 1
    BY <1>2, <2>1
  <2> QED BY <1>2, <1>a, <2>2
<1>9. \A i \in DOMAIN s : s[i] # e => \E j \in DOMAIN t : t[j] = s[i] /\ j <= i
  BY <1>4
<1> QED BY <1>1, <1>2, <1>5, <1>6, <1>7, <1>8, <1>9

LEMMA Appended ==
    ASSUME NEW S, NEW s \in Seq(S), Distinct(s), NEW e \in S, \A m \in DOMAIN s : s[m] # e
    PROVE  LET t == Append(s, e)
           IN  /\ t \in Seq(S) /\ Distinct(t) /\ t # <<>>
               /\ \A m \in DOMAIN t : t[m] = e \/ \E n \in DOMAIN s : s[n] = t[m]
<1> DEFINE t == Append(s, e)
<1>1. /\ t \in Seq(S) /\ DOMAIN t = 1 .. Len(s) + 1 /\ t[Len(s) + 1] = e
      /\ DOMAIN s = 1 .. Len(s) /\ Len(s) \in Nat /\ Len(t) = Len(s) + 1
      /\ \A j \in 1 .. Len(s) : t[j] = s[j]
  OBVIOUS
<1> HIDE DEF t
<1>2. \A m \in DOMAIN t : m \in 1 .. Len(s) \/ m = Len(s) + 1
  BY <1>1
<1>3. Distinct(t)
  BY <1>1, <1>2 DEF Distinct
<1>4. t # <<>>
  BY <1>1
<1>5. \A m \in DOMAIN t : t[m] = e \/ \E n \in DOMAIN s : s[n] = t[m]
  BY <1>1, <1>2
<1> QED BY <1>1, <1>3, <1>4, <1>5 DEF t

LEMMA WithoutLast ==
    ASSUME NEW S, NEW s \in Seq(S), Distinct(s), s # <<>>
    PROVE  /\ Last(s) \in S /\ \E n \in DOMAIN s : s[n] = Last(s)
           /\ Front(s) \in Seq(S) /\ Front(s) \in Seq(S \ {Last(s)}) /\ Distinct(Front(s))
           /\ \A m \in DOMAIN Front(s) : m \in DOMAIN s /\ Front(s)[m] = s[m]
           /\ Len(Front(s)) = Len(s) - 1
<1> DEFINE t == Front(s)
           n == Len(s)
<1>1. n \in Nat /\ n >= 1 /\ DOMAIN s = 1 .. n /\ n \in DOMAIN s /\ s[n] \in S
  OBVIOUS
<1>2. Last(s) = s[n]
  BY DEF Last
<1>3. t = SubSeq(s, 1, n - 1)
  BY DEF Front
<1>4. t \in Seq(S) /\ Len(t) = n - 1 /\ \A j \in 1 .. n - 1 : t[j] = s[j]
  BY <1>1, <1>3, SubSeqProperties
<1> HIDE DEF t, n
<1>5. DOMAIN t = 1 .. n - 1
  BY <1>1, <1>4
<1>6. \A m \in 1 .. n - 1 : m \in 1 .. n /\ m # n /\ t[m] \in S /\ t[m] = s[m]
  BY <1>1, <1>4, <1>5
<1>7. \A m \in 1 .. n - 1 : t[m] \in S \ {s[n]}
  BY <1>1, <1>6 DEF Distinct
<1>8. t \in Seq(S \ {s[n]})
  BY <1>1, <1>4, <1>5, <1>7
<1>9. Distinct(t)
  BY <1>1, <1>5, <1>6 DEF Distinct
<1> QED BY <1>1, <1>2, <1>4, <1>5, <1>6, <1>8, <1>9 DEF t, n

LEMMA WithoutHead ==
    ASSUME NEW S, NEW s \in Seq(S), Distinct(s), s # <<>>
    PROVE  /\ 1 \in DOMAIN s /\ Head(s) = s[1]
           /\ Tail(s) \in Seq(S) /\ Distinct(Tail(s))
           /\ \A k \in DOMAIN Tail(s) : /\ Tail(s)[k] # Head(s)
                                        /\ \E l \in DOMAIN s : s[l] = Tail(s)[k]
           /\ \A l \in DOMAIN s : s[l] # Head(s) => \E k \in DOMAIN Tail(s) : Tail(s)[k] = s[l]
<1> DEFINE t == Tail(s)
           n == Len(s)
<1>1. n \in Nat /\ n >= 1 /\ DOMAIN s = 1 .. n /\ 1 \in DOMAIN s /\ Head(s) = s[1]
  OBVIOUS
<1>2. t \in Seq(S) /\ Len(t) = n - 1 /\ \A j \in 1 .. n - 1 : t[j] = s[j + 1]
  BY <1>1
<1> HIDE DEF t, n
<1>3. DOMAIN t = 1 .. n - 1
  BY <1>1, <1>2
<1>4. \A k \in 1 .. n - 1 : k + 1 \in 1 .. n /\ k + 1 # 1
  BY <1>1
<1>5. \A k \in DOMAIN t : t[k] # s[1] /\ \E l \in DOMAIN s : s[l] = t[k]
  BY <1>1, <1>2, <1>3, <1>4 DEF Distinct
<1>6. ASSUME NEW l \in DOMAIN s, s[l] # s[1] PROVE \E k \in DOMAIN t : t[k] = s[l]
  <2>1. l - 1 \in 1 .. n - 1 /\ (l - 1) + 1 = l
    BY <1>1, <1>6
  <2> QED BY <1>2, <1>3, <2>1
<1>7. Distinct(t)
  <2> SUFFICES ASSUME NEW j \in DOMAIN t, NEW k \in DOMAIN t, t[j] = t[k] PROVE j = k
    BY DEF Distinct
  <2>1. s[j + 1] = s[k + 1] /\ j + 1 \in DOMAIN s /\ k + 1 \in DOMAIN s /\ j \in Int /\ k \in Int
    BY <1>1, <1>2, <1>3, <1>4
  <2>2. j + 1 = k + 1
    BY <2>1 DEF Distinct
  <2> QED BY <2>1, <2>2
<1> QED BY <1>1, <1>2, <1>5, <1>6, <1>7 DEF t

-----------------------------------------------------------------------------
(* What the operations of the tree do to it. *)

LEMMA KindsAre ==
    /\ Items \subseteq Kinds /\ {"none", "actor", "spectator", "bag"} \subseteq Kinds
    /\ \A k \in Items : k = "gun" \/ k = "ammo"
    /\ \A k \in Kinds : k \in {"none", "actor", "spectator", "bag"} \/ k \in Items
    /\ "none" \notin Items /\ "actor" \notin Items /\ "spectator" \notin Items
    /\ "bag" \notin Items
BY ItemsAssumption DEF Kinds

LEMMA EntityFields ==
    ASSUME NEW E \in [Ids -> Entity], NEW i \in Ids
    PROVE  /\ E[i].kind \in Kinds /\ E[i].parent \in Ids \cup {None}
           /\ E[i].children \in Seq(Ids) /\ E[i].owner \in Clients \cup {Server, Nobody}
           /\ E[i] = [kind |-> E[i].kind, parent |-> E[i].parent,
                      children |-> E[i].children, owner |-> E[i].owner]
BY DEF Entity

(* F is E but for the parent of e, which is h. *)
Hung(E, F, e, h) ==
    \A i \in Ids : /\ F[i].kind = E[i].kind /\ F[i].owner = E[i].owner
                   /\ F[i].parent = IF i = e THEN h ELSE E[i].parent

(* e gets the parent h, and p the list t of children. *)
Relist(E, e, h, p, t) == [E EXCEPT ![e].parent = h, ![p].children = t]
Relisting(E, F, e, h, p, t) ==
    /\ F \in [Ids -> Entity] /\ Hung(E, F, e, h) /\ Living(F) = Living(E)
    /\ \A i \in Ids : F[i].children = IF i = p THEN t ELSE E[i].children

LEMMA Relisted ==
    ASSUME NEW E \in [Ids -> Entity], NEW e \in Ids, NEW p \in Ids, e # p,
           NEW h \in Ids \cup {None}, NEW t \in Seq(Ids)
    PROVE  Relisting(E, Relist(E, e, h, p, t), e, h, p, t)
<1> DEFINE F == Relist(E, e, h, p, t)
<1>1. F = [i \in Ids |-> IF i = e THEN [E[i] EXCEPT !.parent = h]
                         ELSE IF i = p THEN [E[i] EXCEPT !.children = t] ELSE E[i]]
  BY DEF Relist
<1> HIDE DEF F
<1>2. \A i \in Ids : E[i] \in Entity
  OBVIOUS
<1>3. ASSUME NEW i \in Ids
      PROVE  /\ F[i] \in Entity
             /\ F[i].kind = E[i].kind /\ F[i].owner = E[i].owner
             /\ F[i].parent = IF i = e THEN h ELSE E[i].parent
             /\ F[i].children = IF i = p THEN t ELSE E[i].children
  <2>1. CASE i = e
    BY <1>1, <1>2, <2>1 DEF Entity
  <2>2. CASE i = p
    BY <1>1, <1>2, <2>2 DEF Entity
  <2>3. CASE i # e /\ i # p
    BY <1>1, <1>2, <2>3 DEF Entity
  <2> QED BY <2>1, <2>2, <2>3
<1>4. F \in [Ids -> Entity]
  BY <1>1, <1>3
<1> QED BY <1>3, <1>4 DEF Relisting, Hung, Living, F

LEMMA CutKeeps ==
    ASSUME NEW E, Tree(E), NEW p \in Living(E), NEW e \in Living(E), E[e].parent = p,
           e # p
    PROVE  /\ Tree(Cut(E, p, e)) /\ Hung(E, Cut(E, p, e), e, None)
           /\ Living(Cut(E, p, e)) = Living(E)
<1> DEFINE F == Cut(E, p, e)
           s == E[p].children
           t == RemoveFirst(s, e)
<1>1. /\ E \in [Ids -> Entity] /\ p \in Ids /\ e \in Ids /\ p # None /\ s \in Seq(Ids)
      /\ \A i \in Living(E) : Up(E, i) /\ Down(E, i)
  BY NoneAssumption, EntityFields DEF Tree, Living
<1>2. PICK k \in DOMAIN s : s[k] = e
  BY <1>1 DEF Up
<1>3. Distinct(s)
  BY <1>1 DEF Down
<1> HIDE DEF s
<1>4. /\ t \in Seq(Ids) /\ Distinct(t)
      /\ \A j \in DOMAIN t : t[j] # e
      /\ \A j \in DOMAIN t : \E i \in DOMAIN s : s[i] = t[j] /\ (i = 1 => j = 1)
      /\ \A i \in DOMAIN s : s[i] # e => \E j \in DOMAIN t : t[j] = s[i] /\ j <= i
  BY <1>1, <1>2, <1>3, WithoutFirst
<1> HIDE DEF t
<1>5. F = Relist(E, e, None, p, t)
  <2>1. [E EXCEPT ![e].parent = None][p] = E[p]
    BY <1>1
  <2> QED BY <1>1, <2>1 DEF Cut, Relist, t, s
<1> HIDE DEF F
<1>6. /\ F \in [Ids -> Entity] /\ Hung(E, F, e, None) /\ Living(F) = Living(E)
      /\ \A i \in Ids : F[i].children = IF i = p THEN t ELSE E[i].children
  <2>1. Relisting(E, F, e, None, p, t)
    BY <1>1, <1>4, <1>5, Relisted
  <2> QED BY <2>1 DEF Relisting
<1>7. \A i \in Ids : F[i].kind = E[i].kind /\ F[i].parent = IF i = e THEN None ELSE E[i].parent
  BY <1>6 DEF Hung
<1>8. Living(E) \subseteq Ids
  BY DEF Living
<1>9. ASSUME NEW i \in Living(E) PROVE Up(F, i)
  <2> SUFFICES ASSUME i # e, E[i].parent # None
               PROVE  /\ E[i].parent \in Living(F)
                      /\ \E n \in DOMAIN F[E[i].parent].children : F[E[i].parent].children[n] = i
    BY <1>7, <1>8 DEF Up
  <2>1. E[i].parent \in Living(E)
    BY <1>1 DEF Up
  <2>2. PICK n \in DOMAIN E[E[i].parent].children : E[E[i].parent].children[n] = i
    BY <1>1 DEF Up
  <2>3. CASE E[i].parent = p
    <3>1. \E j \in DOMAIN t : t[j] = i
      BY <1>4, <2>2, <2>3 DEF s
    <3> QED BY <1>6, <1>8, <2>1, <2>3, <3>1
  <2>4. CASE E[i].parent # p
    BY <1>6, <1>8, <2>1, <2>2, <2>4
  <2> QED BY <2>3, <2>4
<1>10. ASSUME NEW i \in Living(E) PROVE Down(F, i)
  <2>1. CASE i # p
    <3>1. F[i].children = E[i].children
      BY <1>6, <1>8, <2>1
    <3>2. Down(E, i)
      BY <1>1
    <3>3. Distinct(E[i].children)
      BY <3>2 DEF Down
    <3>4. \A n \in DOMAIN E[i].children :
             /\ E[i].children[n] \in Living(E) /\ E[E[i].children[n]].parent = i
             /\ E[E[i].children[n]].kind = "bag" => n = 1
      BY <3>2 DEF Down
    <3>5. \A n \in DOMAIN F[i].children :
             /\ F[i].children[n] \in Living(F) /\ F[F[i].children[n]].parent = i
             /\ F[F[i].children[n]].kind = "bag" => n = 1
      BY <1>6, <1>7, <1>8, <2>1, <3>1, <3>4
    <3> QED BY <3>1, <3>3, <3>5 DEF Down
  <2>2. CASE i = p
    <3>1. F[i].children = t
      BY <1>6, <1>8, <2>2
    <3>2. \A m \in DOMAIN s : /\ s[m] \in Living(E) /\ E[s[m]].parent = p
                              /\ E[s[m]].kind = "bag" => m = 1
      BY <1>1 DEF Down, s
    <3>3. \A n \in DOMAIN t : /\ t[n] \in Living(F) /\ F[t[n]].parent = p
                              /\ F[t[n]].kind = "bag" => n = 1
      <4> TAKE n \in DOMAIN t
      <4>1. PICK m \in DOMAIN s : s[m] = t[n] /\ (m = 1 => n = 1)
        BY <1>4
      <4>2. t[n] \in Ids /\ t[n] # e
        BY <1>4, <1>8, <3>2, <4>1
      <4> QED BY <1>6, <1>7, <3>2, <4>1, <4>2
    <3> QED BY <1>4, <2>2, <3>1, <3>3 DEF Down
  <2> QED BY <2>1, <2>2
<1> QED BY <1>6, <1>9, <1>10 DEF Tree, F

LEMMA AttachKeeps ==
    ASSUME NEW E, Tree(E), NEW p \in Living(E), NEW e \in Living(E), E[e].parent = None,
           e # p, E[e].kind = "bag" => Childless(E, p)
    PROVE  /\ Tree(Attach(E, p, e)) /\ Hung(E, Attach(E, p, e), e, p)
           /\ Living(Attach(E, p, e)) = Living(E)
<1> DEFINE F == Attach(E, p, e)
           s == E[p].children
           t == Append(s, e)
<1>1. /\ E \in [Ids -> Entity] /\ p \in Ids /\ e \in Ids /\ p # None /\ s \in Seq(Ids)
      /\ \A i \in Living(E) : Up(E, i) /\ Down(E, i)
  BY NoneAssumption, EntityFields DEF Tree, Living
<1>2. \A m \in DOMAIN s : /\ s[m] \in Living(E) /\ E[s[m]].parent = p
                          /\ E[s[m]].kind = "bag" => m = 1
  BY <1>1 DEF Down
<1>3. Distinct(s)
  BY <1>1 DEF Down
<1>4. E[e].kind = "bag" => s = <<>>
  <2> SUFFICES ASSUME E[e].kind = "bag", s # <<>> PROVE FALSE
    OBVIOUS
  <2>1. 1 \in DOMAIN s
    BY <1>1
  <2> QED BY <1>2, <2>1 DEF Childless
<1> HIDE DEF s
<1>5. /\ t \in Seq(Ids) /\ DOMAIN t = 1 .. Len(s) + 1 /\ t[Len(s) + 1] = e
      /\ DOMAIN s = 1 .. Len(s) /\ Len(s) \in Nat
      /\ \A j \in DOMAIN s : t[j] = s[j] /\ j \in DOMAIN t
  BY <1>1
<1>6. F = Relist(E, e, p, p, t)
  <2>1. [E EXCEPT ![e].parent = p][p] = E[p]
    BY <1>1
  <2> QED BY <1>1, <2>1 DEF Attach, Relist, t, s
<1> HIDE DEF F, t
<1>7. /\ F \in [Ids -> Entity] /\ Hung(E, F, e, p) /\ Living(F) = Living(E)
      /\ \A i \in Ids : F[i].children = IF i = p THEN t ELSE E[i].children
  BY <1>1, <1>5, <1>6, Relisted DEF Relisting
<1>8. \A i \in Ids : F[i].kind = E[i].kind /\ F[i].parent = IF i = e THEN p ELSE E[i].parent
  BY <1>7 DEF Hung
<1>9. Living(E) \subseteq Ids
  BY DEF Living
<1>10. ASSUME NEW i \in Living(E) PROVE Up(F, i)
  <2>1. CASE i = e
    <3>1. F[e].parent = p /\ F[p].children = t
      BY <1>1, <1>7, <1>8
    <3>2. Len(s) + 1 \in DOMAIN t
      BY <1>5
    <3> QED BY <1>5, <1>7, <2>1, <3>1, <3>2 DEF Up
  <2>2. CASE i # e
    <3> SUFFICES ASSUME E[i].parent # None
                 PROVE  /\ E[i].parent \in Living(F)
                        /\ \E n \in DOMAIN F[E[i].parent].children : F[E[i].parent].children[n] = i
      BY <1>8, <1>9, <2>2 DEF Up
    <3>1. E[i].parent \in Living(E)
      BY <1>1 DEF Up
    <3>2. PICK n \in DOMAIN E[E[i].parent].children : E[E[i].parent].children[n] = i
      BY <1>1 DEF Up
    <3>3. CASE E[i].parent = p
      BY <1>5, <1>7, <1>9, <3>1, <3>2, <3>3 DEF s
    <3>4. CASE E[i].parent # p
      BY <1>7, <1>9, <3>1, <3>2, <3>4
    <3> QED BY <3>3, <3>4
  <2> QED BY <2>1, <2>2
<1>11. ASSUME NEW i \in Living(E) PROVE Down(F, i)
  <2>1. CASE i # p
    <3>1. F[i].children = E[i].children
      BY <1>7, <1>9, <2>1
    <3>2. Down(E, i)
      BY <1>1
    <3>3. Distinct(E[i].children)
      BY <3>2 DEF Down
    <3>4. \A n \in DOMAIN E[i].children :
             /\ E[i].children[n] \in Living(E) /\ E[E[i].children[n]].parent = i
             /\ E[E[i].children[n]].kind = "bag" => n = 1
      BY <3>2 DEF Down
    <3>5. \A n \in DOMAIN F[i].children :
             /\ F[i].children[n] \in Living(F) /\ F[F[i].children[n]].parent = i
             /\ F[F[i].children[n]].kind = "bag" => n = 1
      BY <1>1, <1>7, <1>8, <1>9, <2>1, <3>1, <3>4, NoneAssumption
    <3> QED BY <3>1, <3>3, <3>5 DEF Down
  <2>2. CASE i = p
    <3>1. F[i].children = t
      BY <1>7, <1>9, <2>2
    <3>2. \A n \in DOMAIN t : /\ t[n] \in Living(F) /\ F[t[n]].parent = p
                              /\ F[t[n]].kind = "bag" => n = 1
      <4> TAKE n \in DOMAIN t
      <4>1. CASE n = Len(s) + 1
        <5>1. E[e].kind = "bag" => n = 1
          BY <1>4, <4>1
        <5> QED BY <1>1, <1>5, <1>7, <1>8, <4>1, <5>1
      <4>2. CASE n \in DOMAIN s
        BY <1>2, <1>5, <1>7, <1>8, <1>9, <4>2
      <4> QED BY <1>5, <4>1, <4>2
    <3>3. Distinct(t)
      <4>1. \A n \in DOMAIN s : s[n] # e
        BY <1>1, <1>2
      <4> QED BY <1>3, <1>5, <4>1 DEF Distinct
    <3> QED BY <2>2, <3>1, <3>2, <3>3 DEF Down
  <2> QED BY <2>1, <2>2
<1> QED BY <1>7, <1>10, <1>11 DEF Tree, F

(* F is E but for the entity i, a root, which has the kind k and the owner o. *)
Recast(E, F, i, k, o) ==
    \A x \in Ids : /\ F[x].kind = IF x = i THEN k ELSE E[x].kind
                   /\ F[x].owner = IF x = i THEN o ELSE E[x].owner
                   /\ F[x].parent = IF x = i THEN None ELSE E[x].parent

(* An entity without children in a place where nobody lived or that nobody  *)
(* refers to.                                                               *)
LEMMA Replaced ==
    ASSUME NEW E, Tree(E), NEW i \in Ids, NEW k \in Kinds,
           NEW o \in Clients \cup {Server, Nobody},
           i \in Living(E) => E[i].parent = None /\ E[i].children = <<>>
    PROVE  LET F == [E EXCEPT ![i] = New(k, None, o)]
           IN  /\ Tree(F) /\ Recast(E, F, i, k, o)
               /\ Living(F) = IF k = "none" THEN Living(E) \ {i} ELSE Living(E) \cup {i}
<1> DEFINE F == [E EXCEPT ![i] = New(k, None, o)]
<1>1. /\ E \in [Ids -> Entity]
      /\ \A x \in Living(E) : Up(E, x) /\ Down(E, x)
  BY DEF Tree
<1>2. /\ New(k, None, o) \in Entity
      /\ New(k, None, o).kind = k /\ New(k, None, o).parent = None
      /\ New(k, None, o).owner = o /\ New(k, None, o).children = <<>>
  BY DEF New, Entity
<1>3. F \in [Ids -> Entity] /\ F[i] = New(k, None, o) /\ \A x \in Ids : x # i => F[x] = E[x]
  BY <1>1, <1>2
<1> HIDE DEF F
<1>4. Recast(E, F, i, k, o)
  BY <1>2, <1>3 DEF Recast
<1>5. Living(F) = IF k = "none" THEN Living(E) \ {i} ELSE Living(E) \cup {i}
  BY <1>2, <1>3 DEF Living
<1>6. Living(E) \subseteq Ids
  BY DEF Living
<1>7. ASSUME NEW x \in Living(E), x # i PROVE E[x].parent # i
  <2> SUFFICES ASSUME E[x].parent = i PROVE FALSE
    OBVIOUS
  <2>1. i \in Living(E) /\ \E n \in DOMAIN E[i].children : E[i].children[n] = x
    BY <1>1, NoneAssumption DEF Up
  <2> QED BY <2>1
<1>8. ASSUME NEW x \in Living(F) PROVE Up(F, x) /\ Down(F, x)
  <2>1. CASE x = i
    BY <1>2, <1>3, <2>1 DEF Up, Down, Distinct
  <2>2. CASE x # i
    <3>1. x \in Living(E) /\ x \in Ids /\ F[x] = E[x] /\ E[x].parent # i
      BY <1>3, <1>5, <1>6, <1>7, <2>2
    <3>2. Up(E, x) /\ Down(E, x)
      BY <1>1, <3>1
    <3>3. Up(F, x)
      <4> SUFFICES ASSUME E[x].parent # None
                   PROVE  /\ E[x].parent \in Living(F)
                          /\ \E n \in DOMAIN F[E[x].parent].children :
                                F[E[x].parent].children[n] = x
        BY <3>1 DEF Up
      <4>1. E[x].parent \in Living(E) /\ F[E[x].parent] = E[E[x].parent]
        BY <1>3, <1>6, <3>1, <3>2 DEF Up
      <4> QED BY <1>5, <3>1, <3>2, <4>1 DEF Up
    <3>4. \A n \in DOMAIN E[x].children :
             /\ E[x].children[n] \in Living(E) /\ E[E[x].children[n]].parent = x
             /\ E[E[x].children[n]].kind = "bag" => n = 1
      BY <3>2 DEF Down
    <3>5. \A n \in DOMAIN E[x].children : E[x].children[n] # i
      BY <3>1, <3>4, NoneAssumption
    <3>6. \A n \in DOMAIN F[x].children :
             /\ F[x].children[n] \in Living(F) /\ F[F[x].children[n]].parent = x
             /\ F[F[x].children[n]].kind = "bag" => n = 1
      BY <1>3, <1>5, <1>6, <3>1, <3>4, <3>5
    <3>7. Distinct(F[x].children)
      BY <3>1, <3>2 DEF Down
    <3> QED BY <3>3, <3>6, <3>7 DEF Down
  <2> QED BY <2>1, <2>2
<1> QED BY <1>3, <1>4, <1>5, <1>8 DEF Tree, F

LEMMA NewKeeps ==
    ASSUME NEW E, Tree(E), NEW i \in Ids \ Living(E), NEW k \in Kinds \ {"none"},
           NEW o \in Clients \cup {Server}
    PROVE  LET F == [E EXCEPT ![i] = New(k, None, o)]
           IN  Tree(F) /\ Recast(E, F, i, k, o) /\ Living(F) = Living(E) \cup {i}
BY Replaced

LEMMA GoneKeeps ==
    ASSUME NEW E, Tree(E), NEW i \in Living(E), E[i].parent = None, E[i].children = <<>>
    PROVE  LET F == [E EXCEPT ![i] = Gone]
           IN  Tree(F) /\ Recast(E, F, i, "none", Nobody) /\ Living(F) = Living(E) \ {i}
<1>1. i \in Ids /\ "none" \in Kinds /\ Nobody \in Clients \cup {Server, Nobody}
  BY KindsAre DEF Living
<1>2. Gone = New("none", None, Nobody)
  BY DEF Gone, New
<1> QED BY <1>1, <1>2, Replaced

(* A body is given to the server. *)
LEMMA BuryKeeps ==
    ASSUME NEW E, Tree(E), NEW i \in Living(E)
    PROVE  LET F == Bury(E, i)
           IN  /\ Tree(F) /\ Living(F) = Living(E)
               /\ \A x \in Ids : /\ F[x].kind = E[x].kind /\ F[x].parent = E[x].parent
                                 /\ F[x].owner = IF x = i THEN Server ELSE E[x].owner
<1> DEFINE F == Bury(E, i)
<1>1. /\ E \in [Ids -> Entity] /\ i \in Ids
      /\ \A x \in Living(E) : Up(E, x) /\ Down(E, x)
  BY DEF Tree, Living
<1>2. F = [E EXCEPT ![i].owner = Server]
  BY DEF Bury
<1>3. /\ F \in [Ids -> Entity]
      /\ \A x \in Ids : /\ F[x].kind = E[x].kind /\ F[x].parent = E[x].parent
                        /\ F[x].children = E[x].children
                        /\ F[x].owner = IF x = i THEN Server ELSE E[x].owner
  BY <1>1, <1>2 DEF Entity
<1> HIDE DEF F
<1>4. Living(F) = Living(E) /\ Living(E) \subseteq Ids
  BY <1>3 DEF Living
<1>5. ASSUME NEW x \in Living(E) PROVE Up(F, x) /\ Down(F, x)
  <2>1. Up(E, x) /\ Down(E, x)
    BY <1>1
  <2>2. Up(F, x)
    BY <1>3, <1>4, <2>1 DEF Up
  <2>3. F[x].children = E[x].children
    BY <1>3, <1>4
  <2>4. \A n \in DOMAIN E[x].children :
           /\ E[x].children[n] \in Living(E) /\ E[E[x].children[n]].parent = x
           /\ E[E[x].children[n]].kind = "bag" => n = 1
    BY <2>1 DEF Down
  <2>5. \A n \in DOMAIN F[x].children :
           /\ F[x].children[n] \in Living(F) /\ F[F[x].children[n]].parent = x
           /\ F[F[x].children[n]].kind = "bag" => n = 1
    BY <1>3, <1>4, <2>3, <2>4
  <2>6. Distinct(F[x].children)
    BY <2>1, <2>3 DEF Down
  <2> QED BY <2>2, <2>5, <2>6 DEF Down
<1> QED BY <1>3, <1>4, <1>5 DEF Tree, F

-----------------------------------------------------------------------------
(* What lists of children say, in terms of parents. *)

LEMMA ChildrenAre ==
    ASSUME NEW E, Tree(E), NEW p \in Living(E)
    PROVE  /\ E[p].children \in Seq(Living(E))
           /\ \A n \in DOMAIN E[p].children : E[E[p].children[n]].parent = p
           /\ \A x \in Living(E) : E[x].parent = p =>
                 \E n \in DOMAIN E[p].children : E[p].children[n] = x
           /\ E[p].children = <<>> <=> Childless(E, p)
<1>1. p \in Ids /\ p # None /\ Up(E, p) /\ Down(E, p) /\ E[p].children \in Seq(Ids)
  BY NoneAssumption, EntityFields DEF Tree, Living
<1>2. \A n \in DOMAIN E[p].children : E[p].children[n] \in Living(E) /\ E[E[p].children[n]].parent = p
  BY <1>1 DEF Down
<1>3. E[p].children \in Seq(Living(E))
  BY <1>1, <1>2
<1>4. \A x \in Living(E) : E[x].parent = p =>
                 \E n \in DOMAIN E[p].children : E[p].children[n] = x
  BY <1>1 DEF Tree, Up
<1>5. E[p].children # <<>> => 1 \in DOMAIN E[p].children
  BY <1>1
<1> QED BY <1>2, <1>3, <1>4, <1>5 DEF Childless

(* The bag of an actor is its first child, and it has one. *)
LEMMA BagIsFirst ==
    ASSUME NEW E, Tree(E), NEW b \in Living(E), E[b].kind = "bag",
           NEW p, E[b].parent = p, p # None
    PROVE  /\ 1 \in DOMAIN E[p].children /\ E[p].children[1] = b
           /\ \A k \in DOMAIN E[p].children : E[p].children[k] = b => k = 1
<1> DEFINE s == E[p].children
<1>1. p \in Living(E) /\ \E n \in DOMAIN s : s[n] = b
  BY DEF Tree, Up
<1>2. /\ Distinct(s) /\ s \in Seq(Ids)
      /\ \A n \in DOMAIN s : E[s[n]].kind = "bag" => n = 1
  BY <1>1, EntityFields DEF Tree, Down, Living
<1> HIDE DEF s
<1>3. 1 \in DOMAIN s /\ s[1] = b /\ \A k \in DOMAIN s : s[k] = b => k = 1
  BY <1>1, <1>2
<1> QED BY <1>3 DEF s

(* ... and so the position that Process_event_reject finds is the first.    *)
FirstPlace(s, e) ==
    LET I == {i \in 1 .. Len(s) : s[i] = e} IN IF I # {} THEN Min(I) ELSE 0

LEMMA BagIsFound ==
    ASSUME NEW E, Tree(E), NEW b \in Living(E), E[b].kind = "bag",
           NEW p, E[b].parent = p, p # None
    PROVE  FirstPlace(E[p].children, b) = 1
<1> DEFINE s == E[p].children
           I == {i \in 1 .. Len(s) : s[i] = b}
<1>1. Distinct(s) /\ s \in Seq(Ids) /\ 1 \in DOMAIN s /\ s[1] = b
  <2>1. p \in Living(E)
    BY DEF Tree, Up
  <2>2. Down(E, p) /\ s \in Seq(Ids)
    BY <2>1, EntityFields DEF Tree, Living
  <2>3. 1 \in DOMAIN s /\ s[1] = b
    BY BagIsFirst
  <2> QED BY <2>2, <2>3 DEF Down
<1> HIDE DEF s
<1>2. I # {} /\ Min(I) = 1
  BY <1>1, PlaceOf
<1> HIDE DEF I
<1>3. (IF I # {} THEN Min(I) ELSE 0) = 1
  BY <1>2
<1> QED BY <1>3 DEF s, I, FirstPlace

LEMMA GunsAre ==
    ASSUME Tree(ent), Order(ent), NEW p \in live
    PROVE  /\ Guns(p) \in Seq(Ids)
           /\ Guns(p) = <<>> <=> \A x \in Ids : ~ GunOf(ent, x, p)
           /\ \A n \in DOMAIN Guns(p) : GunOf(ent, Guns(p)[n], p)
           /\ \A x \in Ids : GunOf(ent, x, p) => \E n \in DOMAIN Guns(p) : Guns(p)[n] = x
           /\ Kind(p) = "actor" => Len(Guns(p)) <= 1
<1> DEFINE s == Children(p)
           T == {i \in Ids : Kind(i) = "gun"}
           g == Guns(p)
<1>1. p \in Living(ent) /\ live = Living(ent) /\ live \subseteq Ids
  BY DEF live, Living
<1>2. /\ s \in Seq(Ids)
      /\ \A n \in DOMAIN s : s[n] \in live /\ Parent(s[n]) = p
      /\ \A x \in live : Parent(x) = p => \E n \in DOMAIN s : s[n] = x
  BY <1>1, ChildrenAre DEF Children, Parent
<1>3. Distinct(s)
  BY <1>1 DEF Tree, Down, Children
<1> HIDE DEF s
<1>4. g = Only(s, T)
  BY DEF Guns, s
<1>5. /\ g \in Seq(Ids)
      /\ \A i \in DOMAIN g : g[i] \in T /\ \E k \in DOMAIN s : s[k] = g[i]
      /\ \A k \in DOMAIN s : s[k] \in T => \E i \in DOMAIN g : g[i] = s[k]
      /\ Distinct(g)
  <2> HIDE DEF T, g
  <2>1. \A i, j \in DOMAIN g : g[i] = g[j] => i = j
    BY <1>2, <1>3, <1>4, OnlyDistinct DEF Distinct
  <2> QED BY <1>2, <1>4, <2>1, OnlyElements DEF Distinct
<1> HIDE DEF g
<1>6. \A n \in DOMAIN g : GunOf(ent, g[n], p)
  BY <1>1, <1>2, <1>5 DEF GunOf, Kind, Parent
<1>7. \A x \in Ids : GunOf(ent, x, p) => \E n \in DOMAIN g : g[n] = x
  BY <1>1, <1>2, <1>5 DEF GunOf, Kind, Parent
<1>8. g # <<>> => 1 \in DOMAIN g
  BY <1>5
<1>9. g = <<>> <=> \A x \in Ids : ~ GunOf(ent, x, p)
  BY <1>5, <1>6, <1>7, <1>8
<1>10. ASSUME Kind(p) = "actor" PROVE Len(g) <= 1
  <2> SUFFICES ASSUME Len(g) > 1 PROVE FALSE
    BY <1>5
  <2>1. 1 \in DOMAIN g /\ 2 \in DOMAIN g /\ g[1] \in Ids /\ g[2] \in Ids
    BY <1>5
  <2>2. g[1] = g[2]
    BY <1>1, <1>6, <1>10, <2>1 DEF Order, Kind
  <2> QED BY <1>5, <2>1, <2>2 DEF Distinct
<1> QED BY <1>5, <1>6, <1>7, <1>9, <1>10 DEF g

-----------------------------------------------------------------------------
(* Steps that leave the forest alone. *)

(* A packet is handled outside of SLS_Clear and of the other operations. *)
LEMMA NetworkIs ==
    ASSUME Core, Network
    PROVE  /\ ~ InClear /\ ~ ForAll
           /\ emptying = Done /\ detach = Done /\ destroying = <<>> /\ clearing = <<>>
BY DEF Core, Cleared, Network, Locked

LEMMA BetweenIs ==
    ASSUME Core, Between
    PROVE  /\ job = Idle /\ job.at = "idle" /\ job.todo = {} /\ ~ InClear /\ ~ ForAll
           /\ detach = Done /\ destroying = <<>> /\ clearing = <<>>
BY DEF Core, Cleared, Between, Idle, InClear, ForAll

LEMMA HearKeeps ==
    ASSUME Core, Hear
    PROVE  Core'
<1>1. /\ UNCHANGED <<ent, dead, removable, corpses, avatar, conn, veryDead, job, emptying, detach, destroying, clearing, fault>>
      /\ valid' = live /\ ground' = {e \in live : Parent(e) = None}
      /\ job = Idle /\ job.at = "idle" /\ job.todo = {} /\ ~ InClear /\ ~ ForAll
      /\ detach = Done /\ destroying = <<>> /\ clearing = <<>>
  BY BetweenIs DEF Hear, Roots, bodies, players, nested, round
<1>2. Tree(ent)' /\ Order(ent)'
  BY <1>1 DEF Core
<1>3. Types'
  BY <1>1 DEF Core, Types, live, Kind, Parent, Owner, Actors, Figures, Given
<1>4. Jobs'
  BY <1>1 DEF Core, Types, Jobs, live, Kind, Parent, Owner, Actors, Figures, Given, ForAll, Respawns, Idle
<1>5. Avatars'
  BY <1>1 DEF Core, Types, Avatars, live, Kind, Parent, Owner, Actors, Figures, Given
<1>6. Bags'
  BY <1>1 DEF Core, Types, Bags, live, Kind, Parent, Owner, Actors, Figures, Given, InClear
<1>7. Emptying'
  BY <1>1 DEF Core, Types, Emptying, live, Kind, Parent, Owner, Actors, Figures, Given, InClear, ForAll, Done
<1>8. Detached'
  BY <1>1 DEF Core, Types, Detached, live, Kind, Parent, Owner, Actors, Figures, Given, InClear, Idle, Done
<1>9. Destroyed'
  BY <1>1 DEF Core, Types, Destroyed, live, Kind, Parent, Owner, Actors, Figures, Given, Idle, Done
<1>10. Cleared'
  BY <1>1 DEF Core, Types, Cleared, live, Kind, Parent, Owner, Actors, Figures, Given, InClear
<1> QED BY <1>2, <1>3, <1>4, <1>5, <1>6, <1>7, <1>8, <1>9, <1>10 DEF Core

LEMMA LeaveKeeps ==
    ASSUME Core, NEW c \in Clients, Leave(c)
    PROVE  Core'
<1>1. /\ UNCHANGED <<ent, dead, valid, ground, removable, corpses, avatar, veryDead, job, emptying, detach, destroying, clearing, fault>>
      /\ conn' = [conn EXCEPT ![c] = "left"] /\ conn[c] = "in" /\ ~ ForAll
  BY DEF Leave, bodies, players, nested, round
<1>2. Tree(ent)' /\ Order(ent)'
  BY <1>1 DEF Core
<1>3. Types'
  BY <1>1 DEF Core, Types, live, Kind, Parent, Owner, Actors, Figures, Given
<1>4. Jobs'
  BY <1>1 DEF Core, Types, Jobs, live, Kind, Parent, Owner, Actors, Figures, Given, ForAll, Respawns, Idle
<1>5. Avatars'
  BY <1>1 DEF Core, Types, Avatars, live, Kind, Parent, Owner, Actors, Figures, Given
<1>6. Bags'
  BY <1>1 DEF Core, Types, Bags, live, Kind, Parent, Owner, Actors, Figures, Given, InClear
<1>7. Emptying'
  BY <1>1 DEF Core, Types, Emptying, live, Kind, Parent, Owner, Actors, Figures, Given, InClear, ForAll, Done
<1>8. Detached'
  BY <1>1 DEF Core, Types, Detached, live, Kind, Parent, Owner, Actors, Figures, Given, InClear, Idle, Done
<1>9. Destroyed'
  BY <1>1 DEF Core, Types, Destroyed, live, Kind, Parent, Owner, Actors, Figures, Given, Idle, Done
<1>10. Cleared'
  BY <1>1 DEF Core, Types, Cleared, live, Kind, Parent, Owner, Actors, Figures, Given, InClear
<1> QED BY <1>2, <1>3, <1>4, <1>5, <1>6, <1>7, <1>8, <1>9, <1>10 DEF Core

LEMMA DieKeeps ==
    ASSUME Core, NEW a \in Ids, Die(a)
    PROVE  Core'
<1>1. /\ UNCHANGED <<ent, valid, ground, removable, corpses, avatar, conn, job, emptying, detach, destroying, clearing, fault>>
      /\ veryDead' \subseteq Clients /\ dead' = dead \cup {a}
      /\ Kind(a) = "actor" /\ a \in valid \ dead
      /\ job = Idle /\ job.at = "idle" /\ job.todo = {} /\ ~ InClear /\ ~ ForAll
      /\ detach = Done /\ destroying = <<>> /\ clearing = <<>>
  BY BetweenIs DEF Die, Dies, Mortal, Core, Types, bodies, players, nested, round
<1>2. Tree(ent)' /\ Order(ent)'
  BY <1>1 DEF Core
<1>3. Types'
  BY <1>1 DEF Core, Types, live, Kind, Parent, Owner, Actors, Figures, Given
<1>4. Jobs'
  BY <1>1 DEF Core, Types, Jobs, live, Kind, Parent, Owner, Actors, Figures, Given, ForAll, Respawns, Idle
<1>5. Avatars'
  BY <1>1 DEF Core, Types, Avatars, live, Kind, Parent, Owner, Actors, Figures, Given
<1>6. Bags'
  BY <1>1 DEF Core, Types, Bags, live, Kind, Parent, Owner, Actors, Figures, Given, InClear
<1>7. Emptying'
  BY <1>1 DEF Core, Types, Emptying, live, Kind, Parent, Owner, Actors, Figures, Given, InClear, ForAll, Done
<1>8. Detached'
  BY <1>1 DEF Core, Types, Detached, live, Kind, Parent, Owner, Actors, Figures, Given, InClear, Idle, Done
<1>9. Destroyed'
  BY <1>1 DEF Core, Types, Destroyed, live, Kind, Parent, Owner, Actors, Figures, Given, Idle, Done
<1>10. Cleared'
  BY <1>1 DEF Core, Types, Cleared, live, Kind, Parent, Owner, Actors, Figures, Given, InClear
<1> QED BY <1>2, <1>3, <1>4, <1>5, <1>6, <1>7, <1>8, <1>9, <1>10 DEF Core

LEMMA TakeBagKeeps ==
    ASSUME Core, NEW c \in Clients, NEW p \in Ids, NEW e \in Ids, TakeBag(c, p, e)
    PROVE  Core'
<1>1. /\ UNCHANGED <<ent, dead, valid, ground, removable, corpses, avatar, conn, veryDead, job, detach, destroying, clearing, fault>>
      /\ emptying' = <<p, e>> /\ p \in valid \ dead /\ e \in live
      /\ Kind(p) = "actor" /\ Kind(e) = "bag" /\ Parent(e) = None
      /\ ~ InClear /\ ~ ForAll
      /\ emptying = Done /\ detach = Done /\ destroying = <<>> /\ clearing = <<>>
  BY NetworkIs DEF TakeBag, MayTake, bodies, players, nested, round
<1>a. p \in Actors /\ Bagged(ent, p)
  <2>1. p \in Actors \ dead
    BY <1>1 DEF Core, Types, Actors
  <2>2. ~ (job.at = "bag" /\ \E d \in job.todo : avatar[d] = p)
    BY <1>1 DEF Core, Jobs
  <2> QED BY <1>1, <2>1, <2>2 DEF Core, Bags
<1>2. Tree(ent)' /\ Order(ent)'
  BY <1>1, <1>a DEF Core
<1>3. Types'
  BY <1>1, <1>a DEF Core, Types, live, Kind, Parent, Owner, Actors, Figures, Given
<1>4. Jobs'
  BY <1>1, <1>a DEF Core, Types, Jobs, live, Kind, Parent, Owner, Actors, Figures, Given, ForAll, Respawns, Idle
<1>5. Avatars'
  BY <1>1, <1>a DEF Core, Types, Avatars, live, Kind, Parent, Owner, Actors, Figures, Given
<1>6. Bags'
  BY <1>1, <1>a DEF Core, Types, Bags, live, Kind, Parent, Owner, Actors, Figures, Given, InClear
<1>7. Emptying'
  BY <1>1, <1>a DEF Core, Types, Emptying, live, Kind, Parent, Owner, Actors, Figures, Given, InClear, ForAll, Done
<1>8. Detached'
  BY <1>1, <1>a DEF Core, Types, Detached, live, Kind, Parent, Owner, Actors, Figures, Given, InClear, Idle, Done
<1>9. Destroyed'
  BY <1>1, <1>a DEF Core, Types, Destroyed, live, Kind, Parent, Owner, Actors, Figures, Given, Idle, Done
<1>10. Cleared'
  BY <1>1, <1>a DEF Core, Types, Cleared, live, Kind, Parent, Owner, Actors, Figures, Given, InClear
<1> QED BY <1>2, <1>3, <1>4, <1>5, <1>6, <1>7, <1>8, <1>9, <1>10 DEF Core

LEMMA EndRespawnKeeps ==
    ASSUME Core, EndRespawn
    PROVE  Core'
<1>1. /\ UNCHANGED <<ent, dead, valid, ground, removable, corpses, avatar, conn, veryDead, emptying, detach, destroying, clearing, fault>>
      /\ job.at = "items" /\ detach = Done /\ job' = Idle /\ Idle.at = "idle" /\ Idle.todo = {}
  BY DEF EndRespawn, At, Idle, bodies, players, nested, round
<1>2. Tree(ent)' /\ Order(ent)'
  BY <1>1 DEF Core
<1>3. Types'
  BY <1>1 DEF Core, Types, live, Kind, Parent, Owner, Actors, Figures, Given
<1>4. Jobs'
  BY <1>1 DEF Core, Types, Jobs, live, Kind, Parent, Owner, Actors, Figures, Given, ForAll, Respawns, Idle
<1>5. Avatars'
  BY <1>1 DEF Core, Types, Avatars, live, Kind, Parent, Owner, Actors, Figures, Given
<1>6. Bags'
  BY <1>1 DEF Core, Types, Bags, live, Kind, Parent, Owner, Actors, Figures, Given, InClear
<1>7. Emptying'
  BY <1>1 DEF Core, Types, Emptying, live, Kind, Parent, Owner, Actors, Figures, Given, InClear, ForAll, Done
<1>8. Detached'
  BY <1>1 DEF Core, Types, Detached, live, Kind, Parent, Owner, Actors, Figures, Given, InClear, Idle, Done
<1>9. Destroyed'
  BY <1>1 DEF Core, Types, Destroyed, live, Kind, Parent, Owner, Actors, Figures, Given, Idle, Done
<1>10. Cleared'
  BY <1>1 DEF Core, Types, Cleared, live, Kind, Parent, Owner, Actors, Figures, Given, InClear
<1> QED BY <1>2, <1>3, <1>4, <1>5, <1>6, <1>7, <1>8, <1>9, <1>10 DEF Core

LEMMA EndRoundKeeps ==
    ASSUME Core, EndRound
    PROVE  Core'
<1>1. /\ UNCHANGED <<ent, dead, valid, ground, removable, corpses, avatar, conn, veryDead, emptying, detach, destroying, clearing, fault>>
      /\ job'.at = "ending" /\ job'.todo = Present /\ job' = [at |-> "ending", todo |-> Present]
      /\ emptying = Done
      /\ job = Idle /\ job.at = "idle" /\ job.todo = {} /\ ~ InClear /\ ~ ForAll
      /\ detach = Done /\ destroying = <<>> /\ clearing = <<>>
  BY BetweenIs DEF EndRound, Locked, bodies, players, nested, round
<1>2. Tree(ent)' /\ Order(ent)'
  BY <1>1 DEF Core
<1>3. Types'
  BY <1>1 DEF Core, Types, live, Kind, Parent, Owner, Actors, Figures, Given
<1>4. Jobs'
  BY <1>1 DEF Core, Types, Jobs, live, Kind, Parent, Owner, Actors, Figures, Given, ForAll, Respawns, Idle, Present
<1>5. Avatars'
  BY <1>1 DEF Core, Types, Avatars, live, Kind, Parent, Owner, Actors, Figures, Given
<1>6. Bags'
  BY <1>1 DEF Core, Types, Bags, live, Kind, Parent, Owner, Actors, Figures, Given, InClear
<1>7. Emptying'
  BY <1>1 DEF Core, Types, Emptying, live, Kind, Parent, Owner, Actors, Figures, Given, InClear, ForAll, Done
<1>8. Detached'
  BY <1>1 DEF Core, Types, Detached, live, Kind, Parent, Owner, Actors, Figures, Given, InClear, Idle, Done
<1>9. Destroyed'
  BY <1>1 DEF Core, Types, Destroyed, live, Kind, Parent, Owner, Actors, Figures, Given, Idle, Done
<1>10. Cleared'
  BY <1>1 DEF Core, Types, Cleared, live, Kind, Parent, Owner, Actors, Figures, Given, InClear
<1> QED BY <1>2, <1>3, <1>4, <1>5, <1>6, <1>7, <1>8, <1>9, <1>10 DEF Core

LEMMA RoundEndedKeeps ==
    ASSUME Core, RoundEnded
    PROVE  Core'
<1>1. /\ UNCHANGED <<ent, dead, valid, ground, removable, corpses, avatar, veryDead, emptying, detach, destroying, clearing, fault>>
      /\ job.at = "ending" /\ job.todo = {} /\ job' = Idle /\ Idle.at = "idle" /\ Idle.todo = {}
      /\ detach = Done
      /\ conn' = [c \in Clients |-> IF conn[c] = "left" THEN "lost" ELSE conn[c]]
  BY DEF RoundEnded, At, Idle, CleanDelayedEvents, bodies, players, nested, round
<1>2. Tree(ent)' /\ Order(ent)'
  BY <1>1 DEF Core
<1>3. Types'
  BY <1>1 DEF Core, Types, live, Kind, Parent, Owner, Actors, Figures, Given
<1>4. Jobs'
  BY <1>1 DEF Core, Types, Jobs, live, Kind, Parent, Owner, Actors, Figures, Given, ForAll, Respawns, Idle
<1>5. Avatars'
  BY <1>1 DEF Core, Types, Avatars, live, Kind, Parent, Owner, Actors, Figures, Given
<1>6. Bags'
  BY <1>1 DEF Core, Types, Bags, live, Kind, Parent, Owner, Actors, Figures, Given, InClear
<1>7. Emptying'
  BY <1>1 DEF Core, Types, Emptying, live, Kind, Parent, Owner, Actors, Figures, Given, InClear, ForAll, Done
<1>8. Detached'
  BY <1>1 DEF Core, Types, Detached, live, Kind, Parent, Owner, Actors, Figures, Given, InClear, Idle, Done
<1>9. Destroyed'
  BY <1>1 DEF Core, Types, Destroyed, live, Kind, Parent, Owner, Actors, Figures, Given, Idle, Done
<1>10. Cleared'
  BY <1>1 DEF Core, Types, Cleared, live, Kind, Parent, Owner, Actors, Figures, Given, InClear
<1> QED BY <1>2, <1>3, <1>4, <1>5, <1>6, <1>7, <1>8, <1>9, <1>10 DEF Core

LEMMA RoundStartedKeeps ==
    ASSUME Core, RoundStarted
    PROVE  Core'
<1>1. /\ UNCHANGED <<ent, dead, valid, ground, removable, corpses, avatar, conn, veryDead, emptying, detach, destroying, clearing, fault>>
      /\ job.at = "starting" /\ job.todo = {} /\ job' = Idle /\ Idle.at = "idle" /\ Idle.todo = {}
      /\ detach = Done
  BY DEF RoundStarted, At, Idle, bodies, players, nested, round
<1>2. Tree(ent)' /\ Order(ent)'
  BY <1>1 DEF Core
<1>3. Types'
  BY <1>1 DEF Core, Types, live, Kind, Parent, Owner, Actors, Figures, Given
<1>4. Jobs'
  BY <1>1 DEF Core, Types, Jobs, live, Kind, Parent, Owner, Actors, Figures, Given, ForAll, Respawns, Idle
<1>5. Avatars'
  BY <1>1 DEF Core, Types, Avatars, live, Kind, Parent, Owner, Actors, Figures, Given
<1>6. Bags'
  BY <1>1 DEF Core, Types, Bags, live, Kind, Parent, Owner, Actors, Figures, Given, InClear
<1>7. Emptying'
  BY <1>1 DEF Core, Types, Emptying, live, Kind, Parent, Owner, Actors, Figures, Given, InClear, ForAll, Done
<1>8. Detached'
  BY <1>1 DEF Core, Types, Detached, live, Kind, Parent, Owner, Actors, Figures, Given, InClear, Idle, Done
<1>9. Destroyed'
  BY <1>1 DEF Core, Types, Destroyed, live, Kind, Parent, Owner, Actors, Figures, Given, Idle, Done
<1>10. Cleared'
  BY <1>1 DEF Core, Types, Cleared, live, Kind, Parent, Owner, Actors, Figures, Given, InClear
<1> QED BY <1>2, <1>3, <1>4, <1>5, <1>6, <1>7, <1>8, <1>9, <1>10 DEF Core

LEMMA StartRoundKeeps ==
    ASSUME Core, QuietClear, StartRound
    PROVE  Core'
<1>1. /\ UNCHANGED <<ent, dead, valid, ground, removable, avatar, emptying, detach, destroying, clearing, fault>>
      /\ job' = [at |-> "clearing", todo |-> {}] /\ job'.at = "clearing" /\ job'.todo = {}
      /\ corpses' = {} /\ veryDead' = {}
      /\ emptying = Done
      /\ conn' = [c \in Clients |-> IF conn[c] = "left" THEN "lost" ELSE conn[c]]
      /\ job = Idle /\ job.at = "idle" /\ job.todo = {} /\ ~ InClear /\ ~ ForAll
      /\ detach = Done /\ destroying = <<>> /\ clearing = <<>>
  BY BetweenIs DEF StartRound, Locked, CleanDelayedEvents, ForgetCorpses, bodies, players, nested, round
<1>2. Tree(ent)' /\ Order(ent)'
  BY <1>1 DEF Core
<1>3. Types'
  BY <1>1 DEF Core, Types, live, Kind, Parent, Owner, Actors, Figures, Given
<1>4. Jobs'
  BY <1>1 DEF Core, Types, Jobs, live, Kind, Parent, Owner, Actors, Figures, Given, ForAll, Respawns, Idle
<1>5. Avatars'
  BY <1>1 DEF Core, Types, Avatars, live, Kind, Parent, Owner, Actors, Figures, Given
<1>6. Bags'
  BY <1>1 DEF Core, Types, Bags, live, Kind, Parent, Owner, Actors, Figures, Given, InClear
<1>7. Emptying'
  BY <1>1 DEF Core, Types, Emptying, live, Kind, Parent, Owner, Actors, Figures, Given, InClear, ForAll, Done
<1>8. Detached'
  BY <1>1 DEF Core, Types, Detached, live, Kind, Parent, Owner, Actors, Figures, Given, InClear, Idle, Done
<1>9. Destroyed'
  BY <1>1 DEF Core, Types, Destroyed, live, Kind, Parent, Owner, Actors, Figures, Given, Idle, Done
<1>10. Cleared'
  BY <1>1 DEF Core, Types, Cleared, live, Kind, Parent, Owner, Actors, Figures, Given, InClear
<1> QED BY <1>2, <1>3, <1>4, <1>5, <1>6, <1>7, <1>8, <1>9, <1>10 DEF Core

LEMMA ClearPickKeeps ==
    ASSUME Core, ClearPick
    PROVE  Core'
<1>1. /\ UNCHANGED <<ent, dead, valid, ground, removable, corpses, avatar, conn, veryDead, emptying, detach, destroying, fault>>
      /\ job.at = "clearing" /\ detach = Done
      /\ job' = [job EXCEPT !.at = "entering"]
      /\ \E e \in live : Parent(e) = None /\ clearing' = <<e>>
  BY DEF ClearPick, At, Roots, bodies, players, nested, round
<1>a. job'.at = "entering" /\ job'.todo = job.todo
  BY <1>1 DEF Core, Jobs
<1>2. Tree(ent)' /\ Order(ent)'
  BY <1>1, <1>a DEF Core
<1>3. Types'
  BY <1>1, <1>a DEF Core, Types, live, Kind, Parent, Owner, Actors, Figures, Given
<1>4. Jobs'
  BY <1>1, <1>a DEF Core, Types, Jobs, live, Kind, Parent, Owner, Actors, Figures, Given, ForAll, Respawns, Idle
<1>5. Avatars'
  BY <1>1, <1>a DEF Core, Types, Avatars, live, Kind, Parent, Owner, Actors, Figures, Given
<1>6. Bags'
  BY <1>1, <1>a DEF Core, Types, Bags, live, Kind, Parent, Owner, Actors, Figures, Given, InClear
<1>7. Emptying'
  BY <1>1, <1>a DEF Core, Types, Emptying, live, Kind, Parent, Owner, Actors, Figures, Given, InClear, ForAll, Done
<1>8. Detached'
  BY <1>1, <1>a DEF Core, Types, Detached, live, Kind, Parent, Owner, Actors, Figures, Given, InClear, Idle, Done
<1>9. Destroyed'
  BY <1>1, <1>a DEF Core, Types, Destroyed, live, Kind, Parent, Owner, Actors, Figures, Given, Idle, Done, Cleared, InClear
<1>10. Cleared'
  <2>1. PICK e \in live : Parent(e) = None /\ clearing' = <<e>>
    BY <1>1
  <2>2. live' = live /\ <<e>> \in Seq(live) /\ Distinct(<<e>>) /\ \A m \in DOMAIN <<e>> : <<e>>[m] = e
    BY <1>1 DEF Distinct, live, Kind
  <2>3. Distinct(clearing)' /\ \A m \in DOMAIN clearing' : Parent(clearing[m])' = None
    BY <1>1, <2>1, <2>2 DEF Distinct, Parent
  <2> QED BY <1>1, <1>a, <2>1, <2>2, <2>3 DEF Core, Cleared, InClear
<1> QED BY <1>2, <1>3, <1>4, <1>5, <1>6, <1>7, <1>8, <1>9, <1>10 DEF Core

LEMMA ClearEnterKeeps ==
    ASSUME Core, ClearEnter
    PROVE  Core'
<1>1. /\ UNCHANGED <<ent, dead, valid, ground, removable, corpses, avatar, conn, veryDead, emptying, detach, destroying, clearing>>
      /\ job.at = "entering" /\ detach = Done
      /\ job' = [job EXCEPT !.at = "clearing"]
      /\ fault' = IF Last(clearing) \in Roots THEN fault ELSE "parent"
  BY DEF ClearEnter, At, bodies, players, nested, round
<1>a. job'.at = "clearing" /\ job'.todo = job.todo
  BY <1>1 DEF Core, Jobs
<1>b. fault' = fault
  <2>1. clearing # <<>> /\ clearing \in Seq(live) /\ live \subseteq Ids
    BY <1>1 DEF Core, Cleared, live
  <2>2. Len(clearing) \in DOMAIN clearing /\ clearing[Len(clearing)] \in live
    BY <2>1
  <2>3. Parent(clearing[Len(clearing)]) = None
    BY <2>2 DEF Core, Cleared
  <2> QED BY <1>1, <2>2, <2>3 DEF Last, Roots
<1>2. Tree(ent)' /\ Order(ent)'
  BY <1>1, <1>a, <1>b DEF Core
<1>3. Types'
  BY <1>1, <1>a, <1>b DEF Core, Types, live, Kind, Parent, Owner, Actors, Figures, Given
<1>4. Jobs'
  BY <1>1, <1>a, <1>b DEF Core, Types, Jobs, live, Kind, Parent, Owner, Actors, Figures, Given, ForAll, Respawns, Idle
<1>5. Avatars'
  BY <1>1, <1>a, <1>b DEF Core, Types, Avatars, live, Kind, Parent, Owner, Actors, Figures, Given
<1>6. Bags'
  BY <1>1, <1>a, <1>b DEF Core, Types, Bags, live, Kind, Parent, Owner, Actors, Figures, Given, InClear
<1>7. Emptying'
  BY <1>1, <1>a, <1>b DEF Core, Types, Emptying, live, Kind, Parent, Owner, Actors, Figures, Given, InClear, ForAll, Done
<1>8. Detached'
  BY <1>1, <1>a, <1>b DEF Core, Types, Detached, live, Kind, Parent, Owner, Actors, Figures, Given, InClear, Idle, Done
<1>9. Destroyed'
  BY <1>1, <1>a, <1>b DEF Core, Types, Destroyed, live, Kind, Parent, Owner, Actors, Figures, Given, Idle, Done, Cleared, InClear
<1>10. Cleared'
  BY <1>1, <1>a, <1>b DEF Core, Types, Cleared, live, Kind, Parent, Owner, Actors, Figures, Given, InClear
<1> QED BY <1>2, <1>3, <1>4, <1>5, <1>6, <1>7, <1>8, <1>9, <1>10 DEF Core

LEMMA ClearDoneKeeps ==
    ASSUME Core, ClearDone
    PROVE  Core'
<1>1. /\ UNCHANGED <<ent, dead, valid, ground, removable, corpses, avatar, conn, veryDead, emptying, detach, destroying, clearing, fault>>
      /\ job.at = "clearing" /\ detach = Done /\ clearing = <<>> /\ live = {}
      /\ job' = [at |-> "starting", todo |-> Present] /\ job'.at = "starting" /\ job'.todo = Present
  BY DEF ClearDone, At, bodies, players, nested, round
<1>2. Tree(ent)' /\ Order(ent)'
  BY <1>1 DEF Core
<1>3. Types'
  BY <1>1 DEF Core, Types, live, Kind, Parent, Owner, Actors, Figures, Given
<1>4. Jobs'
  BY <1>1 DEF Core, Types, Jobs, live, Kind, Parent, Owner, Actors, Figures, Given, ForAll, Respawns, Idle, Present
<1>5. Avatars'
  BY <1>1 DEF Core, Types, Avatars, live, Kind, Parent, Owner, Actors, Figures, Given
<1>6. Bags'
  BY <1>1 DEF Core, Types, Bags, live, Kind, Parent, Owner, Actors, Figures, Given, InClear
<1>7. Emptying'
  BY <1>1 DEF Core, Types, Emptying, live, Kind, Parent, Owner, Actors, Figures, Given, InClear, ForAll, Done
<1>8. Detached'
  BY <1>1 DEF Core, Types, Detached, live, Kind, Parent, Owner, Actors, Figures, Given, InClear, Idle, Done
<1>9. Destroyed'
  BY <1>1 DEF Core, Types, Destroyed, live, Kind, Parent, Owner, Actors, Figures, Given, Idle, Done, Cleared, InClear
<1>10. Cleared'
  BY <1>1 DEF Core, Types, Cleared, live, Kind, Parent, Owner, Actors, Figures, Given, InClear
<1> QED BY <1>2, <1>3, <1>4, <1>5, <1>6, <1>7, <1>8, <1>9, <1>10 DEF Core

(* The children of an entity, as the operators of the code see them. *)
LEMMA InRange ==
    ASSUME Core, NEW p \in live
    PROVE  /\ \A x \in Range(Children(p)) : x \in live /\ Parent(x) = p
           /\ \A x \in live : Parent(x) = p => x \in Range(Children(p))
           /\ Children(p) # <<>> => /\ Head(Children(p)) \in live /\ Parent(Head(Children(p))) = p
                                    /\ Last(Children(p)) \in live /\ Parent(Last(Children(p))) = p
           /\ Children(p) = <<>> <=> Childless(ent, p)
<1>1. live = Living(ent) /\ Tree(ent)
  BY DEF live, Living, Core
<1>2. /\ Children(p) \in Seq(live)
      /\ \A n \in DOMAIN Children(p) : Parent(Children(p)[n]) = p
      /\ \A x \in live : Parent(x) = p => \E n \in DOMAIN Children(p) : Children(p)[n] = x
      /\ Children(p) = <<>> <=> Childless(ent, p)
  BY <1>1, ChildrenAre DEF Children, Parent
<1>3. Children(p) # <<>> => /\ 1 \in DOMAIN Children(p) /\ Len(Children(p)) \in DOMAIN Children(p)
                            /\ Head(Children(p)) = Children(p)[1]
  BY <1>2
<1>4. Last(Children(p)) = Children(p)[Len(Children(p))]
  BY DEF Last
<1>5. \A n \in DOMAIN Children(p) : Children(p)[n] \in live
  BY <1>2
<1> QED BY <1>2, <1>3, <1>4, <1>5 DEF Range

(* Who holds nothing. *)
LEMMA Hollow ==
    ASSUME Core, NEW e \in live, Kind(e) # "actor", Kind(e) # "bag"
    PROVE  Childless(ent, e)
BY NoneAssumption DEF Core, Order, Held, Childless, live, Living, Kind

(* What OnDetach is about to move, as Process_event_reject calls it. *)
LEMMA DetachingIs ==
    ASSUME Core, NEW p \in live, NEW b \in live, Kind(p) = "actor", Kind(b) = "bag",
           Parent(b) = p, Detaching(p, b)
    PROVE  detach' # Done /\ Moving(ent, detach') /\ detach'.from = p /\ detach'.bag = b
<1> DEFINE s == Children(p)
<1>1. /\ live = Living(ent) /\ Tree(ent) /\ Order(ent) /\ p # None /\ live \subseteq Ids
      /\ \A i \in live : ent[i].kind \in Kinds
  BY NoneAssumption, EntityFields DEF live, Living, Core, Tree
<1>2. /\ s \in Seq(live) /\ s \in Seq(Ids)
      /\ \A n \in DOMAIN s : s[n] \in live /\ Parent(s[n]) = p
      /\ \A x \in live : Parent(x) = p => \E n \in DOMAIN s : s[n] = x
  <2>1. /\ s \in Seq(live)
        /\ \A n \in DOMAIN s : Parent(s[n]) = p
        /\ \A x \in live : Parent(x) = p => \E n \in DOMAIN s : s[n] = x
    BY <1>1, ChildrenAre DEF Children, Parent
  <2> HIDE DEF s
  <2> QED BY <1>1, <2>1
<1>3. Distinct(s)
  BY <1>1 DEF Tree, Down, Children
<1>4. SelectInSeq(s, LAMBDA x : x = b) = 1
  <2>1. b \in Living(ent) /\ ent[b].kind = "bag" /\ ent[b].parent = p
    BY <1>1 DEF Kind, Parent
  <2>2. FirstPlace(s, b) = 1
    BY <1>1, <2>1, BagIsFound DEF Children
  <2> QED BY <2>2 DEF SelectInSeq, FirstPlace
<1>5. PICK d \in {None} \cup Range(Guns(p)) :
         detach' = [bag |-> b, from |-> p, drop |-> d,
                    at |-> SelectInSeq(s, LAMBDA x : x = b),
                    move |-> Only(s, {x \in Ids : Kind(x) \in Items /\ x # d})]
  BY DEF Detaching
<1> DEFINE T == {x \in Ids : Kind(x) \in Items /\ x # d}
           m == Only(s, T)
<1>6. detach' = [bag |-> b, from |-> p, drop |-> d, at |-> 1, move |-> m]
  BY <1>4, <1>5
<1> HIDE DEF s
<1>7. d # None => d \in live /\ Kind(d) \in Items /\ Parent(d) = p
  <2> SUFFICES ASSUME d # None PROVE d \in live /\ Kind(d) \in Items /\ Parent(d) = p
    OBVIOUS
  <2>1. PICK n \in DOMAIN Guns(p) : Guns(p)[n] = d
    BY DEF Range
  <2>2. GunOf(ent, d, p)
    BY <1>1, <2>1, GunsAre
  <2> QED BY <1>1, <2>2 DEF GunOf, Kind, Parent, Kinds
<1>8. /\ m \in Seq(Ids)
      /\ \A i \in DOMAIN m : m[i] \in T /\ \E k \in DOMAIN s : s[k] = m[i]
      /\ \A k \in DOMAIN s : s[k] \in T => \E i \in DOMAIN m : m[i] = s[k]
      /\ Distinct(m)
  <2> HIDE DEF T
  <2>1. \A i, j \in DOMAIN m : m[i] = m[j] => i = j
    BY <1>2, <1>3, OnlyDistinct DEF Distinct
  <2> QED BY <1>2, <2>1, OnlyElements DEF Distinct
<1> HIDE DEF m
<1>9. detach' \in Detachment
  BY <1>1, <1>6, <1>7, <1>8 DEF Detachment
<1>10. detach' # Done
  <2>1. "bag" \in DOMAIN detach' /\ DOMAIN Done = {}
    BY <1>6 DEF Done
  <2> QED BY <2>1
<1>11. \A k \in DOMAIN m : m[k] \in live /\ Kind(m[k]) \in Items /\ Parent(m[k]) = p /\ m[k] # d
  BY <1>2, <1>8
<1>12. ASSUME NEW x \in live, Parent(x) = p PROVE x = b \/ x = d \/ \E k \in DOMAIN m : m[k] = x
  <2>1. PICK n \in DOMAIN s : s[n] = x
    BY <1>2, <1>12
  <2>2. CASE Kind(x) \in Items
    BY <1>1, <1>8, <2>1, <2>2
  <2>3. CASE Kind(x) \notin Items
    <3>1. Kind(x) = "bag" /\ Down(ent, p)
      BY <1>1, <1>12, <2>3 DEF Order, Held, Kind, Parent, Tree
    <3>2. n = 1
      BY <2>1, <3>1 DEF Down, s, Children, Kind
    <3>3. PICK l \in DOMAIN s : s[l] = b
      BY <1>2
    <3>4. l = 1
      BY <3>1, <3>3 DEF Down, s, Children, Kind
    <3> QED BY <2>1, <3>2, <3>3, <3>4
  <2> QED BY <2>2, <2>3
<1>13. /\ p \in Living(ent) /\ ent[p].kind = "actor"
       /\ b \in Living(ent) /\ ent[b].kind = "bag" /\ ent[b].parent = p
  BY <1>1 DEF Kind, Parent
<1> HIDE DEF T
<1>14. Moving(ent, detach')
  <2>1. detach'.drop = d /\ detach'.move = m /\ detach'.from = p /\ detach'.bag = b
    BY <1>6
  <2> QED BY <1>1, <1>7, <1>8, <1>9, <1>11, <1>12, <1>13, <2>1 DEF Moving, Kind, Parent
<1> QED BY <1>6, <1>10, <1>14

LEMMA DropBagKeeps ==
    ASSUME Core, NEW a \in Ids, NEW b \in Ids, DropBag(a, b)
    PROVE  Core'
<1>1. /\ UNCHANGED <<ent, dead, valid, ground, removable, corpses, avatar, conn, veryDead, job, emptying, destroying, clearing, fault>>
      /\ a \in dead /\ emptying = Done /\ Detaching(a, b)
      /\ b \in Range(Children(a)) /\ Kind(b) = "bag"
      /\ job = Idle /\ job.at = "idle" /\ job.todo = {} /\ ~ InClear /\ ~ ForAll
      /\ detach = Done /\ destroying = <<>> /\ clearing = <<>>
  BY BetweenIs DEF DropBag, Locked, bodies, players, nested, round
<1>a. /\ a \in live /\ b \in live /\ Kind(a) = "actor" /\ Parent(b) = a
  <2>1. a \in live /\ Kind(a) = "actor"
    BY <1>1 DEF Core, Types, Actors
  <2> QED BY <1>1, <2>1, InRange
<1>b. detach' # Done /\ Moving(ent, detach') /\ detach'.from = a
  BY <1>1, <1>a, DetachingIs
<1>2. Tree(ent)' /\ Order(ent)'
  BY <1>1, <1>a, <1>b DEF Core
<1>3. Types'
  BY <1>1, <1>a, <1>b DEF Core, Types, live, Kind, Parent, Owner, Actors, Figures, Given
<1>4. Jobs'
  BY <1>1, <1>a, <1>b DEF Core, Types, Jobs, live, Kind, Parent, Owner, Actors, Figures, Given, ForAll, Respawns, Idle
<1>5. Avatars'
  BY <1>1, <1>a, <1>b DEF Core, Types, Avatars, live, Kind, Parent, Owner, Actors, Figures, Given
<1>6. Bags'
  BY <1>1, <1>a, <1>b DEF Core, Types, Bags, live, Kind, Parent, Owner, Actors, Figures, Given, InClear
<1>7. Emptying'
  BY <1>1, <1>a, <1>b DEF Core, Types, Emptying, live, Kind, Parent, Owner, Actors, Figures, Given, InClear, ForAll, Done
<1>8. Detached'
  BY <1>1, <1>a, <1>b DEF Core, Types, Detached, live, Kind, Parent, Owner, Actors, Figures, Given, InClear, Idle, Done
<1>9. Destroyed'
  BY <1>1, <1>a, <1>b DEF Core, Types, Destroyed, live, Kind, Parent, Owner, Actors, Figures, Given, Idle, Done
<1>10. Cleared'
  BY <1>1, <1>a, <1>b DEF Core, Types, Cleared, live, Kind, Parent, Owner, Actors, Figures, Given, InClear
<1> QED BY <1>2, <1>3, <1>4, <1>5, <1>6, <1>7, <1>8, <1>9, <1>10 DEF Core

LEMMA StartDestroyKeeps ==
    ASSUME Core, NEW e \in Ids, StartDestroy(e)
    PROVE  Core'
<1>1. /\ UNCHANGED <<ent, dead, valid, ground, removable, corpses, avatar, conn, veryDead, job, emptying, detach, clearing>>
      /\ destroying' = Append(<<>>, e) /\ emptying = Done
      /\ fault' = IF Owner(e) = Server THEN fault ELSE "foreign"
      /\ ExceedsLimit(e) \/ BodyExpires(e) \/ Abandoned(e)
      /\ job = Idle /\ job.at = "idle" /\ job.todo = {} /\ ~ InClear /\ ~ ForAll
      /\ detach = Done /\ destroying = <<>> /\ clearing = <<>>
  BY BetweenIs DEF StartDestroy, EnterDestroy, Locked, bodies, players, nested, round
<1>a. /\ e \in live /\ Owner(e) = Server
      /\ Kind(e) = "bag" \/ Childless(ent, e)
      /\ Kind(e) = "bag" => Parent(e) = None
  <2>1. CASE ExceedsLimit(e)
    <3>1. e \in live /\ Owner(e) = Server /\ Kind(e) # "bag"
      BY <2>1 DEF ExceedsLimit, Core, Types, Figures, Given
    <3> QED BY <2>1, <3>1, InRange DEF ExceedsLimit
  <2>2. CASE BodyExpires(e)
    <3>1. e \in live /\ e \in dead /\ Owner(e) = Server /\ Kind(e) # "bag"
      BY <2>2 DEF BodyExpires, Core, Types, Actors, Given
    <3>2. ~ Bagged(ent, e)
      BY <2>2, <3>1, InRange DEF BodyExpires, Bagged, live, Living, Kind, Parent
    <3> QED BY <3>1, <3>2 DEF Core, Bags
  <2>3. CASE Abandoned(e)
    <3>1. e \in live /\ e \in ground /\ Kind(e) \in Items \cup {"bag"}
      BY <2>3 DEF Abandoned, Core, Types
    <3>2. Owner(e) = Server
      BY <3>1 DEF Core, Order, Owned, live, Living, Kind, Owner
    <3> QED BY <3>1, <3>2, Hollow, KindsAre DEF Core, Types
  <2> QED BY <1>1, <2>1, <2>2, <2>3
<1>b. fault' = fault /\ destroying' = <<e>> /\ <<e>> \in Seq(live) /\ Len(<<e>>) = 1 /\ <<e>>[1] = e
  BY <1>1, <1>a
<1>2. Tree(ent)' /\ Order(ent)'
  BY <1>1, <1>a, <1>b DEF Core
<1>3. Types'
  BY <1>1, <1>a, <1>b DEF Core, Types, live, Kind, Parent, Owner, Actors, Figures, Given
<1>4. Jobs'
  BY <1>1, <1>a, <1>b DEF Core, Types, Jobs, live, Kind, Parent, Owner, Actors, Figures, Given, ForAll, Respawns, Idle
<1>5. Avatars'
  BY <1>1, <1>a, <1>b DEF Core, Types, Avatars, live, Kind, Parent, Owner, Actors, Figures, Given
<1>6. Bags'
  BY <1>1, <1>a, <1>b DEF Core, Types, Bags, live, Kind, Parent, Owner, Actors, Figures, Given, InClear
<1>7. Emptying'
  BY <1>1, <1>a, <1>b DEF Core, Types, Emptying, live, Kind, Parent, Owner, Actors, Figures, Given, InClear, ForAll, Done
<1>8. Detached'
  BY <1>1, <1>a, <1>b DEF Core, Types, Detached, live, Kind, Parent, Owner, Actors, Figures, Given, InClear, Idle, Done
<1>9. Destroyed'
  BY <1>1, <1>a, <1>b DEF Core, Types, Destroyed, live, Kind, Parent, Owner, Actors, Figures, Given, Idle, Done
<1>10. Cleared'
  BY <1>1, <1>a, <1>b DEF Core, Types, Cleared, live, Kind, Parent, Owner, Actors, Figures, Given, InClear
<1> QED BY <1>2, <1>3, <1>4, <1>5, <1>6, <1>7, <1>8, <1>9, <1>10 DEF Core

-----------------------------------------------------------------------------
(* New bodies, and bodies given away. *)

Spawned(E, i, k, o) == [E EXCEPT ![i] = New(k, None, o)]

(* F is E with the new root i. *)
Rooted(E, F, i, k, o) ==
    /\ Tree(F) /\ Order(F) /\ Living(F) = Living(E) \cup {i}
    /\ \A x \in Living(E) : /\ F[x].kind = E[x].kind /\ F[x].parent = E[x].parent
                            /\ F[x].owner = E[x].owner
    /\ F[i].kind = k /\ F[i].parent = None /\ F[i].owner = o
    /\ \A a \in Living(E) : /\ Bagged(E, a) => Bagged(F, a)
                            /\ Childless(E, a) => Childless(F, a)
    /\ Childless(F, i)

LEMMA SpawnKeeps ==
    ASSUME NEW E, Tree(E), Order(E), NEW i \in Ids \ Living(E), NEW k \in Kinds \ {"none"},
           NEW o \in Clients \cup {Server}, k \in Items \cup {"bag"} => o = Server
    PROVE  Rooted(E, Spawned(E, i, k, o), i, k, o)
<1> DEFINE F == Spawned(E, i, k, o)
<1>1. Tree(F) /\ Recast(E, F, i, k, o) /\ Living(F) = Living(E) \cup {i}
  BY NewKeeps DEF Spawned
<1> HIDE DEF F
<1>2. \A x \in Ids : /\ F[x].kind = IF x = i THEN k ELSE E[x].kind
                     /\ F[x].owner = IF x = i THEN o ELSE E[x].owner
                     /\ F[x].parent = IF x = i THEN None ELSE E[x].parent
  BY <1>1 DEF Recast
<1>3. Living(E) \subseteq Ids /\ i \notin Living(E) /\ i \in Ids /\ i # None
  BY NoneAssumption DEF Living
<1>4. \A x \in Living(E) : /\ F[x].kind = E[x].kind /\ F[x].parent = E[x].parent
                           /\ F[x].owner = E[x].owner
  BY <1>2, <1>3
<1>5. F[i].kind = k /\ F[i].parent = None /\ F[i].owner = o
  BY <1>2, <1>3
<1>6. \A x \in Living(E) : E[x].parent # None => E[x].parent \in Living(E)
  BY DEF Tree, Up
<1>7. \A x \in Living(F) : Held(F, x) /\ Owned(F, x)
  <2> TAKE x \in Living(F)
  <2>1. CASE x = i
    BY <1>5, <2>1, OwnersAssumption DEF Held, Owned
  <2>2. CASE x # i
    <3>1. x \in Living(E) /\ Held(E, x) /\ Owned(E, x)
      BY <1>1, <2>2 DEF Order
    <3> QED BY <1>4, <1>6, <3>1 DEF Held, Owned
  <2> QED BY <2>1, <2>2
<1>8. ASSUME NEW a \in Living(F), F[a].kind = "actor", NEW x \in Ids, NEW y \in Ids,
             GunOf(F, x, a), GunOf(F, y, a)
      PROVE  x = y
  <2>1. a # None /\ x \in Living(E) /\ y \in Living(E) /\ E[x].parent = a /\ E[y].parent = a
    BY <1>1, <1>2, <1>3, <1>4, <1>5, <1>8, NoneAssumption DEF GunOf
  <2>2. a \in Living(E) /\ E[a].kind = "actor"
    BY <1>4, <1>6, <1>8, <2>1
  <2> QED BY <1>4, <1>8, <2>1, <2>2 DEF Order, GunOf
<1>9. Order(F)
  BY <1>7, <1>8 DEF Order
<1>10. ASSUME NEW a \in Living(E)
       PROVE  /\ Bagged(E, a) => Bagged(F, a)
              /\ Childless(E, a) => Childless(F, a)
  <2>1. a # None
    BY <1>3, NoneAssumption
  <2> QED BY <1>1, <1>4, <1>5, <2>1 DEF Bagged, Childless
<1>11. Childless(F, i)
  BY <1>1, <1>3, <1>4, <1>5, <1>6 DEF Childless
<1> QED BY <1>1, <1>4, <1>5, <1>9, <1>10, <1>11 DEF Rooted, F

(* F is E with the body a in the hands of the server. *)
Buried(E, F, a) ==
    /\ Tree(F) /\ Order(F) /\ Living(F) = Living(E)
    /\ \A x \in Living(E) : /\ F[x].kind = E[x].kind /\ F[x].parent = E[x].parent
                            /\ F[x].owner = IF x = a THEN Server ELSE E[x].owner
    /\ \A x \in Ids : (Bagged(E, x) => Bagged(F, x)) /\ (Childless(E, x) => Childless(F, x))

LEMMA BuriedKeeps ==
    ASSUME NEW E, Tree(E), Order(E), NEW a \in Living(E)
    PROVE  Buried(E, Bury(E, a), a)
<1> DEFINE F == Bury(E, a)
<1>1. /\ Tree(F) /\ Living(F) = Living(E)
      /\ \A x \in Ids : /\ F[x].kind = E[x].kind /\ F[x].parent = E[x].parent
                        /\ F[x].owner = IF x = a THEN Server ELSE E[x].owner
  BY BuryKeeps
<1> HIDE DEF F
<1>2. Living(E) \subseteq Ids
  BY DEF Living
<1>3. \A x \in Living(E) : E[x].parent # None => E[x].parent \in Ids
  BY <1>2 DEF Tree, Up
<1>4. ASSUME NEW x \in Living(F) PROVE Held(F, x) /\ Owned(F, x)
  <2>1. x \in Living(E) /\ x \in Ids /\ Held(E, x) /\ Owned(E, x)
    BY <1>1, <1>2 DEF Order
  <2> QED BY <1>1, <1>3, <2>1, OwnersAssumption DEF Held, Owned
<1>5. Order(F)
  BY <1>1, <1>2, <1>4 DEF Order, GunOf
<1>6. ASSUME NEW x \in Ids
      PROVE  (Bagged(E, x) => Bagged(F, x)) /\ (Childless(E, x) => Childless(F, x))
  BY <1>1, <1>2 DEF Bagged, Childless
<1> QED BY <1>1, <1>2, <1>5, <1>6 DEF Buried, F

(* More entities, and nobody moves. *)
Grows == /\ Tree(ent)' /\ Order(ent)' /\ Living(ent) \subseteq Living(ent')
         /\ \A x \in Living(ent) : /\ ent'[x].kind = ent[x].kind
                                   /\ ent'[x].parent = ent[x].parent
                                   /\ Bagged(ent, x) => Bagged(ent', x)
                                   /\ Childless(ent, x) => Childless(ent', x)

LEMMA LiveIsLiving ==
    live = Living(ent) /\ live' = Living(ent') /\ live \subseteq Ids /\ live' \subseteq Ids
BY DEF live, Living

(* Nothing is in the middle of its children. *)
Resting == /\ detach = Done /\ destroying = <<>> /\ clearing = <<>> /\ ~ InClear

LEMMA RestingKeeps ==
    ASSUME Resting' PROVE Detached' /\ Destroyed' /\ Cleared'
<1>1. <<>> \in Seq(live') /\ Distinct(<<>>) /\ DOMAIN <<>> = {}
  BY DEF Distinct
<1>2. destroying' = <<>> /\ clearing' = <<>> /\ detach' = Done /\ job'.at # "entering" /\ ~ InClear'
  BY DEF Resting, InClear
<1>3. Distinct(clearing') /\ clearing' \in Seq(live') /\ DOMAIN clearing' = {}
  BY <1>1, <1>2
<1> QED BY <1>1, <1>2, <1>3 DEF Detached, Destroyed, Cleared

LEMMA EmptyingKeeps ==
    ASSUME Core, Grows, Resting', emptying' = emptying, valid \subseteq valid',
           ForAll' => ForAll
    PROVE  Emptying'
<1> SUFFICES ASSUME emptying # Done PROVE Emptying'
  BY DEF Emptying
<1>1. PICK p \in Actors \cap valid, b \in live :
         emptying = <<p, b>> /\ Bagged(ent, p) /\ Kind(b) = "bag" /\ Parent(b) = None
  BY DEF Core, Emptying
<1>2. ~ ForAll
  BY DEF Core, Emptying
<1>3. p \in Actors' /\ b \in live' /\ Bagged(ent', p) /\ Kind(b)' = "bag" /\ Parent(b)' = None
  BY <1>1, LiveIsLiving DEF Grows, Actors, Kind, Parent
<1>4. p \in valid' /\ ~ ForAll' /\ ~ InClear' /\ destroying' = <<>> /\ detach' = Done
  BY <1>1, <1>2 DEF Resting
<1> QED BY <1>1, <1>3, <1>4 DEF Emptying

(* The steps that spawn a body or give one away. *)
LEMMA ConnectFinishedKeeps ==
    ASSUME Core, NEW c \in Clients, ConnectFinished(c)
    PROVE  Core'
<1>1. PICK i \in Ids :
      /\ UNCHANGED <<dead, valid, ground, removable, corpses, job, emptying, detach, destroying, clearing, fault>>
      /\ Free(i) /\ ent' = [ent EXCEPT ![i] = New("spectator", None, c)]
      /\ avatar' = [avatar EXCEPT ![c] = i] /\ veryDead' = veryDead \cup {c}
      /\ conn[c] = "out" /\ conn' = [conn EXCEPT ![c] = "in"]
      /\ ~ InClear /\ ~ ForAll
      /\ emptying = Done /\ detach = Done /\ destroying = <<>> /\ clearing = <<>>
  BY NetworkIs DEF ConnectFinished, SpawnPlayer, bodies, players, nested, round
<1>f. /\ UNCHANGED <<dead, valid, ground, removable, corpses, job, emptying, detach, destroying, clearing, fault>>
      /\ avatar' = [avatar EXCEPT ![c] = i] /\ veryDead' = veryDead \cup {c}
      /\ conn[c] = "out" /\ conn' = [conn EXCEPT ![c] = "in"]
      /\ ~ InClear /\ ~ ForAll
      /\ emptying = Done /\ detach = Done /\ destroying = <<>> /\ clearing = <<>>
  BY <1>1
<1>a. i \in Ids \ live /\ live \subseteq Ids /\ live = Living(ent)
  BY <1>1 DEF Free, live, Living
<1>c. Rooted(ent, ent', i, "spectator", c)
  BY <1>1, <1>a, SpawnKeeps, KindsAre DEF Core, Spawned
<1>g. Grows /\ live' = live \cup {i} /\ i \notin live /\ i \in Ids
  BY LiveIsLiving, <1>a, <1>c DEF Rooted, Grows, Living
<1>d. /\ \A x \in live : /\ Kind(x)' = Kind(x) /\ Parent(x)' = Parent(x)
                        /\ Owner(x)' = Owner(x)
      /\ Kind(i)' = "spectator" /\ Parent(i)' = None /\ Owner(i)' = c
  BY <1>a, <1>c DEF Rooted, Kind, Parent, Owner
<1>v. /\ Actors' = Actors /\ Figures' = Figures \cup {i}
      /\ Given' = Given /\ i \notin Actors /\ i \notin Given /\ i \notin Figures
  BY <1>g, <1>d, OwnersAssumption DEF Actors, Figures, Given
<1>k. avatar[c] = None /\ ~ (job.at \in {"bag", "items", "actor"} /\ c \in job.todo /\ avatar[c] \in live)
  BY <1>f, NoneAssumption, LiveIsLiving DEF Core, Avatars
<1>r. Resting'
  BY <1>f DEF Resting, InClear
<1>2. Tree(ent)' /\ Order(ent)'
  BY <1>g DEF Grows
<1>3. Types'
  BY <1>f, <1>g, <1>d, <1>v DEF Core, Types
<1>4. Jobs'
  <2>1. ASSUME NEW d \in job.todo, job.at \in {"bag", "items"} PROVE d # c
    BY <1>f, <1>k, <2>1, LiveIsLiving, NoneAssumption DEF Core, Jobs, Actors
  <2>2. ForAll' => \A d \in job'.todo : conn'[d] = "in"
    BY <1>f DEF ForAll
  <2> QED BY <1>f, <1>v, <1>g, <2>1, <2>2, LiveIsLiving DEF Core, Types, Jobs, Grows, Actors
<1>5. Avatars'
  <2>1. avatar'[c] = i /\ i \in Figures' /\ ent'[i].owner = c
    BY <1>f, <1>d, <1>v DEF Core, Types, Owner
  <2>2. ASSUME NEW d \in Clients, d # c, avatar[d] \in Figures, Owner(avatar[d]) = d
        PROVE  avatar'[d] \in Figures' /\ ent'[avatar'[d]].owner = d
    BY <1>f, <1>d, <1>v, <2>2 DEF Core, Types, Figures, Owner
  <2>3. \A d \in Clients : d # c => avatar'[d] = avatar[d]
    BY <1>f DEF Core, Types
  <2>4. ASSUME NEW d \in Clients
        PROVE  /\ conn'[d] \in {"out", "done"} => avatar'[d] = None
               /\ \/ avatar'[d] = None
                  \/ job'.at = "actor" /\ d \in job'.todo
                  \/ avatar'[d] \in Figures' /\ ent'[avatar'[d]].owner = d
    BY <1>f, <2>1, <2>2, <2>3 DEF Core, Types, Avatars
  <2> QED BY <2>4 DEF Avatars, Owner
<1>6. Bags'
  <2>1. ASSUME NEW d \in job.todo, job.at = "bag" PROVE d # c
    BY <1>f, <1>k, <2>1, LiveIsLiving, NoneAssumption DEF Core, Jobs, Actors
  <2>2. \A d \in job.todo : job.at = "bag" => avatar'[d] = avatar[d]
    BY <1>f, <2>1 DEF Core, Types, Jobs
  <2>3. Actors' = Actors /\ dead' = dead /\ job' = job /\ ~ InClear /\ dead \subseteq Actors
    BY <1>f, <1>v DEF Core, Types
  <2>4. \A a \in Actors : (Bagged(ent, a) => Bagged(ent', a)) /\ (Childless(ent, a) => Childless(ent', a))
    BY <1>g, LiveIsLiving DEF Grows, Actors
  <2> QED BY <2>2, <2>3, <2>4 DEF Core, Bags, InClear
<1>7. Emptying'
  BY <1>f, <1>g, <1>r, EmptyingKeeps DEF ForAll
<1>8. Detached'
  BY <1>r, RestingKeeps
<1>9. Destroyed'
  BY <1>r, RestingKeeps
<1>10. Cleared'
  BY <1>r, RestingKeeps
<1> QED BY <1>2, <1>3, <1>4, <1>5, <1>6, <1>7, <1>8, <1>9, <1>10 DEF Core

LEMMA RespawnAsSpectatorKeeps ==
    ASSUME Core, NEW c \in Clients, RespawnAsSpectator(c)
    PROVE  Core'
<1>1. PICK i \in Ids :
      /\ UNCHANGED <<dead, valid, ground, removable, corpses, conn, emptying, detach, destroying, clearing, fault>>
      /\ Free(i) /\ ent' = [ent EXCEPT ![i] = New("spectator", None, c)]
      /\ avatar' = [avatar EXCEPT ![c] = i] /\ veryDead' = veryDead \cup {c}
      /\ c \in job.todo /\ job' = [job EXCEPT !.todo = @ \ {c}] /\ ForAll
  BY DEF RespawnAsSpectator, SpawnPlayer, bodies, players, nested, round
<1>f. /\ UNCHANGED <<dead, valid, ground, removable, corpses, conn, emptying, detach, destroying, clearing, fault>>
      /\ avatar' = [avatar EXCEPT ![c] = i] /\ veryDead' = veryDead \cup {c}
      /\ c \in job.todo /\ job' = [job EXCEPT !.todo = @ \ {c}] /\ ForAll
  BY <1>1
<1>a. i \in Ids \ live /\ live \subseteq Ids /\ live = Living(ent)
  BY <1>1 DEF Free, live, Living
<1>c. Rooted(ent, ent', i, "spectator", c)
  BY <1>1, <1>a, SpawnKeeps, KindsAre DEF Core, Spawned
<1>g. Grows /\ live' = live \cup {i} /\ i \notin live /\ i \in Ids
  BY LiveIsLiving, <1>a, <1>c DEF Rooted, Grows, Living
<1>d. /\ \A x \in live : /\ Kind(x)' = Kind(x) /\ Parent(x)' = Parent(x)
                        /\ Owner(x)' = Owner(x)
      /\ Kind(i)' = "spectator" /\ Parent(i)' = None /\ Owner(i)' = c
  BY <1>a, <1>c DEF Rooted, Kind, Parent, Owner
<1>v. /\ Actors' = Actors /\ Figures' = Figures \cup {i}
      /\ Given' = Given /\ i \notin Actors /\ i \notin Given /\ i \notin Figures
  BY <1>g, <1>d, OwnersAssumption DEF Actors, Figures, Given
<1>k. job.at \in {"ending", "starting"} /\ job' = [at |-> job.at, todo |-> job.todo \ {c}] /\ conn[c] = "in"
      /\ detach = Done /\ destroying = <<>> /\ clearing = <<>> /\ ~ InClear
  <2>1. job.at \in {"ending", "starting"}
    BY <1>f DEF ForAll
  <2>2. job # Idle /\ ~ InClear
    BY <2>1 DEF Idle, InClear
  <2>3. job' = [at |-> job.at, todo |-> job.todo \ {c}] /\ conn[c] = "in"
    BY <1>f DEF Core, Jobs
  <2> QED BY <2>1, <2>2, <2>3 DEF Core, Detached, Destroyed, Cleared
<1>l. job'.at = job.at /\ job'.todo = job.todo \ {c} /\ ForAll
  BY <1>f, <1>k
<1>r. Resting'
  BY <1>f, <1>k, <1>l DEF Resting, InClear
<1>2. Tree(ent)' /\ Order(ent)'
  BY <1>g DEF Grows
<1>3. Types'
  BY <1>f, <1>k, <1>l, <1>g, <1>d, <1>v DEF Core, Types
<1>4. Jobs'
  BY <1>f, <1>k, <1>l, <1>v, <1>g, LiveIsLiving DEF Core, Jobs, ForAll, Respawns, Idle, Grows, Actors
<1>5. Avatars'
  <2>1. avatar'[c] = i /\ i \in Figures' /\ ent'[i].owner = c
    BY <1>f, <1>k, <1>l, <1>d, <1>v DEF Core, Types, Owner
  <2>2. ASSUME NEW d \in Clients, d # c, avatar[d] \in Figures, Owner(avatar[d]) = d
        PROVE  avatar'[d] \in Figures' /\ ent'[avatar'[d]].owner = d
    BY <1>f, <1>k, <1>l, <1>d, <1>v, <2>2 DEF Core, Types, Figures, Owner
  <2>3. \A d \in Clients : d # c => avatar'[d] = avatar[d]
    BY <1>f, <1>k, <1>l DEF Core, Types
  <2>4. ASSUME NEW d \in Clients
        PROVE  /\ conn'[d] \in {"out", "done"} => avatar'[d] = None
               /\ \/ avatar'[d] = None
                  \/ job'.at = "actor" /\ d \in job'.todo
                  \/ avatar'[d] \in Figures' /\ ent'[avatar'[d]].owner = d
    BY <1>f, <1>k, <1>l, <1>l, <2>1, <2>2, <2>3 DEF Core, Types, Avatars
  <2> QED BY <2>4 DEF Avatars, Owner
<1>6. Bags'
  BY <1>f, <1>k, <1>l, <1>v, <1>g, LiveIsLiving DEF Core, Types, Bags, InClear, Grows, Actors
<1>7. Emptying'
  BY <1>f, <1>k, <1>l, <1>g, <1>r, EmptyingKeeps DEF ForAll
<1>8. Detached'
  BY <1>r, RestingKeeps
<1>9. Destroyed'
  BY <1>r, RestingKeeps
<1>10. Cleared'
  BY <1>r, RestingKeeps
<1> QED BY <1>2, <1>3, <1>4, <1>5, <1>6, <1>7, <1>8, <1>9, <1>10 DEF Core

LEMMA ReadyDeadKeeps ==
    ASSUME Core, NEW c \in Clients, ReadyDead(c)
    PROVE  Core'
<1>1. PICK i \in Ids :
      /\ UNCHANGED <<dead, valid, ground, conn, veryDead, job, emptying, detach, destroying, clearing, fault>>
      /\ Free(i) /\ ent' = [Bury(ent, avatar[c]) EXCEPT ![i] = New("spectator", None, c)]
      /\ avatar' = [avatar EXCEPT ![c] = i]
      /\ conn[c] = "in" /\ avatar[c] # None /\ Kind(avatar[c]) = "actor"
      /\ removable' = removable \cup (valid \cap {avatar[c]})
      /\ corpses' = corpses \cup {avatar[c]}
      /\ job = Idle /\ job.at = "idle" /\ job.todo = {} /\ ~ InClear /\ ~ ForAll
      /\ detach = Done /\ destroying = <<>> /\ clearing = <<>>
  BY BetweenIs DEF ReadyDead, InGame, Body, BuryBody, bodies, players, nested, round
<1>f. /\ UNCHANGED <<dead, valid, ground, conn, veryDead, job, emptying, detach, destroying, clearing, fault>>
      /\ avatar' = [avatar EXCEPT ![c] = i]
      /\ conn[c] = "in" /\ avatar[c] # None /\ Kind(avatar[c]) = "actor"
      /\ removable' = removable \cup (valid \cap {avatar[c]})
      /\ corpses' = corpses \cup {avatar[c]}
      /\ job = Idle /\ job.at = "idle" /\ job.todo = {} /\ ~ InClear /\ ~ ForAll
      /\ detach = Done /\ destroying = <<>> /\ clearing = <<>>
  BY <1>1
<1>a. i \in Ids \ live /\ live \subseteq Ids /\ live = Living(ent)
  BY <1>1 DEF Free, live, Living
<1>b. avatar[c] \in live
  BY <1>1 DEF Core, Types, Avatars, Jobs, Figures
<1>e. Buried(ent, Bury(ent, avatar[c]), avatar[c])
  BY <1>b, <1>a, BuriedKeeps DEF Core
<1>c. Rooted(Bury(ent, avatar[c]), ent', i, "spectator", c)
  <2>1. Tree(Bury(ent, avatar[c])) /\ Order(Bury(ent, avatar[c])) /\ i \in Ids \ Living(Bury(ent, avatar[c]))
    BY <1>a, <1>b, <1>e DEF Buried
  <2> QED BY <1>1, <2>1, SpawnKeeps, KindsAre DEF Spawned
<1>g. Grows /\ live' = live \cup {i} /\ i \notin live /\ i \in Ids
  BY LiveIsLiving, <1>a, <1>b, <1>e, <1>c DEF Buried, Rooted, Grows, Living
<1>d. /\ \A x \in live : /\ Kind(x)' = Kind(x) /\ Parent(x)' = Parent(x)
                        /\ Owner(x)' = IF x = avatar[c] THEN Server ELSE Owner(x)
      /\ Kind(i)' = "spectator" /\ Parent(i)' = None /\ Owner(i)' = c
  BY <1>a, <1>b, <1>e, <1>c DEF Buried, Rooted, Kind, Parent, Owner
<1>v. /\ Actors' = Actors /\ Figures' = Figures \cup {i}
      /\ Given' = Given \cup {avatar[c]} /\ i \notin Actors /\ i \notin Given /\ i \notin Figures
  BY <1>g, <1>d, <1>b, OwnersAssumption DEF Actors, Figures, Given
<1>r. Resting'
  BY <1>f DEF Resting, InClear
<1>2. Tree(ent)' /\ Order(ent)'
  BY <1>g DEF Grows
<1>3. Types'
  BY <1>f, <1>b, <1>g, <1>d, <1>v DEF Core, Types
<1>4. Jobs'
  BY <1>f, <1>b, <1>v, <1>g, LiveIsLiving DEF Core, Jobs, ForAll, Respawns, Idle, Grows, Actors
<1>5. Avatars'
  <2>1. avatar'[c] = i /\ i \in Figures' /\ ent'[i].owner = c /\ Owner(avatar[c]) = c
    BY <1>f, <1>d, <1>v DEF Core, Types, Avatars, Owner
  <2>2. ASSUME NEW d \in Clients, d # c, avatar[d] \in Figures, Owner(avatar[d]) = d
        PROVE  avatar'[d] \in Figures' /\ ent'[avatar'[d]].owner = d
    <3>1. avatar[d] # avatar[c] /\ avatar[d] \in live
      BY <2>1, <2>2 DEF Figures
    <3>2. avatar'[d] = avatar[d]
      BY <1>f, <2>2 DEF Core, Types
    <3> QED BY <1>d, <1>v, <2>2, <3>1, <3>2 DEF Owner
  <2>3. \A d \in Clients : d # c => avatar'[d] = avatar[d]
    BY <1>f DEF Core, Types
  <2>4. ASSUME NEW d \in Clients
        PROVE  /\ conn'[d] \in {"out", "done"} => avatar'[d] = None
               /\ \/ avatar'[d] = None
                  \/ job'.at = "actor" /\ d \in job'.todo
                  \/ avatar'[d] \in Figures' /\ ent'[avatar'[d]].owner = d
    BY <1>f, <2>1, <2>2, <2>3 DEF Core, Types, Avatars
  <2> QED BY <2>4 DEF Avatars, Owner
<1>6. Bags'
  BY <1>f, <1>b, <1>v, <1>g, LiveIsLiving DEF Core, Types, Bags, InClear, Grows, Actors
<1>7. Emptying'
  BY <1>f, <1>g, <1>r, EmptyingKeeps DEF ForAll
<1>8. Detached'
  BY <1>r, RestingKeeps
<1>9. Destroyed'
  BY <1>r, RestingKeeps
<1>10. Cleared'
  BY <1>r, RestingKeeps
<1> QED BY <1>2, <1>3, <1>4, <1>5, <1>6, <1>7, <1>8, <1>9, <1>10 DEF Core

LEMMA SelectSpectatorKeeps ==
    ASSUME Core, NEW c \in Clients, SelectSpectator(c)
    PROVE  Core'
<1>1. PICK i \in Ids :
      /\ UNCHANGED <<valid, ground, conn, job, emptying, detach, destroying, clearing, fault>>
      /\ Free(i) /\ ent' = [Bury(ent, avatar[c]) EXCEPT ![i] = New("spectator", None, c)]
      /\ avatar' = [avatar EXCEPT ![c] = i]
      /\ conn[c] = "in" /\ avatar[c] # None /\ Kind(avatar[c]) = "actor"
      /\ removable' = removable \cup (valid \cap {avatar[c]})
      /\ corpses' = corpses \cup {avatar[c]}
      /\ veryDead' = veryDead \cup {c}
      /\ dead' = dead \cup {x \in {avatar[c]} : Mortal(x)}
      /\ job = Idle /\ job.at = "idle" /\ job.todo = {} /\ ~ InClear /\ ~ ForAll
      /\ detach = Done /\ destroying = <<>> /\ clearing = <<>>
  BY BetweenIs DEF SelectSpectator, InGame, Body, BuryBody, KillPlayer, bodies, players, nested, round
<1>f. /\ UNCHANGED <<valid, ground, conn, job, emptying, detach, destroying, clearing, fault>>
      /\ avatar' = [avatar EXCEPT ![c] = i]
      /\ conn[c] = "in" /\ avatar[c] # None /\ Kind(avatar[c]) = "actor"
      /\ removable' = removable \cup (valid \cap {avatar[c]})
      /\ corpses' = corpses \cup {avatar[c]}
      /\ veryDead' = veryDead \cup {c}
      /\ dead' = dead \cup {x \in {avatar[c]} : Mortal(x)}
      /\ job = Idle /\ job.at = "idle" /\ job.todo = {} /\ ~ InClear /\ ~ ForAll
      /\ detach = Done /\ destroying = <<>> /\ clearing = <<>>
  BY <1>1
<1>a. i \in Ids \ live /\ live \subseteq Ids /\ live = Living(ent)
  BY <1>1 DEF Free, live, Living
<1>b. avatar[c] \in live
  BY <1>1 DEF Core, Types, Avatars, Jobs, Figures
<1>e. Buried(ent, Bury(ent, avatar[c]), avatar[c])
  BY <1>b, <1>a, BuriedKeeps DEF Core
<1>c. Rooted(Bury(ent, avatar[c]), ent', i, "spectator", c)
  <2>1. Tree(Bury(ent, avatar[c])) /\ Order(Bury(ent, avatar[c])) /\ i \in Ids \ Living(Bury(ent, avatar[c]))
    BY <1>a, <1>b, <1>e DEF Buried
  <2> QED BY <1>1, <2>1, SpawnKeeps, KindsAre DEF Spawned
<1>g. Grows /\ live' = live \cup {i} /\ i \notin live /\ i \in Ids
  BY LiveIsLiving, <1>a, <1>b, <1>e, <1>c DEF Buried, Rooted, Grows, Living
<1>d. /\ \A x \in live : /\ Kind(x)' = Kind(x) /\ Parent(x)' = Parent(x)
                        /\ Owner(x)' = IF x = avatar[c] THEN Server ELSE Owner(x)
      /\ Kind(i)' = "spectator" /\ Parent(i)' = None /\ Owner(i)' = c
  BY <1>a, <1>b, <1>e, <1>c DEF Buried, Rooted, Kind, Parent, Owner
<1>v. /\ Actors' = Actors /\ Figures' = Figures \cup {i}
      /\ Given' = Given \cup {avatar[c]} /\ i \notin Actors /\ i \notin Given /\ i \notin Figures
  BY <1>g, <1>d, <1>b, OwnersAssumption DEF Actors, Figures, Given
<1>r. Resting'
  BY <1>f DEF Resting, InClear
<1>2. Tree(ent)' /\ Order(ent)'
  BY <1>g DEF Grows
<1>3. Types'
  <2>1. dead' \subseteq Actors' /\ removable' \subseteq Actors' \cap Given'
    BY <1>f, <1>b, <1>v DEF Core, Types, Actors
  <2>2. corpses' \subseteq Figures' \cap Given'
    BY <1>f, <1>b, <1>v DEF Core, Types, Figures
  <2> QED BY <1>f, <1>b, <1>g, <1>d, <1>v, <2>1, <2>2 DEF Core, Types
<1>4. Jobs'
  BY <1>f, <1>b, <1>v, <1>g, LiveIsLiving DEF Core, Jobs, ForAll, Respawns, Idle, Grows, Actors
<1>5. Avatars'
  <2>1. avatar'[c] = i /\ i \in Figures' /\ ent'[i].owner = c /\ Owner(avatar[c]) = c
    BY <1>f, <1>d, <1>v DEF Core, Types, Avatars, Owner
  <2>2. ASSUME NEW d \in Clients, d # c, avatar[d] \in Figures, Owner(avatar[d]) = d
        PROVE  avatar'[d] \in Figures' /\ ent'[avatar'[d]].owner = d
    <3>1. avatar[d] # avatar[c] /\ avatar[d] \in live
      BY <2>1, <2>2 DEF Figures
    <3>2. avatar'[d] = avatar[d]
      BY <1>f, <2>2 DEF Core, Types
    <3> QED BY <1>d, <1>v, <2>2, <3>1, <3>2 DEF Owner
  <2>3. \A d \in Clients : d # c => avatar'[d] = avatar[d]
    BY <1>f DEF Core, Types
  <2>4. ASSUME NEW d \in Clients
        PROVE  /\ conn'[d] \in {"out", "done"} => avatar'[d] = None
               /\ \/ avatar'[d] = None
                  \/ job'.at = "actor" /\ d \in job'.todo
                  \/ avatar'[d] \in Figures' /\ ent'[avatar'[d]].owner = d
    BY <1>f, <2>1, <2>2, <2>3 DEF Core, Types, Avatars
  <2> QED BY <2>4 DEF Avatars, Owner
<1>6. Bags'
  BY <1>f, <1>b, <1>v, <1>g, LiveIsLiving DEF Core, Types, Bags, InClear, Grows, Actors
<1>7. Emptying'
  BY <1>f, <1>g, <1>r, EmptyingKeeps DEF ForAll
<1>8. Detached'
  BY <1>r, RestingKeeps
<1>9. Destroyed'
  BY <1>r, RestingKeeps
<1>10. Cleared'
  BY <1>r, RestingKeeps
<1> QED BY <1>2, <1>3, <1>4, <1>5, <1>6, <1>7, <1>8, <1>9, <1>10 DEF Core

-----------------------------------------------------------------------------
(* Entities that change hands. *)

(* F is E with e handed to p. *)
Handed(E, F, e, p) ==
    /\ Tree(F) /\ Order(F) /\ Living(F) = Living(E)
    /\ \A x \in Living(E) : /\ F[x].kind = E[x].kind /\ F[x].owner = E[x].owner
                            /\ F[x].parent = IF x = e THEN p ELSE E[x].parent
    /\ \A a \in Living(E) : /\ Bagged(E, a) => Bagged(F, a)
                            /\ a # p => (Childless(E, a) => Childless(F, a))
    /\ E[e].kind = "bag" => Bagged(F, p)

LEMMA HandKeeps ==
    ASSUME NEW E, Tree(E), Order(E), NEW p \in Living(E), NEW e \in Living(E),
           E[e].parent = None,
           \/ E[e].kind \in Items /\ E[p].kind \in {"actor", "bag"}
           \/ E[e].kind = "bag" /\ E[p].kind = "actor" /\ Childless(E, p),
           E[e].kind = "gun" /\ E[p].kind = "actor" => \A x \in Ids : ~ GunOf(E, x, p)
    PROVE  Handed(E, Attach(E, p, e), e, p)
<1> DEFINE F == Attach(E, p, e)
<1>1. e # p /\ (E[e].kind = "bag" => Childless(E, p))
  BY KindsAre
<1>2. Tree(F) /\ Hung(E, F, e, p) /\ Living(F) = Living(E)
  BY <1>1, AttachKeeps
<1> HIDE DEF F
<1>3. Living(E) \subseteq Ids /\ p # None /\ \A x \in Living(E) : x # None
  BY NoneAssumption DEF Living
<1>4. \A x \in Living(E) : /\ F[x].kind = E[x].kind /\ F[x].owner = E[x].owner
                           /\ F[x].parent = IF x = e THEN p ELSE E[x].parent
  BY <1>2, <1>3 DEF Hung
<1>5. \A x \in Living(E) : E[x].parent # None => E[x].parent \in Living(E)
  BY DEF Tree, Up
<1>6. ASSUME NEW x \in Living(F) PROVE Held(F, x) /\ Owned(F, x)
  <2>1. x \in Living(E) /\ Held(E, x) /\ Owned(E, x)
    BY <1>2 DEF Order
  <2>2. CASE x = e
    BY <1>4, <2>1, <2>2 DEF Held, Owned
  <2>3. CASE x # e
    BY <1>4, <1>5, <2>1, <2>3 DEF Held, Owned
  <2> QED BY <2>2, <2>3
<1>7. ASSUME NEW a \in Living(F), F[a].kind = "actor", NEW x \in Ids, NEW y \in Ids,
             GunOf(F, x, a), GunOf(F, y, a)
      PROVE  x = y
  <2>1. /\ a \in Living(E) /\ E[a].kind = "actor" /\ x \in Living(E) /\ y \in Living(E)
        /\ E[x].kind = "gun" /\ E[y].kind = "gun"
        /\ x = e \/ E[x].parent = a
        /\ y = e \/ E[y].parent = a
    BY <1>2, <1>4, <1>7 DEF GunOf
  <2>2. x = e \/ y = e => a = p
    BY <1>4, <1>7, <2>1 DEF GunOf
  <2>3. CASE a = p /\ (x = e \/ y = e)
    BY <2>1, <2>3 DEF GunOf
  <2>4. CASE x # e /\ y # e
    BY <2>1, <2>4 DEF Order, GunOf
  <2> QED BY <2>2, <2>3, <2>4
<1>8. Order(F)
  BY <1>6, <1>7 DEF Order
<1>9. ASSUME NEW a \in Living(E)
      PROVE  /\ Bagged(E, a) => Bagged(F, a)
             /\ a # p => (Childless(E, a) => Childless(F, a))
  BY <1>2, <1>3, <1>4 DEF Bagged, Childless
<1>10. E[e].kind = "bag" => Bagged(F, p)
  BY <1>2, <1>4 DEF Bagged
<1> QED BY <1>2, <1>4, <1>8, <1>9, <1>10 DEF Handed, F

(* F is E with e taken from whoever has it. *)
Loosened(E, F, e) ==
    /\ Tree(F) /\ Order(F) /\ Living(F) = Living(E)
    /\ \A x \in Living(E) : /\ F[x].kind = E[x].kind /\ F[x].owner = E[x].owner
                            /\ F[x].parent = IF x = e THEN None ELSE E[x].parent
    /\ \A a \in Living(E) : /\ E[e].kind # "bag" => (Bagged(E, a) => Bagged(F, a))
                            /\ Childless(E, a) => Childless(F, a)

LEMMA LooseKeeps ==
    ASSUME NEW E, Tree(E), Order(E), NEW p \in Living(E), NEW e \in Living(E),
           E[e].parent = p
    PROVE  Loosened(E, Cut(E, p, e), e)
<1> DEFINE F == Cut(E, p, e)
<1>0. Living(E) \subseteq Ids /\ \A x \in Living(E) : x # None
  BY NoneAssumption DEF Living
<1>1. e # p
  BY <1>0, KindsAre DEF Order, Held
<1>2. Tree(F) /\ Hung(E, F, e, None) /\ Living(F) = Living(E)
  BY <1>1, CutKeeps
<1> HIDE DEF F
<1>4. \A x \in Living(E) : /\ F[x].kind = E[x].kind /\ F[x].owner = E[x].owner
                           /\ F[x].parent = IF x = e THEN None ELSE E[x].parent
  BY <1>0, <1>2 DEF Hung
<1>5. \A x \in Living(E) : E[x].parent # None => E[x].parent \in Living(E)
  BY DEF Tree, Up
<1>6. ASSUME NEW x \in Living(F) PROVE Held(F, x) /\ Owned(F, x)
  <2>1. x \in Living(E) /\ Held(E, x) /\ Owned(E, x)
    BY <1>2 DEF Order
  <2> QED BY <1>4, <1>5, <2>1 DEF Held, Owned
<1>7. ASSUME NEW a \in Living(F), F[a].kind = "actor", NEW x \in Ids, NEW y \in Ids,
             GunOf(F, x, a), GunOf(F, y, a)
      PROVE  x = y
  <2>1. /\ a \in Living(E) /\ E[a].kind = "actor" /\ GunOf(E, x, a) /\ GunOf(E, y, a)
    BY <1>0, <1>2, <1>4, <1>7 DEF GunOf
  <2> QED BY <2>1 DEF Order
<1>8. Order(F)
  BY <1>6, <1>7 DEF Order
<1>9. ASSUME NEW a \in Living(E)
      PROVE  /\ E[e].kind # "bag" => (Bagged(E, a) => Bagged(F, a))
             /\ Childless(E, a) => Childless(F, a)
  BY <1>0, <1>2, <1>4 DEF Bagged, Childless
<1> QED BY <1>2, <1>4, <1>8, <1>9 DEF Loosened, F

(* From one to another. *)
Passed(E, F, e, p) ==
    /\ Tree(F) /\ Order(F) /\ Living(F) = Living(E)
    /\ \A x \in Living(E) : /\ F[x].kind = E[x].kind /\ F[x].owner = E[x].owner
                            /\ F[x].parent = IF x = e THEN p ELSE E[x].parent
    /\ \A a \in Living(E) : /\ Bagged(E, a) => Bagged(F, a)
                            /\ a # p => (Childless(E, a) => Childless(F, a))

LEMMA TransferKeeps ==
    ASSUME NEW E, Tree(E), Order(E), NEW q \in Living(E), NEW e \in Living(E),
           E[e].parent = q, NEW p \in Living(E), p # q,
           E[e].kind \in Items /\ E[p].kind \in {"actor", "bag"},
           E[e].kind = "gun" /\ E[p].kind = "actor" => \A x \in Ids : ~ GunOf(E, x, p)
    PROVE  Passed(E, Transfer(E, e, q, p), e, p)
<1> DEFINE D == Cut(E, q, e)
           F == Attach(D, p, e)
<1>1. Loosened(E, D, e)
  BY LooseKeeps
<1> HIDE DEF D
<1>2. /\ Tree(D) /\ Order(D) /\ p \in Living(D) /\ e \in Living(D) /\ D[e].parent = None
      /\ D[e].kind = E[e].kind /\ D[p].kind = E[p].kind
  BY <1>1 DEF Loosened
<1>3. D[e].kind = "gun" /\ D[p].kind = "actor" => \A x \in Ids : ~ GunOf(D, x, p)
  <2>1. p # None
    BY NoneAssumption DEF Living
  <2> QED BY <1>1, <1>2, <2>1 DEF Loosened, GunOf
<1>4. Handed(D, F, e, p)
  BY <1>2, <1>3, HandKeeps
<1> HIDE DEF F
<1>5. E[e].kind # "bag"
  BY KindsAre
<1>6. Passed(E, F, e, p)
  BY <1>1, <1>4, <1>5 DEF Loosened, Handed, Passed
<1> QED BY <1>6 DEF F, D, Transfer

(* F is E without e. *)
Removed(E, F, e) ==
    /\ Tree(F) /\ Order(F) /\ Living(F) = Living(E) \ {e}
    /\ \A x \in Living(F) : /\ F[x].kind = E[x].kind /\ F[x].owner = E[x].owner
                            /\ F[x].parent = E[x].parent
    /\ \A a \in Living(F) : /\ Bagged(E, a) => Bagged(F, a)
                            /\ Childless(E, a) => Childless(F, a)

LEMMA RemoveKeeps ==
    ASSUME NEW E, Tree(E), Order(E), NEW e \in Living(E), E[e].parent = None, Childless(E, e)
    PROVE  Removed(E, [E EXCEPT ![e] = Gone], e)
<1> DEFINE F == [E EXCEPT ![e] = Gone]
<1>0. Living(E) \subseteq Ids /\ e # None /\ E[e].children = <<>>
  BY NoneAssumption, ChildrenAre DEF Living
<1>1. Tree(F) /\ Recast(E, F, e, "none", Nobody) /\ Living(F) = Living(E) \ {e}
  BY <1>0, GoneKeeps
<1> HIDE DEF F
<1>2. \A x \in Living(F) : /\ x \in Living(E) /\ x # e
                           /\ F[x].kind = E[x].kind /\ F[x].owner = E[x].owner
                           /\ F[x].parent = E[x].parent
  BY <1>0, <1>1 DEF Recast
<1>3. \A x \in Living(F) : E[x].parent # None => E[x].parent \in Living(F)
  BY <1>1, <1>2 DEF Tree, Up
<1>4. ASSUME NEW x \in Living(F) PROVE Held(F, x) /\ Owned(F, x)
  <2>1. Held(E, x) /\ Owned(E, x)
    BY <1>2 DEF Order
  <2> QED BY <1>2, <1>3, <2>1 DEF Held, Owned
<1>5. Order(F)
  BY <1>2, <1>4 DEF Order, GunOf
<1>6. ASSUME NEW a \in Living(F)
      PROVE  /\ Bagged(E, a) => Bagged(F, a)
             /\ Childless(E, a) => Childless(F, a)
  BY <1>0, <1>1, <1>2, NoneAssumption DEF Bagged, Childless
<1> QED BY <1>1, <1>2, <1>5, <1>6 DEF Removed, F

-----------------------------------------------------------------------------
(* The steps that move items about. *)

(* Items change hands, and nothing else happens to the registry. *)
Shuffled ==
    /\ Tree(ent)' /\ Order(ent)' /\ Living(ent') = Living(ent)
    /\ \A x \in Living(ent) : /\ ent'[x].kind = ent[x].kind /\ ent'[x].owner = ent[x].owner
                              /\ ent[x].kind = "bag" => ent'[x].parent = ent[x].parent
                              /\ Bagged(ent, x) => Bagged(ent', x)
    /\ \A a \in Actors : (a \in dead \/ a \notin valid) /\ Childless(ent, a) => Childless(ent', a)

LEMMA ShuffledIs ==
    ASSUME Shuffled
    PROVE  /\ live' = live /\ Actors' = Actors /\ Figures' = Figures /\ Given' = Given
           /\ \A x \in live : /\ ent'[x].kind = ent[x].kind /\ ent'[x].owner = ent[x].owner
                              /\ ent[x].kind = "bag" => ent'[x].parent = ent[x].parent
                              /\ Bagged(ent, x) => Bagged(ent', x)
           /\ \A a \in Actors : (a \in dead \/ a \notin valid) /\ Childless(ent, a) => Childless(ent', a)
           /\ Tree(ent)' /\ Order(ent)'
<1>1. /\ Living(ent') = Living(ent)
      /\ \A x \in Living(ent) :
            /\ ent'[x].kind = ent[x].kind /\ ent'[x].owner = ent[x].owner
            /\ ent[x].kind = "bag" => ent'[x].parent = ent[x].parent
            /\ Bagged(ent, x) => Bagged(ent', x)
  BY DEF Shuffled
<1>2. live' = live
  BY <1>1, LiveIsLiving
<1>3. Actors' = Actors /\ Figures' = Figures /\ Given' = Given
  <2>1. \A x \in live : ent'[x].kind = ent[x].kind /\ ent'[x].owner = ent[x].owner
    <3> TAKE x \in live
    <3>1. x \in Living(ent)
      BY LiveIsLiving
    <3> QED BY <1>1, <3>1
  <2>2. Actors' = Actors
    BY <1>2, <2>1 DEF Actors, Kind
  <2>3. Figures' = Figures
    BY <1>2, <2>1 DEF Figures, Kind
  <2>4. Given' = Given
    BY <1>2, <2>1 DEF Given, Owner
  <2> QED BY <2>2, <2>3, <2>4
<1> QED BY <1>1, <1>2, <1>3, LiveIsLiving DEF Shuffled

LEMMA ShuffleKeeps ==
    ASSUME Core, Shuffled,
           UNCHANGED <<dead, valid, ground, removable, corpses, avatar, conn, veryDead, fault>>,
           job' = job \/ (InClear /\ InClear' /\ job' = [job EXCEPT !.at = "entering"])
    PROVE  Tree(ent)' /\ Order(ent)' /\ Types' /\ Jobs' /\ Avatars' /\ Bags'
<1>1. /\ live' = live /\ Actors' = Actors /\ Figures' = Figures /\ Given' = Given
      /\ \A x \in live : /\ ent'[x].kind = ent[x].kind /\ ent'[x].owner = ent[x].owner
                         /\ ent[x].kind = "bag" => ent'[x].parent = ent[x].parent
                         /\ Bagged(ent, x) => Bagged(ent', x)
      /\ \A a \in Actors : (a \in dead \/ a \notin valid) /\ Childless(ent, a) => Childless(ent', a)
      /\ Tree(ent)' /\ Order(ent)'
  BY ShuffledIs
<1>2. \A b \in ground : b \in live /\ (ent'[b].kind = "bag" => ent'[b].parent = None)
  BY <1>1 DEF Core, Types, Kind, Parent
<1>3. Types'
  BY <1>1, <1>2 DEF Core, Types, Kind, Parent
<1>j. job' = job \/ (InClear /\ job'.at = "entering" /\ job'.todo = job.todo /\ job' = [at |-> "entering", todo |-> job.todo])
  BY DEF Core, Jobs
<1>4. Jobs'
  <2>1. CASE job' = job
    BY <1>1, <2>1 DEF Core, Jobs, ForAll
  <2>2. CASE job' # job
    BY <1>1, <1>j, <2>2 DEF Core, Jobs, ForAll, InClear, Respawns
  <2> QED BY <2>1, <2>2
<1>5. Avatars'
  <2>1. \A c \in Clients : avatar[c] \in Figures => ent'[avatar[c]].owner = ent[avatar[c]].owner
    BY <1>1 DEF Figures
  <2> QED BY <1>1, <1>j, <2>1 DEF Core, Avatars, Owner, InClear
<1>6. Bags'
  <2>1. \A a \in Actors : Bagged(ent, a) => Bagged(ent', a)
    BY <1>1 DEF Actors
  <2>2. dead \subseteq Actors
    BY DEF Core, Types
  <2> QED BY <1>1, <1>j, <2>1, <2>2 DEF Core, Bags, InClear
<1> QED BY <1>1, <1>3, <1>4, <1>5, <1>6

(* OnTouch: a gun only where there is none. *)
LEMMA AcceptsItem ==
    ASSUME Core, NEW p \in live, NEW e \in live, Accepts(p, e)
    PROVE  /\ ent[p].kind = "actor" /\ ent[e].kind \in Items
           /\ ent[e].kind = "gun" => \A x \in Ids : ~ GunOf(ent, x, p)
<1>1. ent[e].kind \in Kinds
  BY EntityFields, LiveIsLiving DEF Core, Tree
<1>2. ent[e].kind = "gun" => Guns(p) = <<>>
  BY DEF Accepts, Kind
<1>3. Guns(p) = <<>> <=> \A x \in Ids : ~ GunOf(ent, x, p)
  BY GunsAre DEF Core
<1> QED BY <1>1, <1>2, <1>3 DEF Accepts, Kind, Kinds

LEMMA TakeKeeps ==
    ASSUME Core, NEW c \in Clients, NEW p \in Ids, NEW e \in Ids, Take(c, p, e)
    PROVE  Core'
<1>1. /\ UNCHANGED <<bodies, players, job, nested, fault>> /\ ent' = Attach(ent, p, e)
      /\ p \in live /\ e \in live /\ p \in valid \ dead /\ Parent(e) = None /\ Accepts(p, e)
      /\ ~ InClear /\ ~ ForAll
      /\ emptying = Done /\ detach = Done /\ destroying = <<>> /\ clearing = <<>>
  BY NetworkIs DEF Take, MayTake
<1>2. /\ ent[p].kind = "actor" /\ ent[e].kind \in Items
      /\ ent[e].kind = "gun" => \A x \in Ids : ~ GunOf(ent, x, p)
  BY <1>1, AcceptsItem
<1>3. Handed(ent, ent', e, p)
  BY <1>1, <1>2, HandKeeps, LiveIsLiving DEF Core, Parent
<1>4. Shuffled
  BY <1>1, <1>2, <1>3, LiveIsLiving, KindsAre DEF Shuffled, Handed, Actors
<1>5. Tree(ent)' /\ Order(ent)' /\ Types' /\ Jobs' /\ Avatars' /\ Bags'
  BY <1>1, <1>4, ShuffleKeeps DEF bodies, players
<1>6. Resting' /\ emptying' = Done
  BY <1>1 DEF Resting, InClear, nested
<1> QED BY <1>5, <1>6, RestingKeeps DEF Core, Emptying

LEMMA RejectKeeps ==
    ASSUME Core, NEW p \in Ids, NEW e \in Ids, Reject(p, e)
    PROVE  Core'
<1>1. /\ UNCHANGED <<bodies, players, job, nested, fault>> /\ ent' = Cut(ent, p, e)
      /\ p \in live /\ e \in live /\ Kind(e) \in Items /\ e \in Range(Children(p))
      /\ ~ InClear /\ ~ ForAll
      /\ emptying = Done /\ detach = Done /\ destroying = <<>> /\ clearing = <<>>
  BY NetworkIs DEF Reject
<1>2. ent[e].parent = p /\ ent[e].kind # "bag"
  BY <1>1, InRange, KindsAre DEF Parent, Kind
<1>3. Loosened(ent, ent', e)
  BY <1>1, <1>2, LooseKeeps, LiveIsLiving DEF Core
<1>4. Shuffled
  BY <1>2, <1>3, LiveIsLiving DEF Shuffled, Loosened, Actors
<1>5. Tree(ent)' /\ Order(ent)' /\ Types' /\ Jobs' /\ Avatars' /\ Bags'
  BY <1>1, <1>4, ShuffleKeeps DEF bodies, players
<1>6. Resting' /\ emptying' = Done
  BY <1>1 DEF Resting, InClear, nested
<1> QED BY <1>5, <1>6, RestingKeeps DEF Core, Emptying

LEMMA TakeForcedKeeps ==
    ASSUME Core, NEW c \in Clients, NEW p \in Ids, NEW e \in Ids, TakeForced(c, p, e)
    PROVE  Core'
<1> DEFINE g == Head(Guns(p))
           E == Cut(ent, p, g)
<1>1. /\ UNCHANGED <<bodies, players, job, nested, fault>>
      /\ ent' = IF Len(Guns(p)) = 1 THEN Attach(E, p, e) ELSE E
      /\ p \in live /\ e \in live /\ p \in valid \ dead /\ Parent(e) = None
      /\ Kind(p) = "actor" /\ Kind(e) = "gun" /\ Guns(p) # <<>>
      /\ ~ InClear /\ ~ ForAll
      /\ emptying = Done /\ detach = Done /\ destroying = <<>> /\ clearing = <<>>
  BY NetworkIs DEF TakeForced, MayTake
<1>2. /\ GunOf(ent, g, p) /\ Len(Guns(p)) = 1
      /\ \A x \in Ids : GunOf(ent, x, p) => x = g
  <2>1. /\ Guns(p) \in Seq(Ids) /\ Len(Guns(p)) <= 1
        /\ \A n \in DOMAIN Guns(p) : GunOf(ent, Guns(p)[n], p)
        /\ \A x \in Ids : GunOf(ent, x, p) => \E n \in DOMAIN Guns(p) : Guns(p)[n] = x
    BY <1>1, GunsAre DEF Core
  <2>2. Len(Guns(p)) = 1 /\ DOMAIN Guns(p) = {1} /\ g = Guns(p)[1]
    <3> DEFINE s == Guns(p)
    <3>1. s \in Seq(Ids) /\ Len(s) <= 1 /\ s # <<>>
      BY <1>1, <2>1
    <3> HIDE DEF s
    <3>2. Len(s) = 1
      <4>1. 1 \in DOMAIN s /\ Len(s) \in Nat /\ DOMAIN s = 1 .. Len(s)
        BY <3>1
      <4>2. 1 <= Len(s)
        BY <4>1
      <4> QED BY <3>1, <4>1, <4>2
    <3>3. DOMAIN s = {1} /\ Head(s) = s[1]
      BY <3>1, <3>2
    <3> QED BY <3>2, <3>3 DEF s
  <2> QED BY <2>1, <2>2
<1>3. g \in Living(ent) /\ ent[g].kind = "gun" /\ ent[g].parent = p /\ p # None
  BY <1>1, <1>2, NoneAssumption, LiveIsLiving DEF GunOf
<1> HIDE DEF g
<1>4. Loosened(ent, E, g)
  BY <1>1, <1>3, LooseKeeps, LiveIsLiving DEF Core
<1> HIDE DEF E
<1>5. e \in Living(E) /\ p \in Living(E) /\ E[e].parent = None /\ E[e].kind = "gun" /\ E[p].kind = "actor"
  BY <1>1, <1>4, LiveIsLiving DEF Loosened, Kind, Parent
<1>6. \A x \in Ids : ~ GunOf(E, x, p)
  BY <1>2, <1>3, <1>4 DEF Loosened, GunOf
<1>7. "gun" \in Items
  <2>1. ent[e].kind \in Kinds /\ ent[e].kind = "gun"
    BY <1>1, EntityFields, LiveIsLiving DEF Core, Tree, Kind
  <2> QED BY <2>1 DEF Kinds
<1>8. Handed(E, ent', e, p)
  BY <1>1, <1>2, <1>4, <1>5, <1>6, <1>7, HandKeeps DEF Loosened
<1>9. ent[e].parent = None /\ ent[e].kind = "gun"
  BY <1>1 DEF Parent, Kind
<1>10. Shuffled
  BY <1>1, <1>3, <1>4, <1>8, <1>9, LiveIsLiving DEF Shuffled, Loosened, Handed, Actors
<1>11. Tree(ent)' /\ Order(ent)' /\ Types' /\ Jobs' /\ Avatars' /\ Bags'
  BY <1>1, <1>10, ShuffleKeeps DEF bodies, players
<1>12. Resting' /\ emptying' = Done
  BY <1>1 DEF Resting, InClear, nested
<1> QED BY <1>11, <1>12, RestingKeeps DEF Core, Emptying

LEMMA MoveFromBagKeeps ==
    ASSUME Core, MoveFromBag
    PROVE  Core'
<1>1. /\ UNCHANGED <<bodies, players, job, nested>> /\ emptying # Done
  BY DEF MoveFromBag
<1>2. PICK p \in Actors \cap valid, b \in live :
         emptying = <<p, b>> /\ Bagged(ent, p) /\ Kind(b) = "bag" /\ Parent(b) = None
  BY <1>1 DEF Core, Emptying
<1> DEFINE e == Last(Children(b))
<1>3. /\ Children(b) # <<>>
      /\ IF Parent(e) = b
         THEN /\ ent' = IF Accepts(p, e) THEN Transfer(ent, e, b, p) ELSE Cut(ent, b, e)
              /\ UNCHANGED fault
         ELSE fault' = "transfer" /\ UNCHANGED ent
  BY <1>2 DEF MoveFromBag
<1>4. e \in live /\ Parent(e) = b
  BY <1>2, <1>3, InRange
<1> HIDE DEF e
<1>5. /\ fault' = fault /\ p \in live /\ Kind(p) = "actor" /\ p # b
      /\ ent' = IF Accepts(p, e) THEN Transfer(ent, e, b, p) ELSE Cut(ent, b, e)
  BY <1>2, <1>3, <1>4 DEF Actors
<1>6. ent[e].kind # "bag" /\ ent[e].parent = b
  BY <1>2, <1>4, NoneAssumption, KindsAre, LiveIsLiving DEF Core, Order, Held, Kind, Parent
<1>7. Shuffled
  <2>1. CASE Accepts(p, e)
    <3>1. /\ ent[p].kind = "actor" /\ ent[e].kind \in Items
          /\ ent[e].kind = "gun" => \A x \in Ids : ~ GunOf(ent, x, p)
      BY <1>4, <1>5, <2>1, AcceptsItem
    <3>2. Passed(ent, ent', e, p)
      BY <1>2, <1>4, <1>5, <1>6, <2>1, <3>1, TransferKeeps, LiveIsLiving DEF Core
    <3>3. ~ Childless(ent, p)
      BY <1>2 DEF Bagged, Childless
    <3> QED BY <1>6, <3>2, <3>3, LiveIsLiving DEF Shuffled, Passed, Actors
  <2>2. CASE ~ Accepts(p, e)
    <3>1. Loosened(ent, ent', e)
      BY <1>2, <1>4, <1>5, <1>6, <2>2, LooseKeeps, LiveIsLiving DEF Core
    <3> QED BY <1>6, <3>1, LiveIsLiving DEF Shuffled, Loosened, Actors
  <2> QED BY <2>1, <2>2
<1>8. Tree(ent)' /\ Order(ent)' /\ Types' /\ Jobs' /\ Avatars' /\ Bags'
  BY <1>1, <1>5, <1>7, ShuffleKeeps DEF bodies, players
<1>9. emptying' = emptying /\ detach' = Done /\ destroying' = <<>> /\ ~ InClear' /\ ~ ForAll'
  BY <1>1 DEF Core, Emptying, nested, InClear, ForAll
<1>10. Resting'
  BY <1>1, <1>9 DEF Resting, Core, Cleared, nested, InClear
<1>11. Emptying'
  <2>1. p \in Actors' /\ p \in valid' /\ b \in live' /\ Bagged(ent', p)
    BY <1>1, <1>2, <1>5, <1>7, ShuffledIs DEF bodies
  <2>2. Kind(b)' = "bag" /\ Parent(b)' = None
    BY <1>2, <1>7, ShuffledIs DEF Kind, Parent
  <2> QED BY <1>2, <1>9, <2>1, <2>2 DEF Emptying
<1> QED BY <1>8, <1>10, <1>11, RestingKeeps DEF Core

-----------------------------------------------------------------------------
(* The steps of OnDetach, and SLS_Clear. *)

LEMMA DetachIs ==
    ASSUME Core, detach # Done
    PROVE  /\ emptying = Done /\ destroying = <<>> /\ (InClear \/ job = Idle)
           /\ Moving(ent, detach) /\ (~ InClear => detach.from \in dead)
           /\ detach.from \in live /\ detach.bag \in live /\ detach.bag # detach.from
           /\ Parent(detach.bag) = detach.from /\ detach.from # None
           /\ detach.from \in Actors /\ detach.bag \notin Actors
BY LiveIsLiving, NoneAssumption DEF Core, Detached, Moving, Actors, Kind, Parent

(* The entities in clearing have no parent: what is not a root is not there. *)
LEMMA ClearedKeeps ==
    ASSUME Core, clearing' = clearing, live' = live, corpses' = corpses,
           emptying' = emptying, destroying' = destroying,
           job' = job, NEW e, Parent(e) # None,
           \A x \in live : x # e => ent'[x].parent = ent[x].parent
    PROVE  Cleared'
<1>1. \A m \in DOMAIN clearing : clearing[m] \in live /\ Parent(clearing[m]) = None
  BY DEF Core, Cleared
<1>2. \A m \in DOMAIN clearing : ent'[clearing[m]].parent = None
  BY <1>1 DEF Parent
<1> QED BY <1>2 DEF Core, Cleared, InClear, Parent

LEMMA DetachMoveKeeps ==
    ASSUME Core, DetachMove
    PROVE  Core'
<1> DEFINE e == Head(detach.move)
           p == detach.from
           b == detach.bag
           m == detach.move
<1>1. /\ UNCHANGED <<bodies, players, job, emptying, destroying, clearing>>
      /\ detach # Done /\ m # <<>>
      /\ IF Parent(e) = p
         THEN /\ ent' = Transfer(ent, e, p, b)
              /\ detach' = [detach EXCEPT !.move = Tail(@)]
              /\ UNCHANGED fault
         ELSE fault' = "transfer" /\ UNCHANGED <<ent, detach>>
  BY DEF DetachMove
<1>2. /\ emptying = Done /\ destroying = <<>> /\ (InClear \/ job = Idle)
      /\ Moving(ent, detach) /\ (~ InClear => p \in dead)
      /\ p \in live /\ b \in live /\ b # p /\ Parent(b) = p /\ p # None
      /\ p \in Actors /\ b \notin Actors
  BY <1>1, DetachIs
<1>3. /\ detach \in Detachment /\ m \in Seq(Ids) /\ Distinct(m)
      /\ \A k \in DOMAIN m : /\ m[k] \in live /\ ent[m[k]].kind \in Items
                             /\ ent[m[k]].parent = p /\ m[k] # detach.drop
      /\ ent[p].kind = "actor" /\ ent[b].kind = "bag" /\ ent[b].parent = p
  BY <1>2, LiveIsLiving DEF Moving, Detachment
<1>4. /\ 1 \in DOMAIN m /\ e = m[1]
      /\ Tail(m) \in Seq(Ids) /\ Distinct(Tail(m))
      /\ \A k \in DOMAIN Tail(m) : Tail(m)[k] # e /\ \E l \in DOMAIN m : m[l] = Tail(m)[k]
      /\ \A l \in DOMAIN m : m[l] # e => \E k \in DOMAIN Tail(m) : Tail(m)[k] = m[l]
  BY <1>1, <1>3, WithoutHead
<1>5. e \in live /\ ent[e].kind \in Items /\ ent[e].parent = p /\ e # detach.drop /\ Parent(e) = p
  BY <1>3, <1>4 DEF Parent
<1>6. /\ ent' = Transfer(ent, e, p, b) /\ fault' = fault
      /\ detach' = [detach EXCEPT !.move = Tail(m)]
  BY <1>1, <1>5
<1>7. /\ detach' \in Detachment /\ detach'.from = p /\ detach'.bag = b
      /\ detach'.drop = detach.drop /\ detach'.move = Tail(m)
  BY <1>3, <1>4, <1>6 DEF Detachment
<1> HIDE DEF e, m, p, b
<1>8. Passed(ent, ent', e, b)
  BY <1>2, <1>3, <1>5, <1>6, TransferKeeps, LiveIsLiving DEF Core
<1>9. e # b /\ ent[e].kind # "bag"
  BY <1>3, <1>5, KindsAre
<1>10. Shuffled
  BY <1>2, <1>8, <1>9, LiveIsLiving DEF Shuffled, Passed, Actors, Kind
<1>11. Tree(ent)' /\ Order(ent)' /\ Types' /\ Jobs' /\ Avatars' /\ Bags'
  BY <1>1, <1>6, <1>10, ShuffleKeeps DEF bodies, players
<1>12. live' = live /\ \A x \in live : ent'[x].kind = ent[x].kind
                          /\ ent'[x].parent = IF x = e THEN b ELSE ent[x].parent
  BY <1>8, LiveIsLiving DEF Passed
<1>13. Moving(ent', detach')
  <2>1. \A k \in DOMAIN Tail(m) : /\ Tail(m)[k] \in live /\ ent'[Tail(m)[k]].kind \in Items
                                  /\ ent'[Tail(m)[k]].parent = p /\ Tail(m)[k] # detach.drop
    <3> TAKE k \in DOMAIN Tail(m)
    <3>1. PICK l \in DOMAIN m : m[l] = Tail(m)[k]
      BY <1>4
    <3>2. Tail(m)[k] # e
      BY <1>4
    <3>3. m[l] \in live /\ ent[m[l]].kind \in Items /\ ent[m[l]].parent = p /\ m[l] # detach.drop
      BY <1>3
    <3>4. ent'[m[l]].kind = ent[m[l]].kind /\ ent'[m[l]].parent = p
      BY <1>12, <3>1, <3>2, <3>3
    <3> QED BY <3>1, <3>3, <3>4
  <2>2. detach.drop # None => /\ detach.drop \in live /\ ent'[detach.drop].kind \in Items
                              /\ ent'[detach.drop].parent = p
    BY <1>2, <1>5, <1>12, LiveIsLiving DEF Moving, p
  <2>3. ASSUME NEW x \in live, ent'[x].parent = p
        PROVE  x = b \/ x = detach.drop \/ \E k \in DOMAIN Tail(m) : Tail(m)[k] = x
    <3>1. x # e /\ ent[x].parent = p
      BY <1>2, <1>12, <2>3
    <3>2. x = b \/ x = detach.drop \/ \E l \in DOMAIN m : m[l] = x
      BY <1>2, <3>1, LiveIsLiving DEF Moving, p, b, m
    <3> QED BY <1>4, <3>1, <3>2
  <2>4. ent'[p].kind = "actor" /\ ent'[b].kind = "bag" /\ ent'[b].parent = p
    BY <1>2, <1>3, <1>9, <1>12
  <2> QED BY <1>2, <1>4, <1>7, <1>12, <2>1, <2>2, <2>3, <2>4, LiveIsLiving DEF Moving
<1>14. Detached'
  BY <1>1, <1>2, <1>7, <1>13 DEF Detached, InClear, bodies
<1>15. Cleared'
  BY <1>1, <1>2, <1>5, <1>12, ClearedKeeps DEF bodies
<1>16. Emptying' /\ Destroyed'
  <2>1. emptying' = Done /\ destroying' = <<>> /\ <<>> \in Seq(live')
    BY <1>1, <1>2
  <2> QED BY <2>1 DEF Emptying, Destroyed
<1> QED BY <1>11, <1>14, <1>15, <1>16 DEF Core

LEMMA DetachDropKeeps ==
    ASSUME Core, DetachDrop
    PROVE  Core'
<1> DEFINE e == detach.drop
           p == detach.from
           b == detach.bag
<1>1. /\ UNCHANGED <<bodies, players, job, emptying, destroying, clearing, fault>>
      /\ detach # Done /\ detach.move = <<>> /\ e # None
      /\ ent' = IF Parent(e) \in live THEN Cut(ent, Parent(e), e) ELSE ent
      /\ detach' = [detach EXCEPT !.drop = None]
  BY DEF DetachDrop
<1>2. /\ emptying = Done /\ destroying = <<>> /\ (InClear \/ job = Idle)
      /\ Moving(ent, detach) /\ (~ InClear => p \in dead)
      /\ p \in live /\ b \in live /\ b # p /\ Parent(b) = p /\ p # None
      /\ p \in Actors /\ b \notin Actors
  BY <1>1, DetachIs
<1>3. /\ detach \in Detachment
      /\ ent[p].kind = "actor" /\ ent[b].kind = "bag" /\ ent[b].parent = p
      /\ e \in live /\ ent[e].kind \in Items /\ ent[e].parent = p /\ Parent(e) = p
  BY <1>1, <1>2, LiveIsLiving DEF Moving, Parent
<1>4. ent' = Cut(ent, p, e)
  BY <1>1, <1>2, <1>3
<1>5. /\ detach' \in Detachment /\ detach'.from = p /\ detach'.bag = b
      /\ detach'.drop = None /\ detach'.move = <<>>
  BY <1>1, <1>3 DEF Detachment
<1> HIDE DEF e, p, b
<1>6. e # b /\ ent[e].kind # "bag"
  BY <1>3, KindsAre
<1>7. Loosened(ent, ent', e)
  BY <1>2, <1>3, <1>4, LooseKeeps, LiveIsLiving DEF Core
<1>8. Shuffled
  BY <1>6, <1>7, LiveIsLiving DEF Shuffled, Loosened, Actors
<1>9. Tree(ent)' /\ Order(ent)' /\ Types' /\ Jobs' /\ Avatars' /\ Bags'
  BY <1>1, <1>8, ShuffleKeeps DEF bodies, players
<1>10. live' = live /\ \A x \in live : ent'[x].kind = ent[x].kind
                          /\ ent'[x].parent = IF x = e THEN None ELSE ent[x].parent
  BY <1>7, LiveIsLiving DEF Loosened
<1>11. Moving(ent', detach')
  <2>1. ASSUME NEW x \in live, ent'[x].parent = p PROVE x = b
    <3>1. x # e /\ ent[x].parent = p
      BY <1>2, <1>10, <2>1
    <3> QED BY <1>1, <1>2, <3>1, LiveIsLiving DEF Moving, p, b, e
  <2>2. ent'[p].kind = "actor" /\ ent'[b].kind = "bag" /\ ent'[b].parent = p
    BY <1>2, <1>3, <1>6, <1>10
  <2>3. Distinct(<<>>) /\ DOMAIN <<>> = {}
    BY DEF Distinct
  <2>4. Distinct(detach'.move) /\ DOMAIN detach'.move = {}
    BY <1>5, <2>3
  <2> QED BY <1>2, <1>5, <1>10, <2>1, <2>2, <2>4, LiveIsLiving DEF Moving
<1>12. Detached'
  BY <1>1, <1>2, <1>5, <1>11 DEF Detached, InClear, bodies
<1>13. Cleared'
  BY <1>1, <1>2, <1>3, <1>10, ClearedKeeps DEF bodies
<1>14. Emptying' /\ Destroyed'
  <2>1. emptying' = Done /\ destroying' = <<>> /\ <<>> \in Seq(live')
    BY <1>1, <1>2
  <2> QED BY <2>1 DEF Emptying, Destroyed
<1> QED BY <1>9, <1>12, <1>13, <1>14 DEF Core

(* The bag is where the iterator points, and it is the last of the children. *)
LEMMA DetachEndKeeps ==
    ASSUME Core, DetachEnd
    PROVE  Core'
<1> DEFINE p == detach.from
           b == detach.bag
           s == Children(p)
<1>1. /\ UNCHANGED <<bodies, players, job, emptying, destroying>>
      /\ detach # Done /\ detach.move = <<>> /\ detach.drop = None /\ detach' = Done
      /\ IF detach.at \in DOMAIN s
         THEN /\ ent' = [ent EXCEPT ![b].parent = None, ![p].children = RemoveAt(@, detach.at)]
              /\ clearing' = IF InClear THEN Append(clearing, b) ELSE clearing
              /\ UNCHANGED fault
         ELSE fault' = "iterator" /\ UNCHANGED <<ent, clearing>>
  BY DEF DetachEnd
<1>2. /\ emptying = Done /\ destroying = <<>> /\ (InClear \/ job = Idle)
      /\ Moving(ent, detach) /\ (~ InClear => p \in dead)
      /\ p \in live /\ b \in live /\ b # p /\ Parent(b) = p /\ p # None
      /\ p \in Actors /\ b \notin Actors
  BY <1>1, DetachIs
<1>3. /\ detach.at = 1 /\ ent[b].kind = "bag" /\ ent[b].parent = p
      /\ \A x \in live : ent[x].parent = p => x = b
  <2>1. detach.at = 1 /\ ent[b].kind = "bag" /\ ent[b].parent = p
    BY <1>2 DEF Moving, Detachment
  <2>2. DOMAIN detach.move = {}
    BY <1>1
  <2>3. \A x \in live : ent[x].parent = p => x = b \/ x = detach.drop
    BY <1>2, <2>2, LiveIsLiving DEF Moving
  <2> QED BY <1>1, <2>1, <2>3, NoneAssumption, LiveIsLiving
<1>4. /\ Tree(ent) /\ Order(ent) /\ s \in Seq(Ids) /\ Distinct(s)
      /\ 1 \in DOMAIN s /\ s[1] = b
  <2>1. Tree(ent) /\ Order(ent)
    BY DEF Core
  <2>2. s \in Seq(Ids) /\ Distinct(s)
    BY <1>2, <2>1, EntityFields, LiveIsLiving DEF Tree, Down, Children
  <2>3. 1 \in DOMAIN s /\ s[1] = b
    <3> HIDE DEF p, b
    <3>1. b \in Living(ent) /\ ent[b].kind = "bag" /\ ent[b].parent = p /\ p # None
      BY <1>2, <1>3, LiveIsLiving
    <3>2. 1 \in DOMAIN ent[p].children /\ ent[p].children[1] = b
      BY <2>1, <3>1, BagIsFirst
    <3> QED BY <3>2 DEF Children
  <2> QED BY <2>1, <2>2, <2>3
<1>5. /\ ent' = [ent EXCEPT ![b].parent = None, ![p].children = RemoveAt(@, 1)]
      /\ clearing' = (IF InClear THEN Append(clearing, b) ELSE clearing)
      /\ fault' = fault
  BY <1>1, <1>3, <1>4
<1> HIDE DEF p, b
<1>6. ent' = Cut(ent, p, b)
  <2>1. RemoveFirst(s, b) = RemoveAt(s, 1)
    BY <1>4, FirstIs
  <2>2. [ent EXCEPT ![b].parent = None][p] = ent[p]
    BY <1>2, LiveIsLiving, <1>4 DEF Tree
  <2>3. ent \in [Ids -> Entity] /\ b \in Ids /\ p \in Ids
    BY <1>2, <1>4, LiveIsLiving DEF Tree
  <2> QED BY <1>2, <1>5, <2>1, <2>2, <2>3 DEF Cut, Children
<1>7. Loosened(ent, ent', b)
  BY <1>2, <1>3, <1>4, <1>6, LooseKeeps, LiveIsLiving
<1>8. /\ Tree(ent)' /\ Order(ent)' /\ live' = live
      /\ \A x \in live : /\ ent'[x].kind = ent[x].kind /\ ent'[x].owner = ent[x].owner
                         /\ ent'[x].parent = IF x = b THEN None ELSE ent[x].parent
      /\ \A a \in live : Childless(ent, a) => Childless(ent', a)
  BY <1>7, LiveIsLiving DEF Loosened
<1>9. Childless(ent', p)
  BY <1>2, <1>3, <1>8, LiveIsLiving DEF Childless
<1>10. \A a \in live : a # p => (Bagged(ent, a) => Bagged(ent', a))
  BY <1>3, <1>8, LiveIsLiving DEF Bagged
<1>11. Actors' = Actors /\ Figures' = Figures /\ Given' = Given
  <2>1. Actors' = Actors
    BY <1>8 DEF Actors, Kind
  <2>2. Figures' = Figures
    BY <1>8 DEF Figures, Kind
  <2>3. Given' = Given
    BY <1>8 DEF Given, Owner
  <2> QED BY <2>1, <2>2, <2>3
<1>12. Types'
  <2>1. \A x \in ground : x \in live /\ (ent'[x].kind = "bag" => ent'[x].parent = None)
    BY <1>8 DEF Core, Types, Kind, Parent
  <2> QED BY <1>1, <1>5, <1>8, <1>11, <2>1 DEF Core, Types, bodies, players, Kind, Parent
<1>13. Jobs'
  <2>1. job.at \notin Respawns /\ ~ ForAll /\ job' = job
    BY <1>1, <1>2 DEF InClear, Idle, Respawns, ForAll
  <2> QED BY <2>1 DEF Core, Jobs, ForAll, Respawns
<1>14. Avatars'
  <2>1. \A c \in Clients : avatar[c] \in Figures => ent'[avatar[c]].owner = ent[avatar[c]].owner
    BY <1>8 DEF Figures
  <2> QED BY <1>1, <1>11, <2>1 DEF Core, Avatars, Owner, players
<1>15. Bags'
  <2>1. dead' = dead /\ dead \subseteq Actors /\ Actors \subseteq live /\ job' = job
    BY <1>1 DEF Core, Types, Actors, bodies
  <2>2. ASSUME ~ InClear', NEW a \in Actors \ dead
        PROVE  Bagged(ent', a)
    <3>1. ~ InClear /\ job = Idle /\ a # p
      BY <1>2, <2>1, <2>2 DEF InClear
    <3>2. Bagged(ent, a)
      BY <3>1 DEF Core, Bags, Idle
    <3> QED BY <1>10, <2>1, <3>1, <3>2
  <2>3. ASSUME NEW a \in dead PROVE Bagged(ent', a) \/ Childless(ent', a)
    BY <1>8, <1>9, <1>10, <2>1 DEF Core, Bags
  <2> QED BY <1>11, <2>1, <2>2, <2>3 DEF Bags
<1>16. Emptying' /\ Destroyed' /\ Detached'
  <2>1. emptying' = Done /\ destroying' = <<>> /\ <<>> \in Seq(live') /\ detach' = Done
    BY <1>1, <1>2
  <2> QED BY <2>1 DEF Emptying, Destroyed, Detached
<1>17. Cleared'
  <2>1. /\ clearing \in Seq(live) /\ Distinct(clearing)
        /\ \A m \in DOMAIN clearing : ent[clearing[m]].parent = None
    BY DEF Core, Cleared, Parent
  <2>2. \A m \in DOMAIN clearing : clearing[m] \in live /\ clearing[m] # b
    BY <1>2, <1>3, <2>1
  <2>3. CASE ~ InClear
    <3>1. clearing' = <<>> /\ ~ InClear'
      BY <1>1, <1>5, <2>3 DEF Core, Cleared, InClear
    <3>2. <<>> \in Seq(live') /\ Distinct(<<>>) /\ DOMAIN <<>> = {}
      BY DEF Distinct
    <3>3. clearing' \in Seq(live') /\ Distinct(clearing') /\ DOMAIN clearing' = {}
      BY <3>1, <3>2
    <3> QED BY <3>1, <3>3 DEF Cleared, InClear
  <2>4. CASE InClear
    <3>1. clearing' = Append(clearing, b)
      BY <1>5, <2>4
    <3>2. /\ Append(clearing, b) \in Seq(live) /\ Distinct(Append(clearing, b))
          /\ Append(clearing, b) # <<>>
          /\ \A m \in DOMAIN Append(clearing, b) :
                Append(clearing, b)[m] = b \/ \E n \in DOMAIN clearing : clearing[n] = Append(clearing, b)[m]
      BY <1>2, <2>1, <2>2, Appended
    <3>3. \A m \in DOMAIN clearing' : ent'[clearing'[m]].parent = None
      BY <1>2, <1>8, <2>1, <2>2, <3>1, <3>2
    <3>4. clearing' \in Seq(live') /\ Distinct(clearing') /\ clearing' # <<>>
      BY <1>8, <3>1, <3>2
    <3>5. job' = job /\ corpses' = corpses /\ emptying' = emptying /\ destroying' = destroying
      BY <1>1 DEF bodies
    <3> QED BY <2>4, <3>3, <3>4, <3>5 DEF Core, Cleared, InClear, Parent
  <2> QED BY <2>3, <2>4
<1> QED BY <1>8, <1>12, <1>13, <1>14, <1>15, <1>16, <1>17 DEF Core

LEMMA ClearRejectKeeps ==
    ASSUME Core, ClearReject
    PROVE  Core'
<1> DEFINE p == Last(clearing)
           e == Last(Children(p))
<1>1. /\ UNCHANGED <<bodies, players, emptying, destroying>>
      /\ job.at = "clearing" /\ detach = Done /\ clearing # <<>> /\ Children(p) # <<>>
      /\ fault' = IF Parent(e) = p THEN fault ELSE "transfer"
      /\ IF Kind(e) = "bag" /\ Kind(p) = "actor"
         THEN Detaching(p, e) /\ UNCHANGED <<ent, clearing>>
         ELSE /\ ent' = Cut(ent, p, e)
              /\ clearing' = Append(clearing, e)
              /\ UNCHANGED detach
      /\ job' = [job EXCEPT !.at = "entering"]
  BY DEF ClearReject, At
<1>2. /\ InClear /\ clearing \in Seq(live) /\ Distinct(clearing)
      /\ \A m \in DOMAIN clearing : ent[clearing[m]].parent = None
      /\ QuietClear /\ corpses = {} /\ emptying = Done /\ destroying = <<>>
  BY <1>1 DEF Core, Cleared, Parent, InClear
<1>3. p \in live
  BY <1>1, <1>2, WithoutLast
<1>4. e \in live /\ Parent(e) = p /\ ent[e].parent = p /\ p # None
  <2>1. e \in live /\ Parent(e) = p
    BY <1>1, <1>3, InRange
  <2> QED BY <1>3, <2>1, NoneAssumption, LiveIsLiving DEF Parent
<1>5. fault' = fault /\ job'.at = "entering" /\ job'.todo = job.todo /\ InClear'
  BY <1>1, <1>4 DEF Core, Jobs, InClear
<1> HIDE DEF e, p
<1>6. CASE Kind(e) = "bag" /\ Kind(p) = "actor"
  <2>1. /\ ent' = ent /\ clearing' = clearing
        /\ detach' # Done /\ Moving(ent, detach') /\ detach'.from = p
    BY <1>1, <1>3, <1>4, <1>6, DetachingIs
  <2>2. Shuffled
    BY <2>1 DEF Shuffled, Core
  <2>3. Tree(ent)' /\ Order(ent)' /\ Types' /\ Jobs' /\ Avatars' /\ Bags'
    BY <1>1, <1>2, <1>5, <2>2, ShuffleKeeps DEF bodies, players
  <2>4. Detached'
    BY <1>1, <1>2, <1>5, <2>1 DEF Detached
  <2>5. live' = live
    BY <2>1, LiveIsLiving
  <2>6. Emptying' /\ Destroyed'
    <3>1. emptying' = Done /\ destroying' = <<>> /\ <<>> \in Seq(live')
      BY <1>1, <1>2
    <3> QED BY <3>1 DEF Emptying, Destroyed
  <2>7. Cleared'
    BY <1>1, <1>2, <1>5, <2>1, <2>5 DEF Cleared, Parent, bodies
  <2> QED BY <2>3, <2>4, <2>6, <2>7 DEF Core
<1>7. CASE ~ (Kind(e) = "bag" /\ Kind(p) = "actor")
  <2>1. ent' = Cut(ent, p, e) /\ clearing' = Append(clearing, e) /\ detach' = detach
    BY <1>1, <1>7
  <2>2. ent[e].kind # "bag"
    BY <1>4, <1>7, KindsAre, LiveIsLiving DEF Core, Order, Held, Kind
  <2>3. Loosened(ent, ent', e)
    BY <1>3, <1>4, <2>1, LooseKeeps, LiveIsLiving DEF Core
  <2>4. Shuffled
    BY <2>2, <2>3, LiveIsLiving DEF Shuffled, Loosened, Actors
  <2>5. Tree(ent)' /\ Order(ent)' /\ Types' /\ Jobs' /\ Avatars' /\ Bags'
    BY <1>1, <1>2, <1>5, <2>4, ShuffleKeeps DEF bodies, players
  <2>6. live' = live /\ \A x \in live : ent'[x].parent = IF x = e THEN None ELSE ent[x].parent
    BY <2>3, LiveIsLiving DEF Loosened
  <2>7. Emptying' /\ Destroyed' /\ Detached'
    <3>1. emptying' = Done /\ destroying' = <<>> /\ <<>> \in Seq(live') /\ detach' = Done
      BY <1>1, <1>2, <2>1
    <3> QED BY <3>1 DEF Emptying, Destroyed, Detached
  <2>8. \A m \in DOMAIN clearing : clearing[m] \in live /\ clearing[m] # e
    BY <1>2, <1>4
  <2>9. /\ Append(clearing, e) \in Seq(live) /\ Distinct(Append(clearing, e))
        /\ Append(clearing, e) # <<>>
        /\ \A m \in DOMAIN Append(clearing, e) :
              Append(clearing, e)[m] = e \/ \E n \in DOMAIN clearing : clearing[n] = Append(clearing, e)[m]
    BY <1>2, <1>4, <2>8, Appended
  <2>10. \A m \in DOMAIN clearing' : ent'[clearing'[m]].parent = None
    BY <1>2, <1>4, <2>1, <2>6, <2>8, <2>9
  <2>11. clearing' \in Seq(live') /\ Distinct(clearing') /\ clearing' # <<>>
    BY <2>1, <2>6, <2>9
  <2>12. Cleared'
    BY <1>1, <1>2, <1>5, <2>10, <2>11 DEF Cleared, Parent, bodies
  <2> QED BY <2>5, <2>7, <2>12 DEF Core
<1> QED BY <1>6, <1>7

-----------------------------------------------------------------------------
(* The respawn of a player, and its departure. *)

LEMMA DisconnectKeeps ==
    ASSUME Core, NEW c \in Clients, Disconnect(c)
    PROVE  Core'
<1> DEFINE a == avatar[c]
<1>1. /\ UNCHANGED <<valid, ground, veryDead, job, emptying, detach, destroying, clearing, fault>>
      /\ conn[c] = "left"
      /\ avatar' = [avatar EXCEPT ![c] = None] /\ conn' = [conn EXCEPT ![c] = "done"]
      /\ job = Idle /\ job.at = "idle" /\ job.todo = {} /\ ~ InClear /\ ~ ForAll
      /\ detach = Done /\ destroying = <<>> /\ clearing = <<>>
      /\ IF a \in live
         THEN /\ dead' = dead \cup {x \in {a} : Mortal(x)}
              /\ ent' = Bury(ent, a)
              /\ corpses' = corpses \cup {a}
              /\ removable' = removable \cup {x \in valid \cap {a} : Kind(x) = "actor"}
         ELSE UNCHANGED <<dead, ent, corpses, removable>>
  BY BetweenIs DEF Disconnect, Body, KillPlayer, nested, round
<1>2. a \in live => a \in Figures /\ Owner(a) = c
  BY <1>1, NoneAssumption, LiveIsLiving DEF Core, Avatars
<1>3. /\ dead \subseteq dead' /\ dead' \subseteq dead \cup (Actors \cap {a})
      /\ removable \subseteq removable' /\ removable' \subseteq removable \cup (Actors \cap {a})
      /\ corpses \subseteq corpses' /\ corpses' \subseteq corpses \cup (Figures \cap {a})
  <2>1. CASE a \in live
    BY <1>1, <1>2, <2>1 DEF Mortal, Actors
  <2>2. CASE a \notin live
    BY <1>1, <2>2
  <2> QED BY <2>1, <2>2
<1>4. /\ Tree(ent)' /\ Order(ent)' /\ live' = live
      /\ \A x \in live : /\ ent'[x].kind = ent[x].kind /\ ent'[x].parent = ent[x].parent
                         /\ ent'[x].owner = IF x = a THEN Server ELSE ent[x].owner
                         /\ Bagged(ent, x) => Bagged(ent', x)
                         /\ Childless(ent, x) => Childless(ent', x)
  <2>1. CASE a \in live
    <3>1. Buried(ent, ent', a)
      BY <1>1, <2>1, BuriedKeeps, LiveIsLiving DEF Core
    <3> QED BY <3>1, LiveIsLiving DEF Buried
  <2>2. CASE a \notin live
    <3>1. ent' = ent
      BY <1>1, <2>2
    <3> QED BY <2>2, <3>1, LiveIsLiving DEF Core
  <2> QED BY <2>1, <2>2
<1> HIDE DEF a
<1>5. Grows
  <2> SUFFICES ASSUME NEW x \in Living(ent)
               PROVE  /\ ent'[x].kind = ent[x].kind /\ ent'[x].parent = ent[x].parent
                      /\ Bagged(ent, x) => Bagged(ent', x)
                      /\ Childless(ent, x) => Childless(ent', x)
    BY <1>4, LiveIsLiving DEF Grows
  <2>1. x \in live
    BY LiveIsLiving
  <2> QED BY <1>4, <2>1
<1>6. /\ Actors' = Actors /\ Figures' = Figures
      /\ \A x \in live : x \in Given' <=> x \in Given \/ x = a
  <2>1. Actors' = Actors
    BY <1>4 DEF Actors, Kind
  <2>2. Figures' = Figures
    BY <1>4 DEF Figures, Kind
  <2>3. \A x \in live : x \in Given' <=> x \in Given \/ x = a
    BY <1>4 DEF Given, Owner
  <2> QED BY <2>1, <2>2, <2>3
<1>7. Types'
  <2>1. dead' \subseteq Actors' /\ Actors \subseteq live /\ Figures \subseteq live
    BY <1>3, <1>6 DEF Core, Types, Actors, Figures
  <2>2. removable' \subseteq Actors' \cap Given' /\ corpses' \subseteq Figures' \cap Given'
    BY <1>3, <1>6, <2>1 DEF Core, Types
  <2>3. \A b \in ground' : Kind(b)' = "bag" => Parent(b)' = None
    BY <1>1, <1>4 DEF Core, Types, Kind, Parent
  <2> QED BY <1>1, <1>4, <2>1, <2>2, <2>3 DEF Core, Types
<1>8. Jobs'
  BY <1>1 DEF Core, Jobs, ForAll, Respawns
<1>9. Avatars'
  <2>1. avatar'[c] = None
    BY <1>1 DEF Core, Types
  <2>2. ASSUME NEW d \in Clients, d # c
        PROVE  /\ avatar'[d] = avatar[d] /\ conn'[d] = conn[d]
               /\ avatar[d] # None => avatar'[d] \in Figures' /\ ent'[avatar'[d]].owner = d
    <3>1. avatar'[d] = avatar[d] /\ conn'[d] = conn[d]
      BY <1>1, <2>2 DEF Core, Types
    <3>2. avatar[d] # None => avatar[d] \in Figures /\ Owner(avatar[d]) = d /\ avatar[d] \in live
      BY <1>1 DEF Core, Avatars, Figures
    <3>3. avatar[d] # None => avatar[d] # a
      BY <1>2, <2>2, <3>2 DEF a
    <3> QED BY <1>4, <1>6, <3>1, <3>2, <3>3 DEF Owner
  <2>3. ASSUME NEW d \in Clients
        PROVE  /\ conn'[d] \in {"out", "done"} => avatar'[d] = None
               /\ \/ avatar'[d] = None
                  \/ job'.at = "actor" /\ d \in job'.todo
                  \/ avatar'[d] \in Figures' /\ ent'[avatar'[d]].owner = d
    BY <2>1, <2>2 DEF Core, Avatars
  <2> QED BY <2>3 DEF Avatars, Owner
<1>10. Bags'
  <2>1. Actors \subseteq live /\ dead \subseteq Actors /\ dead' \subseteq Actors
    BY <1>3 DEF Core, Types, Actors
  <2>2. \A x \in Actors \ dead : Bagged(ent, x)
    BY <1>1 DEF Core, Bags
  <2> QED BY <1>1, <1>3, <1>4, <1>6, <2>1, <2>2 DEF Core, Bags, InClear
<1>11. Resting'
  BY <1>1 DEF Resting, InClear
<1>12. Emptying'
  BY <1>1, <1>5, <1>11, EmptyingKeeps DEF ForAll
<1> QED BY <1>4, <1>7, <1>8, <1>9, <1>10, <1>11, <1>12, RestingKeeps DEF Core

(* Inside a respawn no message is being handled but, maybe, OnTouch. *)
LEMMA RespawnIs ==
    ASSUME Core, NEW c \in job.todo, At("actor") \/ At("bag") \/ At("items")
    PROVE  /\ job = [at |-> job.at, todo |-> {c}] /\ c \in Clients /\ job.todo = {c}
           /\ ~ InClear /\ ~ ForAll /\ detach = Done /\ destroying = <<>> /\ clearing = <<>>
<1>1. job.at \in Respawns /\ detach = Done
  BY DEF At, Respawns
<1>2. ~ InClear /\ ~ ForAll /\ job # Idle
  BY <1>1 DEF InClear, ForAll, Respawns, Idle
<1>3. destroying = <<>> /\ clearing = <<>>
  BY <1>2 DEF Core, Destroyed, Cleared
<1> QED BY <1>1, <1>2, <1>3 DEF Core, Jobs

LEMMA NullClientKeeps ==
    ASSUME Core, fault' = "null client",
           UNCHANGED <<ent, avatar, veryDead, job, bodies, conn, nested, round>>
    PROVE  Core'
<1>1. Types'
  BY DEF Core, Types, Actors, Figures, Given, live, Kind, Parent, Owner, bodies
<1>2. UNCHANGED <<ent, dead, valid, avatar, conn, job, emptying, detach, destroying, clearing,
                  live, Actors, Figures, corpses>>
  BY DEF bodies, nested, Actors, Figures, live, Kind
<1>3. Jobs' /\ Avatars' /\ Bags'
  <2>1. Jobs'
    BY <1>2 DEF Core, Jobs, ForAll
  <2>2. Avatars'
    BY <1>2 DEF Core, Avatars, Owner
  <2>3. Bags'
    BY <1>2 DEF Core, Bags, InClear
  <2> QED BY <2>1, <2>2, <2>3
<1>4. Emptying' /\ Detached' /\ Destroyed' /\ Cleared'
  <2>1. Emptying'
    BY <1>2 DEF Core, Emptying, InClear, ForAll, Kind, Parent
  <2>2. Detached'
    BY <1>2 DEF Core, Detached, InClear
  <2>3. Destroyed'
    BY <1>2 DEF Core, Destroyed, Kind, Parent, Owner
  <2>4. Cleared'
    BY <1>2 DEF Core, Cleared, InClear, Parent
  <2> QED BY <2>1, <2>2, <2>3, <2>4
<1> QED BY <1>1, <1>2, <1>3, <1>4 DEF Core

LEMMA SpawnActorKeeps ==
    ASSUME Core, NEW c \in Clients, SpawnActor(c)
    PROVE  Core'
<1>1. c \in job.todo /\ At("actor") /\ job.at = "actor" /\ UNCHANGED <<bodies, conn, nested, round>>
  BY DEF SpawnActor, At
<1>2. /\ job = [at |-> job.at, todo |-> {c}] /\ c \in Clients /\ job.todo = {c}
      /\ ~ InClear /\ ~ ForAll /\ detach = Done /\ destroying = <<>> /\ clearing = <<>>
  BY <1>1, RespawnIs
<1>3. CASE conn[c] # "in"
  BY <1>1, <1>3, NullClientKeeps DEF SpawnActor
<1>4. CASE conn[c] = "in"
  <2>1. PICK i \in Ids :
           /\ Free(i) /\ ent' = [ent EXCEPT ![i] = New("actor", None, c)]
           /\ avatar' = [avatar EXCEPT ![c] = i] /\ veryDead' = veryDead \ {c}
           /\ job' = [job EXCEPT !.at = "bag"] /\ fault' = fault
    BY <1>4 DEF SpawnActor, SpawnPlayer
  <2>2. /\ UNCHANGED <<dead, valid, ground, removable, corpses, conn, emptying, fault>>
        /\ detach' = Done /\ destroying' = <<>> /\ clearing' = <<>>
        /\ avatar' = [avatar EXCEPT ![c] = i] /\ veryDead' = veryDead \ {c}
        /\ job'.at = "bag" /\ job'.todo = {c} /\ job' = [at |-> "bag", todo |-> {c}]
    BY <1>1, <1>2, <2>1 DEF bodies, nested
  <2>3. i \in Ids \ live /\ i \notin Living(ent)
    BY <2>1, LiveIsLiving DEF Free
  <2>4. Rooted(ent, ent', i, "actor", c)
    BY <2>1, <2>3, SpawnKeeps, KindsAre DEF Core, Spawned
  <2>5. /\ Tree(ent)' /\ Order(ent)' /\ live' = live \cup {i} /\ Childless(ent', i)
        /\ \A x \in live : /\ ent'[x].kind = ent[x].kind /\ ent'[x].parent = ent[x].parent
                           /\ ent'[x].owner = ent[x].owner
                           /\ Bagged(ent, x) => Bagged(ent', x)
                           /\ Childless(ent, x) => Childless(ent', x)
        /\ ent'[i].kind = "actor" /\ ent'[i].owner = c /\ ent'[i].parent = None
    BY <2>4, LiveIsLiving DEF Rooted
  <2>6. Grows
    BY <2>4, LiveIsLiving DEF Rooted, Grows
  <2>7. Actors' = Actors \cup {i} /\ Figures' = Figures \cup {i} /\ Given' = Given
    <3>1. Actors' = Actors \cup {i}
      BY <2>5 DEF Actors, Kind
    <3>2. Figures' = Figures \cup {i}
      BY <2>5 DEF Figures, Kind
    <3>3. Given' = Given
      BY <2>5, OwnersAssumption DEF Given, Owner
    <3> QED BY <3>1, <3>2, <3>3
  <2>8. i \notin valid /\ i \notin dead /\ dead \subseteq Actors /\ Actors \subseteq live
    BY <2>3 DEF Core, Types, Actors
  <2>9. Types'
    <3>1. \A b \in ground' : Kind(b)' = "bag" => Parent(b)' = None
      BY <2>2, <2>5 DEF Core, Types, Kind, Parent
    <3> QED BY <2>2, <2>3, <2>5, <2>7, <3>1 DEF Core, Types
  <2>10. Jobs'
    BY <1>2, <2>2, <2>5, <2>7, <2>8 DEF Core, Types, Jobs, ForAll, Respawns
  <2>11. Avatars'
    <3>1. ASSUME NEW d \in Clients
          PROVE  /\ conn'[d] \in {"out", "done"} => avatar'[d] = None
                 /\ \/ avatar'[d] = None
                    \/ avatar'[d] \in Figures' /\ ent'[avatar'[d]].owner = d
      <4>1. CASE d = c
        BY <1>4, <2>2, <2>5, <2>7, <4>1 DEF Core, Types
      <4>2. CASE d # c
        <5>1. avatar'[d] = avatar[d] /\ conn'[d] = conn[d]
          BY <2>2, <4>2 DEF Core, Types
        <5>2. avatar[d] = None \/ (avatar[d] \in Figures /\ Owner(avatar[d]) = d /\ avatar[d] \in live)
          BY <1>2, <4>2 DEF Core, Avatars, Figures
        <5> QED BY <2>5, <2>7, <5>1, <5>2 DEF Core, Avatars, Owner
      <4> QED BY <4>1, <4>2
    <3> QED BY <3>1 DEF Avatars, Owner
  <2>12. Bags'
    <3>1. avatar'[c] = i
      BY <2>2 DEF Core, Types
    <3>2. \A x \in Actors \ dead : Bagged(ent, x)
      BY <1>1, <1>2 DEF Core, Bags
    <3> QED BY <2>2, <2>5, <2>7, <2>8, <3>1, <3>2 DEF Core, Bags
  <2>13. Resting' /\ ~ ForAll'
    BY <2>2 DEF Resting, InClear, ForAll
  <2>14. Emptying'
    BY <2>2, <2>6, <2>13, EmptyingKeeps
  <2> QED BY <2>5, <2>9, <2>10, <2>11, <2>12, <2>13, <2>14, RestingKeeps DEF Core
<1> QED BY <1>3, <1>4

(* A new entity in the hands of the actor p: its bag, or an item. *)
Equip(p, k, i) ==
    /\ i \in Ids \ live /\ p \in live /\ Kind(p) = "actor"
    /\ \/ k = "bag" /\ Childless(ent, p)
       \/ k \in Items /\ (k = "gun" => Guns(p) = <<>>)
    /\ ent' = Attach(Spawned(ent, i, k, Server), p, i)

LEMMA EquipIs ==
    ASSUME Core, NEW p, NEW k, NEW i, Equip(p, k, i)
    PROVE  /\ Tree(ent)' /\ Order(ent)' /\ live' = live \cup {i}
           /\ \A x \in live : /\ ent'[x].kind = ent[x].kind /\ ent'[x].parent = ent[x].parent
                              /\ ent'[x].owner = ent[x].owner
                              /\ Bagged(ent, x) => Bagged(ent', x)
                              /\ x # p => (Childless(ent, x) => Childless(ent', x))
           /\ ent'[i].kind = k /\ ent'[i].owner = Server
           /\ k = "bag" => Bagged(ent', p)
<1> DEFINE D == Spawned(ent, i, k, Server)
<1>1. /\ i \in Ids \ Living(ent) /\ p \in Living(ent) /\ ent[p].kind = "actor" /\ i # p
      /\ k \in Kinds \ {"none"} /\ k \in Items \cup {"bag"}
      /\ ent' = Attach(D, p, i)
  BY KindsAre, LiveIsLiving DEF Equip, Kind
<1>2. Rooted(ent, D, i, k, Server)
  BY <1>1, SpawnKeeps DEF Core
<1>3. k = "gun" => \A x \in Ids : ~ GunOf(ent, x, p)
  BY <1>1, KindsAre, GunsAre, LiveIsLiving DEF Equip, Core
<1> HIDE DEF D
<1>4. /\ Tree(D) /\ Order(D) /\ p \in Living(D) /\ i \in Living(D) /\ D[i].parent = None
      /\ D[i].kind = k /\ D[p].kind = "actor" /\ D[i].owner = Server
      /\ k = "bag" => Childless(D, p)
  BY <1>1, <1>2, KindsAre DEF Rooted, Equip
<1>5. k = "gun" => \A x \in Ids : ~ GunOf(D, x, p)
  <2>1. p # None
    BY <1>1, NoneAssumption DEF Living
  <2> QED BY <1>1, <1>2, <1>3, <2>1 DEF Rooted, GunOf
<1>6. Handed(D, ent', i, p)
  BY <1>1, <1>4, <1>5, HandKeeps
<1>7. /\ Tree(ent') /\ Order(ent') /\ Living(ent') = Living(ent) \cup {i}
      /\ \A x \in Living(ent) : /\ ent'[x].kind = ent[x].kind /\ ent'[x].parent = ent[x].parent
                                /\ ent'[x].owner = ent[x].owner
                                /\ Bagged(ent, x) => Bagged(ent', x)
                                /\ x # p => (Childless(ent, x) => Childless(ent', x))
  BY <1>1, <1>2, <1>6 DEF Rooted, Handed
<1>8. ent'[i].kind = k /\ ent'[i].owner = Server /\ (k = "bag" => Bagged(ent', p))
  BY <1>4, <1>6 DEF Handed
<1> QED BY <1>7, <1>8, LiveIsLiving

LEMMA EquipKeeps ==
    ASSUME Core, NEW c \in job.todo, At("bag") \/ At("items"), NEW k, NEW i,
           Equip(avatar[c], k, i), job.at = "bag" => k = "bag",
           UNCHANGED <<bodies, players, nested, fault>>,
           job'.at = "items", job' = [job EXCEPT !.at = "items"]
    PROVE  Core'
<1> DEFINE p == avatar[c]
<1>1. /\ job = [at |-> job.at, todo |-> {c}] /\ c \in Clients /\ job.todo = {c}
      /\ ~ InClear /\ ~ ForAll /\ detach = Done /\ destroying = <<>> /\ clearing = <<>>
      /\ job.at \in {"bag", "items"} /\ p \in Actors \ dead
      /\ UNCHANGED <<dead, valid, ground, removable, corpses, avatar, conn, veryDead, emptying,
                     detach, destroying, clearing, fault>>
      /\ job' = [at |-> "items", todo |-> {c}] /\ job'.todo = {c}
  <2>1. /\ job = [at |-> job.at, todo |-> {c}] /\ c \in Clients /\ job.todo = {c}
        /\ ~ InClear /\ ~ ForAll /\ detach = Done /\ destroying = <<>> /\ clearing = <<>>
    BY RespawnIs
  <2>2. job.at \in {"bag", "items"}
    BY DEF At
  <2> QED BY <2>1, <2>2 DEF Core, Jobs, bodies, players, nested
<1>2. /\ Tree(ent)' /\ Order(ent)' /\ live' = live \cup {i} /\ i \in Ids \ live
      /\ \A x \in live : /\ ent'[x].kind = ent[x].kind /\ ent'[x].parent = ent[x].parent
                         /\ ent'[x].owner = ent[x].owner
                         /\ Bagged(ent, x) => Bagged(ent', x)
                         /\ x # p => (Childless(ent, x) => Childless(ent', x))
      /\ ent'[i].kind = k /\ ent'[i].owner = Server /\ k \in Items \cup {"bag"}
      /\ k = "bag" => Bagged(ent', p)
  BY EquipIs DEF Equip
<1> HIDE DEF p
<1>3. k # "actor" /\ k # "spectator"
  BY <1>2, KindsAre
<1>4. Actors' = Actors /\ Figures' = Figures /\ Given' = Given \cup {i}
  <2>1. Actors' = Actors
    BY <1>2, <1>3 DEF Actors, Kind
  <2>2. Figures' = Figures
    BY <1>2, <1>3 DEF Figures, Kind
  <2>3. Given' = Given \cup {i}
    BY <1>2 DEF Given, Owner
  <2> QED BY <2>1, <2>2, <2>3
<1>5. Types'
  <2>1. \A b \in ground' : Kind(b)' = "bag" => Parent(b)' = None
    BY <1>1, <1>2 DEF Core, Types, Kind, Parent
  <2> QED BY <1>1, <1>2, <1>4, <2>1 DEF Core, Types
<1>6. Jobs'
  BY <1>1, <1>4 DEF Core, Jobs, ForAll, Respawns, p
<1>7. Avatars'
  <2>1. \A d \in Clients : avatar[d] \in Figures => ent'[avatar[d]].owner = ent[avatar[d]].owner
    BY <1>2 DEF Figures
  <2> QED BY <1>1, <1>4, <2>1 DEF Core, Avatars, Owner
<1>8. Bags'
  <2>1. Actors \subseteq live /\ dead \subseteq Actors
    BY DEF Core, Types, Actors
  <2>2. \A a \in Actors \ dead : Bagged(ent, a) \/ (job.at = "bag" /\ a = p)
    BY <1>1 DEF Core, Bags, p
  <2>3. \A a \in Actors \ dead : Bagged(ent', a)
    BY <1>2, <2>1, <2>2
  <2>4. \A a \in dead : Bagged(ent', a) \/ Childless(ent', a)
    BY <1>1, <1>2, <2>1 DEF Core, Bags
  <2> QED BY <1>1, <1>4, <2>3, <2>4 DEF Bags
<1>9. Resting' /\ ~ ForAll' /\ ~ InClear'
  BY <1>1 DEF Resting, InClear, ForAll
<1>10. Emptying'
  <2> SUFFICES ASSUME emptying # Done PROVE Emptying'
    BY <1>1 DEF Emptying
  <2>1. PICK q \in Actors \cap valid, b \in live :
           emptying = <<q, b>> /\ Bagged(ent, q) /\ Kind(b) = "bag" /\ Parent(b) = None
    BY DEF Core, Emptying
  <2>2. q \in live /\ Bagged(ent', q) /\ ent'[b].kind = "bag" /\ ent'[b].parent = None
    BY <1>2, <2>1 DEF Actors, Kind, Parent
  <2> QED BY <1>1, <1>2, <1>4, <1>9, <2>1, <2>2 DEF Emptying, Kind, Parent
<1> QED BY <1>2, <1>5, <1>6, <1>7, <1>8, <1>9, <1>10, RestingKeeps DEF Core

LEMMA SpawnBagKeeps ==
    ASSUME Core, NEW c \in Clients, SpawnBag(c)
    PROVE  Core'
<1>1. /\ c \in job.todo /\ At("bag") /\ job.at = "bag"
      /\ UNCHANGED <<bodies, players, nested, round>>
  BY DEF SpawnBag, At
<1>2. CASE conn[c] # "in"
  BY <1>1, <1>2, NullClientKeeps DEF SpawnBag, players
<1>3. CASE conn[c] = "in"
  <2>1. PICK i \in Ids : SpawnChild(Body(c), "bag", i)
    BY <1>3 DEF SpawnBag
  <2>2. fault' = fault /\ job' = [job EXCEPT !.at = "items"]
    BY <1>3 DEF SpawnBag
  <2>3. /\ avatar[c] \in Actors /\ Childless(ent, avatar[c])
        /\ job = [at |-> job.at, todo |-> {c}]
    BY <1>1, RespawnIs DEF Core, Jobs
  <2>4. Equip(avatar[c], "bag", i)
    BY <2>1, <2>3 DEF Equip, SpawnChild, Spawned, Free, Body, Actors
  <2>5. job'.at = "items"
    BY <2>2, <2>3
  <2> QED BY <1>1, <2>2, <2>4, <2>5, EquipKeeps
<1> QED BY <1>2, <1>3

LEMMA SpawnItemKeeps ==
    ASSUME Core, NEW c \in Clients, NEW k \in Items, SpawnItem(c, k)
    PROVE  Core'
<1>1. /\ c \in job.todo /\ At("items") /\ job.at = "items"
      /\ UNCHANGED <<bodies, players, job, nested, fault>>
      /\ k = "gun" => Guns(avatar[c]) = <<>>
  BY DEF SpawnItem, At, Body
<1>2. PICK i \in Ids : SpawnChild(avatar[c], k, i)
  BY DEF SpawnItem, Body
<1>3. avatar[c] \in Actors /\ job = [at |-> job.at, todo |-> {c}]
  BY <1>1, RespawnIs DEF Core, Jobs
<1>4. Equip(avatar[c], k, i)
  BY <1>1, <1>2, <1>3 DEF Equip, SpawnChild, Spawned, Free, Actors
<1>5. job' = [job EXCEPT !.at = "items"] /\ job'.at = "items"
  BY <1>1, <1>3
<1> QED BY <1>1, <1>4, <1>5, EquipKeeps

-----------------------------------------------------------------------------
(* Entities that are destroyed. *)

(* entity_Destroy of an entity that holds nothing, cut from its parent first. *)
Felled(E, e) == [(IF E[e].parent = None THEN E ELSE Cut(E, E[e].parent, e)) EXCEPT ![e] = Gone]

LEMMA FellKeeps ==
    ASSUME NEW E, Tree(E), Order(E), NEW e \in Living(E), Childless(E, e),
           E[e].kind = "bag" => E[e].parent = None
    PROVE  Removed(E, Felled(E, e), e)
<1>1. CASE E[e].parent = None
  BY <1>1, RemoveKeeps DEF Felled
<1>2. CASE E[e].parent # None
  <2> DEFINE p == E[e].parent
             D == Cut(E, p, e)
             F == [D EXCEPT ![e] = Gone]
  <2>1. p \in Living(E)
    BY <1>2 DEF Tree, Up
  <2>2. Loosened(E, D, e)
    BY <2>1, LooseKeeps
  <2>3. Felled(E, e) = F
    BY <1>2 DEF Felled
  <2> HIDE DEF D
  <2>4. /\ Tree(D) /\ Order(D) /\ e \in Living(D) /\ D[e].parent = None /\ Childless(D, e)
        /\ Living(D) = Living(E)
    BY <2>2 DEF Loosened
  <2>5. Removed(D, F, e)
    BY <2>4, RemoveKeeps
  <2> HIDE DEF F
  <2>6. Removed(E, F, e)
    BY <1>2, <2>2, <2>5 DEF Loosened, Removed
  <2> QED BY <2>3, <2>6
<1> QED BY <1>1, <1>2

(* The registry and the game thread's lists after that. *)
Falls(e) ==
    /\ e \in live /\ Removed(ent, ent', e)
    /\ dead' = dead \ {e} /\ valid' = valid \ {e} /\ ground' = ground \ {e}
    /\ removable' = removable \ {e} /\ corpses' = corpses \ {e}
    /\ UNCHANGED <<conn, veryDead, fault>>

LEMMA FallsIs ==
    ASSUME Core, NEW e, Falls(e)
    PROVE  /\ Tree(ent)' /\ Order(ent)' /\ live' = live \ {e}
           /\ \A x \in live' : /\ ent'[x].kind = ent[x].kind /\ ent'[x].owner = ent[x].owner
                               /\ ent'[x].parent = ent[x].parent
                               /\ Bagged(ent, x) => Bagged(ent', x)
                               /\ Childless(ent, x) => Childless(ent', x)
           /\ Actors' = Actors \ {e} /\ Figures' = Figures \ {e} /\ Given' = Given \ {e}
           /\ avatar' \in [Clients -> Ids \cup {None}] => Types'
<1>1. /\ Tree(ent)' /\ Order(ent)' /\ live' = live \ {e}
      /\ \A x \in live' : /\ ent'[x].kind = ent[x].kind /\ ent'[x].owner = ent[x].owner
                          /\ ent'[x].parent = ent[x].parent
                          /\ Bagged(ent, x) => Bagged(ent', x)
                          /\ Childless(ent, x) => Childless(ent', x)
  BY LiveIsLiving DEF Falls, Removed
<1>2. Actors' = Actors \ {e}
  BY <1>1 DEF Actors, Kind
<1>3. Figures' = Figures \ {e}
  BY <1>1 DEF Figures, Kind
<1>4. Given' = Given \ {e}
  BY <1>1 DEF Given, Owner
<1>5. ASSUME avatar' \in [Clients -> Ids \cup {None}] PROVE Types'
  <2>1. \A b \in ground' : Kind(b)' = "bag" => Parent(b)' = None
    BY <1>1 DEF Core, Types, Falls, Kind, Parent
  <2> QED BY <1>1, <1>2, <1>3, <1>4, <1>5, <2>1 DEF Core, Types, Falls
<1> QED BY <1>1, <1>2, <1>3, <1>4, <1>5

LEMMA DestroyKeeps ==
    ASSUME Core, NEW e, Falls(e), job' = job, Kind(e) = "actor" => job.at \notin Respawns,
           avatar' = [c \in Clients |-> IF Owner(e) = c /\ avatar[c] = e THEN None ELSE avatar[c]]
    PROVE  Tree(ent)' /\ Order(ent)' /\ Types' /\ Jobs' /\ Avatars' /\ Bags'
<1>1. /\ Tree(ent)' /\ Order(ent)' /\ live' = live \ {e}
      /\ \A x \in live' : /\ ent'[x].kind = ent[x].kind /\ ent'[x].owner = ent[x].owner
                          /\ ent'[x].parent = ent[x].parent
                          /\ Bagged(ent, x) => Bagged(ent', x)
                          /\ Childless(ent, x) => Childless(ent', x)
      /\ Actors' = Actors \ {e} /\ Figures' = Figures \ {e} /\ Given' = Given \ {e}
      /\ avatar' \in [Clients -> Ids \cup {None}] => Types'
  BY FallsIs
<1>2. Types'
  BY <1>1 DEF Core, Types
<1>3. dead' = dead \ {e} /\ valid' = valid \ {e} /\ conn' = conn /\ e \in live
  BY DEF Falls
<1>4. /\ Actors \subseteq live /\ dead \subseteq Actors /\ Figures \subseteq live
      /\ e \in Actors => Kind(e) = "actor"
      /\ job.todo \subseteq Clients
  BY DEF Core, Types, Actors, Figures, Jobs
<1>5. \A c \in job.todo : job.at \in {"bag", "items"} =>
         avatar'[c] = avatar[c] /\ avatar[c] \in Actors' \ dead' /\ avatar[c] \in live'
  BY <1>1, <1>3, <1>4 DEF Core, Jobs, Respawns
<1>6. Jobs'
  BY <1>1, <1>3, <1>5 DEF Core, Jobs, ForAll
<1>7. Avatars'
  <2>1. ASSUME NEW d \in Clients
        PROVE  /\ conn'[d] \in {"out", "done"} => avatar'[d] = None
               /\ \/ avatar'[d] = None
                  \/ job'.at = "actor" /\ d \in job'.todo
                  \/ avatar'[d] \in Figures' /\ ent'[avatar'[d]].owner = d
    <3>1. avatar'[d] = IF Owner(e) = d /\ avatar[d] = e THEN None ELSE avatar[d]
      OBVIOUS
    <3>2. \/ avatar[d] = None
          \/ job.at = "actor" /\ d \in job.todo
          \/ avatar[d] \in Figures /\ Owner(avatar[d]) = d /\ avatar[d] \in live
      BY <1>4 DEF Core, Avatars
    <3>3. conn[d] \in {"out", "done"} => avatar[d] = None
      BY DEF Core, Avatars
    <3> QED BY <1>1, <1>3, <3>1, <3>2, <3>3 DEF Owner
  <2> QED BY <2>1 DEF Avatars, Owner
<1>8. Bags'
  <2>1. ~ InClear => \A a \in Actors \ dead :
           Bagged(ent, a) \/ (job.at = "bag" /\ \E c \in job.todo : avatar[c] = a)
    BY DEF Core, Bags
  <2>2. ASSUME ~ InClear, NEW a \in Actors' \ dead'
        PROVE  Bagged(ent', a) \/ (job'.at = "bag" /\ \E c \in job'.todo : avatar'[c] = a)
    BY <1>1, <1>3, <1>4, <1>5, <2>1, <2>2
  <2>3. \A a \in dead' : Bagged(ent', a) \/ Childless(ent', a)
    BY <1>1, <1>3, <1>4 DEF Core, Bags
  <2> QED BY <2>2, <2>3 DEF Bags, InClear
<1> QED BY <1>1, <1>2, <1>6, <1>7, <1>8

LEMMA DestroyIs ==
    ASSUME Core, NEW e \in live, Childless(ent, e), Kind(e) = "bag" => Parent(e) = None,
           \/ Destroy(IF Parent(e) = None THEN ent ELSE Cut(ent, Parent(e), e), e)
           \/ Destroy(ent, e) /\ Parent(e) = None,
           corpses' = corpses \ {e}, UNCHANGED <<conn, veryDead, fault>>
    PROVE  /\ Falls(e)
           /\ avatar' = [c \in Clients |-> IF Owner(e) = c /\ avatar[c] = e
                                           THEN None ELSE avatar[c]]
<1>1. /\ ent' = Felled(ent, e)
      /\ dead' = dead \ {e} /\ valid' = valid \ {e} /\ ground' = ground \ {e}
      /\ removable' = removable \ {e}
      /\ avatar' = [c \in Clients |-> IF Owner(e) = c /\ avatar[c] = e
                                      THEN None ELSE avatar[c]]
  BY DEF Destroy, Felled, Parent
<1>2. Removed(ent, ent', e)
  BY <1>1, FellKeeps, LiveIsLiving DEF Core, Kind, Parent
<1> QED BY <1>1, <1>2 DEF Falls

LEMMA BagEmptiedKeeps ==
    ASSUME Core, BagEmptied
    PROVE  Core'
<1>1. PICK p \in Actors \cap valid, b \in live :
         /\ emptying = <<p, b>> /\ Kind(b) = "bag" /\ Parent(b) = None
         /\ detach = Done /\ destroying = <<>> /\ ~ InClear
  BY DEF BagEmptied, Core, Emptying
<1>2. /\ UNCHANGED <<conn, veryDead, job, detach, destroying, clearing, fault>>
      /\ emptying' = Done /\ Children(b) = <<>> /\ Destroy(ent, b) /\ corpses' = corpses \ {b}
  BY <1>1 DEF BagEmptied, OnDestroyObject
<1>3. clearing = <<>>
  BY <1>1 DEF Core, Cleared
<1>4. Childless(ent, b)
  BY <1>2, InRange
<1>5. /\ Falls(b)
      /\ avatar' = [c \in Clients |-> IF Owner(b) = c /\ avatar[c] = b THEN None ELSE avatar[c]]
  BY <1>1, <1>2, <1>4, DestroyIs
<1>6. Tree(ent)' /\ Order(ent)' /\ Types' /\ Jobs' /\ Avatars' /\ Bags'
  BY <1>1, <1>2, <1>5, DestroyKeeps
<1>7. Resting' /\ Emptying'
  BY <1>1, <1>2, <1>3 DEF Resting, InClear, Emptying
<1> QED BY <1>6, <1>7, RestingKeeps DEF Core

(* Outside of SLS_Clear nothing but Process_event_destroy goes on. *)
LEMMA DestroyingIs ==
    ASSUME Core, destroying # <<>>
    PROVE  /\ job = Idle /\ emptying = Done /\ detach = Done /\ ~ InClear /\ clearing = <<>>
           /\ job.todo = {} /\ job.at = "idle"
           /\ 1 \in DOMAIN destroying /\ destroying[1] \in live /\ Owner(destroying[1]) = Server
           /\ Kind(destroying[1]) = "bag" \/ Childless(ent, destroying[1])
           /\ Kind(destroying[1]) = "bag" => Parent(destroying[1]) = None
           /\ \/ Len(destroying) = 1 /\ Last(destroying) = destroying[1]
                 /\ Front(destroying) = <<>>
              \/ /\ Len(destroying) = 2 /\ Last(destroying) = destroying[2]
                 /\ Kind(destroying[1]) = "bag" /\ Kind(destroying[2]) \in Items
                 /\ destroying[2] \in live /\ Front(destroying) = <<destroying[1]>>
<1>1. /\ job = Idle /\ emptying = Done /\ detach = Done
      /\ destroying \in Seq(live)
      /\ Kind(destroying[1]) = "bag" \/ Childless(ent, destroying[1])
      /\ Kind(destroying[1]) = "bag" => Parent(destroying[1]) = None
      /\ Owner(destroying[1]) = Server
      /\ \/ Len(destroying) = 1
         \/ /\ Len(destroying) = 2
            /\ Kind(destroying[1]) = "bag" /\ Kind(destroying[2]) \in Items
  BY DEF Core, Destroyed
<1>2. ~ InClear /\ clearing = <<>> /\ job.todo = {} /\ job.at = "idle"
  BY <1>1 DEF Core, Cleared, InClear, Idle
<1>3. DOMAIN destroying = 1 .. Len(destroying) /\ 1 \in DOMAIN destroying /\ destroying[1] \in live
  BY <1>1
<1>4. Len(destroying) = 2 => 2 \in DOMAIN destroying /\ destroying[2] \in live
  BY <1>1
<1>5. Last(destroying) = destroying[Len(destroying)]
  BY DEF Last
<1>6. CASE Len(destroying) = 1
  <2>1. Front(destroying) = <<>>
    BY <1>1, <1>6 DEF Front
  <2> QED BY <1>1, <1>2, <1>3, <1>5, <1>6, <2>1
<1>7. CASE Len(destroying) = 2
  <2>1. Front(destroying) = SubSeq(destroying, 1, 1)
    BY <1>7 DEF Front
  <2>2. /\ SubSeq(destroying, 1, 1) \in Seq(live) /\ Len(SubSeq(destroying, 1, 1)) = 1
        /\ SubSeq(destroying, 1, 1)[1] = destroying[1]
    BY <1>1, <1>7, SubSeqProperties
  <2>3. SubSeq(destroying, 1, 1) = <<destroying[1]>>
    <3> DEFINE t == SubSeq(destroying, 1, 1)
    <3>1. <<destroying[1]>> \in Seq(live) /\ Len(<<destroying[1]>>) = 1
      BY <1>3
    <3>2. t \in Seq(live) /\ Len(t) = 1 /\ t[1] = destroying[1]
      BY <2>2
    <3> HIDE DEF t
    <3>3. t = <<destroying[1]>>
      BY <3>1, <3>2, SeqEqual
    <3> QED BY <3>3 DEF t
  <2> QED BY <1>1, <1>2, <1>3, <1>4, <1>5, <1>7, <2>1, <2>3
<1> QED BY <1>1, <1>6, <1>7

LEMMA DestroyLeafKeeps ==
    ASSUME Core, DestroyLeaf
    PROVE  Core'
<1> DEFINE e == Last(destroying)
           r == destroying[1]
<1>1. /\ UNCHANGED <<conn, veryDead, job, emptying, detach, clearing, fault>>
      /\ destroying # <<>> /\ destroying' = Front(destroying)
      /\ Children(e) = <<>> /\ corpses' = corpses \ {e}
      /\ Destroy(IF Parent(e) = None THEN ent ELSE Cut(ent, Parent(e), e), e)
  BY DEF DestroyLeaf, OnDestroyObject
<1>2. /\ job = Idle /\ emptying = Done /\ detach = Done /\ ~ InClear /\ clearing = <<>>
      /\ job.todo = {} /\ job.at = "idle"
      /\ r \in live /\ Owner(r) = Server
      /\ Kind(r) = "bag" => Parent(r) = None
      /\ \/ Len(destroying) = 1 /\ e = r /\ Front(destroying) = <<>>
         \/ /\ Len(destroying) = 2 /\ e = destroying[2]
            /\ Kind(r) = "bag" /\ Kind(e) \in Items
            /\ e \in live /\ Front(destroying) = <<r>>
  BY <1>1, DestroyingIs
<1> HIDE DEF e, r
<1>3. e \in live /\ (Kind(e) = "bag" => Parent(e) = None)
  BY <1>2, KindsAre
<1>4. Childless(ent, e)
  BY <1>1, <1>3, InRange
<1>5. /\ Falls(e)
      /\ avatar' = [c \in Clients |-> IF Owner(e) = c /\ avatar[c] = e THEN None ELSE avatar[c]]
  BY <1>1, <1>3, <1>4, DestroyIs
<1>6. Tree(ent)' /\ Order(ent)' /\ Types' /\ Jobs' /\ Avatars' /\ Bags'
  BY <1>1, <1>2, <1>5, DestroyKeeps DEF Respawns
<1>7. /\ live' = live \ {e}
      /\ \A x \in live' : /\ ent'[x].kind = ent[x].kind /\ ent'[x].owner = ent[x].owner
                          /\ ent'[x].parent = ent[x].parent
  BY <1>5, FallsIs
<1>8. Emptying' /\ Detached'
  BY <1>1, <1>2 DEF Emptying, Detached
<1>9. Cleared'
  <2>1. clearing' = <<>> /\ <<>> \in Seq(live') /\ DOMAIN <<>> = {} /\ Distinct(<<>>)
    BY <1>1, <1>2 DEF Distinct
  <2>2. ~ InClear' /\ job'.at # "entering"
    BY <1>1, <1>2 DEF InClear
  <2>3. clearing' \in Seq(live') /\ Distinct(clearing') /\ DOMAIN clearing' = {}
    BY <2>1
  <2> QED BY <2>1, <2>2, <2>3 DEF Cleared
<1>10. Destroyed'
  <2>1. CASE Front(destroying) = <<>>
    BY <1>1, <2>1 DEF Destroyed
  <2>2. CASE Front(destroying) # <<>>
    <3>1. destroying' = <<r>> /\ Kind(r) = "bag" /\ Kind(e) \in Items
      BY <1>1, <1>2, <2>2
    <3>2. r \in live' /\ ent'[r].kind = "bag" /\ ent'[r].owner = Server /\ ent'[r].parent = None
      BY <1>2, <1>7, <3>1, KindsAre DEF Kind, Owner, Parent
    <3>3. destroying' \in Seq(live') /\ Len(destroying') = 1 /\ destroying'[1] = r
      BY <3>1, <3>2
    <3> QED BY <1>1, <1>2, <3>2, <3>3 DEF Destroyed, Kind, Owner, Parent
  <2> QED BY <2>1, <2>2
<1> QED BY <1>6, <1>8, <1>9, <1>10 DEF Core

LEMMA DestroyChildKeeps ==
    ASSUME Core, DestroyChild
    PROVE  Core'
<1> DEFINE e == Last(destroying)
           h == Head(Children(e))
           r == destroying[1]
<1>1. /\ UNCHANGED <<ent, dead, valid, ground, removable, corpses, avatar, conn, veryDead, job,
                     emptying, detach, clearing>>
      /\ destroying # <<>> /\ Children(e) # <<>>
      /\ destroying' = Append(destroying, h)
      /\ fault' = IF Owner(h) = Server THEN fault ELSE "foreign"
  BY DEF DestroyChild, EnterDestroy, bodies, players
<1>2. /\ job = Idle /\ emptying = Done /\ detach = Done /\ ~ InClear /\ clearing = <<>>
      /\ r \in live /\ Owner(r) = Server
      /\ Kind(r) = "bag" \/ Childless(ent, r)
      /\ Kind(r) = "bag" => Parent(r) = None
      /\ \/ Len(destroying) = 1 /\ e = r
         \/ e \in live /\ Kind(e) \in Items
  BY <1>1, DestroyingIs
<1>3. destroying \in Seq(live)
  BY DEF Core, Destroyed
<1>4. e \in live
  BY <1>2
<1>5. ~ Childless(ent, e)
  BY <1>1, <1>4, InRange
<1>6. Kind(e) \notin Items
  BY <1>4, <1>5, Hollow, KindsAre
<1>7. Len(destroying) = 1 /\ e = r /\ Kind(r) = "bag"
  BY <1>2, <1>5, <1>6
<1>8. h \in live /\ Parent(h) = e
  BY <1>1, <1>4, InRange
<1>9. Kind(h) \in Items /\ Owner(h) = Server
  <2>1. Held(ent, h) /\ Owned(ent, h) /\ e # None
    BY <1>4, <1>8, LiveIsLiving, NoneAssumption DEF Core, Order
  <2> QED BY <1>7, <1>8, <2>1 DEF Held, Owned, Kind, Parent, Owner
<1>10. fault' = fault /\ Len(destroying') = 2 /\ destroying'[1] = r /\ destroying'[2] = h
       /\ destroying' \in Seq(live) /\ destroying' # <<>>
  <2> HIDE DEF h, e
  <2>1. destroying' = Append(destroying, h) /\ Len(destroying) = 1 /\ 1 \in 1 .. Len(destroying)
    BY <1>1, <1>7
  <2>2. /\ Append(destroying, h) \in Seq(live)
        /\ Len(Append(destroying, h)) = Len(destroying) + 1
        /\ \A i \in 1 .. Len(destroying) : Append(destroying, h)[i] = destroying[i]
        /\ Append(destroying, h)[Len(destroying) + 1] = h
    BY <1>3, <1>8, AppendProperties
  <2>3. /\ destroying' \in Seq(live) /\ Len(destroying') = 2
        /\ destroying'[1] = destroying[1] /\ destroying'[2] = h
    BY <2>1, <2>2
  <2>4. destroying' # <<>>
    BY <2>3
  <2> QED BY <1>1, <1>9, <2>3, <2>4 DEF r
<1> HIDE DEF e, h, r
<1>11. UNCHANGED <<live, Actors, Figures, Given>>
  BY <1>1 DEF live, Actors, Figures, Given, Kind, Owner
<1>12. Tree(ent)' /\ Order(ent)'
  BY <1>1 DEF Core
<1>13. Types'
  BY <1>1, <1>10, <1>11 DEF Core, Types, Kind, Parent
<1>14. Jobs'
  BY <1>1, <1>11 DEF Core, Jobs, ForAll
<1>15. Avatars'
  BY <1>1, <1>11 DEF Core, Avatars, Owner
<1>16. Bags'
  BY <1>1, <1>11 DEF Core, Bags, InClear
<1>17. Emptying' /\ Detached'
  BY <1>1, <1>2 DEF Emptying, Detached
<1>18. Cleared'
  BY <1>1, <1>2, <1>11 DEF Core, Cleared, InClear, Parent
<1>19. Destroyed'
  BY <1>1, <1>2, <1>7, <1>9, <1>10, <1>11 DEF Destroyed, Kind, Owner, Parent
<1> QED BY <1>12, <1>13, <1>14, <1>15, <1>16, <1>17, <1>18, <1>19 DEF Core

(* The spectator goes, its client's pointer stays until the actor is there. *)
LEMMA ReadySpectatorKeeps ==
    ASSUME Core, NEW c \in Clients, ReadySpectator(c)
    PROVE  Core'
<1> DEFINE e == avatar[c]
<1>1. /\ UNCHANGED <<dead, removable, avatar, conn, veryDead, emptying, detach, destroying,
                     clearing, fault>>
      /\ conn[c] = "in" /\ e # None /\ Kind(e) = "spectator" /\ emptying = Done
      /\ ent' = [ent EXCEPT ![e] = Gone] /\ valid' = valid \ {e} /\ ground' = ground \ {e}
      /\ corpses' = corpses \ {e} /\ job' = [at |-> "actor", todo |-> {c}]
      /\ job = Idle /\ job.at = "idle" /\ job.todo = {} /\ ~ InClear
      /\ detach = Done /\ destroying = <<>> /\ clearing = <<>>
  BY BetweenIs DEF ReadySpectator, Body, InGame, Locked, OnDestroyObject, players, nested, round
<1>2. e \in Figures /\ Owner(e) = c /\ e \in live /\ e \notin Actors
  BY <1>1 DEF Core, Avatars, Figures, Actors
<1>3. Childless(ent, e) /\ Parent(e) = None
  <2>1. Childless(ent, e)
    BY <1>1, <1>2, Hollow
  <2>2. Held(ent, e)
    BY <1>2, LiveIsLiving DEF Core, Order
  <2> QED BY <1>1, <2>1, <2>2, KindsAre DEF Held, Kind, Parent
<1> HIDE DEF e
<1>4. Removed(ent, ent', e)
  BY <1>1, <1>2, <1>3, RemoveKeeps, LiveIsLiving DEF Core, Parent
<1>5. e \notin dead /\ e \notin removable
  BY <1>2 DEF Core, Types
<1>6. Falls(e)
  BY <1>1, <1>2, <1>4, <1>5 DEF Falls
<1>7. /\ Tree(ent)' /\ Order(ent)' /\ live' = live \ {e}
      /\ \A x \in live' : /\ ent'[x].kind = ent[x].kind /\ ent'[x].owner = ent[x].owner
                          /\ ent'[x].parent = ent[x].parent
                          /\ Bagged(ent, x) => Bagged(ent', x)
                          /\ Childless(ent, x) => Childless(ent', x)
      /\ Actors' = Actors \ {e} /\ Figures' = Figures \ {e} /\ Given' = Given \ {e}
      /\ avatar' \in [Clients -> Ids \cup {None}] => Types'
  BY <1>6, FallsIs
<1>8. Types'
  BY <1>1, <1>7 DEF Core, Types
<1>9. job'.at = "actor" /\ job'.todo = {c} /\ ~ InClear' /\ ~ ForAll'
  BY <1>1 DEF InClear, ForAll
<1>10. Jobs'
  BY <1>1, <1>9 DEF Jobs, Respawns
<1>11. Avatars'
  <2>1. ASSUME NEW d \in Clients, d # c, avatar[d] # None
        PROVE  avatar[d] \in Figures' /\ ent'[avatar[d]].owner = d
    <3>1. avatar[d] \in Figures /\ Owner(avatar[d]) = d /\ avatar[d] \in live
      BY <1>1, <2>1 DEF Core, Avatars, Figures
    <3> QED BY <1>2, <1>7, <2>1, <3>1 DEF Owner
  <2> QED BY <1>1, <1>9, <2>1 DEF Core, Avatars, Owner
<1>12. Bags'
  <2>1. /\ Actors \subseteq live /\ dead \subseteq Actors /\ Actors' = Actors
        /\ \A a \in Actors : a \in live'
    BY <1>2, <1>7 DEF Core, Types, Actors
  <2>2. \A a \in Actors \ dead : Bagged(ent, a)
    BY <1>1 DEF Core, Bags
  <2> QED BY <1>1, <1>7, <2>1, <2>2 DEF Core, Bags
<1>13. Resting' /\ Emptying'
  BY <1>1, <1>9 DEF Resting, Emptying
<1> QED BY <1>7, <1>8, <1>10, <1>11, <1>12, <1>13, RestingKeeps DEF Core

LEMMA ClearDestroyKeeps ==
    ASSUME Core, ClearDestroy
    PROVE  Core'
<1> DEFINE e == Last(clearing)
<1>1. /\ UNCHANGED <<corpses, conn, veryDead, job, emptying, detach, destroying, fault>>
      /\ job.at = "clearing" /\ InClear /\ detach = Done /\ clearing # <<>>
      /\ Children(e) = <<>> /\ Destroy(ent, e) /\ clearing' = Front(clearing)
  BY DEF ClearDestroy, At, InClear
<1>2. /\ clearing \in Seq(live) /\ Distinct(clearing)
      /\ \A m \in DOMAIN clearing : Parent(clearing[m]) = None
      /\ QuietClear /\ corpses = {} /\ emptying = Done /\ destroying = <<>>
  BY <1>1 DEF Core, Cleared
<1>3. /\ e \in live /\ \E n \in DOMAIN clearing : clearing[n] = e
      /\ Front(clearing) \in Seq(live \ {e}) /\ Distinct(Front(clearing))
      /\ \A m \in DOMAIN Front(clearing) :
            m \in DOMAIN clearing /\ Front(clearing)[m] = clearing[m]
  BY <1>1, <1>2, WithoutLast
<1>4. Childless(ent, e) /\ Parent(e) = None
  BY <1>1, <1>2, <1>3, InRange
<1> HIDE DEF e
<1>5. /\ Falls(e)
      /\ avatar' = [c \in Clients |-> IF Owner(e) = c /\ avatar[c] = e THEN None ELSE avatar[c]]
  BY <1>1, <1>2, <1>3, <1>4, DestroyIs
<1>6. Tree(ent)' /\ Order(ent)' /\ Types' /\ Jobs' /\ Avatars' /\ Bags'
  BY <1>1, <1>5, DestroyKeeps DEF Respawns
<1>7. live' = live \ {e} /\ \A x \in live' : ent'[x].parent = ent[x].parent
  BY <1>5, FallsIs
<1>8. Cleared'
  <2>1. \A m \in DOMAIN clearing' : clearing'[m] \in live' /\ ent[clearing'[m]].parent = None
    BY <1>1, <1>2, <1>3, <1>7 DEF Parent
  <2>2. \A m \in DOMAIN clearing' : ent'[clearing'[m]].parent = None
    BY <1>7, <2>1
  <2> QED BY <1>1, <1>2, <1>3, <1>7, <2>2 DEF Cleared, InClear, Parent
<1>9. Emptying' /\ Detached' /\ Destroyed'
  <2>1. emptying' = Done /\ destroying' = <<>> /\ <<>> \in Seq(live') /\ detach' = Done
    BY <1>1, <1>2
  <2> QED BY <2>1 DEF Emptying, Destroyed, Detached
<1> QED BY <1>6, <1>8, <1>9 DEF Core

-----------------------------------------------------------------------------
(* Every step keeps the core, and the counters of the rounds. *)

LEMMA PacketsKeep ==
    ASSUME Core, Packets
    PROVE  Core'
<1>1. ASSUME NEW c \in Clients, ConnectFinished(c) PROVE Core'
  BY <1>1, ConnectFinishedKeeps
<1>2. ASSUME NEW c \in Clients, Leave(c) PROVE Core'
  BY <1>2, LeaveKeeps
<1>3. ASSUME NEW c \in Clients, NEW p \in Ids, NEW e \in Ids,
             Take(c, p, e) \/ TakeForced(c, p, e) \/ TakeBag(c, p, e)
      PROVE  Core'
  BY <1>3, TakeKeeps, TakeForcedKeeps, TakeBagKeeps
<1>4. ASSUME NEW p \in Ids, NEW e \in Ids, Reject(p, e) PROVE Core'
  BY <1>4, RejectKeeps
<1> QED BY <1>1, <1>2, <1>3, <1>4 DEF Packets

LEMMA NestedKeep ==
    ASSUME Core, Nested
    PROVE  Core'
BY MoveFromBagKeeps, BagEmptiedKeeps, DetachMoveKeeps, DetachDropKeeps, DetachEndKeeps,
   DestroyChildKeeps, DestroyLeafKeeps DEF Nested

LEMMA FrameKeeps ==
    ASSUME Core, Frame
    PROVE  Core'
<1>1. ASSUME NEW e \in Ids, Die(e) \/ StartDestroy(e) PROVE Core'
  BY <1>1, DieKeeps, StartDestroyKeeps
<1>2. ASSUME NEW a \in Ids, NEW b \in Ids, DropBag(a, b) PROVE Core'
  BY <1>2, DropBagKeeps
<1> QED BY <1>1, <1>2, HearKeeps DEF Frame

LEMMA RespawnKeeps ==
    ASSUME Core, Respawn
    PROVE  Core'
<1>1. ASSUME NEW c \in Clients, SpawnActor(c) \/ SpawnBag(c) PROVE Core'
  BY <1>1, SpawnActorKeeps, SpawnBagKeeps
<1>2. ASSUME NEW c \in Clients, NEW k \in Items, SpawnItem(c, k) PROVE Core'
  BY <1>2, SpawnItemKeeps
<1> QED BY <1>1, <1>2, EndRespawnKeeps DEF Respawn

LEMMA DelayedEventsKeep ==
    ASSUME Core, DelayedEvents
    PROVE  Core'
<1> PICK c \in Clients : \/ ReadyDead(c) \/ ReadySpectator(c)
                         \/ SelectSpectator(c) \/ Disconnect(c)
  BY DEF DelayedEvents
<1> QED BY ReadyDeadKeeps, ReadySpectatorKeeps, SelectSpectatorKeeps, DisconnectKeeps

(* SLS_Clear begins in peace or, without QuietClear, is beyond the horizon. *)
LEMMA RoundsKeep ==
    ASSUME Core, Rounds, StartRound => QuietClear
    PROVE  Core'
<1>1. ASSUME NEW c \in Clients, RespawnAsSpectator(c) PROVE Core'
  BY <1>1, RespawnAsSpectatorKeeps
<1> QED BY <1>1, EndRoundKeeps, RoundEndedKeeps, StartRoundKeeps, ClearPickKeeps,
           ClearEnterKeeps, ClearRejectKeeps, ClearDestroyKeeps, ClearDoneKeeps,
           RoundStartedKeeps DEF Rounds

LEMMA StutterKeeps ==
    ASSUME Core, UNCHANGED vars
    PROVE  Core'
<1>1. UNCHANGED <<ent, dead, valid, ground, removable, corpses, avatar, conn, veryDead, job,
                  emptying, detach, destroying, clearing, fault>>
  BY DEF vars, bodies, players, nested
<1>2. UNCHANGED <<live, Actors, Figures, Given>>
  BY <1>1 DEF live, Actors, Figures, Given, Kind, Owner
<1>3. Tree(ent)' /\ Order(ent)'
  BY <1>1 DEF Core
<1>4. Types'
  BY <1>1, <1>2 DEF Core, Types, Kind, Parent
<1>5. Jobs'
  BY <1>1, <1>2 DEF Core, Jobs, ForAll
<1>6. Avatars'
  BY <1>1, <1>2 DEF Core, Avatars, Owner
<1>7. Bags'
  BY <1>1, <1>2 DEF Core, Bags, InClear
<1>8. Emptying'
  BY <1>1, <1>2 DEF Core, Emptying, InClear, ForAll, Kind, Parent
<1>9. Detached'
  BY <1>1 DEF Core, Detached, InClear
<1>10. Destroyed'
  BY <1>1, <1>2 DEF Core, Destroyed, Kind, Parent, Owner
<1>11. Cleared'
  BY <1>1, <1>2 DEF Core, Cleared, InClear, Parent
<1> QED BY <1>3, <1>4, <1>5, <1>6, <1>7, <1>8, <1>9, <1>10, <1>11 DEF Core

(* The rounds, and what the horizon of Calm says of a step. *)
LEMMA CourseKeeps ==
    ASSUME Course, [Next]_vars
    PROVE  Course' /\ (Calm' => Calm /\ (StartRound => QuietClear))
<1>1. /\ job = [at |-> job.at, todo |-> job.todo] /\ job.todo \subseteq Clients
      /\ rounds \in 0 .. MaxRounds /\ rounds \in Nat /\ MaxRounds \in Nat
      /\ Present \subseteq Clients
  BY BoundsAssumption DEF Course, Present
<1> DEFINE Rests == UNCHANGED <<job, phase, rounds>>
           Goes == /\ UNCHANGED <<phase, rounds>>
                   /\ job' \in [at : {"idle", "starting", "entering", "clearing"} \cup Respawns,
                                todo : SUBSET Clients]
<1>2. ASSUME Rests PROVE Course' /\ (Calm' => Calm)
  BY <1>2 DEF Course, Calm
<1>3. ASSUME Goes PROVE Course' /\ (Calm' => Calm)
  BY <1>3 DEF Course, Calm, Respawns
<1>4. ASSUME StartRound PROVE Course' /\ (Calm' => Calm /\ QuietClear)
  <2>1. /\ phase = "pending" /\ phase' = "inprogress" /\ rounds' = rounds
        /\ job' = [at |-> "clearing", todo |-> {}]
    BY <1>4 DEF StartRound
  <2> QED BY <1>1, <2>1 DEF Course, Calm
<1>5. ASSUME RoundEnded PROVE Course' /\ (Calm' => Calm)
  <2>1. /\ job.at = "ending" /\ phase' = "pending" /\ rounds' = rounds + 1 /\ job' = Idle
    BY <1>5 DEF RoundEnded, At
  <2>2. rounds < MaxRounds /\ Idle \in [at : {"idle"}, todo : SUBSET Clients] /\ Idle.at = "idle"
    BY <2>1 DEF Course, Idle
  <2> QED BY <1>1, <2>1, <2>2 DEF Course, Calm
<1>6. ASSUME EndRound PROVE Course' /\ (Calm' => Calm)
  <2>1. /\ phase = "inprogress" /\ rounds < MaxRounds /\ UNCHANGED <<phase, rounds>>
        /\ job' = [at |-> "ending", todo |-> Present]
    BY <1>6 DEF EndRound, round
  <2> QED BY <1>1, <2>1 DEF Course, Calm
<1>7. ASSUME NEW c \in Clients, RespawnAsSpectator(c) PROVE Course' /\ (Calm' => Calm)
  <2>1. UNCHANGED <<phase, rounds>> /\ job' = [job EXCEPT !.todo = @ \ {c}]
    BY <1>7 DEF RespawnAsSpectator, round
  <2>2. job' = [at |-> job.at, todo |-> job.todo \ {c}]
    BY <1>1, <2>1
  <2> QED BY <1>1, <2>1, <2>2 DEF Course, Calm
<1>8. ASSUME Packets PROVE Rests
  BY <1>8 DEF Packets, ConnectFinished, Leave, Take, TakeForced, TakeBag, Reject, round
<1>9. ASSUME Nested PROVE Rests
  BY <1>9 DEF Nested, MoveFromBag, BagEmptied, DetachMove, DetachDrop, DetachEnd, DestroyChild,
              DestroyLeaf, round
<1>10. ASSUME Frame PROVE Rests
  BY <1>10 DEF Frame, Hear, Die, StartDestroy, DropBag, round
<1>11. ASSUME Respawn PROVE Rests \/ Goes
  <2>1. ASSUME NEW c \in Clients, SpawnActor(c) \/ SpawnBag(c) PROVE Rests \/ Goes
    BY <1>1, <2>1 DEF SpawnActor, SpawnBag, round, Respawns
  <2>2. ASSUME NEW c \in Clients, NEW k \in Items, SpawnItem(c, k) PROVE Rests
    BY <2>2 DEF SpawnItem, round
  <2>3. ASSUME EndRespawn PROVE Goes
    BY <2>3 DEF EndRespawn, Idle, round
  <2> QED BY <1>11, <2>1, <2>2, <2>3 DEF Respawn
<1>12. ASSUME DelayedEvents PROVE Rests \/ Goes
  <2>1. ASSUME NEW c \in Clients, ReadyDead(c) \/ SelectSpectator(c) \/ Disconnect(c) PROVE Rests
    BY <2>1 DEF ReadyDead, SelectSpectator, Disconnect, round
  <2>2. ASSUME NEW c \in Clients, ReadySpectator(c) PROVE Goes
    BY <2>2 DEF ReadySpectator, round, Respawns
  <2> QED BY <1>12, <2>1, <2>2 DEF DelayedEvents
<1>13. ASSUME ClearPick \/ ClearEnter \/ ClearReject PROVE Goes
  <2>1. UNCHANGED <<phase, rounds>> /\ \E s \in {"entering", "clearing"} : job' = [job EXCEPT !.at = s]
    BY <1>13 DEF ClearPick, ClearEnter, ClearReject, round
  <2> QED BY <1>1, <2>1
<1>14. ASSUME ClearDestroy PROVE Rests
  BY <1>14 DEF ClearDestroy, round
<1>15. ASSUME ClearDone \/ RoundStarted PROVE Goes
  BY <1>1, <1>15 DEF ClearDone, RoundStarted, Idle, round
<1>16. ASSUME UNCHANGED vars PROVE Rests
  BY <1>16 DEF vars, round
<1>17. ~ StartRound => Course' /\ (Calm' => Calm)
  <2> HIDE DEF Rests, Goes
  <2>1. ASSUME Rounds, ~ StartRound PROVE Course' /\ (Calm' => Calm)
    BY <1>2, <1>3, <1>5, <1>6, <1>7, <1>13, <1>14, <1>15, <2>1 DEF Rounds
  <2> QED BY <1>2, <1>3, <1>8, <1>9, <1>10, <1>11, <1>12, <1>16, <2>1 DEF Next
<1> QED BY <1>4, <1>17

LEMMA InvInit == Init => Inv
<1> SUFFICES ASSUME Init PROVE Inv
  OBVIOUS
<1>1. /\ ent = [i \in Ids |-> Gone] /\ live = {} /\ Living(ent) = {}
      /\ dead = {} /\ valid = {} /\ ground = {} /\ removable = {} /\ corpses = {}
      /\ avatar = [c \in Clients |-> None] /\ conn = [c \in Clients |-> "out"]
      /\ veryDead = {} /\ job = Idle /\ emptying = Done /\ detach = Done
      /\ destroying = <<>> /\ clearing = <<>> /\ fault = "none"
      /\ phase = "inprogress" /\ rounds = 0
  BY DEF Init, live, Living, Gone, Kind
<1>2. job = [at |-> "idle", todo |-> {}] /\ job.at = "idle" /\ job.todo = {}
  BY <1>1 DEF Idle
<1>3. Actors = {} /\ Figures = {} /\ Given = {}
  BY <1>1 DEF Actors, Figures, Given
<1>4. Gone \in Entity
  <2>1. <<>> \in Seq(Ids)
    OBVIOUS
  <2> QED BY <2>1, KindsAre DEF Gone, Entity
<1>5. Tree(ent) /\ Order(ent)
  BY <1>1, <1>4 DEF Tree, Order
<1>6. Types /\ Avatars
  BY <1>1, <1>3 DEF Types, Avatars
<1>7. Jobs
  <2>1. job \in [at : {"idle"}, todo : SUBSET Clients]
    BY <1>2
  <2> QED BY <1>1, <1>2, <2>1 DEF Jobs, ForAll, Respawns
<1>8. Bags /\ Emptying /\ Detached
  BY <1>1, <1>3 DEF Bags, Emptying, Detached
<1>9. Destroyed /\ Cleared
  <2>1. <<>> \in Seq(live) /\ Distinct(<<>>) /\ DOMAIN <<>> = {} /\ ~ InClear
    BY <1>2 DEF Distinct, InClear
  <2>2. Destroyed
    BY <1>1, <2>1 DEF Destroyed
  <2>3. DOMAIN clearing = {} /\ clearing \in Seq(live) /\ Distinct(clearing)
    BY <1>1, <2>1
  <2>4. Cleared
    BY <1>1, <1>2, <2>1, <2>3 DEF Cleared
  <2> QED BY <2>2, <2>4
<1>10. Course
  BY <1>1, <1>2, BoundsAssumption DEF Course
<1> QED BY <1>5, <1>6, <1>7, <1>8, <1>9, <1>10 DEF Inv, Core

LEMMA InvNext == Inv /\ [Next]_vars => Inv'
<1> SUFFICES ASSUME Inv, [Next]_vars PROVE Inv'
  OBVIOUS
<1>1. Course' /\ (Calm' => Calm /\ (StartRound => QuietClear))
  BY CourseKeeps DEF Inv
<1>2. ASSUME Calm' PROVE Core'
  <2>1. Core /\ (StartRound => QuietClear)
    BY <1>1, <1>2 DEF Inv
  <2> QED BY <2>1, PacketsKeep, NestedKeep, FrameKeeps, RespawnKeeps, DelayedEventsKeep,
             RoundsKeep, StutterKeeps DEF Next
<1> QED BY <1>1, <1>2 DEF Inv

-----------------------------------------------------------------------------
(* What the invariant says of the properties that the runs check. *)

LEMMA CoreTyped == Core /\ Course => TypeOK
<1> SUFFICES ASSUME Core, Course PROVE TypeOK
  OBVIOUS
<1>1. ASSUME NEW i \in Ids
      PROVE  /\ Kind(i) \in Kinds /\ Parent(i) \in Ids \cup {None} /\ Children(i) \in Seq(Ids)
             /\ i \in live => Owner(i) \in Clients \cup {Server}
  <2>1. /\ ent[i].kind \in Kinds /\ ent[i].parent \in Ids \cup {None}
        /\ ent[i].children \in Seq(Ids) /\ ent[i].owner \in Clients \cup {Server, Nobody}
    BY EntityFields DEF Core, Tree
  <2>2. i \in live => ent[i].owner # Nobody
    BY LiveIsLiving DEF Core, Order, Owned
  <2> QED BY <2>1, <2>2 DEF Kind, Parent, Children, Owner
<1>2. live \subseteq Ids /\ Actors \subseteq live /\ Figures \subseteq live
  BY LiveIsLiving DEF Actors, Figures
<1>3. job.todo \subseteq Clients
  BY DEF Core, Jobs
<1>4. destroying \in Seq(live) /\ clearing \in Seq(live)
  BY DEF Core, Destroyed, Cleared
<1>5. destroying \in Seq(Ids) /\ clearing \in Seq(Ids)
  BY <1>2, <1>4
<1> QED BY <1>1, <1>2, <1>3, <1>5 DEF Core, Types, Course, TypeOK, Faults

LEMMA CoreVerified == Core => VerifyEntities
<1> SUFFICES ASSUME Core, NEW i \in live
             PROVE  /\ Parent(i) # None => /\ Parent(i) \in live
                                           /\ i \in Range(Children(Parent(i)))
                    /\ \A x \in Range(Children(i)) : x \in live /\ Parent(x) = i
                    /\ \A m, n \in DOMAIN Children(i) : Children(i)[m] = Children(i)[n] => m = n
  BY DEF VerifyEntities
<1>1. Up(ent, i) /\ Down(ent, i)
  BY LiveIsLiving DEF Core, Tree
<1>2. Parent(i) # None => Parent(i) \in live /\ i \in Range(Children(Parent(i)))
  BY <1>1, LiveIsLiving DEF Up, Parent, Children, Range
<1>3. \A x \in Range(Children(i)) : x \in live /\ Parent(x) = i
  BY InRange
<1>4. Distinct(Children(i))
  BY <1>1 DEF Down, Children
<1> QED BY <1>2, <1>3, <1>4 DEF Distinct

LEMMA CoreHits == Core => IteratorHits
<1> SUFFICES ASSUME Core, detach # Done
             PROVE  /\ detach.at \in DOMAIN Children(detach.from)
                    /\ Children(detach.from)[detach.at] = detach.bag
  BY DEF IteratorHits
<1> DEFINE b == detach.bag
           p == detach.from
<1>1. Moving(ent, detach) /\ p # None
  BY DetachIs
<1>2. b \in Living(ent) /\ ent[b].kind = "bag" /\ ent[b].parent = p /\ detach.at = 1
  BY <1>1 DEF Moving, Detachment
<1>3. 1 \in DOMAIN ent[p].children /\ ent[p].children[1] = b
  BY <1>1, <1>2, BagIsFirst DEF Core
<1> QED BY <1>2, <1>3 DEF Children

(* Items lie in bags, bags on actors, and actors on the ground: whoever goes *)
(* up from an entity is at a root after two steps.                           *)
LEMMA CoreRooted == Core /\ live # {} => Roots # {}
<1> SUFFICES ASSUME Core, NEW x \in live PROVE Roots # {}
  OBVIOUS
<1>1. \A y \in live : /\ ent[y].parent # None => ent[y].parent \in live
                      /\ Held(ent, y)
  BY LiveIsLiving DEF Core, Tree, Up, Order
<1>2. ASSUME NEW y \in live, ent[y].kind = "actor" PROVE Roots # {}
  <2>1. ent[y].parent = None
    BY <1>1, <1>2, KindsAre DEF Held
  <2> QED BY <2>1 DEF Roots, Parent
<1>3. ASSUME NEW y \in live, ent[y].kind = "bag" PROVE Roots # {}
  <2>1. CASE ent[y].parent = None
    BY <2>1 DEF Roots, Parent
  <2>2. CASE ent[y].parent # None
    <3>1. ent[y].parent \in live /\ ent[ent[y].parent].kind = "actor"
      BY <1>1, <1>3, <2>2, KindsAre DEF Held
    <3> QED BY <1>2, <3>1
  <2> QED BY <2>1, <2>2
<1>4. CASE ent[x].parent = None
  BY <1>4 DEF Roots, Parent
<1>5. CASE ent[x].parent # None
  <2>1. ent[x].parent \in live /\ ent[ent[x].parent].kind \in {"actor", "bag"}
    BY <1>1, <1>5 DEF Held
  <2> QED BY <1>2, <1>3, <2>1
<1> QED BY <1>4, <1>5

LEMMA CoreAsserted == Core => AssertionsHold
BY CoreRooted DEF Core, Types, AssertionsHold, NothingLeaked

LEMMA CoreOneGun == Core => OneGun
<1> SUFFICES ASSUME Core, NEW a \in live, Kind(a) = "actor" PROVE Len(Guns(a)) <= 1
  BY DEF OneGun
<1> QED BY GunsAre DEF Core

LEMMA CoreEmptied == Core => BodiesLeaveTheirItems
<1> SUFFICES ASSUME Core, NEW a \in dead, \A x \in Range(Children(a)) : Kind(x) # "bag"
             PROVE  Children(a) = <<>>
  BY DEF BodiesLeaveTheirItems
<1>1. a \in live
  BY DEF Core, Types, Actors
<1>2. ~ Bagged(ent, a)
  BY <1>1, InRange, LiveIsLiving DEF Bagged, Kind, Parent
<1>3. Childless(ent, a)
  BY <1>2 DEF Core, Bags
<1> QED BY <1>1, <1>3, InRange

LEMMA CoreBare == Core => BareIdsAreLive
<1> SUFFICES ASSUME Core PROVE AvatarOwned /\ CorpsesAreLive
  BY DEF BareIdsAreLive
<1>1. CorpsesAreLive
  BY DEF Core, Types, Figures, Given, CorpsesAreLive
<1>2. ASSUME NEW c \in Clients, avatar[c] # None
      PROVE  \/ job = [at |-> "actor", todo |-> {c}]
             \/ avatar[c] \in live /\ Owner(avatar[c]) = c
  <2>1. \/ job.at = "actor" /\ c \in job.todo
        \/ avatar[c] \in Figures /\ Owner(avatar[c]) = c
    BY <1>2 DEF Core, Avatars
  <2>2. CASE job.at = "actor" /\ c \in job.todo
    <3>1. job = [at |-> job.at, todo |-> job.todo] /\ job.todo = {c}
      BY <2>2 DEF Core, Jobs, Respawns
    <3> QED BY <2>2, <3>1
  <2>3. CASE avatar[c] \in Figures /\ Owner(avatar[c]) = c
    BY <2>3 DEF Figures
  <2> QED BY <2>1, <2>2, <2>3
<1> QED BY <1>1, <1>2 DEF AvatarOwned

-----------------------------------------------------------------------------
(* The invariant, and its theorems. *)

LEMMA InvHolds == Spec => []Inv
BY InvInit, InvNext, PTL DEF Spec

(* Until SLS_Clear has run for the first time the registry is sound, even if  *)
(* packets may arrive while SLS_Clear runs: in all that happens up to the   *)
(* end of the first round, however packets, delayed events, frames and the  *)
(* loops of one operation interleave, none of the properties fails.         *)
THEOREM CalmRegistry ==
    Spec => [](Calm => /\ TypeOK /\ VerifyEntities /\ IteratorHits /\ AssertionsHold
                       /\ OneGun /\ BodiesLeaveTheirItems /\ BareIdsAreLive)
<1>1. Inv => (Calm => /\ TypeOK /\ VerifyEntities /\ IteratorHits /\ AssertionsHold
                      /\ OneGun /\ BodiesLeaveTheirItems /\ BareIdsAreLive)
  BY CoreTyped, CoreVerified, CoreHits, CoreAsserted, CoreOneGun, CoreEmptied, CoreBare DEF Inv
<1> QED BY <1>1, InvHolds, PTL

(* When packets wait for SLS_Clear, this is so for ever.                     *)
LEMMA QuietInv == ASSUME QuietClear PROVE Spec => []Core
<1>1. Inv => Core
  BY DEF Inv, Calm
<1> QED BY <1>1, InvHolds, PTL

(* Every variable keeps its type: what the game thread knows of is in the    *)
(* registry, and every entity has an owner, as Process_event asserts.       *)
THEOREM RegistryTyped == ASSUME QuietClear PROVE Spec => []TypeOK
<1>1. Inv => TypeOK
  BY CoreTyped DEF Inv, Calm
<1> QED BY <1>1, InvHolds, PTL

(* xrServer::verify_entities never fails: after every take, reject, transfer *)
(* and destroy, and in the middle of the operations made of several of them,*)
(* parents and children know each other.                                    *)
THEOREM RegistryVerified == ASSUME QuietClear PROVE Spec => []VerifyEntities
BY QuietInv, CoreVerified, PTL

(* The position that Process_event_reject keeps across OnDetach is the bag's  *)
(* until it is used, although OnDetach erases children of the same list.    *)
THEOREM IteratorsHit == ASSUME QuietClear PROVE Spec => []IteratorHits
BY QuietInv, CoreHits, PTL

(* No R_ASSERT of Perform_transfer, Perform_reject, Perform_destroy and       *)
(* Process_event_destroy fails, and SLS_Clear always finds a root while     *)
(* anything is left: only a player that leaves during its respawn can fail. *)
THEOREM NothingAsserts == ASSUME QuietClear PROVE Spec => []AssertionsHold
BY QuietInv, CoreAsserted, PTL

(* No actor ever holds two guns, bought, taken, forced or out of a bag.       *)
THEOREM OneGunOnly == ASSUME QuietClear PROVE Spec => []OneGun
BY QuietInv, CoreOneGun, PTL

(* A dead body that has lost its bag holds nothing: whoever gets items while  *)
(* it is alive has a bag, and OnDetach leaves nothing behind.               *)
THEOREM BodiesAreEmptied == ASSUME QuietClear PROVE Spec => []BodiesLeaveTheirItems
BY QuietInv, CoreEmptied, PTL

(* CL->owner, ps->GameID and m_CorpseList name entities that exist and that   *)
(* have the right owner, whoever destroys and gives away entities.          *)
THEOREM IdsOutliveNothing == ASSUME QuietClear PROVE Spec => []BareIdsAreLive
BY QuietInv, CoreBare, PTL
=============================================================================
