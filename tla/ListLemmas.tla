----------------------------- MODULE ListLemmas -----------------------------
(***************************************************************************)
(* Facts about numbers and sequences that the proofs of several components *)
(* need: the code keeps its entries, nodes and services in linked lists.   *)
(***************************************************************************)
EXTENDS Integers, SequencesExt, FiniteSetTheorems, SequenceTheorems, TLAPS

(* Numbers, and sequences without repetition. *)

LEMMA LeastNumber == \A S \in SUBSET Nat : S # {} => \E m \in S : \A k \in S : m <= k
<1> SUFFICES ASSUME NEW S \in SUBSET Nat, S # {} PROVE \E m \in S : \A k \in S : m <= k
    OBVIOUS
<1> DEFINE R == OpToRel(<, Nat)
<1>1. IsWellFoundedOn(R, Nat)
    BY NatLessThanWellFounded, Zenon
<1>2. PICK m \in S : \A k \in S : ~ (<<k, m>> \in R)
    BY <1>1, WFMin
<1>3. \A k \in S : ~ (k < m)
    BY <1>2 DEF OpToRel
<1> QED
    BY <1>3

(* What holds at 0 and is handed on from each number to the next holds up   *)
(* to N.                                                                    *)
LEMMA UpTo ==
    ASSUME NEW N \in Nat, NEW S, 0 \in S, \A m \in 1 .. N : m - 1 \in S => m \in S
    PROVE  \A m \in 0 .. N : m \in S
<1> DEFINE Bad == {m \in 0 .. N : m \notin S}
<1>1. Bad \in SUBSET Nat
    OBVIOUS
<1>2. ASSUME Bad # {} PROVE FALSE
  <2>1. PICK m \in Bad : \A k \in Bad : m <= k
      BY <1>1, <1>2, LeastNumber, Zenon
  <2>2. m \in 1 .. N /\ m - 1 \in 0 .. N /\ m - 1 \notin Bad
      BY <2>1
  <2> QED
      BY <2>2
<1> QED
    BY <1>2

LEMMA GreatestIsMax ==
    ASSUME NEW N \in Nat, NEW S \in SUBSET (1 .. N), S # {}
    PROVE  Max(S) \in S /\ Max(S) \in 1 .. N /\ \A k \in S : k <= Max(S)
<1> DEFINE Above == {m \in Nat : \A k \in S : k <= m}
<1>1. Above \in SUBSET Nat /\ N \in Above
    OBVIOUS
<1>2. PICK m \in Above : \A k \in Above : m <= k
    BY <1>1, LeastNumber, Zenon
<1>3. m \in S
  <2>1. CASE m = 0
    <3>1. PICK k \in S : TRUE
        OBVIOUS
    <3>2. k \in 1 .. N /\ k <= 0
        BY <1>2, <2>1, <3>1
    <3> QED
        BY <3>2
  <2>2. CASE m # 0
    <3>1. m - 1 \in Nat /\ m - 1 \notin Above
        BY <1>2, <2>2
    <3> QED
        BY <1>2, <3>1
  <2> QED
      BY <2>1, <2>2
<1>4. \E x \in S : \A y \in S : x >= y
    BY <1>2, <1>3
<1>5. Max(S) \in S /\ \A y \in S : Max(S) >= y
    BY <1>4, Zenon DEF Max
<1> QED
    BY <1>5

LEMMA MaxOfInterval ==
    ASSUME NEW n \in Nat \ {0}
    PROVE  1 .. n # {} /\ Max(1 .. n) = n /\ (1 .. n) \ {n} = 1 .. n - 1
<1>1. 1 .. n # {} /\ (1 .. n) \ {n} = 1 .. n - 1 /\ n \in 1 .. n
    OBVIOUS
<1>2. Max(1 .. n) \in 1 .. n /\ \A k \in 1 .. n : k <= Max(1 .. n)
    BY <1>1, GreatestIsMax
<1> QED
    BY <1>1, <1>2

(* h folds the indices of a sequence the way FoldLeft does, G[n] being what *)
(* the n-th element does to a value.                                        *)
Folds(h, b, G, m) ==
    \A t \in SUBSET (1 .. m) : h[t] = IF t = {} THEN b ELSE G[Max(t)][h[t \ {Max(t)}]]

(* There is such a function, so that the recursion in FoldLeft defines one. *)
LEMMA FoldExists ==
    ASSUME NEW V, NEW b \in V, NEW N \in Nat, NEW G \in [1 .. N -> [V -> V]]
    PROVE  \E h \in [SUBSET (1 .. N) -> V] : Folds(h, b, G, N)
<1> DEFINE Good == {m \in 0 .. N : \E h \in [SUBSET (1 .. m) -> V] : Folds(h, b, G, m)}
<1>1. 0 \in Good
  <2> DEFINE h == [t \in SUBSET (1 .. 0) |-> b]
  <2>1. h \in [SUBSET (1 .. 0) -> V]
      OBVIOUS
  <2>2. 1 .. 0 = {}
      OBVIOUS
  <2>3. Folds(h, b, G, 0)
      BY <2>2 DEF Folds
  <2> QED
      BY <2>1, <2>3
<1>2. ASSUME NEW m \in 1 .. N, m - 1 \in Good PROVE m \in Good
  <2>1. PICK h \in [SUBSET (1 .. m - 1) -> V] : Folds(h, b, G, m - 1)
      BY <1>2
  <2> DEFINE g == [t \in SUBSET (1 .. m) |-> IF m \in t THEN G[m][h[t \ {m}]] ELSE h[t]]
  <2>2. \A t \in SUBSET (1 .. m) : /\ t \ {m} \in SUBSET (1 .. m - 1)
                                   /\ t \ {m} \in SUBSET (1 .. m)
                                   /\ m \notin t => t \in SUBSET (1 .. m - 1)
      OBVIOUS
  <2>3. g \in [SUBSET (1 .. m) -> V]
      BY <2>2
  <2>4. \A t \in SUBSET (1 .. m) : g[t] = IF m \in t THEN G[m][h[t \ {m}]] ELSE h[t]
      OBVIOUS
  <2> HIDE DEF g
  <2>5. ASSUME NEW t \in SUBSET (1 .. m)
        PROVE  g[t] = IF t = {} THEN b ELSE G[Max(t)][g[t \ {Max(t)}]]
    <3>1. CASE m \in t
      <4>1. Max(t) = m
        <5>1. Max(t) \in t /\ Max(t) \in 1 .. m /\ \A k \in t : k <= Max(t)
            BY <3>1, GreatestIsMax
        <5> QED
            BY <3>1, <5>1
      <4>2. g[t \ {m}] = h[t \ {m}]
          BY <2>2, <2>4
      <4> QED
          BY <2>4, <3>1, <4>1, <4>2
    <3>2. CASE m \notin t
      <4>1. t \in SUBSET (1 .. m - 1) /\ g[t] = h[t]
          BY <2>2, <2>4, <3>2
      <4>2. h[t] = IF t = {} THEN b ELSE G[Max(t)][h[t \ {Max(t)}]]
          BY <2>1, <4>1 DEF Folds
      <4>3. t \ {Max(t)} \in SUBSET (1 .. m) /\ m \notin t \ {Max(t)}
          BY <3>2
      <4>4. g[t \ {Max(t)}] = h[t \ {Max(t)}]
          BY <2>4, <4>3
      <4> QED
          BY <4>1, <4>2, <4>4
    <3> QED
        BY <3>1, <3>2
  <2>6. Folds(g, b, G, m)
      BY <2>5 DEF Folds
  <2> QED
      BY <2>3, <2>6
<1> HIDE DEF Good
<1>3. \A m \in 0 .. N : m \in Good
    BY <1>1, <1>2, UpTo
<1>4. N \in Good
    BY <1>3
<1> QED
    BY <1>4 DEF Good

LEMMA StepsTyped ==
    ASSUME NEW V, NEW N \in Nat, NEW f, f = [n \in 0 .. N |-> f[n]], f[0] \in V,
           \A n \in 1 .. N : f[n - 1] \in V => f[n] \in V
    PROVE  f \in [0 .. N -> V]
<1> DEFINE S == {n \in 0 .. N : f[n] \in V}
<1>1. 0 \in S /\ \A n \in 1 .. N : n - 1 \in S => n \in S
    OBVIOUS
<1> HIDE DEF S
<1>2. \A n \in 0 .. N : n \in S
    BY <1>1, UpTo
<1> QED
    BY <1>2 DEF S

(* Adding to a remainder is adding to the number. *)
LEMMA RemainderOfSum ==
    ASSUME NEW M \in Nat \ {0}, NEW x \in Nat, NEW d \in Nat
    PROVE  ((x % M) + d) % M = (x + d) % M
<1> DEFINE y == (x % M) + d
           q == x \div M
           k == y \div M
           r == y % M
<1>1. x % M \in Nat /\ y \in Nat
    OBVIOUS
<1>2. x = M * q + (x % M) /\ q \in Int
    OBVIOUS
<1>3. y = M * k + r /\ k \in Int /\ r \in 0 .. M - 1
    BY <1>1
<1> HIDE DEF q, k, r
<1>4. M * (q + k) = M * q + M * k /\ M * q \in Int /\ M * k \in Int
    BY <1>2, <1>3
<1>5. x + d = (M * q + M * k) + r
    BY <1>1, <1>2, <1>3, <1>4
<1>6. x + d = M * (q + k) + r
    BY <1>4, <1>5
<1>7. \A j \in Int : (M * j + r) % M = r
    BY <1>3
<1>8. q + k \in Int
    BY <1>2, <1>3
<1>9. (M * (q + k) + r) % M = r
    BY <1>7, <1>8, Zenon
<1> QED
    BY <1>6, <1>9 DEF r

LEMMA WiderSeq == ASSUME NEW A, NEW B, A \subseteq B, NEW s \in Seq(A) PROVE s \in Seq(B)
<1>1. Len(s) \in Nat /\ s \in [1 .. Len(s) -> A]
    BY LenProperties
<1>2. s \in [1 .. Len(s) -> B]
    BY <1>1
<1> QED
    BY <1>1, <1>2, SeqDef

(* The sum of a list of numbers, from its front to its end. *)
SumOf(s) == FoldLeft(LAMBDA n, m : n + m, 0, s)

(* z[n] is the sum of the first n numbers. *)
SumsTo(z, s) ==
    /\ z \in [0 .. Len(s) -> Nat] /\ z[0] = 0
    /\ \A n \in 1 .. Len(s) : z[n] = z[n - 1] + s[n]

LEMMA SumSteps ==
    ASSUME NEW s \in Seq(Nat)
    PROVE  \E z : SumsTo(z, s) /\ SumOf(s) = z[Len(s)]
<1> DEFINE G == [n \in 1 .. Len(s) |-> [v \in Nat |-> v + s[n]]]
<1>1. Len(s) \in Nat /\ DOMAIN s = 1 .. Len(s) /\ \A n \in 1 .. Len(s) : s[n] \in Nat
    BY LenProperties, ElementOfSeq
<1>2. G \in [1 .. Len(s) -> [Nat -> Nat]] /\ \A n \in 1 .. Len(s), v \in Nat : G[n][v] = v + s[n]
    BY <1>1
<1> HIDE DEF G
<1>3. PICK g \in [SUBSET (1 .. Len(s)) -> Nat] : Folds(g, 0, G, Len(s))
    BY <1>1, <1>2, FoldExists
<1>4. g = [t \in SUBSET (DOMAIN s) |-> IF t = {} THEN 0 ELSE g[t \ {Max(t)}] + s[Max(t)]]
  <2> SUFFICES ASSUME NEW t \in SUBSET (1 .. Len(s)), t # {}
               PROVE  g[t] = g[t \ {Max(t)}] + s[Max(t)]
      BY <1>1, <1>3 DEF Folds
  <2>1. Max(t) \in 1 .. Len(s) /\ g[t \ {Max(t)}] \in Nat
      BY <1>1, GreatestIsMax
  <2> QED
      BY <1>2, <1>3, <2>1 DEF Folds
<1>5. PICK h : /\ h = [t \in SUBSET (DOMAIN s) |-> IF t = {} THEN 0 ELSE h[t \ {Max(t)}] + s[Max(t)]]
               /\ SumOf(s) = h[DOMAIN s]
    BY <1>4, Zenon DEF SumOf, FoldLeft, MapThenFoldSet
<1> DEFINE z == [n \in 0 .. Len(s) |-> h[1 .. n]]
<1>6. z[0] = 0
    BY <1>1, <1>5
<1>7. \A n \in 1 .. Len(s) : z[n] = z[n - 1] + s[n]
  <2> SUFFICES ASSUME NEW n \in 1 .. Len(s) PROVE h[1 .. n] = h[1 .. n - 1] + s[n]
      BY <1>1
  <2>1. 1 .. n \in SUBSET (DOMAIN s) /\ 1 .. n # {} /\ Max(1 .. n) = n /\ (1 .. n) \ {n} = 1 .. n - 1
      BY <1>1, MaxOfInterval, SMTT(30)
  <2> QED
      BY <1>5, <2>1
<1>8. SumOf(s) = z[Len(s)]
    BY <1>1, <1>5
<1>9. z \in [0 .. Len(s) -> Nat]
  <2>1. z = [n \in 0 .. Len(s) |-> z[n]]
      OBVIOUS
  <2> HIDE DEF z
  <2>2. \A n \in 1 .. Len(s) : z[n - 1] \in Nat => z[n] \in Nat
      BY <1>1, <1>7
  <2>3. z[0] \in Nat
      BY <1>6
  <2> QED
      BY <1>1, <2>1, <2>2, <2>3, StepsTyped, Zenon
<1> HIDE DEF z
<1> QED
    BY <1>6, <1>7, <1>8, <1>9 DEF SumsTo

(* Two such functions agree as far as their lists do. *)
LEMMA SumsAgree ==
    ASSUME NEW s, NEW t, NEW y, NEW z, SumsTo(y, s), SumsTo(z, t),
           NEW N \in Nat, N <= Len(s), N <= Len(t), Len(s) \in Nat, Len(t) \in Nat,
           \A n \in 1 .. N : s[n] = t[n]
    PROVE  y[N] = z[N]
<1> DEFINE S == {n \in 0 .. N : y[n] = z[n]}
<1>1. 0 \in S
    BY DEF SumsTo
<1>2. ASSUME NEW n \in 1 .. N, n - 1 \in S PROVE n \in S
  <2>1. n \in 1 .. Len(s) /\ n \in 1 .. Len(t)
      OBVIOUS
  <2>2. y[n] = y[n - 1] + s[n] /\ z[n] = z[n - 1] + t[n] /\ s[n] = t[n] /\ y[n - 1] = z[n - 1]
      BY <1>2, <2>1 DEF SumsTo
  <2> QED
      BY <2>2
<1> HIDE DEF S
<1>3. \A n \in 0 .. N : n \in S
    BY <1>1, <1>2, UpTo
<1>4. N \in S
    BY <1>3
<1> QED
    BY <1>4 DEF S

LEMMA SumBuilt ==
    ASSUME NEW s \in Seq(Nat), NEW z, SumsTo(z, s)
    PROVE  SumOf(s) = z[Len(s)] /\ SumOf(s) \in Nat
<1>1. PICK y : SumsTo(y, s) /\ SumOf(s) = y[Len(s)]
    BY SumSteps
<1>2. Len(s) \in Nat /\ Len(s) <= Len(s)
    BY LenProperties
<1>3. y[Len(s)] = z[Len(s)]
    BY <1>1, <1>2, SumsAgree
<1> QED
    BY <1>1, <1>2, <1>3 DEF SumsTo

LEMMA SumOfAppend ==
    ASSUME NEW s \in Seq(Nat), NEW d \in Nat
    PROVE  SumOf(Append(s, d)) = SumOf(s) + d /\ SumOf(s) \in Nat
<1> DEFINE a == Append(s, d)
           L == Len(s)
<1>1. L \in Nat /\ a \in Seq(Nat) /\ Len(a) = L + 1 /\ a[L + 1] = d /\ \A n \in 1 .. L : a[n] = s[n]
    BY LenProperties, AppendProperties
<1> HIDE DEF a
<1>2. PICK z : SumsTo(z, s) /\ SumOf(s) = z[L]
    BY SumSteps
<1>3. PICK y : SumsTo(y, a) /\ SumOf(a) = y[L + 1]
    BY <1>1, SumSteps
<1>4. y[L] = z[L]
  <2>1. L <= Len(a) /\ L <= Len(s) /\ Len(a) \in Nat /\ Len(s) \in Nat
      BY <1>1
  <2>2. SumsTo(y, a) /\ SumsTo(z, s) /\ L \in Nat /\ \A n \in 1 .. L : a[n] = s[n]
      BY <1>1, <1>2, <1>3
  <2> HIDE DEF L
  <2> QED
      BY <2>1, <2>2, SumsAgree
<1>5. y[L + 1] = y[L] + d
  <2>1. L + 1 \in 1 .. L + 1 /\ L + 1 - 1 = L
      BY <1>1
  <2> QED
      BY <1>1, <1>3, <2>1, SMTT(30) DEF SumsTo
<1>6. z[L] \in Nat
    BY <1>1, <1>2 DEF SumsTo
<1> QED
    BY <1>2, <1>3, <1>4, <1>5, <1>6 DEF a

LEMMA SumOfZeros ==
    ASSUME NEW s \in Seq(Nat), \A n \in 1 .. Len(s) : s[n] = 0
    PROVE  SumOf(s) = 0
<1> DEFINE z == [n \in 0 .. Len(s) |-> 0]
<1>1. SumsTo(z, s)
    BY DEF SumsTo
<1>2. z[Len(s)] = 0
    BY LenProperties
<1> QED
    BY <1>1, <1>2, SumBuilt

LEMMA SumOfPrefix ==
    ASSUME NEW s \in Seq(Nat), NEW z, SumsTo(z, s), NEW n \in 0 .. Len(s)
    PROVE  SumOf(SubSeq(s, 1, n)) = z[n]
<1> DEFINE p == SubSeq(s, 1, n)
<1>1. Len(s) \in Nat /\ n \in Nat /\ n <= Len(s) /\ \A i \in 1 .. n : s[i] \in Nat
    BY LenProperties, ElementOfSeq
<1>2. p \in Seq(Nat) /\ Len(p) = n /\ \A i \in 1 .. n : p[i] = s[i]
  <2>1. /\ p \in Seq(Nat) /\ Len(p) = IF 1 <= n THEN n - 1 + 1 ELSE 0
        /\ \A i \in 1 .. n - 1 + 1 : p[i] = s[1 + i - 1]
      BY <1>1, SubSeqProperties
  <2>2. \A i \in 1 .. n : i \in 1 .. n - 1 + 1 /\ 1 + i - 1 = i
      BY <1>1
  <2> HIDE DEF p
  <2>3. Len(p) = n
      BY <1>1, <2>1
  <2> QED
      BY <2>1, <2>2, <2>3, Zenon
<1> HIDE DEF p
<1>3. PICK y : SumsTo(y, p) /\ SumOf(p) = y[n]
    BY <1>2, SumSteps
<1>4. y[n] = z[n]
  <2>1. n <= Len(p) /\ n <= Len(s) /\ Len(p) \in Nat /\ Len(s) \in Nat
      BY <1>1, <1>2
  <2>2. SumsTo(y, p) /\ SumsTo(z, s) /\ n \in Nat /\ \A i \in 1 .. n : p[i] = s[i]
      BY <1>1, <1>2, <1>3
  <2> QED
      BY <2>1, <2>2, SumsAgree
<1> QED
    BY <1>3, <1>4 DEF p

LEMMA SumsGrow ==
    ASSUME NEW s \in Seq(Nat), NEW z, SumsTo(z, s)
    PROVE  \A n \in 0 .. Len(s) : z[n] <= z[Len(s)]
<1> DEFINE S == {m \in 0 .. Len(s) : \A n \in 0 .. m : z[n] <= z[m]}
<1>1. Len(s) \in Nat /\ \A n \in 1 .. Len(s) : s[n] \in Nat
    BY LenProperties, ElementOfSeq
<1>2. z \in [0 .. Len(s) -> Nat] /\ \A n \in 1 .. Len(s) : z[n] = z[n - 1] + s[n]
    BY DEF SumsTo
<1>3. 0 \in S
    BY <1>1, <1>2
<1>4. ASSUME NEW m \in 1 .. Len(s), m - 1 \in S PROVE m \in S
  <2>1. z[m] = z[m - 1] + s[m] /\ s[m] \in Nat /\ z[m - 1] \in Nat
      BY <1>1, <1>2
  <2>2. ASSUME NEW n \in 0 .. m PROVE z[n] <= z[m]
    <3>1. CASE n = m
        BY <1>2, <2>1, <3>1
    <3>2. CASE n \in 0 .. m - 1
      <4>1. z[n] <= z[m - 1]
          BY <1>4, <3>2
      <4>2. n \in 0 .. Len(s)
          BY <1>1, <3>2
      <4>3. z[n] \in Nat
          BY <1>2, <4>2
      <4> QED
          BY <2>1, <4>1, <4>3
    <3> QED
        BY <3>1, <3>2
  <2> QED
      BY <2>2
<1> HIDE DEF S
<1>5. \A m \in 0 .. Len(s) : m \in S
    BY <1>1, <1>3, <1>4, UpTo
<1>6. Len(s) \in S
    BY <1>1, <1>5
<1> QED
    BY <1>6 DEF S

NoRepeats(s) == \A i, j \in 1 .. Len(s) : s[i] = s[j] => i = j

(* A sequence without repetition is as long as the set of its elements is   *)
(* large.                                                                   *)
LEMMA NoRepeatsCardinality ==
    ASSUME NEW S, NEW s \in Seq(S), NoRepeats(s)
    PROVE  IsFiniteSet(ToSet(s)) /\ Cardinality(ToSet(s)) = Len(s)
<1>1. Len(s) \in Nat /\ s \in [1 .. Len(s) -> S] /\ DOMAIN s = 1 .. Len(s)
    BY LenProperties
<1>2. s \in [1 .. Len(s) -> ToSet(s)]
    BY <1>1 DEF ToSet
<1>3. s \in Bijection(1 .. Len(s), ToSet(s))
    BY <1>1, <1>2 DEF Bijection, Injection, Surjection, IsInjective, NoRepeats, ToSet
<1>4. IsFiniteSet(1 .. Len(s)) /\ Cardinality(1 .. Len(s)) = Len(s)
    BY <1>1, FS_Interval, SMTT(30)
<1> QED
    BY <1>3, <1>4, FS_Bijection DEF ExistsBijection

LEMMA LeastIsMin == \A S \in SUBSET Nat : S # {} => Min(S) \in S /\ \A k \in S : Min(S) <= k
<1> SUFFICES ASSUME NEW S \in SUBSET Nat, S # {} PROVE Min(S) \in S /\ \A k \in S : Min(S) <= k
    OBVIOUS
<1>1. \E m \in S : \A k \in S : m <= k
    BY LeastNumber
<1> QED
    BY <1>1 DEF Min

(* What taking the element at p out of a list leaves. *)
LEMMA RemovedAt ==
    ASSUME NEW S, NEW s \in Seq(S), NEW p \in 1 .. Len(s)
    PROVE  /\ RemoveAt(s, p) \in Seq(S)
           /\ Len(RemoveAt(s, p)) = Len(s) - 1
           /\ \A i \in 1 .. Len(s) - 1 : RemoveAt(s, p)[i] = IF i < p THEN s[i] ELSE s[i + 1]
<1>1. Len(s) \in Nat /\ s \in [1 .. Len(s) -> S] /\ DOMAIN s = 1 .. Len(s)
    BY LenProperties
<1> DEFINE a == SubSeq(s, 1, p - 1)
           b == SubSeq(s, p + 1, Len(s))
<1>2. /\ a \in Seq(S) /\ Len(a) = p - 1
      /\ \A i \in 1 .. p - 1 : a[i] = s[i]
  <2>1. \A i \in 1 .. p - 1 : s[i] \in S
      BY <1>1
  <2>2. 1 \in Int /\ p - 1 \in Int
      BY <1>1
  <2>3. /\ a \in Seq(S)
        /\ Len(a) = IF 1 <= p - 1 THEN p - 1 - 1 + 1 ELSE 0
        /\ \A i \in 1 .. p - 1 - 1 + 1 : a[i] = s[1 + i - 1]
      BY <2>1, <2>2, SubSeqProperties
  <2> HIDE DEF a
  <2> QED
      BY <1>1, <2>3
<1>3. /\ b \in Seq(S) /\ Len(b) = Len(s) - p
      /\ \A i \in 1 .. Len(s) - p : b[i] = s[p + i]
  <2>1. \A i \in p + 1 .. Len(s) : s[i] \in S
      BY <1>1
  <2>2. p + 1 \in Int /\ Len(s) \in Int
      BY <1>1
  <2>3. /\ b \in Seq(S)
        /\ Len(b) = IF p + 1 <= Len(s) THEN Len(s) - (p + 1) + 1 ELSE 0
        /\ \A i \in 1 .. Len(s) - (p + 1) + 1 : b[i] = s[p + 1 + i - 1]
      BY <2>1, <2>2, SubSeqProperties
  <2> HIDE DEF b
  <2>4. \A i \in 1 .. Len(s) - p : i \in 1 .. Len(s) - (p + 1) + 1 /\ p + 1 + i - 1 = p + i
      BY <1>1
  <2>5. \A i \in 1 .. Len(s) - p : b[i] = s[p + i]
      BY <2>3, <2>4
  <2>6. Len(b) = Len(s) - p
    <3>1. \A m, n \in Int : 1 <= m /\ m <= n => /\ m + 1 <= n => n - (m + 1) + 1 = n - m
                                                /\ ~ (m + 1 <= n) => 0 = n - m
        OBVIOUS
    <3>2. p \in Int /\ Len(s) \in Int /\ 1 <= p /\ p <= Len(s)
        BY <1>1
    <3> QED
        BY <2>3, <3>1, <3>2, Zenon
  <2> QED
      BY <2>3, <2>5, <2>6
<1> DEFINE r == a \o b
<1>4. /\ r \in Seq(S) /\ Len(r) = Len(a) + Len(b)
      /\ \A i \in 1 .. Len(a) + Len(b) : r[i] = IF i <= Len(a) THEN a[i] ELSE b[i - Len(a)]
    BY <1>2, <1>3, ConcatProperties
<1>5. RemoveAt(s, p) = r
    BY DEF RemoveAt
<1> HIDE DEF a, b, r
<1>6. ASSUME NEW i \in 1 .. Len(s) - 1
      PROVE  r[i] = IF i < p THEN s[i] ELSE s[i + 1]
  <2>1. i \in 1 .. Len(a) + Len(b)
      BY <1>1, <1>2, <1>3
  <2>2. CASE i < p
      BY <1>1, <1>2, <1>4, <2>1, <2>2
  <2>3. CASE ~ (i < p)
    <3>1. i - (p - 1) \in 1 .. Len(s) - p /\ p + (i - (p - 1)) = i + 1 /\ ~ (i <= p - 1)
        BY <1>1, <2>3
    <3> QED
        BY <1>1, <1>2, <1>3, <1>4, <2>1, <2>3, <3>1
  <2> QED
      BY <2>2, <2>3
<1>7. Len(r) = Len(s) - 1
    BY <1>1, <1>2, <1>3, <1>4
<1> QED
    BY <1>4, <1>5, <1>6, <1>7, Zenon

(* x comes somewhere before y. *)
Before(s, x, y) == \E i, j \in 1 .. Len(s) : i < j /\ s[i] = x /\ s[j] = y

LEMMA Elements ==
    ASSUME NEW S, NEW s \in Seq(S)
    PROVE  /\ Len(s) \in Nat
           /\ ToSet(s) = {s[i] : i \in 1 .. Len(s)} /\ ToSet(s) \subseteq S
           /\ s # <<>> => Head(s) = s[1] /\ 1 \in 1 .. Len(s) /\ Head(s) \in ToSet(s)
           /\ \A x, y : Before(s, x, y) => x \in ToSet(s) /\ y \in ToSet(s)
<1>1. Len(s) \in Nat /\ s \in [1 .. Len(s) -> S] /\ DOMAIN s = 1 .. Len(s)
    BY LenProperties
<1>2. ToSet(s) = {s[i] : i \in 1 .. Len(s)} /\ ToSet(s) \subseteq S
    BY <1>1 DEF ToSet
<1>3. s # <<>> => 1 \in 1 .. Len(s)
    BY <1>1, EmptySeq
<1>4. s # <<>> => Head(s) = s[1]
    OBVIOUS
<1> QED
    BY <1>1, <1>2, <1>3, <1>4 DEF Before

(* add_to_head *)
LEMMA Pushed ==
    ASSUME NEW S, NEW s \in Seq(S), NEW e \in S
    PROVE  /\ <<e>> \o s \in Seq(S) /\ <<e>> \o s # <<>> /\ Head(<<e>> \o s) = e
           /\ ToSet(<<e>> \o s) = ToSet(s) \cup {e}
           /\ NoRepeats(s) /\ e \notin ToSet(s) => NoRepeats(<<e>> \o s)
           /\ \A x, y : Before(<<e>> \o s, x, y) <=>
                        Before(s, x, y) \/ (x = e /\ y \in ToSet(s))
<1> DEFINE r == <<e>> \o s
<1>1. /\ Len(s) \in Nat /\ <<e>> \in Seq(S) /\ Len(<<e>>) = 1 /\ <<e>>[1] = e
      /\ ToSet(s) = {s[i] : i \in 1 .. Len(s)}
    BY Elements
<1>2. /\ r \in Seq(S) /\ Len(r) = Len(<<e>>) + Len(s)
      /\ \A i \in 1 .. Len(<<e>>) + Len(s) : r[i] = IF i <= Len(<<e>>) THEN <<e>>[i] ELSE s[i - Len(<<e>>)]
    BY <1>1, ConcatProperties
<1> HIDE DEF r
<1>3. /\ r \in Seq(S) /\ Len(r) = Len(s) + 1
      /\ \A i \in 1 .. Len(s) + 1 : r[i] = IF i = 1 THEN e ELSE s[i - 1]
    BY <1>1, <1>2
<1>4. r # <<>> /\ Head(r) = e
  <2>1. r # <<>>
      BY <1>1, <1>3, EmptySeq
  <2> QED
      BY <1>1, <1>3, <2>1, Elements
<1>5. r[1] = e /\ \A i \in 1 .. Len(s) : i + 1 \in 1 .. Len(r) /\ r[i + 1] = s[i]
    BY <1>1, <1>3
<1>6. \A i \in 1 .. Len(r) : i = 1 \/ (i - 1 \in 1 .. Len(s) /\ r[i] = s[i - 1])
    BY <1>1, <1>3
<1>7. ToSet(r) = ToSet(s) \cup {e}
  <2>1. ToSet(r) = {r[i] : i \in 1 .. Len(r)}
      BY <1>3, Elements
  <2>2. 1 \in 1 .. Len(r)
      BY <1>1, <1>3
  <2> QED
      BY <1>1, <1>5, <1>6, <2>1, <2>2, SMTT(30)
<1>8. ASSUME NoRepeats(s), e \notin ToSet(s) PROVE NoRepeats(r)
  <2> SUFFICES ASSUME NEW i \in 1 .. Len(r), NEW j \in 1 .. Len(r), r[i] = r[j] PROVE i = j
      BY DEF NoRepeats
  <2>1. CASE i = 1 \/ j = 1
      BY <1>1, <1>3, <1>5, <1>6, <1>8, <2>1, SMTT(30)
  <2>2. CASE i # 1 /\ j # 1
    <3>1. i - 1 \in 1 .. Len(s) /\ j - 1 \in 1 .. Len(s) /\ s[i - 1] = s[j - 1]
        BY <1>6, <2>2
    <3>2. i - 1 = j - 1
        BY <1>8, <3>1 DEF NoRepeats
    <3> QED
        BY <1>3, <1>1, <3>2
  <2> QED
      BY <2>1, <2>2
<1>9. ASSUME NEW x, NEW y PROVE Before(r, x, y) <=> Before(s, x, y) \/ (x = e /\ y \in ToSet(s))
  <2>1. ASSUME Before(r, x, y) PROVE Before(s, x, y) \/ (x = e /\ y \in ToSet(s))
    <3>1. PICK i, j \in 1 .. Len(r) : i < j /\ r[i] = x /\ r[j] = y
        BY <2>1 DEF Before
    <3>2. j # 1 /\ j - 1 \in 1 .. Len(s) /\ y = s[j - 1]
        BY <1>1, <1>3, <1>6, <3>1
    <3>3. CASE i = 1
        BY <1>1, <1>5, <3>1, <3>2, <3>3
    <3>4. CASE i # 1
      <4>1. i - 1 \in 1 .. Len(s) /\ x = s[i - 1] /\ i - 1 < j - 1
          BY <1>1, <1>3, <1>6, <3>1, <3>4
      <4> QED
          BY <3>2, <4>1 DEF Before
    <3> QED
        BY <3>3, <3>4
  <2>2. ASSUME Before(s, x, y) PROVE Before(r, x, y)
    <3>1. PICK i, j \in 1 .. Len(s) : i < j /\ s[i] = x /\ s[j] = y
        BY <2>2 DEF Before
    <3>2. i + 1 \in 1 .. Len(r) /\ j + 1 \in 1 .. Len(r) /\ i + 1 < j + 1 /\ r[i + 1] = x /\ r[j + 1] = y
        BY <1>1, <1>5, <3>1
    <3> QED
        BY <3>2 DEF Before
  <2>3. ASSUME x = e, y \in ToSet(s) PROVE Before(r, x, y)
    <3>1. PICK j \in 1 .. Len(s) : y = s[j]
        BY <1>1, <2>3
    <3>2. 1 \in 1 .. Len(r) /\ j + 1 \in 1 .. Len(r) /\ 1 < j + 1 /\ r[1] = x /\ r[j + 1] = y
        BY <1>1, <1>3, <1>5, <2>3, <3>1
    <3> QED
        BY <3>2 DEF Before
  <2> QED
      BY <2>1, <2>2, <2>3
<1> QED
    BY <1>3, <1>4, <1>7, <1>8, <1>9 DEF r
=============================================================================
