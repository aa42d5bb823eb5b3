---------------------------- MODULE CacheProofs -----------------------------
(***************************************************************************)
(* Proofs about Cache, for any keys, values and times to live, any size of *)
(* the cache and any number of steps of the clock.                         *)
(***************************************************************************)
EXTENDS Cache, ListLemmas

(* What unlinking a node of a list leaves. *)
LEMMA UnlinkedAt ==
    ASSUME NEW S, NEW s \in Seq(S), NoRepeats(s), NEW p \in 1 .. Len(s)
    PROVE  /\ Unlinked(s, s[p]) \in Seq(S)
           /\ Len(Unlinked(s, s[p])) = Len(s) - 1
           /\ \A i \in 1 .. Len(s) - 1 : Unlinked(s, s[p])[i] = IF i < p THEN s[i] ELSE s[i + 1]
<1>1. Len(s) \in Nat /\ s \in [1 .. Len(s) -> S] /\ DOMAIN s = 1 .. Len(s)
    BY LenProperties
<1>2. s[p] \in ToSet(s)
    BY <1>1 DEF ToSet
<1>3. (CHOOSE i \in 1 .. Len(s) : s[i] = s[p]) = p
    BY <1>1 DEF NoRepeats
<1>4. Unlinked(s, s[p]) = RemoveAt(s, p)
    BY <1>2, <1>3 DEF Unlinked
<1> QED
    BY <1>4, RemovedAt

(* remove_from_list keeps the rest as it is, in its order. *)
LEMMA UnlinkedRest ==
    ASSUME NEW S, NEW s \in Seq(S), NoRepeats(s), NEW e
    PROVE  /\ Unlinked(s, e) \in Seq(S) /\ NoRepeats(Unlinked(s, e))
           /\ ToSet(Unlinked(s, e)) = ToSet(s) \ {e}
           /\ \A x, y : Before(Unlinked(s, e), x, y) <=> Before(s, x, y) /\ x # e /\ y # e
           /\ Unlinked(s, e) # <<>> => Head(Unlinked(s, e)) = Head(s) \/ Head(s) = e
<1>1. Len(s) \in Nat /\ ToSet(s) = {s[i] : i \in 1 .. Len(s)}
    BY Elements
<1>2. CASE e \notin ToSet(s)
  <2>1. Unlinked(s, e) = s
      BY <1>2 DEF Unlinked
  <2>2. \A x, y : Before(s, x, y) => x # e /\ y # e
      BY <1>1, <1>2 DEF Before
  <2> QED
      BY <1>2, <2>1, <2>2
<1>3. CASE e \in ToSet(s)
  <2> DEFINE r == Unlinked(s, e)
  <2>1. PICK p \in 1 .. Len(s) : e = s[p]
      BY <1>1, <1>3
  <2>2. /\ r \in Seq(S) /\ Len(r) = Len(s) - 1
        /\ \A i \in 1 .. Len(s) - 1 : r[i] = IF i < p THEN s[i] ELSE s[i + 1]
      BY <2>1, UnlinkedAt
  <2> HIDE DEF r
  <2> DEFINE old(i) == IF i < p THEN i ELSE i + 1
             new(i) == IF i < p THEN i ELSE i - 1
  <2>3. \A i \in 1 .. Len(r) : old(i) \in 1 .. Len(s) /\ old(i) # p /\ r[i] = s[old(i)]
      BY <1>1, <2>2
  <2>4. \A i, j \in 1 .. Len(r) : i < j <=> old(i) < old(j)
      BY <1>1, <2>2
  <2>5. \A i \in 1 .. Len(s) : i # p => new(i) \in 1 .. Len(r) /\ old(new(i)) = i
      BY <1>1, <2>2
  <2> HIDE DEF old, new
  <2>6. \A i \in 1 .. Len(s) : s[i] = e <=> i = p
      BY <2>1 DEF NoRepeats
  <2>7. NoRepeats(r)
    <3> SUFFICES ASSUME NEW i \in 1 .. Len(r), NEW j \in 1 .. Len(r), r[i] = r[j] PROVE i = j
        BY DEF NoRepeats
    <3>1. old(i) = old(j)
        BY <2>3 DEF NoRepeats
    <3>2. ~ (i < j) /\ ~ (j < i)
        BY <1>1, <2>2, <2>3, <2>4, <3>1
    <3> QED
        BY <1>1, <2>2, <3>2
  <2>8. ToSet(r) = ToSet(s) \ {e}
    <3>1. ToSet(r) = {r[i] : i \in 1 .. Len(r)}
        BY <2>2, Elements
    <3>2. ASSUME NEW x \in ToSet(r) PROVE x \in ToSet(s) \ {e}
      <4>1. PICK i \in 1 .. Len(r) : x = r[i]
          BY <3>1
      <4> QED
          BY <1>1, <2>3, <2>6, <4>1
    <3>3. ASSUME NEW x \in ToSet(s) \ {e} PROVE x \in ToSet(r)
      <4>1. PICK i \in 1 .. Len(s) : x = s[i]
          BY <1>1
      <4>2. i # p
          BY <2>1, <4>1
      <4>3. new(i) \in 1 .. Len(r) /\ r[new(i)] = x
          BY <2>3, <2>5, <4>1, <4>2
      <4> QED
          BY <3>1, <4>3
    <3> QED
        BY <3>2, <3>3
  <2>9. ASSUME NEW x, NEW y PROVE Before(r, x, y) <=> Before(s, x, y) /\ x # e /\ y # e
    <3>1. ASSUME Before(r, x, y) PROVE Before(s, x, y) /\ x # e /\ y # e
      <4>1. PICK i, j \in 1 .. Len(r) : i < j /\ r[i] = x /\ r[j] = y
          BY <3>1 DEF Before
      <4>2. old(i) < old(j) /\ s[old(i)] = x /\ s[old(j)] = y
          BY <2>3, <2>4, <4>1
      <4> QED
          BY <2>3, <2>6, <4>2 DEF Before
    <3>2. ASSUME Before(s, x, y), x # e, y # e PROVE Before(r, x, y)
      <4>1. PICK i, j \in 1 .. Len(s) : i < j /\ s[i] = x /\ s[j] = y
          BY <3>2 DEF Before
      <4>2. /\ new(i) \in 1 .. Len(r) /\ old(new(i)) = i
            /\ new(j) \in 1 .. Len(r) /\ old(new(j)) = j
          BY <2>5, <2>6, <3>2, <4>1
      <4>3. new(i) < new(j) /\ r[new(i)] = x /\ r[new(j)] = y
          BY <2>3, <2>4, <4>1, <4>2
      <4> QED
          BY <4>2, <4>3 DEF Before
    <3> QED
        BY <3>1, <3>2
  <2>10. r # <<>> => Head(r) = Head(s) \/ Head(s) = e
    <3> SUFFICES ASSUME r # <<>>, Head(s) # e PROVE Head(r) = Head(s)
        OBVIOUS
    <3>1. Head(r) = r[1] /\ 1 \in 1 .. Len(r)
        BY <2>2, Elements
    <3>2. s # <<>>
        BY <1>1, <2>1, EmptySeq
    <3>3. Head(s) = s[1] /\ 1 \in 1 .. Len(s)
        BY <3>2, Elements
    <3>4. p # 1
        BY <2>1, <3>3
    <3>5. r[1] = s[1]
        BY <1>1, <2>2, <3>1, <3>4
    <3> QED
        BY <3>1, <3>3, <3>5
  <2> QED
      BY <2>2, <2>7, <2>8, <2>9, <2>10 DEF r
<1> QED
    BY <1>2, <1>3

-----------------------------------------------------------------------------
(* The inductive invariant. *)

(* The list, the chains and the history hold nothing twice; the first two   *)
(* hold what is allocated.                                                  *)
ShapeInv ==
    /\ NoRepeats(list) /\ ToSet(list) = Allocated
    /\ \A k \in Keys : /\ NoRepeats(chain[k])
                       /\ ToSet(chain[k]) = {n \in Allocated : entry[n].key = k}
    /\ NoRepeats(recency) /\ \A n \in Allocated : entry[n].key \in ToSet(recency)

(* An entry for which the clock was never set back is not from the future,  *)
(* has expired if another is in front of it, and holds the last value put   *)
(* if not.                                                                  *)
FreshInv ==
    /\ \A n \in Allocated \ shaken : entry[n].age >= 0
    /\ \A k \in Keys : \A n \in ToSet(chain[k]) \ shaken :
          IF n = Head(chain[k]) THEN ~ Expired(n) => entry[n].value = latest[k] ELSE Expired(n)

(* The entry has not expired and the clock was never set back for it: then, *)
(* by FreshInv, it is the one that a lookup of its key finds.               *)
Live(n) == n \in Allocated \ shaken /\ ~ Expired(n)

(* Under LRU such entries are in the list as their keys are in the history. *)
OrderInv ==
    policy = "LRU" =>
        \A x, y \in Nodes :
            Live(x) /\ Live(y) /\ Before(list, x, y) => Before(recency, entry[x].key, entry[y].key)

Inv == TypeOK /\ ShapeInv /\ FreshInv /\ OrderInv

LEMMA CacheInit == Init => Inv
<1> SUFFICES ASSUME Init PROVE Inv
    OBVIOUS
<1> USE DEF Init
<1>1. TypeOK
    BY SizeAssumption DEF TypeOK
<1>2. Allocated = {} /\ \A S : ToSet(<<>>) = {} /\ NoRepeats(<<>>)
    BY DEF Allocated, ToSet, NoRepeats
<1>3. ShapeInv
    BY <1>2 DEF ShapeInv
<1>4. FreshInv /\ OrderInv
    BY <1>2 DEF FreshInv, OrderInv, Live
<1> QED
    BY <1>1, <1>3, <1>4 DEF Inv

(* What find_entry returns is the first entry of the key. *)
LEMMA Found ==
    ASSUME TypeOK, ShapeInv, NEW k \in Keys, Find(k) # None
    PROVE  /\ chain[k] # <<>> /\ Find(k) = Head(chain[k]) /\ ~ Expired(Find(k))
           /\ Find(k) \in Nodes /\ entry[Find(k)] \in Entry /\ entry[Find(k)] # None
           /\ entry[Find(k)].key = k
<1>1. chain[k] # <<>> /\ Find(k) = Head(chain[k]) /\ ~ Expired(Find(k))
    BY DEF Find
<1>2. Find(k) \in ToSet(chain[k])
    BY <1>1, Elements DEF TypeOK
<1>3. Find(k) \in Allocated /\ entry[Find(k)].key = k
    BY <1>2 DEF ShapeInv
<1> QED
    BY <1>1, <1>3 DEF Allocated, TypeOK

LEMMA NotFound ==
    ASSUME TypeOK, NEW k \in Keys, Find(k) = None, chain[k] # <<>>
    PROVE  Expired(Head(chain[k]))
<1>1. Head(chain[k]) \in Nodes
    BY Elements DEF TypeOK
<1> QED
    BY <1>1, NoneAssumption DEF Find

(* The history after a use of the key. *)
LEMMA UsedHistory ==
    ASSUME TypeOK, ShapeInv, NEW k \in Keys
    PROVE  /\ Used(k) \in Seq(Keys) /\ NoRepeats(Used(k))
           /\ ToSet(Used(k)) = ToSet(recency) \cup {k}
           /\ \A j \in ToSet(recency) \ {k} : Before(Used(k), k, j)
           /\ \A i, j : Before(recency, i, j) /\ i # k /\ j # k => Before(Used(k), i, j)
<1> DEFINE r == Unlinked(recency, k)
<1>1. /\ r \in Seq(Keys) /\ NoRepeats(r) /\ ToSet(r) = ToSet(recency) \ {k}
      /\ \A x, y : Before(r, x, y) <=> Before(recency, x, y) /\ x # k /\ y # k
    BY UnlinkedRest DEF TypeOK, ShapeInv
<1> HIDE DEF r
<1>2. /\ <<k>> \o r \in Seq(Keys) /\ ToSet(<<k>> \o r) = ToSet(r) \cup {k}
      /\ NoRepeats(<<k>> \o r)
      /\ \A x, y : Before(<<k>> \o r, x, y) <=> Before(r, x, y) \/ (x = k /\ y \in ToSet(r))
    BY <1>1, Pushed
<1>3. Used(k) = <<k>> \o r
    BY DEF Used, r
<1> QED
    BY <1>1, <1>2, <1>3

(* The list after a hit. *)
LEMMA Touched ==
    ASSUME TypeOK, ShapeInv, NEW n \in Allocated
    PROVE  /\ Touch(list, n) \in Seq(Nodes) /\ NoRepeats(Touch(list, n))
           /\ ToSet(Touch(list, n)) = ToSet(list)
           /\ policy = "LRU" => \A x, y : Before(Touch(list, n), x, y) =>
                                    (Before(list, x, y) /\ x # n /\ y # n) \/ (x = n /\ y # n)
<1> DEFINE r == Unlinked(list, n)
<1>0. n \in Nodes /\ n \in ToSet(list)
    BY DEF ShapeInv, Allocated
<1>1. /\ r \in Seq(Nodes) /\ NoRepeats(r) /\ ToSet(r) = ToSet(list) \ {n}
      /\ \A x, y : Before(r, x, y) <=> Before(list, x, y) /\ x # n /\ y # n
    BY UnlinkedRest DEF TypeOK, ShapeInv
<1> HIDE DEF r
<1>2. /\ <<n>> \o r \in Seq(Nodes) /\ ToSet(<<n>> \o r) = ToSet(r) \cup {n}
      /\ NoRepeats(<<n>> \o r)
      /\ \A x, y : Before(<<n>> \o r, x, y) <=> Before(r, x, y) \/ (x = n /\ y \in ToSet(r))
    BY <1>0, <1>1, Pushed
<1>3. Touch(list, n) = IF policy = "LRU" THEN <<n>> \o r ELSE list
    BY DEF Touch, MoveToHead, r
<1>4. CASE policy = "LRU"
  <2>1. Touch(list, n) = <<n>> \o r
      BY <1>3, <1>4
  <2>2. (ToSet(list) \ {n}) \cup {n} = ToSet(list)
      BY <1>0
  <2>3. ToSet(<<n>> \o r) = ToSet(list)
      BY <1>1, <1>2, <2>2, Zenon
  <2>4. \A x, y : Before(<<n>> \o r, x, y) =>
                  (Before(list, x, y) /\ x # n /\ y # n) \/ (x = n /\ y # n)
    <3>1. \A y : y \in ToSet(r) => y # n
        BY <1>1
    <3> QED
        BY <1>1, <1>2, <3>1, Zenon
  <2> HIDE DEF r
  <2> DEFINE t == <<n>> \o r
  <2>5. t \in Seq(Nodes) /\ NoRepeats(t)
      BY <1>2, Zenon
  <2> HIDE DEF t
  <2>6. Touch(list, n) = t
      BY <2>1 DEF t
  <2>7. ToSet(t) = ToSet(list)
      BY <2>3 DEF t
  <2>8. \A x, y : Before(t, x, y) => (Before(list, x, y) /\ x # n /\ y # n) \/ (x = n /\ y # n)
      BY <2>4 DEF t
  <2> QED
      BY <2>5, <2>6, <2>7, <2>8
<1>5. CASE policy # "LRU"
    BY <1>3, <1>5 DEF TypeOK, ShapeInv
<1> QED
    BY <1>4, <1>5

(* The chains without node n, whether it is allocated or not. *)
LEMMA ChainsWithout ==
    ASSUME TypeOK, ShapeInv, NEW n \in Nodes, NEW kept,
           kept = IF n \in Allocated THEN RemovedFromChains(n) ELSE chain
    PROVE  /\ kept \in [Keys -> Seq(Nodes)]
           /\ \A j \in Keys : /\ NoRepeats(kept[j])
                              /\ ToSet(kept[j]) = ToSet(chain[j]) \ {n}
                              /\ kept[j] # <<>> => Head(kept[j]) = Head(chain[j]) \/ Head(chain[j]) = n
<1>1. CASE n \notin Allocated
    BY <1>1 DEF TypeOK, ShapeInv
<1>2. CASE n \in Allocated
  <2>1. entry[n].key \in Keys /\ kept = [chain EXCEPT ![entry[n].key] = Unlinked(@, n)]
      BY <1>2 DEF RemovedFromChains, Allocated, TypeOK, Entry
  <2>2. ASSUME NEW j \in Keys
        PROVE  /\ Unlinked(chain[j], n) \in Seq(Nodes) /\ NoRepeats(Unlinked(chain[j], n))
               /\ ToSet(Unlinked(chain[j], n)) = ToSet(chain[j]) \ {n}
               /\ Unlinked(chain[j], n) # <<>> =>
                      Head(Unlinked(chain[j], n)) = Head(chain[j]) \/ Head(chain[j]) = n
      BY UnlinkedRest DEF TypeOK, ShapeInv
  <2>3. \A j \in Keys : j # entry[n].key => n \notin ToSet(chain[j])
      BY DEF ShapeInv
  <2>4. chain \in [Keys -> Seq(Nodes)] /\ \A j \in Keys : NoRepeats(chain[j])
      BY DEF TypeOK, ShapeInv
  <2>5. \A j \in Keys : kept[j] = IF j = entry[n].key THEN Unlinked(chain[j], n) ELSE chain[j]
      BY <2>1, <2>4
  <2>6. kept \in [Keys -> Seq(Nodes)]
      BY <2>1, <2>2, <2>4
  <2> QED
      BY <2>2, <2>3, <2>4, <2>5, <2>6
<1> QED
    BY <1>1, <1>2

(* An entry that is live is the first of its key, and no two live entries   *)
(* have the same key.                                                       *)
LEMMA LiveIsFirst ==
    ASSUME TypeOK, ShapeInv, FreshInv, NEW n, Live(n)
    PROVE  n \in Nodes /\ entry[n].key \in Keys /\ n = Head(chain[entry[n].key])
<1>1. n \in Nodes /\ n \in Allocated /\ n \notin shaken /\ ~ Expired(n) /\ entry[n].key \in Keys
    BY DEF Live, Allocated, TypeOK, Entry
<1>2. n \in ToSet(chain[entry[n].key]) \ shaken
    BY <1>1 DEF ShapeInv
<1> QED
    BY <1>1, <1>2 DEF FreshInv

(* The node of a new entry is free, or that of the victim if none is. *)
LEMMA NodeOfNewEntry ==
    ASSUME TypeOK, ShapeInv
    PROVE  NewNode \in Nodes /\ (NewNode \in Allocated <=> Full)
<1>1. Len(list) \in Nat /\ ToSet(list) = {list[i] : i \in 1 .. Len(list)} /\ ToSet(list) = Allocated
    BY Elements DEF TypeOK, ShapeInv
<1>2. MaxSize \in Nat \ {0} /\ Allocated \subseteq Nodes
    BY SizeAssumption DEF Allocated
<1>3. CASE Full
  <2>1. NewNode = Victim(list) /\ Len(list) \in 1 .. Len(list)
      BY <1>1, <1>2, <1>3 DEF NewNode, Full
  <2>2. CASE policy = "LRU"
    <3>1. Victim(list) = list[Len(list)]
        BY <2>2 DEF Victim, Last
    <3> QED
        BY <1>1, <1>2, <1>3, <2>1, <3>1
  <2>3. CASE policy # "LRU"
    <3> DEFINE count(i) == entry[list[i]].access_count
               C == {count(i) : i \in 1 .. Len(list)}
    <3>1. \A i \in 1 .. Len(list) : count(i) \in Nat
      <4> SUFFICES ASSUME NEW i \in 1 .. Len(list) PROVE count(i) \in Nat
          OBVIOUS
      <4>1. entry[list[i]] \in Entry
          BY <1>1 DEF Allocated, TypeOK
      <4> QED
          BY <4>1, SizeAssumption DEF Entry
    <3>2. C \in SUBSET Nat /\ C # {}
        BY <2>1, <3>1
    <3>3. PICK m \in C : \A c \in C : m <= c
        BY <3>2, LeastNumber
    <3> DEFINE I == {i \in 1 .. Len(list) : count(i) = m}
    <3>4. I \in SUBSET Nat /\ I # {}
        BY <1>1, <3>3
    <3>5. PICK i \in I : \A j \in I : i <= j
        BY <3>4, LeastNumber
    <3>6. ASSUME NEW j \in 1 .. Len(list)
          PROVE  count(i) < count(j) \/ (count(i) = count(j) /\ i <= j)
      <4>1. count(i) = m /\ m <= count(j) /\ m \in Nat /\ count(j) \in Nat
          BY <3>1, <3>2, <3>3, <3>5
      <4>2. count(j) = m => i <= j
          BY <3>5
      <4> HIDE DEF count
      <4> QED
          BY <4>1, <4>2
    <3> DEFINE Least(h) == \A j \in 1 .. Len(list) :
                              \/ count(h) < count(j)
                              \/ count(h) = count(j) /\ h <= j
               w == CHOOSE h \in 1 .. Len(list) : Least(h)
    <3>7. i \in 1 .. Len(list) /\ Least(i)
        BY <3>5, <3>6
    <3>8. Victim(list) = list[w]
        BY <2>3 DEF Victim
    <3> HIDE DEF Least
    <3>9. w \in 1 .. Len(list)
        BY <3>7
    <3> HIDE DEF w
    <3> QED
        BY <1>1, <1>2, <1>3, <2>1, <3>8, <3>9
  <2> QED
      BY <2>2, <2>3
<1>4. CASE ~ Full
  <2>1. NewNode = CHOOSE n \in Nodes : entry[n] = None
      BY <1>4 DEF NewNode
  <2>2. Cardinality(Allocated) = Len(list)
      BY <1>1, NoRepeatsCardinality DEF TypeOK, ShapeInv
  <2>3. Cardinality(Nodes) = MaxSize
      BY <1>2, FS_Interval DEF Nodes
  <2>4. Allocated # Nodes
      BY <1>1, <1>2, <1>4, <2>2, <2>3 DEF Full
  <2>5. \E n \in Nodes : entry[n] = None
      BY <2>4 DEF Allocated
  <2>6. NewNode \in Nodes /\ entry[NewNode] = None
      BY <2>1, <2>5
  <2> QED
      BY <1>4, <2>6 DEF Allocated
<1> QED
    BY <1>3, <1>4

-----------------------------------------------------------------------------
(* The steps. *)

(* A step that uses key k through node n: the entries that stay live keep   *)
(* their keys, which are not k, and their order; n is the first of all.     *)
LEMMA OrderAfterUse ==
    ASSUME Inv, NEW k \in Keys, NEW n \in Nodes,
           policy' = policy, recency' = Used(k),
           \A x \in Nodes \ {n} : Live(x)' => Live(x) /\ entry'[x].key = entry[x].key /\ entry[x].key # k,
           entry'[n].key = k,
           policy = "LRU" => \A x, y : Before(list', x, y) =>
                                (Before(list, x, y) /\ x # n /\ y # n) \/ (x = n /\ y # n)
    PROVE  OrderInv'
<1> SUFFICES ASSUME policy = "LRU", NEW x \in Nodes, NEW y \in Nodes,
                    Live(x)', Live(y)', Before(list', x, y)
             PROVE  Before(recency', entry'[x].key, entry'[y].key)
    BY DEF OrderInv
<1>1. TypeOK /\ ShapeInv /\ FreshInv /\ OrderInv
    BY DEF Inv
<1>2. y # n /\ (x = n \/ (x # n /\ Before(list, x, y)))
    OBVIOUS
<1>3. Live(y) /\ entry'[y].key = entry[y].key /\ entry[y].key # k /\ entry[y].key \in ToSet(recency)
    BY <1>1, <1>2 DEF Live, ShapeInv
<1>4. CASE x = n
    BY <1>1, <1>3, <1>4, UsedHistory
<1>5. CASE x # n
  <2>1. Live(x) /\ entry'[x].key = entry[x].key /\ entry[x].key # k
      BY <1>5
  <2>2. Before(recency, entry[x].key, entry[y].key)
      BY <1>1, <1>2, <1>3, <1>5, <2>1 DEF OrderInv
  <2> QED
      BY <1>1, <1>3, <2>1, <2>2, UsedHistory
<1> QED
    BY <1>4, <1>5

(* A hit on the entry of k, which keeps its key. *)
LEMMA Hit ==
    ASSUME Inv, NEW k \in Keys, Find(k) # None,
           NEW e \in Entry, e.key = k, entry' = [entry EXCEPT ![Find(k)] = e],
           e.age >= 0 \/ Find(k) \in shaken',
           list' = Touch(list, Find(k)), recency' = Used(k),
           shaken \ {Find(k)} \subseteq shaken', shaken' \subseteq shaken,
           NEW v \in Values \cup {None}, latest' = [latest EXCEPT ![k] = v],
           e.value = v \/ Find(k) \in shaken',
           UNCHANGED <<policy, chain, steps>>
    PROVE  Inv'
<1> DEFINE n == Find(k)
<1>1. TypeOK /\ ShapeInv /\ FreshInv /\ OrderInv
    BY DEF Inv
<1>2. /\ n \in Nodes /\ entry[n] \in Entry /\ entry[n] # None /\ entry[n].key = k
      /\ n = Head(chain[k]) /\ ~ Expired(n) /\ n \in Allocated
    BY <1>1, Found DEF Allocated
<1> HIDE DEF n
<1>3. /\ entry' \in [Nodes -> Entry \cup {None}] /\ entry'[n] = e /\ e # None
      /\ \A m \in Nodes \ {n} : entry'[m] = entry[m]
    BY <1>1, <1>2, NoneAssumption DEF TypeOK, n
<1>4. Allocated' = Allocated
    BY <1>2, <1>3 DEF Allocated
<1>5. /\ list' \in Seq(Nodes) /\ NoRepeats(list') /\ ToSet(list') = ToSet(list)
      /\ policy = "LRU" => \A x, y : Before(list', x, y) =>
                                (Before(list, x, y) /\ x # n /\ y # n) \/ (x = n /\ y # n)
    BY <1>1, <1>2, Touched DEF n
<1>6. recency' \in Seq(Keys) /\ NoRepeats(recency') /\ ToSet(recency') = ToSet(recency) \cup {k}
    BY <1>1, UsedHistory
<1>7. TypeOK'
    BY <1>1, <1>3, <1>5, <1>6 DEF TypeOK
<1>8. \A m \in Allocated : entry'[m].key = entry[m].key
    BY <1>2, <1>3 DEF Allocated
<1>9. ShapeInv'
  <2>1. ASSUME NEW j \in Keys PROVE ToSet(chain[j]) = {m \in Allocated : entry'[m].key = j}
      BY <1>1, <1>8 DEF ShapeInv
  <2> QED
      BY <1>1, <1>4, <1>5, <1>6, <1>8, <2>1 DEF ShapeInv
<1>10. \A m \in Nodes \ {n} : Expired(m)' = Expired(m)
    BY <1>3 DEF Expired
<1>11. FreshInv'
  <2>1. ASSUME NEW m \in Allocated \ shaken' PROVE entry'[m].age >= 0
      BY <1>1, <1>3, <2>1 DEF n, FreshInv, Allocated
  <2>2. ASSUME NEW j \in Keys, NEW m \in ToSet(chain[j]) \ shaken'
        PROVE  IF m = Head(chain[j]) THEN ~ Expired(m)' => entry'[m].value = latest'[j] ELSE Expired(m)'
    <3>1. m \in Allocated /\ entry[m].key = j
        BY <1>1 DEF ShapeInv
    <3>2. CASE m = n
        BY <1>1, <1>2, <1>3, <3>1, <3>2 DEF n, TypeOK
    <3>3. CASE m # n
      <4>1. m \in ToSet(chain[j]) \ shaken /\ m \in Nodes
          BY <3>1, <3>3 DEF n, Allocated
      <4>2. IF m = Head(chain[j]) THEN ~ Expired(m) => entry[m].value = latest[j] ELSE Expired(m)
          BY <1>1, <4>1 DEF FreshInv
      <4>3. m = Head(chain[j]) => latest'[j] = latest[j]
          BY <1>1, <1>2, <3>3 DEF TypeOK
      <4> QED
          BY <1>3, <1>10, <3>3, <4>1, <4>2, <4>3
    <3> QED
        BY <3>2, <3>3
  <2> QED
      BY <1>4, <2>1, <2>2 DEF FreshInv
<1>12. OrderInv'
  <2>1. ASSUME NEW x \in Nodes \ {n}, Live(x)'
        PROVE  Live(x) /\ entry'[x].key = entry[x].key /\ entry[x].key # k
    <3>1. Live(x)
        BY <1>4, <1>10, <2>1 DEF Live, n
    <3> QED
        BY <1>1, <1>2, <1>3, <3>1, LiveIsFirst
  <2> QED
      BY <1>2, <1>3, <1>5, <2>1, OrderAfterUse
<1> QED
    BY <1>7, <1>9, <1>11, <1>12 DEF Inv

LEMMA UpdateStep ==
    ASSUME Inv, NEW k \in Keys, NEW v \in Values, NEW ttl \in Ttls, PutUpdate(k, v, ttl)
    PROVE  Inv'
<1> DEFINE n == Find(k)
           e == [entry[n] EXCEPT !.value = v, !.ttl = ttl, !.age = 0]
<1>1. n # None /\ n \in Nodes /\ entry[n] \in Entry /\ entry[n].key = k
    BY Found DEF Inv, PutUpdate
<1>2. e \in Entry /\ e.key = k /\ e.value = v /\ e.ttl = ttl /\ e.age = 0
  <2>1. ASSUME NEW d \in Entry
        PROVE  LET f == [d EXCEPT !.value = v, !.ttl = ttl, !.age = 0]
               IN  f \in Entry /\ f.key = d.key /\ f.value = v /\ f.ttl = ttl /\ f.age = 0
    <3> DEFINE a == [d EXCEPT !.value = v]
               b == [a EXCEPT !.ttl = ttl]
               c == [b EXCEPT !.age = 0]
    <3>1. a \in Entry /\ a.key = d.key /\ a.value = v
        BY DEF Entry
    <3> HIDE DEF a
    <3>2. b \in Entry /\ b.key = a.key /\ b.value = a.value /\ b.ttl = ttl
        BY <3>1 DEF Entry
    <3> HIDE DEF b
    <3>3. c \in Entry /\ c.key = b.key /\ c.value = b.value /\ c.ttl = b.ttl /\ c.age = 0
        BY <3>2 DEF Entry
    <3>4. c = [d EXCEPT !.value = v, !.ttl = ttl, !.age = 0]
        BY DEF a, b
    <3> HIDE DEF c
    <3> QED
        BY <3>1, <3>2, <3>3, <3>4
  <2> QED
      BY <1>1, <2>1
<1>3. entry' = [entry EXCEPT ![n] = e] /\ entry'[n] = e
    BY <1>1 DEF PutUpdate, Inv, TypeOK
<1>4. /\ list' = Touch(list, n) /\ recency' = Used(k) /\ shaken' = shaken \ {n}
      /\ latest' = [latest EXCEPT ![k] = v] /\ UNCHANGED <<policy, chain, steps>>
    BY DEF PutUpdate
<1> HIDE DEF e
<1>5. v \in Values \cup {None} /\ e.age >= 0
    BY <1>2
<1> QED
    BY <1>1, <1>2, <1>3, <1>4, <1>5, Hit

LEMMA GetStep ==
    ASSUME Inv, NEW k \in Keys, Get(k)
    PROVE  Inv'
<1> DEFINE n == Find(k)
           e == [entry[n] EXCEPT !.access_count = @ + 1]
<1>1. /\ n # None /\ n \in Nodes /\ entry[n] \in Entry /\ entry[n].key = k
      /\ ~ Expired(n) /\ n \in ToSet(chain[k]) /\ n = Head(chain[k]) /\ n \in Allocated
    BY Found DEF Inv, Get, ShapeInv, Allocated
<1>2. /\ e \in Entry /\ e.key = k /\ e.value = entry[n].value /\ e.ttl = entry[n].ttl
      /\ e.age = entry[n].age
    BY <1>1, SizeAssumption DEF Entry, Get
<1>3. entry' = [entry EXCEPT ![n] = e] /\ entry'[n] = e
    BY <1>1 DEF Get, Inv, TypeOK
<1>4. /\ list' = Touch(list, n) /\ recency' = Used(k) /\ shaken' = shaken
      /\ latest' = latest /\ UNCHANGED <<policy, chain, steps>>
    BY DEF Get
<1> HIDE DEF e
<1>5. latest[k] \in Values \cup {None} /\ latest' = [latest EXCEPT ![k] = latest[k]]
    BY <1>4 DEF Inv, TypeOK
<1>6. n \in shaken' \/ (e.age >= 0 /\ e.value = latest[k])
    BY <1>1, <1>2, <1>4 DEF Inv, FreshInv
<1> QED
    BY <1>1, <1>2, <1>3, <1>4, <1>5, <1>6, Hit

LEMMA DeleteStep ==
    ASSUME Inv, NEW k \in Keys, Delete(k)
    PROVE  Inv'
<1> DEFINE n == Find(k)
<1>1. TypeOK /\ ShapeInv /\ FreshInv /\ OrderInv
    BY DEF Inv
<1>2. /\ n \in Nodes /\ entry[n] \in Entry /\ entry[n] # None /\ entry[n].key = k
      /\ n = Head(chain[k]) /\ ~ Expired(n) /\ n \in Allocated
    BY <1>1, Found DEF Allocated, Delete
<1>3. /\ entry' = [entry EXCEPT ![n] = None] /\ list' = Unlinked(list, n)
      /\ chain' = RemovedFromChains(n) /\ latest' = [latest EXCEPT ![k] = None]
      /\ shaken' = shaken \ {n} /\ UNCHANGED <<policy, recency, steps>>
    BY DEF Delete, RemovedFromList
<1> HIDE DEF n
<1>4. /\ entry' \in [Nodes -> Entry \cup {None}] /\ entry'[n] = None
      /\ \A m \in Nodes \ {n} : entry'[m] = entry[m] /\ Expired(m)' = Expired(m)
    BY <1>1, <1>2, <1>3 DEF TypeOK, Expired
<1>5. Allocated' = Allocated \ {n} /\ Allocated \subseteq Nodes
    BY <1>4 DEF Allocated
<1>6. /\ list' \in Seq(Nodes) /\ NoRepeats(list') /\ ToSet(list') = ToSet(list) \ {n}
      /\ \A x, y : Before(list', x, y) <=> Before(list, x, y) /\ x # n /\ y # n
    BY <1>1, <1>3, UnlinkedRest DEF TypeOK, ShapeInv
<1>7. /\ chain' \in [Keys -> Seq(Nodes)]
      /\ \A j \in Keys : /\ NoRepeats(chain'[j])
                         /\ ToSet(chain'[j]) = ToSet(chain[j]) \ {n}
                         /\ chain'[j] # <<>> => Head(chain'[j]) = Head(chain[j]) \/ Head(chain[j]) = n
  <2>1. chain' = IF n \in Allocated THEN RemovedFromChains(n) ELSE chain
      BY <1>2, <1>3
  <2> QED
      BY <1>1, <1>2, <2>1, ChainsWithout
<1>8. TypeOK'
    BY <1>1, <1>3, <1>4, <1>6, <1>7 DEF TypeOK
<1>9. ShapeInv'
    BY <1>1, <1>3, <1>4, <1>5, <1>6, <1>7 DEF ShapeInv
<1>10. FreshInv'
  <2>1. ASSUME NEW m \in Allocated' \ shaken' PROVE entry'[m].age >= 0
      BY <1>1, <1>3, <1>4, <1>5, <2>1 DEF FreshInv
  <2>2. ASSUME NEW j \in Keys, NEW m \in ToSet(chain'[j]) \ shaken'
        PROVE  IF m = Head(chain'[j]) THEN ~ Expired(m)' => entry'[m].value = latest'[j] ELSE Expired(m)'
    <3>1. m \in Allocated /\ entry[m].key = j /\ m # n /\ m \notin shaken /\ m \in ToSet(chain[j])
        BY <1>1, <1>3, <1>7 DEF ShapeInv
    <3>2. IF m = Head(chain[j]) THEN ~ Expired(m) => entry[m].value = latest[j] ELSE Expired(m)
        BY <1>1, <3>1 DEF FreshInv
    <3>3. j = k => m # Head(chain[j])
        BY <1>2, <3>1
    <3>4. j # k => latest'[j] = latest[j] /\ Head(chain[j]) # n
      <4>1. j # k => n \notin ToSet(chain[j])
          BY <1>1, <1>2 DEF ShapeInv
      <4>2. chain[j] # <<>> /\ Head(chain[j]) \in ToSet(chain[j])
        <5>1. chain[j] # <<>>
            BY <3>1 DEF ToSet
        <5> QED
            BY <1>1, <5>1, Elements DEF TypeOK
      <4> QED
          BY <1>1, <1>3, <4>1, <4>2 DEF TypeOK
    <3>5. chain'[j] # <<>>
        BY DEF ToSet
    <3> QED
        BY <1>4, <1>5, <1>7, <3>1, <3>2, <3>3, <3>4, <3>5
  <2> QED
      BY <2>1, <2>2 DEF FreshInv
<1>11. OrderInv'
  <2>1. ASSUME NEW x \in Nodes, Live(x)' PROVE Live(x) /\ entry'[x].key = entry[x].key
      BY <1>3, <1>4, <1>5, <2>1 DEF Live
  <2> QED
      BY <1>1, <1>3, <1>6, <2>1 DEF OrderInv
<1> QED
    BY <1>8, <1>9, <1>10, <1>11 DEF Inv

LEMMA InsertStep ==
    ASSUME Inv, NEW k \in Keys, NEW v \in Values, NEW ttl \in Ttls, PutInsert(k, v, ttl)
    PROVE  Inv'
<1> DEFINE n == NewNode
           e == [key |-> k, value |-> v, ttl |-> ttl, age |-> 0, access_count |-> 0]
           kept == IF n \in Allocated THEN RemovedFromChains(n) ELSE chain
           rest == Unlinked(list, n)
<1>1. TypeOK /\ ShapeInv /\ FreshInv /\ OrderInv
    BY DEF Inv
<1>2. n \in Nodes /\ (n \in Allocated <=> Full)
    BY <1>1, NodeOfNewEntry
<1>3. rest = IF Full THEN RemovedFromList(n) ELSE list
    BY <1>1, <1>2 DEF RemovedFromList, Unlinked, ShapeInv
<1>4. /\ Find(k) = None /\ entry' = [entry EXCEPT ![n] = e] /\ list' = <<n>> \o rest
      /\ chain' = [kept EXCEPT ![k] = <<n>> \o @] /\ latest' = [latest EXCEPT ![k] = v]
      /\ recency' = Used(k) /\ shaken' = shaken \ {n} /\ UNCHANGED <<policy, steps>>
    BY <1>2, <1>3 DEF PutInsert
<1>5. e \in Entry /\ e # None /\ e.key = k /\ e.value = v /\ e.age = 0
    BY NoneAssumption, SizeAssumption DEF Entry
<1>6. /\ rest \in Seq(Nodes) /\ NoRepeats(rest) /\ ToSet(rest) = ToSet(list) \ {n}
      /\ \A x, y : Before(rest, x, y) <=> Before(list, x, y) /\ x # n /\ y # n
    BY <1>1, UnlinkedRest DEF TypeOK, ShapeInv
<1>7. /\ kept \in [Keys -> Seq(Nodes)]
      /\ \A j \in Keys : /\ NoRepeats(kept[j])
                         /\ ToSet(kept[j]) = ToSet(chain[j]) \ {n}
                         /\ kept[j] # <<>> => Head(kept[j]) = Head(chain[j]) \/ Head(chain[j]) = n
  <2>1. kept = IF n \in Allocated THEN RemovedFromChains(n) ELSE chain
      OBVIOUS
  <2> HIDE DEF n, kept
  <2> QED
      BY <1>1, <1>2, <2>1, ChainsWithout
<1> HIDE DEF n, e, kept, rest
<1>8. /\ entry' \in [Nodes -> Entry \cup {None}] /\ entry'[n] = e
      /\ \A m \in Nodes \ {n} : entry'[m] = entry[m] /\ Expired(m)' = Expired(m)
    BY <1>1, <1>2, <1>4, <1>5 DEF TypeOK, Expired
<1>9. Allocated' = Allocated \cup {n} /\ Allocated \subseteq Nodes
    BY <1>2, <1>5, <1>8 DEF Allocated
<1>10. /\ list' \in Seq(Nodes) /\ NoRepeats(list') /\ ToSet(list') = ToSet(rest) \cup {n}
       /\ \A x, y : Before(list', x, y) <=> Before(rest, x, y) \/ (x = n /\ y \in ToSet(rest))
    BY <1>2, <1>4, <1>6, Pushed
<1>11. /\ chain' \in [Keys -> Seq(Nodes)]
       /\ \A j \in Keys \ {k} : chain'[j] = kept[j]
       /\ NoRepeats(chain'[k]) /\ ToSet(chain'[k]) = ToSet(kept[k]) \cup {n}
       /\ chain'[k] # <<>> /\ Head(chain'[k]) = n
  <2> DEFINE c == <<n>> \o kept[k]
  <2>1. /\ c \in Seq(Nodes) /\ c # <<>> /\ Head(c) = n /\ NoRepeats(c)
        /\ ToSet(c) = ToSet(kept[k]) \cup {n}
      BY <1>2, <1>7, Pushed
  <2>2. chain' = [kept EXCEPT ![k] = c]
      BY <1>4
  <2> HIDE DEF c
  <2>3. chain' \in [Keys -> Seq(Nodes)] /\ chain'[k] = c /\ \A j \in Keys \ {k} : chain'[j] = kept[j]
      BY <1>7, <2>1, <2>2
  <2> QED
      BY <2>1, <2>3
<1>12. recency' \in Seq(Keys) /\ NoRepeats(recency') /\ ToSet(recency') = ToSet(recency) \cup {k}
    BY <1>1, <1>4, UsedHistory
<1>13. TypeOK'
    BY <1>1, <1>4, <1>8, <1>10, <1>11, <1>12 DEF TypeOK
<1>14. ShapeInv'
  <2>1. NoRepeats(list') /\ ToSet(list') = Allocated'
    <3>1. ToSet(list) = Allocated
        BY <1>1 DEF ShapeInv
    <3>2. (Allocated \ {n}) \cup {n} = Allocated \cup {n}
        OBVIOUS
    <3> QED
        BY <1>6, <1>9, <1>10, <3>1, <3>2, Zenon
  <2>2. ASSUME NEW j \in Keys
        PROVE  NoRepeats(chain'[j]) /\ ToSet(chain'[j]) = {m \in Allocated' : entry'[m].key = j}
    <3>1. ToSet(chain[j]) = {m \in Allocated : entry[m].key = j}
        BY <1>1 DEF ShapeInv
    <3>2. \A m \in Allocated' : m # n => m \in Allocated /\ entry'[m].key = entry[m].key
        BY <1>8, <1>9
    <3>3. {m \in Allocated' : entry'[m].key = j} =
              (ToSet(chain[j]) \ {n}) \cup (IF j = k THEN {n} ELSE {})
        BY <1>5, <1>8, <1>9, <3>1, <3>2
    <3>4. ToSet(kept[j]) = ToSet(chain[j]) \ {n} /\ NoRepeats(kept[j])
        BY <1>7
    <3>5. CASE j = k
        BY <1>11, <3>3, <3>4, <3>5
    <3>6. CASE j # k
      <4>1. {m \in Allocated' : entry'[m].key = j} = ToSet(chain[j]) \ {n}
          BY <3>3, <3>6
      <4>2. chain'[j] = kept[j]
          BY <1>11, <3>6
      <4> QED
          BY <3>4, <4>1, <4>2
    <3> QED
        BY <3>5, <3>6
  <2>3. \A m \in Allocated' : entry'[m].key \in ToSet(recency')
      BY <1>1, <1>5, <1>8, <1>9, <1>12 DEF ShapeInv
  <2> QED
      BY <1>12, <2>1, <2>2, <2>3 DEF ShapeInv
<1>15. FreshInv'
  <2>1. ASSUME NEW m \in Allocated' \ shaken' PROVE entry'[m].age >= 0
      BY <1>1, <1>4, <1>5, <1>8, <1>9, <2>1 DEF FreshInv
  <2>2. ASSUME NEW j \in Keys, NEW m \in ToSet(chain'[j]) \ shaken'
        PROVE  IF m = Head(chain'[j]) THEN ~ Expired(m)' => entry'[m].value = latest'[j] ELSE Expired(m)'
    <3>1. latest'[k] = v /\ (j # k => latest'[j] = latest[j])
        BY <1>1, <1>4 DEF TypeOK
    <3>2. CASE m = n
      <4>1. j = k
          BY <1>7, <1>11, <3>2
      <4> QED
          BY <1>5, <1>8, <1>11, <3>1, <3>2, <4>1
    <3>3. CASE m # n
      <4>1. m \in ToSet(chain[j]) \ shaken
          BY <1>4, <1>7, <1>11, <3>3
      <4>2. m \in Nodes
          BY <1>1, <1>9, <4>1 DEF ShapeInv
      <4>3. IF m = Head(chain[j]) THEN ~ Expired(m) => entry[m].value = latest[j] ELSE Expired(m)
          BY <1>1, <4>1 DEF FreshInv
      <4>4. entry'[m] = entry[m] /\ Expired(m)' = Expired(m)
          BY <1>8, <3>3, <4>2
      <4>5. CASE j = k
        <5>1. chain[k] # <<>>
            BY <4>1, <4>5 DEF ToSet
        <5>2. Expired(m)
            BY <1>1, <1>4, <4>3, <4>5, <5>1, NotFound
        <5> QED
            BY <1>11, <3>3, <4>4, <4>5, <5>2
      <4>6. CASE j # k
        <5>1. chain'[j] = kept[j] /\ chain'[j] # <<>>
            BY <1>11, <4>6 DEF ToSet
        <5>2. Head(kept[j]) = Head(chain[j]) \/ Head(chain[j]) = n
            BY <1>7, <5>1
        <5> QED
            BY <3>1, <3>3, <4>3, <4>4, <4>6, <5>1, <5>2
      <4> QED
          BY <4>5, <4>6
    <3> QED
        BY <3>2, <3>3
  <2> QED
      BY <2>1, <2>2 DEF FreshInv
<1>16. OrderInv'
  <2>1. ASSUME NEW x \in Nodes \ {n}, Live(x)'
        PROVE  Live(x) /\ entry'[x].key = entry[x].key /\ entry[x].key # k
    <3>1. Live(x) /\ entry'[x].key = entry[x].key
        BY <1>4, <1>8, <1>9, <2>1 DEF Live
    <3>2. entry[x].key \in Keys /\ x = Head(chain[entry[x].key]) /\ x \in ToSet(chain[entry[x].key])
        BY <1>1, <3>1, LiveIsFirst DEF Live, ShapeInv
    <3>3. chain[entry[x].key] # <<>>
        BY <3>2 DEF ToSet
    <3>4. entry[x].key = k => Expired(x)
        BY <1>1, <1>4, <3>2, <3>3, NotFound
    <3> QED
        BY <3>1, <3>4 DEF Live
  <2>2. \A x, y : Before(list', x, y) =>
                  (Before(list, x, y) /\ x # n /\ y # n) \/ (x = n /\ y # n)
    <3>1. \A y : y \in ToSet(rest) => y # n
        BY <1>6
    <3> QED
        BY <1>6, <1>10, <3>1, Zenon
  <2>3. entry'[n].key = k /\ policy' = policy /\ recency' = Used(k)
      BY <1>4, <1>5, <1>8
  <2> QED
      BY <1>2, <2>1, <2>2, <2>3, OrderAfterUse
<1> QED
    BY <1>13, <1>14, <1>15, <1>16 DEF Inv

LEMMA EmptiedStep ==
    ASSUME Inv, Emptied, policy' \in Policies
    PROVE  Inv'
<1>1. TypeOK'
    BY DEF Inv, TypeOK, Emptied
<1>2. Allocated' = {} /\ ToSet(<<>>) = {} /\ NoRepeats(<<>>)
    BY DEF Allocated, ToSet, NoRepeats, Emptied
<1>3. ShapeInv'
    BY <1>2 DEF Inv, ShapeInv, Emptied
<1>4. FreshInv' /\ OrderInv'
    BY <1>2 DEF FreshInv, OrderInv, Live, Emptied
<1> QED
    BY <1>1, <1>3, <1>4 DEF Inv

(* What a step of the clock leaves of an entry. *)
LEMMA Aged ==
    ASSUME TypeOK, NEW d \in {1, -1},
           entry' = [n \in Nodes |-> IF Counts(entry[n]) THEN [entry[n] EXCEPT !.age = @ + d] ELSE entry[n]]
    PROVE  /\ entry' \in [Nodes -> Entry \cup {None}]
           /\ Allocated' = Allocated /\ Allocated \subseteq Nodes
           /\ \A n \in Allocated : /\ entry[n] \in Entry
                                   /\ entry'[n].key = entry[n].key /\ entry'[n].value = entry[n].value
                                   /\ entry'[n].ttl = entry[n].ttl
                                   /\ entry'[n].age = IF Counts(entry[n]) THEN entry[n].age + d ELSE entry[n].age
<1>1. ASSUME NEW e \in Entry
      PROVE  LET f == [e EXCEPT !.age = @ + d]
             IN  f \in Entry /\ f.key = e.key /\ f.value = e.value /\ f.ttl = e.ttl /\ f.age = e.age + d
    BY DEF Entry
<1>2. ASSUME NEW n \in Nodes
      PROVE  /\ entry[n] \in Entry \cup {None} /\ entry'[n] \in Entry \cup {None}
             /\ entry[n] = None <=> entry'[n] = None
             /\ Counts(entry[n]) => entry[n] \in Entry /\ entry'[n] = [entry[n] EXCEPT !.age = @ + d]
             /\ ~ Counts(entry[n]) => entry'[n] = entry[n]
  <2>1. entry[n] \in Entry \cup {None} /\ (Counts(entry[n]) => entry[n] \in Entry)
      BY DEF TypeOK, Counts
  <2>2. CASE Counts(entry[n])
    <3>1. entry'[n] = [entry[n] EXCEPT !.age = @ + d]
        BY <2>2
    <3>2. entry'[n] \in Entry
        BY <1>1, <2>1, <2>2, <3>1
    <3> QED
        BY <2>1, <2>2, <3>1, <3>2, NoneAssumption
  <2>3. CASE ~ Counts(entry[n])
    <3>1. entry'[n] = entry[n]
        BY <2>3
    <3> QED
        BY <2>1, <2>3, <3>1
  <2> QED
      BY <2>2, <2>3
<1>3. Allocated' = Allocated /\ Allocated \subseteq Nodes
    BY <1>2 DEF Allocated
<1>4. entry' \in [Nodes -> Entry \cup {None}]
    BY <1>2
<1>5. ASSUME NEW n \in Allocated
      PROVE  /\ entry[n] \in Entry
             /\ entry'[n].key = entry[n].key /\ entry'[n].value = entry[n].value
             /\ entry'[n].ttl = entry[n].ttl
             /\ entry'[n].age = IF Counts(entry[n]) THEN entry[n].age + d ELSE entry[n].age
  <2>1. n \in Nodes /\ entry[n] \in Entry
      BY <1>2 DEF Allocated
  <2>2. CASE Counts(entry[n])
    <3>1. entry'[n] = [entry[n] EXCEPT !.age = @ + d]
        BY <1>2, <2>1, <2>2
    <3> QED
        BY <1>1, <2>1, <2>2, <3>1
  <2>3. CASE ~ Counts(entry[n])
      BY <1>2, <2>1, <2>3
  <2> QED
      BY <2>2, <2>3
<1> QED
    BY <1>3, <1>4, <1>5

LEMMA TickStep ==
    ASSUME Inv, Tick
    PROVE  Inv'
<1>1. TypeOK /\ ShapeInv /\ FreshInv /\ OrderInv
    BY DEF Inv
<1>2. /\ entry' \in [Nodes -> Entry \cup {None}] /\ Allocated' = Allocated
      /\ \A n \in Allocated : /\ entry[n] \in Entry
                              /\ entry'[n].key = entry[n].key /\ entry'[n].value = entry[n].value
                              /\ entry'[n].ttl = entry[n].ttl
                              /\ entry'[n].age = IF Counts(entry[n]) THEN entry[n].age + 1 ELSE entry[n].age
    BY <1>1, Aged DEF Tick
<1>3. UNCHANGED <<policy, list, chain, latest, recency, steps, shaken>>
    BY DEF Tick
<1>4. TypeOK'
    BY <1>1, <1>2, <1>3 DEF TypeOK
<1>5. ShapeInv'
    BY <1>1, <1>2, <1>3 DEF ShapeInv
<1>6. ASSUME NEW n \in Allocated \ shaken
      PROVE  entry'[n].age >= 0 /\ (Expired(n) => Expired(n)')
  <2>1. /\ entry[n].age \in Int /\ entry[n].ttl \in Nat /\ entry[n].age >= 0
        /\ entry'[n].ttl = entry[n].ttl
        /\ entry'[n].age = entry[n].age \/ entry'[n].age = entry[n].age + 1
      BY <1>1, <1>2, TtlAssumption DEF Entry, FreshInv
  <2> QED
      BY <2>1 DEF Expired
<1>7. FreshInv'
  <2>1. \A j \in Keys : ToSet(chain[j]) \subseteq Allocated
      BY <1>1 DEF ShapeInv
  <2> QED
      BY <1>1, <1>2, <1>3, <1>6, <2>1 DEF FreshInv
<1>8. OrderInv'
  <2>1. ASSUME NEW x \in Nodes, Live(x)' PROVE Live(x) /\ entry'[x].key = entry[x].key
      BY <1>2, <1>3, <1>6, <2>1 DEF Live
  <2> QED
      BY <1>1, <1>3, <2>1 DEF OrderInv
<1> QED
    BY <1>4, <1>5, <1>7, <1>8 DEF Inv

LEMMA StepBackStep ==
    ASSUME Inv, StepBack
    PROVE  Inv'
<1>1. TypeOK /\ ShapeInv
    BY DEF Inv
<1> DEFINE d == -1
<1>2. entry' = [n \in Nodes |-> IF Counts(entry[n]) THEN [entry[n] EXCEPT !.age = @ + d] ELSE entry[n]]
  <2>1. ASSUME NEW n \in Nodes, Counts(entry[n])
        PROVE  [entry[n] EXCEPT !.age = @ - 1] = [entry[n] EXCEPT !.age = @ + d]
    <3>1. entry[n] \in Entry
        BY <1>1, <2>1 DEF TypeOK, Counts
    <3>2. entry[n].age - 1 = entry[n].age + d
        BY <3>1 DEF Entry
    <3> QED
        BY <3>2
  <2> QED
      BY <2>1 DEF StepBack
<1>3. d \in {1, -1}
    OBVIOUS
<1> HIDE DEF d
<1>4. /\ entry' \in [Nodes -> Entry \cup {None}] /\ Allocated' = Allocated
      /\ Allocated \subseteq Nodes
      /\ \A n \in Allocated : entry'[n].key = entry[n].key
    BY <1>1, <1>2, <1>3, Aged
<1>5. shaken' = Allocated /\ steps' = steps + 1 /\ steps < MaxSteps
    BY DEF StepBack, Allocated
<1>6. UNCHANGED <<policy, list, chain, latest, recency>>
    BY DEF StepBack
<1>7. TypeOK'
    BY <1>1, <1>4, <1>5, <1>6, SizeAssumption DEF TypeOK
<1>8. ShapeInv'
    BY <1>1, <1>4, <1>6 DEF ShapeInv
<1>9. FreshInv' /\ OrderInv'
  <2>1. \A j \in Keys : ToSet(chain'[j]) \subseteq shaken'
      BY <1>1, <1>5, <1>6 DEF ShapeInv
  <2> QED
      BY <1>4, <1>5, <2>1 DEF FreshInv, OrderInv, Live
<1> QED
    BY <1>7, <1>8, <1>9 DEF Inv

LEMMA CacheStep == Inv /\ [Next]_vars => Inv'
<1> SUFFICES ASSUME Inv, [Next]_vars PROVE Inv'
    OBVIOUS
<1>1. CASE UNCHANGED vars
    BY <1>1
       DEF Inv, vars, TypeOK, ShapeInv, FreshInv, OrderInv, Live, Allocated, Expired
<1>2. CASE Next
  <2>1. CASE Clear \/ Destroy
    <3>1. Emptied /\ policy' \in Policies
        BY <2>1 DEF Clear, Destroy, Inv, TypeOK
    <3> QED
        BY <3>1, EmptiedStep
  <2> QED
      BY <1>2, <2>1, UpdateStep, InsertStep, GetStep, DeleteStep, TickStep, StepBackStep, Zenon DEF Next
<1> QED
    BY <1>1, <1>2

(* The cache keeps its inductive invariant. *)
THEOREM CacheInvariant == Spec => []Inv
BY CacheInit, CacheStep, PTL DEF Spec

-----------------------------------------------------------------------------
(* The properties. *)

LEMMA InvCoherent == Inv => Coherent
<1> SUFFICES ASSUME Inv PROVE Coherent
    OBVIOUS
<1>1. TypeOK /\ ShapeInv
    BY DEF Inv
<1>2. /\ Len(list) \in Nat /\ ToSet(list) = Allocated
      /\ IsFiniteSet(Allocated) /\ Cardinality(Allocated) = Len(list)
    BY <1>1, Elements, NoRepeatsCardinality DEF TypeOK, ShapeInv
<1>3. Len(list) <= MaxSize
  <2>1. MaxSize \in Nat /\ IsFiniteSet(Nodes) /\ Cardinality(Nodes) = MaxSize
      BY SizeAssumption, FS_Interval DEF Nodes
  <2>2. Allocated \subseteq Nodes
      BY DEF Allocated
  <2> QED
      BY <1>2, <2>1, <2>2, FS_Subset
<1>4. ASSUME NEW k \in Keys
      PROVE  /\ ToSet(chain[k]) = {n \in Allocated : entry[n].key = k}
             /\ Cardinality(ToSet(chain[k])) = Len(chain[k])
    BY <1>1, NoRepeatsCardinality DEF TypeOK, ShapeInv
<1> QED
    BY <1>2, <1>3, <1>4 DEF Coherent

LEMMA InvLastPutWins == Inv => LastPutWins
<1> SUFFICES ASSUME Inv, NEW k \in Keys, Steady(k), Exists(k)
             PROVE  entry[Find(k)].value = latest[k]
    BY DEF LastPutWins
<1>1. TypeOK /\ ShapeInv /\ FreshInv
    BY DEF Inv
<1>2. /\ Find(k) = Head(chain[k]) /\ ~ Expired(Find(k)) /\ Find(k) \in Allocated /\ entry[Find(k)].key = k
    BY <1>1, Found DEF Exists, Allocated
<1>3. Find(k) \in ToSet(chain[k]) \ shaken
    BY <1>1, <1>2 DEF ShapeInv, Steady
<1> QED
    BY <1>1, <1>2, <1>3 DEF FreshInv

LEMMA InvListIsByRecency == Inv => ListIsByRecency
<1> SUFFICES ASSUME Inv, policy = "LRU", NEW i \in 1 .. Len(list), NEW j \in 1 .. Len(list), i < j,
                    Steady(entry[list[i]].key), Find(entry[list[i]].key) = list[i],
                    Steady(entry[list[j]].key), Find(entry[list[j]].key) = list[j]
             PROVE  Place(entry[list[i]].key) < Place(entry[list[j]].key)
    BY DEF ListIsByRecency
<1>1. TypeOK /\ ShapeInv /\ FreshInv /\ OrderInv
    BY DEF Inv
<1>2. ASSUME NEW h \in 1 .. Len(list), Steady(entry[list[h]].key), Find(entry[list[h]].key) = list[h]
      PROVE  list[h] \in Nodes /\ Live(list[h])
  <2>1. list[h] \in Allocated /\ list[h] \in Nodes /\ list[h] # None /\ entry[list[h]].key \in Keys
    <3>1. list[h] \in Allocated
        BY <1>1, Elements DEF TypeOK, ShapeInv
    <3> QED
        BY <1>1, <3>1, NoneAssumption DEF Allocated, TypeOK, Entry
  <2>2. ~ Expired(list[h]) /\ list[h] \notin shaken
      BY <1>1, <1>2, <2>1, Found DEF Steady, ShapeInv
  <2> QED
      BY <2>1, <2>2 DEF Live
<1>3. Before(list, list[i], list[j])
    BY DEF Before
<1>4. Before(recency, entry[list[i]].key, entry[list[j]].key)
    BY <1>1, <1>2, <1>3 DEF OrderInv
<1>5. PICK p, q \in 1 .. Len(recency) :
          p < q /\ recency[p] = entry[list[i]].key /\ recency[q] = entry[list[j]].key
    BY <1>4 DEF Before
<1>6. NoRepeats(recency)
    BY <1>1 DEF ShapeInv
<1>7. Place(entry[list[i]].key) = p /\ Place(entry[list[j]].key) = q
    BY <1>5, <1>6 DEF Place, NoRepeats
<1> QED
    BY <1>5, <1>7

(* The bucket chains and the list hold the same entries, each once, and     *)
(* never more than max_size, whatever is put, evicted, deleted or cleared   *)
(* and however the clock moves.                                             *)
THEOREM TableAndListAgree == Spec => []Coherent
BY CacheInvariant, InvCoherent, PTL

(* cache_get returns the value of the last put, not one that an expired     *)
(* entry behind it still holds, unless the clock was set back.              *)
THEOREM LookupsReturnLastPut == Spec => []LastPutWins
BY CacheInvariant, InvLastPutWins, PTL

(* Under LRU the list is by recency of use, so that the tail, which         *)
(* evict_if_needed takes, is the least recently used.                       *)
THEOREM LeastRecentIsAtTheTail == Spec => []ListIsByRecency
BY CacheInvariant, InvListIsByRecency, PTL
=============================================================================
