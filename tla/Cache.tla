------------------------------- MODULE Cache --------------------------------
(***************************************************************************)
(* The in-memory cache of src/cache/cache.c: a hash table whose entries    *)
(* also form one list, from the most to the least recently used.  Every    *)
(* operation holds the write lock from start to end and is one step.       *)
(*                                                                         *)
(* Entries carry a time to live.  An expired entry is not removed: it      *)
(* stays in the list and in its bucket and find_entry hides it, so that a  *)
(* later put of the same key adds a second entry in front of it.           *)
(*                                                                         *)
(* A bucket is split into the chains of its keys, since entries of other   *)
(* keys are only walked over.  The hit, miss and eviction counters are not *)
(* read by any operation and are left out.  The clock only matters through *)
(* now - timestamp > ttl_ms: age is that difference, stopped where no step *)
(* of the clock can make it matter again.  The clock is CLOCK_REALTIME,    *)
(* which may be set back; the difference is unsigned, so that an entry     *)
(* from the future has expired.                                            *)
(***************************************************************************)
EXTENDS Integers, FiniteSets, SequencesExt

CONSTANTS
    Keys,
    Values,
    Ttls,           \* times to live passed to cache_put_with_ttl; 0 = forever
    MaxSize,        \* max_size of cache_create
    Policies,       \* policies passed to cache_create
    MaxAccess,      \* bound: access_count of an entry
    MaxSteps,       \* bound: milliseconds the clock is set back, in all
    None            \* no entry

ASSUME TtlAssumption == Ttls \subseteq Nat
ASSUME PolicyAssumption == Policies \subseteq {"LRU", "LFU"}
(* With max_size = 0 the code would compute hash % 0. *)
ASSUME SizeAssumption == MaxSize \in Nat \ {0} /\ MaxAccess \in Nat /\ MaxSteps \in Nat

Nodes == 1 .. MaxSize

VARIABLES
    policy,         \* cache->policy
    entry,          \* node -> cache_entry_t, None when not allocated
    list,           \* cache->head .. cache->tail
    chain,          \* key -> its entries in the bucket, front first
    latest,         \* history: key -> value of the last put, None once deleted
    recency,        \* history: keys by their last put or hit, latest first
    steps,          \* history: milliseconds the clock was set back
    shaken          \* history: entries the clock was set back for, since their last put

vars == <<policy, entry, list, chain, latest, recency, steps, shaken>>

Entry == [key : Keys, value : Values, ttl : Ttls, age : Int, access_count : 0 .. MaxAccess]

ASSUME NoneAssumption == None \notin Entry /\ None \notin Nodes

TypeOK ==
    /\ policy \in Policies
    /\ entry \in [Nodes -> Entry \cup {None}]
    /\ list \in Seq(Nodes)
    /\ chain \in [Keys -> Seq(Nodes)]
    /\ latest \in [Keys -> Values \cup {None}]
    /\ recency \in Seq(Keys)
    /\ steps \in 0 .. MaxSteps
    /\ shaken \in SUBSET Nodes

Init ==
    /\ policy \in Policies
    /\ entry = [n \in Nodes |-> None]
    /\ list = <<>>
    /\ chain = [k \in Keys |-> <<>>]
    /\ latest = [k \in Keys |-> None]
    /\ recency = <<>>
    /\ steps = 0
    /\ shaken = {}

-----------------------------------------------------------------------------
(* now - entry->timestamp > entry->ttl_ms, in uint64_t. *)
Expired(n) == entry[n].ttl > 0 /\ (entry[n].age > entry[n].ttl \/ entry[n].age < 0)

(* find_entry: the first entry of the key in its bucket, unless expired. *)
Find(k) ==
    IF chain[k] # <<>> /\ ~ Expired(Head(chain[k])) THEN Head(chain[k]) ELSE None

(* cache_exists *)
Exists(k) == Find(k) # None

MoveNothing(l, n) == l

(* remove_from_list, and its like for a chain: the node is unlinked. *)
Unlinked(l, n) ==
    IF n \in ToSet(l) THEN RemoveAt(l, CHOOSE i \in 1 .. Len(l) : l[i] = n) ELSE l

(* move_to_head *)
MoveToHead(l, n) == <<n>> \o Unlinked(l, n)

(* What a hit does to the list: nothing under LFU. *)
Touch(l, n) == IF policy = "LRU" THEN MoveToHead(l, n) ELSE l

(* find_victim: the tail under LRU, else the first entry from the head with *)
(* the least accesses.                                                      *)
Victim(l) ==
    LET Least(i) == \A j \in 1 .. Len(l) :
                       \/ entry[l[i]].access_count < entry[l[j]].access_count
                       \/ entry[l[i]].access_count = entry[l[j]].access_count /\ i <= j
    IN  IF policy = "LRU" THEN Last(l) ELSE l[CHOOSE i \in 1 .. Len(l) : Least(i)]

(* remove_entry's effect on each part of the cache. *)
RemovedFromList(n) == Unlinked(list, n)
RemovedFromChains(n) == [chain EXCEPT ![entry[n].key] = Unlinked(@, n)]

Used(k) == <<k>> \o Unlinked(recency, k)

-----------------------------------------------------------------------------
(* cache_put_with_ttl on a key that find_entry finds. *)
PutUpdate(k, v, ttl) ==
    LET n == Find(k)
    IN  /\ n # None
        /\ entry' = [entry EXCEPT ![n].value = v, ![n].ttl = ttl, ![n].age = 0]
        /\ list' = Touch(list, n)
        /\ latest' = [latest EXCEPT ![k] = v]
        /\ recency' = Used(k)
        /\ shaken' = shaken \ {n}
        /\ UNCHANGED <<policy, chain, steps>>

(* evict_if_needed.  Its loop runs once at most: the cache is never more    *)
(* than full (Coherent).                                                    *)
Full == Len(list) >= MaxSize

(* The node a new entry gets: a free one, or the evicted one's. *)
NewNode == IF Full THEN Victim(list) ELSE CHOOSE n \in Nodes : entry[n] = None

PutInsertWithoutEviction(k, v, ttl) ==
    LET n == Len(list) + 1
    IN  /\ Find(k) = None
        /\ entry' = [m \in DOMAIN entry \cup {n} |-> IF m # n THEN entry[m] ELSE
                        [key |-> k, value |-> v, ttl |-> ttl, age |-> 0, access_count |-> 0]]
        /\ list' = <<n>> \o list
        /\ chain' = [chain EXCEPT ![k] = <<n>> \o @]
        /\ latest' = [latest EXCEPT ![k] = v]
        /\ recency' = Used(k)
        /\ UNCHANGED <<policy, steps, shaken>>

PutInsertLeavingChain(k, v, ttl) ==
    LET n == NewNode
    IN  /\ Find(k) = None
        /\ entry' = [entry EXCEPT ![n] =
                        [key |-> k, value |-> v, ttl |-> ttl, age |-> 0, access_count |-> 0]]
        /\ list' = <<n>> \o (IF Full THEN RemovedFromList(n) ELSE list)
        /\ chain' = [chain EXCEPT ![k] = <<n>> \o @]
        /\ latest' = [latest EXCEPT ![k] = v]
        /\ recency' = Used(k)
        /\ shaken' = shaken \ {n}
        /\ UNCHANGED <<policy, steps>>

PutInsertAtChainEnd(k, v, ttl) ==
    LET n == NewNode
        kept == IF Full THEN RemovedFromChains(n) ELSE chain
    IN  /\ Find(k) = None
        /\ entry' = [entry EXCEPT ![n] =
                        [key |-> k, value |-> v, ttl |-> ttl, age |-> 0, access_count |-> 0]]
        /\ list' = <<n>> \o (IF Full THEN RemovedFromList(n) ELSE list)
        /\ chain' = [kept EXCEPT ![k] = @ \o <<n>>]
        /\ latest' = [latest EXCEPT ![k] = v]
        /\ recency' = Used(k)
        /\ shaken' = shaken \ {n}
        /\ UNCHANGED <<policy, steps>>

(* cache_put_with_ttl on any other key, an expired one included. *)
PutInsert(k, v, ttl) ==
    LET n == NewNode
        kept == IF Full THEN RemovedFromChains(n) ELSE chain
    IN  /\ Find(k) = None
        /\ entry' = [entry EXCEPT ![n] =
                        [key |-> k, value |-> v, ttl |-> ttl, age |-> 0, access_count |-> 0]]
        /\ list' = <<n>> \o (IF Full THEN RemovedFromList(n) ELSE list)
        /\ chain' = [kept EXCEPT ![k] = <<n>> \o @]
        /\ latest' = [latest EXCEPT ![k] = v]
        /\ recency' = Used(k)
        /\ shaken' = shaken \ {n}
        /\ UNCHANGED <<policy, steps>>

(* cache_get of a key that is found; otherwise it only counts a miss. *)
Get(k) ==
    LET n == Find(k)
    IN  /\ n # None
        /\ entry[n].access_count < MaxAccess
        /\ entry' = [entry EXCEPT ![n].access_count = @ + 1]
        /\ list' = Touch(list, n)
        /\ recency' = Used(k)
        /\ UNCHANGED <<policy, chain, latest, steps, shaken>>

(* cache_delete of a key that is found; otherwise nothing changes. *)
Delete(k) ==
    LET n == Find(k)
    IN  /\ n # None
        /\ entry' = [entry EXCEPT ![n] = None]
        /\ list' = RemovedFromList(n)
        /\ chain' = RemovedFromChains(n)
        /\ latest' = [latest EXCEPT ![k] = None]
        /\ shaken' = shaken \ {n}
        /\ UNCHANGED <<policy, recency, steps>>

Emptied ==
    /\ entry' = [n \in Nodes |-> None]
    /\ list' = <<>>
    /\ chain' = [k \in Keys |-> <<>>]
    /\ latest' = [k \in Keys |-> None]
    /\ shaken' = {}
    /\ UNCHANGED <<recency, steps>>

(* cache_clear *)
Clear == Emptied /\ UNCHANGED policy

(* cache_destroy, and another cache is created. *)
Destroy == Emptied /\ policy' \in Policies

(* Whether the time since e was put still matters, or can after a step back. *)
Counts(e) == e # None /\ e.ttl > 0 /\ e.age <= e.ttl + MaxSteps

(* A millisecond passes. *)
Tick ==
    /\ entry' = [n \in Nodes |-> IF Counts(entry[n]) THEN [entry[n] EXCEPT !.age = @ + 1] ELSE entry[n]]
    /\ UNCHANGED <<policy, list, chain, latest, recency, steps, shaken>>

(* The wall clock is set back by a millisecond; by more in several steps. *)
StepBack ==
    /\ steps < MaxSteps
    /\ entry' = [n \in Nodes |-> IF Counts(entry[n]) THEN [entry[n] EXCEPT !.age = @ - 1] ELSE entry[n]]
    /\ steps' = steps + 1
    /\ shaken' = {n \in Nodes : entry[n] # None}
    /\ UNCHANGED <<policy, list, chain, latest, recency>>

Next ==
    \/ \E k \in Keys, v \in Values, ttl \in Ttls : PutUpdate(k, v, ttl) \/ PutInsert(k, v, ttl)
    \/ \E k \in Keys : Get(k) \/ Delete(k)
    \/ Clear \/ Destroy
    \/ Tick \/ StepBack

Spec == Init /\ [][Next]_vars

-----------------------------------------------------------------------------
(* Properties. *)

Allocated == {n \in Nodes : entry[n] # None}

(* The hash table and the list hold the same entries: every entry is once   *)
(* in the list and once in the chain of its own key, nothing freed is in    *)
(* either, and the cache never holds more than max_size entries, expired    *)
(* ones included.                                                           *)
Coherent ==
    /\ Len(list) <= MaxSize
    /\ ToSet(list) = Allocated
    /\ Cardinality(Allocated) = Len(list)
    /\ \A k \in Keys :
          /\ ToSet(chain[k]) = {n \in Allocated : entry[n].key = k}
          /\ Cardinality(ToSet(chain[k])) = Len(chain[k])

(* No entry of the key has seen the clock set back since it was put. *)
Steady(k) == ToSet(chain[k]) \cap shaken = {}

(* A lookup returns what was put last, never an older value that an expired *)
(* entry still holds, however many of them pile up behind the first, and    *)
(* nothing after a delete or a clear.  A clock that is set back can bring   *)
(* an expired entry back to life, and only for the keys that have an entry  *)
(* from before.                                                             *)
LastPutWins == \A k \in Keys : Steady(k) /\ Exists(k) => entry[Find(k)].value = latest[k]

Place(k) == CHOOSE i \in 1 .. Len(recency) : recency[i] = k

(* Least recently used is what the list says: the entries that lookups can  *)
(* still reach are in the order of their last put or hit, so the tail is    *)
(* the right victim.  Entries of a steady key keep that order against each  *)
(* other whatever the clock did to the rest.                                *)
ListIsByRecency ==
    policy = "LRU" =>
        \A i, j \in 1 .. Len(list) :
            LET ki == entry[list[i]].key
                kj == entry[list[j]].key
            IN  /\ i < j
                /\ Steady(ki) /\ Find(ki) = list[i]
                /\ Steady(kj) /\ Find(kj) = list[j]
                => Place(ki) < Place(kj)
=============================================================================
