------------------------------ MODULE Counter -------------------------------
(***************************************************************************)
(* atomic_counter_t of src/concurrency/concurrency.c.  Its value is a      *)
(* volatile uint64_t that ++, -- and += load, change and store with no     *)
(* lock and no atomic instruction, so other threads come between the load  *)
(* and the store.  Numbers are modulo Modulus, 2^64 in the code.           *)
(*                                                                         *)
(* No function checks for the NULL that atomic_counter_create may return,  *)
(* nor for a counter that is destroyed meanwhile: callers have to, and in  *)
(* the model they do.                                                      *)
(***************************************************************************)
EXTENDS Integers, FiniteSets, SequencesExt

CONSTANTS
    Threads,
    Modulus,        \* how many numbers a counter can hold
    Initial,        \* arguments of atomic_counter_create and atomic_counter_set, below Modulus
    Deltas,         \* arguments of atomic_counter_add
    MaxCalls,       \* bound: calls that change a counter
    None

VARIABLES
    value,          \* counter->value, None while there is no counter
    call,           \* thread -> [delta, rereads, loaded, stored], None between calls
    returned,       \* what the last call that ended returned
    expected,       \* history: the value, had each call been one step
    starts,         \* history: [number, set]: created with (set = FALSE) or set to
    changes,        \* history: what calls have added, in the order of their stores
    overlap         \* history: two calls were under way together

vars == <<value, call, returned, expected, starts, changes, overlap>>

Numbers == 0 .. Modulus - 1

(* The calls that change the counter by a load and a store: what they add,  *)
(* and whether what they return is read again after the store.              *)
Increment == [delta |-> 1, rereads |-> FALSE]
Decrement == [delta |-> Modulus - 1, rereads |-> FALSE]
Add(delta) == [delta |-> delta, rereads |-> TRUE]

Calls == {Increment, Decrement} \cup {Add(d) : d \in Deltas}

TypeOK ==
    /\ value \in Numbers \cup {None}
    /\ call \in [Threads -> [change : Calls, loaded : Numbers, stored : BOOLEAN] \cup {None}]
    /\ returned \in Numbers \cup {None}
    /\ expected \in Numbers
    /\ starts \in SUBSET [number : Numbers, set : BOOLEAN]
    /\ changes \in Seq(Numbers) /\ Len(changes) <= MaxCalls
    /\ overlap \in BOOLEAN

Init ==
    /\ value = None
    /\ call = [t \in Threads |-> None]
    /\ returned = None
    /\ expected = 0
    /\ starts = {}
    /\ changes = <<>>
    /\ overlap = FALSE

(* atomic_counter_create *)
Create(n) ==
    /\ value = None
    /\ value' = n
    /\ expected' = n
    /\ starts' = {[number |-> n, set |-> FALSE]}
    /\ changes' = <<>>
    /\ overlap' = FALSE
    /\ UNCHANGED <<call, returned>>

(* atomic_counter_destroy *)
Destroy ==
    /\ value # None
    /\ \A t \in Threads : call[t] = None
    /\ value' = None
    /\ returned' = None
    /\ UNCHANGED <<call, expected, starts, changes, overlap>>

Ready(t) == value # None /\ call[t] = None
Met(t) == overlap \/ \E u \in Threads \ {t} : call[u] # None

Begun == Cardinality({t \in Threads : call[t] # None /\ ~ call[t].stored})

(* A call loads the value ... *)
Load(t, change) ==
    /\ Ready(t)
    /\ Len(changes) + Begun < MaxCalls
    /\ call' = [call EXCEPT ![t] = [change |-> change, loaded |-> value, stored |-> FALSE]]
    /\ overlap' = Met(t)
    /\ UNCHANGED <<value, returned, expected, starts, changes>>

StoreLoaded(t) ==
    /\ call[t] # None /\ ~ call[t].stored
    /\ value' = call[t].loaded
    /\ expected' = (expected + call[t].change.delta) % Modulus
    /\ changes' = Append(changes, call[t].change.delta)
    /\ call' = [call EXCEPT ![t].stored = TRUE]
    /\ UNCHANGED <<returned, starts, overlap>>

(* ... stores what it made of it ... *)
Store(t) ==
    /\ call[t] # None /\ ~ call[t].stored
    /\ value' = (call[t].loaded + call[t].change.delta) % Modulus
    /\ expected' = (expected + call[t].change.delta) % Modulus
    /\ changes' = Append(changes, call[t].change.delta)
    /\ call' = [call EXCEPT ![t].stored = TRUE]
    /\ UNCHANGED <<returned, starts, overlap>>

(* ... and returns that, or for atomic_counter_add what it finds then. *)
Return(t) ==
    /\ call[t] # None /\ call[t].stored
    /\ returned' = IF call[t].change.rereads
                   THEN value
                   ELSE (call[t].loaded + call[t].change.delta) % Modulus
    /\ call' = [call EXCEPT ![t] = None]
    /\ UNCHANGED <<value, expected, starts, changes, overlap>>

(* atomic_counter_get *)
Get(t) ==
    /\ Ready(t)
    /\ returned' = value
    /\ UNCHANGED <<value, call, expected, starts, changes, overlap>>

(* atomic_counter_set *)
Set(t, n) ==
    /\ Ready(t)
    /\ value' = n
    /\ expected' = n
    /\ starts' = starts \cup {[number |-> n, set |-> TRUE]}
    /\ overlap' = Met(t)
    /\ UNCHANGED <<call, returned, changes>>

Next ==
    \/ \E n \in Initial : Create(n)
    \/ Destroy
    \/ \E t \in Threads :
          \/ \E change \in Calls : Load(t, change)
          \/ Store(t) \/ Return(t) \/ Get(t)
          \/ \E n \in Initial : Set(t, n)

Spec == Init /\ [][Next]_vars

-----------------------------------------------------------------------------
(* Properties. *)

(* What the calls at the places in S add. *)
Total(S) ==
    FoldLeft(LAMBDA n, m : n + m, 0,
             [i \in 1 .. Len(changes) |-> IF i \in S THEN changes[i] ELSE 0])

(* Atomic operations: the counter holds what all the calls, each taking     *)
(* effect at once when it stores, have made of the number it started with.  *)
EveryCallCounts == value # None => value = expected

(* Calls that do not overlap are all counted, also across zero and the      *)
(* largest number.  Calls that overlap may be lost, but nothing else goes   *)
(* wrong: the value is what some of them, applied once each, make of a      *)
(* number the counter was created with or set to, and not all of them are   *)
(* lost unless it was set.                                                  *)
SomeCallsCount ==
    value # None =>
        /\ ~ overlap => value = expected
        /\ \E s \in starts, S \in SUBSET (1 .. Len(changes)) :
              /\ value = (s.number + Total(S)) % Modulus
              /\ S # {} \/ s.set \/ changes = <<>>
=============================================================================
