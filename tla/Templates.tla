----------------------------- MODULE Templates ------------------------------
(***************************************************************************)
(* The template libraries: src/concurrency, src/cache_strategies,          *)
(* src/db_performance, src/network_serialization and                       *)
(* src/latency_observability.  Their functions keep no state: each one     *)
(* allocates the object it returns, frees the one it is given, writes a    *)
(* fixed value where the caller asks for a result, or just answers.  None  *)
(* looks into an object, so a handle that is NULL or no longer good does   *)
(* no harm by itself.  What a caller can get wrong is ownership (which     *)
(* handle is given back, how often, in which order) and the pointers for   *)
(* results, some of which are checked and some not.                        *)
(*                                                                         *)
(* TemplateTables describes every function by what it does to the heap and *)
(* to its caller's memory.  The actions below are those effects; they are  *)
(* the same for all functions of a kind.  A behaviour uses one family of   *)
(* functions: no function of one family does anything to objects of        *)
(* another.  atomic_counter_* is in Counter, because it does have state.   *)
(***************************************************************************)
EXTENDS Integers, FiniteSets, TemplateTables

CONSTANTS
    Clients,        \* threads that call the library
    Blocks,         \* addresses calloc may return; a freed one may return again
    MaxHandles,     \* bound: handles held at a time
    None            \* no block at this address, NULL

VARIABLES
    family,         \* the functions in use
    heap,           \* address -> type of the object there, or None
    handles,        \* what clients hold: [client, block, type, alias]
    answer,         \* what the last call returned
    crashed         \* the process has died

vars == <<family, heap, handles, answer, crashed>>

-----------------------------------------------------------------------------
Effects == {"make", "make_out", "free", "same", "fill", "store", "say"}

(* What functions F hand out, and what they answer. *)
Types(F) == {f.what : f \in {g \in F : g.does \in {"make", "make_out"}}}
Answers(F) == {f.what : f \in F} \cup {"SUCCESS", "true", "void", None} \cup Blocks

Handle == [client : Clients, block : Blocks, type : Types(family), alias : BOOLEAN]

TypeOK ==
    /\ family \in Families
    /\ heap \in [Blocks -> Types(family) \cup {None}]
    /\ handles \in SUBSET Handle
    /\ answer \in Answers(family)
    /\ crashed \in BOOLEAN

Init ==
    /\ family \in Families
    /\ heap = [b \in Blocks |-> None]
    /\ handles = {}
    /\ answer = None
    /\ crashed = FALSE

(* The functions of a family with one effect, while the process lives. *)
Doing(does) == IF crashed THEN {} ELSE {f \in family : f.does = does}

NewHandle(c, b, type) == [client |-> c, block |-> b, type |-> type, alias |-> FALSE]

(* calloc: an address that is not in use. *)
Fresh(b) == heap[b] = None

(* A new object: its address is returned, or written where the caller said. *)
Make(c, b) ==
    \E f \in Doing("make") \cup Doing("make_out") :
        /\ Fresh(b)
        /\ Cardinality(handles) < MaxHandles
        /\ heap' = [heap EXCEPT ![b] = f.what]
        /\ handles' = handles \cup {NewHandle(c, b, f.what)}
        /\ answer' = IF f.does = "make" THEN b ELSE "true"
        /\ UNCHANGED <<family, crashed>>

(* No memory. *)
MakeFails ==
    \E f \in Doing("make") \cup Doing("make_out") :
        /\ answer' = IF f.does = "make" THEN None ELSE "true"
        /\ UNCHANGED <<family, heap, handles, crashed>>

(* free(): the block at that address goes, whoever got it. *)
Free(h) == [heap EXCEPT ![h.block] = None]

(* The object is given back.  A second free() of an address that is not in  *)
(* use ends the process.                                                    *)
GiveBack(h) ==
    \E f \in Doing("free") :
        /\ f.what = h.type
        /\ heap' = Free(h)
        /\ handles' = handles \ {h}
        /\ answer' = IF f.name \in {"cache_lock_release", "db_pool_release"} THEN "SUCCESS" ELSE "void"
        /\ crashed' = (heap[h.block] = None)
        /\ UNCHANGED family

(* The caller frees a string itself. *)
FreeString(h) ==
    /\ ~ crashed
    /\ h.type = "char *"
    /\ heap' = Free(h)
    /\ handles' = handles \ {h}
    /\ UNCHANGED <<family, answer, crashed>>

(* The handle that was passed comes back as the result. *)
Same(h) ==
    \E f \in Doing("same") :
        /\ f.what = h.type
        /\ Cardinality(handles) < MaxHandles
        /\ handles' = handles \cup {[h EXCEPT !.alias = TRUE]}
        /\ answer' = h.block
        /\ UNCHANGED <<family, heap, crashed>>

(* A function with a result that it writes without looking, NULL or not. *)
Store(given) ==
    \E f \in Doing("store") \cup (IF given THEN {} ELSE Doing("make_out")) :
        /\ crashed' = ~ given
        /\ answer' = IF given THEN f.what ELSE answer
        /\ UNCHANGED <<family, heap, handles>>

(* A function with a result that it writes if there is somewhere to write. *)
Fill(given) ==
    \E f \in Doing("fill") :
        /\ answer' = f.what
        /\ UNCHANGED <<family, heap, handles, crashed>>

(* A function that only answers. *)
Say ==
    \E f \in Doing("say") :
        /\ answer' = f.what
        /\ UNCHANGED <<family, heap, handles, crashed>>

Next ==
    \/ \E c \in Clients, b \in Blocks : Make(c, b)
    \/ MakeFails
    \/ \E h \in handles : GiveBack(h) \/ FreeString(h) \/ Same(h)
    \/ \E given \in BOOLEAN : Store(given) \/ Fill(given)
    \/ Say

Spec == Init /\ [][Next]_vars
=============================================================================
