------------------------------ MODULE Delivery ------------------------------
(***************************************************************************)
(* What the message queue of src/mqueue/mqueue.c promises of a message,    *)
(* without its list, its mutex or its threads: a published message is      *)
(* pending until one handler has it or the queue is cleared, and takes     *)
(* each of these steps once.                                               *)
(***************************************************************************)
EXTENDS Naturals

CONSTANT Ids

VARIABLES
    published,      \* messages mqueue_publish has accepted
    pending,        \* ... that are still to be handled
    handled,        \* message -> number of handler calls
    dropped         \* messages destroyed by mqueue_clear or mqueue_destroy

vars == <<published, pending, handled, dropped>>

Init ==
    /\ published = {}
    /\ pending = {}
    /\ handled = [i \in Ids |-> 0]
    /\ dropped = {}

Publish(i) ==
    /\ i \notin published
    /\ published' = published \cup {i}
    /\ pending' = pending \cup {i}
    /\ UNCHANGED <<handled, dropped>>

(* A message has one handler, ever. *)
Deliver(i) ==
    /\ i \in pending
    /\ handled[i] = 0
    /\ handled' = [handled EXCEPT ![i] = 1]
    /\ pending' = pending \ {i}
    /\ UNCHANGED <<published, dropped>>

Drop(S) ==
    /\ pending' = pending \ S
    /\ dropped' = dropped \cup S
    /\ UNCHANGED <<published, handled>>

Next ==
    \/ \E i \in Ids : Publish(i) \/ Deliver(i)
    \/ \E S \in SUBSET pending : Drop(S)

Spec == Init /\ [][Next]_vars
=============================================================================
