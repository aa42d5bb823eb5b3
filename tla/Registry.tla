------------------------------ MODULE Registry ------------------------------
(***************************************************************************)
(* The service registry of src/distributed/distributed.c: a list of        *)
(* services under a readers-writer lock, each named by an id drawn from    *)
(* next_id.  service_register draws the id before it takes the lock, so    *)
(* the increment is a load and a store that other threads can come         *)
(* between.  Host, port and the time of the last heartbeat are left out.   *)
(* service_discover copies what it finds, and the caller keeps the copy    *)
(* while the service itself may go.                                        *)
(***************************************************************************)
EXTENDS Integers, FiniteSets, SequencesExt

CONSTANTS
    Threads,        \* threads that call service_register
    Names,          \* service names
    MaxIds,         \* bound: ids drawn
    None            \* NULL

VARIABLES
    next_id,
    services,       \* the list, newest first: [id, name, healthy]
    pc,             \* thread -> "idle", "loaded" (next_id read), "built" (not linked)
    drawn,          \* thread -> the id it has read
    copy,           \* the service_info_t service_discover returned last, None if NULL
    gone            \* history: ids service_deregister has returned SUCCESS for

vars == <<next_id, services, pc, drawn, copy, gone>>

Service == [id : 1 .. MaxIds, name : Names, healthy : BOOLEAN]

TypeOK ==
    /\ next_id \in 1 .. MaxIds + 1
    /\ services \in Seq(Service)
    /\ pc \in [Threads -> {"idle", "loaded", "built"}]
    /\ drawn \in [Threads -> 0 .. MaxIds]
    /\ copy \in Service \cup {None}
    /\ gone \in SUBSET (1 .. MaxIds)

Init ==
    /\ next_id = 1
    /\ services = <<>>
    /\ pc = [t \in Threads |-> "idle"]
    /\ drawn = [t \in Threads |-> 0]
    /\ copy = None
    /\ gone = {}

(* service_register: registry->next_id++ without the lock, the load ... *)
LoadId(t) ==
    /\ pc[t] = "idle"
    /\ next_id <= MaxIds
    /\ drawn' = [drawn EXCEPT ![t] = next_id]
    /\ pc' = [pc EXCEPT ![t] = "loaded"]
    /\ UNCHANGED <<next_id, services, copy, gone>>

StoreIdUnchanged(t) ==
    /\ pc[t] = "loaded"
    /\ pc' = [pc EXCEPT ![t] = "built"]
    /\ UNCHANGED <<next_id, services, drawn, copy, gone>>

(* ... and the store ... *)
StoreId(t) ==
    /\ pc[t] = "loaded"
    /\ next_id' = drawn[t] + 1
    /\ pc' = [pc EXCEPT ![t] = "built"]
    /\ UNCHANGED <<services, drawn, copy, gone>>

(* ... then the service is linked in at the head, under the lock. *)
Link(t, name) ==
    /\ pc[t] = "built"
    /\ services' = <<[id |-> drawn[t], name |-> name, healthy |-> TRUE]>> \o services
    /\ pc' = [pc EXCEPT ![t] = "idle"]
    /\ drawn' = [drawn EXCEPT ![t] = 0]
    /\ UNCHANGED <<next_id, copy, gone>>

(* The first service in the list with this id, 0 if none. *)
FirstWith(id) == SelectInSeq(services, LAMBDA s : s.id = id)

(* service_deregister of an id that is found. *)
Deregister(id) ==
    /\ FirstWith(id) # 0
    /\ services' = RemoveAt(services, FirstWith(id))
    /\ gone' = gone \cup {id}
    /\ UNCHANGED <<next_id, pc, drawn, copy>>

(* service_heartbeat of an id that is found. *)
Heartbeat(id) ==
    /\ FirstWith(id) # 0
    /\ services' = [services EXCEPT ![FirstWith(id)].healthy = TRUE]
    /\ UNCHANGED <<next_id, pc, drawn, copy, gone>>

(* The first healthy service of that name in the list, 0 if none. *)
FirstNamed(name) == SelectInSeq(services, LAMBDA s : s.name = name /\ s.healthy)

(* service_discover *)
Discover(name) ==
    /\ copy' = IF FirstNamed(name) = 0 THEN None ELSE services[FirstNamed(name)]
    /\ UNCHANGED <<next_id, services, pc, drawn, gone>>

(* service_registry_destroy with no call under way, and another registry is *)
(* created.  The caller's copy and the ids it knows are of the old one; it  *)
(* forgets them.                                                            *)
Destroy ==
    /\ \A t \in Threads : pc[t] = "idle"
    /\ next_id' = 1
    /\ services' = <<>>
    /\ copy' = None
    /\ gone' = {}
    /\ UNCHANGED <<pc, drawn>>

Next ==
    \/ \E t \in Threads :
          LoadId(t) \/ StoreId(t) \/ \E name \in Names : Link(t, name)
    \/ \E id \in 1 .. MaxIds : Deregister(id) \/ Heartbeat(id)
    \/ \E name \in Names : Discover(name)
    \/ Destroy

Spec == Init /\ [][Next]_vars

-----------------------------------------------------------------------------
(* Properties. *)

(* An id names one service: registered services have different ids, and an  *)
(* id that was deregistered does not come back with another service.        *)
IdsNameOneService ==
    /\ \A i, j \in 1 .. Len(services) : services[i].id = services[j].id => i = j
    /\ \A i \in 1 .. Len(services) : services[i].id \notin gone

(* A copy that service_discover gave out goes stale, but it never comes to  *)
(* speak of another service: what is registered under its id, if anything,  *)
(* is the service it was copied from, and if nothing is, that service was   *)
(* deregistered.                                                            *)
CopyMeansItsService ==
    copy # None =>
        LET i == FirstWith(copy.id)
        IN  IF i = 0 THEN copy.id \in gone ELSE services[i].name = copy.name
=============================================================================
