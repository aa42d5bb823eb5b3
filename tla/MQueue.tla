------------------------------- MODULE MQueue -------------------------------
(***************************************************************************)
(* The message queue of src/mqueue/mqueue.c: producers append messages     *)
(* under one mutex and broadcast one condition variable; every subscriber  *)
(* is a thread that takes the head of the queue, hands it to its handler   *)
(* when the topic is its own, and otherwise puts it back.                  *)
(*                                                                         *)
(* A critical section that contains no wait and reads nothing written      *)
(* outside the mutex is one action, enabled while the mutex is free.  The  *)
(* consumer's critical section reads consumer->active, which               *)
(* mqueue_unsubscribe writes without the mutex, so it is split at every    *)
(* such read and the variable lock names its holder.                       *)
(*                                                                         *)
(* mqueue_destroy frees the queue, so its caller must have no other call   *)
(* on it under way; that contract is the guard of DestroyBegin.            *)
(***************************************************************************)
EXTENDS Integers, FiniteSets, Sequences, SequencesExt

CONSTANTS
    Producers,      \* threads that call mqueue_publish
    Consumers,      \* subscriber handles (consumer_t) with their threads
    Topics,
    Priorities,     \* ints passed to mqueue_publish_with_priority
    Guarantees,     \* values passed to mqueue_set_delivery_guarantee
    RetryLimits,    \* values passed to mqueue_set_max_retries
    Orderings,      \* values passed to mqueue_create: "NONE", "FIFO", "PRIORITY"
    MaxMessages,    \* bound: messages created in a behaviour
    MaxRejects,     \* bound: calls of mqueue_reject
    None            \* the null pointer: no message, no lock holder

Ids == 0 .. MaxMessages - 1

Message == [id : Ids, topic : Topics, priority : Priorities, max_retries : RetryLimits]

ASSUME OrderingAssumption == Orderings \subseteq {"NONE", "FIFO", "PRIORITY"}
ASSUME PriorityAssumption == Priorities \subseteq Int
ASSUME BoundAssumption == MaxMessages \in Nat /\ MaxRejects \in Nat
ASSUME DefaultsAssumption == "AT_LEAST_ONCE" \in Guarantees /\ 3 \in RetryLimits
ASSUME NoneAssumption == None \notin Consumers /\ None \notin Message

VARIABLES
    queue,              \* the linked list head..tail
    consumers,          \* the linked list of subscribers, as a set
    lock,               \* consumer inside its critical section, or None
    counter,            \* static counter of generate_message_id
    draft,              \* per producer: the message built but not yet enqueued
    total_published, total_consumed, total_rejected,
    ordering, guarantee, max_retries,
    phase,              \* "open", "closing" (inside mqueue_destroy), "freed"
    active, topic,      \* fields of consumer_t
    pc, hand,           \* consumer thread: control point, the node it dequeued
    ctl,                \* where the calls that own the handle are with it
    order,              \* history: message id -> position in publish order, 0 = none
    deliveries,         \* history: message id -> number of handler calls
    dropped,            \* history: ids freed by mqueue_clear
    requeued            \* history: ids put back by a consumer of another topic

stats == <<total_published, total_consumed, total_rejected>>
settings == <<ordering, guarantee, max_retries>>
threads == <<active, topic, pc, hand, ctl>>
history == <<order, deliveries, dropped, requeued>>
vars == <<queue, consumers, lock, counter, draft, stats, settings, phase, threads, history>>

PC == {"off", "loop", "entering", "locked", "sleep", "waiting", "woken",
       "ready", "got", "handled", "exited"}
Ctl == {"none", "created", "running", "stopping", "joining"}

TypeOK ==
    /\ queue \in Seq(Message)
    /\ consumers \in SUBSET Consumers
    /\ lock \in Consumers \cup {None}
    /\ counter \in 0 .. MaxMessages
    /\ draft \in [Producers -> Message \cup {None}]
    /\ total_published \in Nat
    /\ total_consumed \in Nat
    /\ total_rejected \in 0 .. MaxRejects
    /\ ordering \in Orderings
    /\ guarantee \in Guarantees
    /\ max_retries \in RetryLimits
    /\ phase \in {"open", "closing", "freed"}
    /\ active \in [Consumers -> BOOLEAN]
    /\ topic \in [Consumers -> Topics \cup {None}]
    /\ pc \in [Consumers -> PC]
    /\ hand \in [Consumers -> Message \cup {None}]
    /\ ctl \in [Consumers -> Ctl]
    /\ order \in [Ids -> Nat]
    /\ deliveries \in [Ids -> Nat]
    /\ dropped \in SUBSET Ids
    /\ requeued \in SUBSET Ids

(* mqueue_create: the state a new queue starts in. *)
Init ==
    /\ queue = <<>>
    /\ consumers = {}
    /\ lock = None
    /\ counter = 0
    /\ draft = [p \in Producers |-> None]
    /\ total_published = 0
    /\ total_consumed = 0
    /\ total_rejected = 0
    /\ ordering \in Orderings
    /\ guarantee = "AT_LEAST_ONCE"
    /\ max_retries = 3
    /\ phase = "open"
    /\ active = [c \in Consumers |-> FALSE]
    /\ topic = [c \in Consumers |-> None]
    /\ pc = [c \in Consumers |-> "off"]
    /\ hand = [c \in Consumers |-> None]
    /\ ctl = [c \in Consumers |-> "none"]
    /\ order = [i \in Ids |-> 0]
    /\ deliveries = [i \in Ids |-> 0]
    /\ dropped = {}
    /\ requeued = {}

-----------------------------------------------------------------------------
(* The list operations. *)

(* The nodes the walk of enqueue_message passes: under ORDERING_PRIORITY   *)
(* it stops before the first node of lower priority, otherwise at the end. *)
Passed(q, m) ==
    {i \in 1 .. Len(q) :
        ordering = "PRIORITY" => \A j \in 1 .. i : q[j].priority >= m.priority}

EnqueueAtLevelHead(q, m) ==
    InsertAt(q, Cardinality({i \in Passed(q, m) : q[i].priority # m.priority}) + 1, m)

(* enqueue_message: the node is linked in behind those. *)
Enqueue(q, m) == InsertAt(q, Cardinality(Passed(q, m)) + 1, m)

(* pthread_cond_broadcast: every waiter must now reacquire the mutex. *)
Broadcast(pcs) == [c \in Consumers |-> IF pcs[c] = "waiting" THEN "woken" ELSE pcs[c]]

-----------------------------------------------------------------------------
(* Producers. *)

CreateWithoutRetries(p, t, pri) ==
    /\ phase = "open"
    /\ draft[p] = None
    /\ counter < MaxMessages
    /\ counter' = counter + 1
    /\ draft' = [draft EXCEPT ![p] =
                    [id |-> counter, topic |-> t, priority |-> pri, max_retries |-> 0]]
    /\ UNCHANGED <<queue, consumers, lock, stats, settings, phase, threads, history>>

(* mqueue_publish_with_priority before the mutex: message_create takes an  *)
(* id and the message copies the queue's retry limit, read without a lock. *)
CreateMessage(p, t, pri) ==
    /\ phase = "open"
    /\ draft[p] = None
    /\ counter < MaxMessages
    /\ counter' = counter + 1
    /\ draft' = [draft EXCEPT ![p] =
                    [id |-> counter, topic |-> t, priority |-> pri, max_retries |-> max_retries]]
    /\ UNCHANGED <<queue, consumers, lock, stats, settings, phase, threads, history>>

PublishWithoutBroadcast(p) ==
    /\ draft[p] # None
    /\ lock = None
    /\ queue' = Enqueue(queue, draft[p])
    /\ total_published' = total_published + 1
    /\ order' = [order EXCEPT ![draft[p].id] = total_published + 1]
    /\ draft' = [draft EXCEPT ![p] = None]
    /\ UNCHANGED <<consumers, lock, counter, total_consumed, total_rejected, settings,
                   phase, threads, deliveries, dropped, requeued>>

(* The critical section of mqueue_publish_with_priority. *)
Publish(p) ==
    /\ draft[p] # None
    /\ lock = None
    /\ queue' = Enqueue(queue, draft[p])
    /\ total_published' = total_published + 1
    /\ pc' = Broadcast(pc)
    /\ order' = [order EXCEPT ![draft[p].id] = total_published + 1]
    /\ draft' = [draft EXCEPT ![p] = None]
    /\ UNCHANGED <<consumers, lock, counter, total_consumed, total_rejected, settings,
                   phase, active, topic, hand, ctl, deliveries, dropped, requeued>>

-----------------------------------------------------------------------------
(* The consumer thread. *)

Goto(c, from, to) == pc[c] = from /\ pc' = [pc EXCEPT ![c] = to]

(* The test of the outer loop, without the mutex. *)
LoopTest(c) ==
    /\ Goto(c, "loop", IF active[c] THEN "entering" ELSE "exited")
    /\ UNCHANGED <<queue, consumers, lock, counter, draft, stats, settings, phase,
                   active, topic, hand, ctl, history>>

(* pthread_mutex_lock, or the reacquisition at the end of pthread_cond_wait. *)
Lock(c) ==
    /\ lock = None
    /\ pc[c] \in {"entering", "woken"}
    /\ lock' = c
    /\ pc' = [pc EXCEPT ![c] = "locked"]
    /\ UNCHANGED <<queue, consumers, counter, draft, stats, settings, phase,
                   active, topic, hand, ctl, history>>

(* The condition of the inner loop: size == 0 and active. *)
WaitTest(c) ==
    /\ Goto(c, "locked", IF queue = <<>> /\ active[c] THEN "sleep" ELSE "ready")
    /\ UNCHANGED <<queue, consumers, lock, counter, draft, stats, settings, phase,
                   active, topic, hand, ctl, history>>

(* pthread_cond_wait: give up the mutex and sleep, in one step. *)
Wait(c) ==
    /\ Goto(c, "sleep", "waiting")
    /\ lock' = None
    /\ UNCHANGED <<queue, consumers, counter, draft, stats, settings, phase,
                   active, topic, hand, ctl, history>>

(* POSIX allows pthread_cond_wait to return without a broadcast. *)
SpuriousWake(c) ==
    /\ Goto(c, "waiting", "woken")
    /\ UNCHANGED <<queue, consumers, lock, counter, draft, stats, settings, phase,
                   active, topic, hand, ctl, history>>

(* After the inner loop: leave when deactivated, else dequeue_message (which *)
(* returns NULL on an empty queue) and unlock.                               *)
Take(c) ==
    /\ pc[c] = "ready"
    /\ lock' = None
    /\ \/ /\ ~active[c]
          /\ pc' = [pc EXCEPT ![c] = "exited"]
          /\ UNCHANGED <<queue, hand>>
       \/ /\ active[c]
          /\ queue = <<>>
          /\ pc' = [pc EXCEPT ![c] = "loop"]
          /\ UNCHANGED <<queue, hand>>
       \/ /\ active[c]
          /\ queue # <<>>
          /\ queue' = Tail(queue)
          /\ hand' = [hand EXCEPT ![c] = Head(queue)]
          /\ pc' = [pc EXCEPT ![c] = "got"]
    /\ UNCHANGED <<consumers, counter, draft, stats, settings, phase,
                   active, topic, ctl, history>>

(* The topic is the consumer's: its handler runs, without the mutex. *)
Handle(c) ==
    /\ Goto(c, "got", "handled")
    /\ hand[c].topic = topic[c]
    /\ deliveries' = [deliveries EXCEPT ![hand[c].id] = @ + 1]
    /\ UNCHANGED <<queue, consumers, lock, counter, draft, stats, settings, phase,
                   active, topic, hand, ctl, order, dropped, requeued>>

FreeUncounted(c) ==
    /\ Goto(c, "handled", "loop")
    /\ hand' = [hand EXCEPT ![c] = None]
    /\ UNCHANGED <<queue, consumers, lock, counter, draft, stats, settings, phase,
                   active, topic, ctl, history>>

(* After the handler: total_consumed++ under the mutex, message_destroy. *)
Count(c) ==
    /\ Goto(c, "handled", "loop")
    /\ lock = None
    /\ total_consumed' = total_consumed + 1
    /\ hand' = [hand EXCEPT ![c] = None]
    /\ UNCHANGED <<queue, consumers, lock, counter, draft, total_published, total_rejected,
                   settings, phase, active, topic, ctl, history>>

RequeueAndDeliver(c) ==
    /\ Goto(c, "got", "handled")
    /\ hand[c].topic # topic[c]
    /\ lock = None
    /\ queue' = Enqueue(queue, hand[c])
    /\ deliveries' = [deliveries EXCEPT ![hand[c].id] = @ + 1]
    /\ UNCHANGED <<consumers, lock, counter, draft, stats, settings, phase,
                   active, topic, hand, ctl, order, dropped, requeued>>

(* The topic is another consumer's: the node is enqueued again, and nobody *)
(* is woken.                                                               *)
Requeue(c) ==
    /\ Goto(c, "got", "loop")
    /\ hand[c].topic # topic[c]
    /\ lock = None
    /\ queue' = Enqueue(queue, hand[c])
    /\ hand' = [hand EXCEPT ![c] = None]
    /\ requeued' = requeued \cup {hand[c].id}
    /\ UNCHANGED <<consumers, lock, counter, draft, stats, settings, phase,
                   active, topic, ctl, order, deliveries, dropped>>

ConsumerStep(c) ==
    \/ LoopTest(c) \/ Lock(c) \/ WaitTest(c) \/ Wait(c) \/ Take(c)
    \/ Handle(c) \/ Count(c) \/ Requeue(c)

-----------------------------------------------------------------------------
(* Subscriptions.                                                          *)

(* mqueue_subscribe up to pthread_create: the thread runs before the       *)
(* consumer is in the queue's list.  (When pthread_create fails nothing    *)
(* has changed.)                                                           *)
SubscribeCreate(c, t) ==
    /\ phase = "open"
    /\ ctl[c] = "none"
    /\ ctl' = [ctl EXCEPT ![c] = "created"]
    /\ topic' = [topic EXCEPT ![c] = t]
    /\ active' = [active EXCEPT ![c] = TRUE]
    /\ pc' = [pc EXCEPT ![c] = "loop"]
    /\ UNCHANGED <<queue, consumers, lock, counter, draft, stats, settings, phase, hand, history>>

(* The critical section of mqueue_subscribe. *)
SubscribeLink(c) ==
    /\ ctl[c] = "created"
    /\ lock = None
    /\ consumers' = consumers \cup {c}
    /\ ctl' = [ctl EXCEPT ![c] = "running"]
    /\ UNCHANGED <<queue, lock, counter, draft, stats, settings, phase,
                   active, topic, pc, hand, history>>

(* mqueue_unsubscribe clears consumer->active without the mutex.  It is    *)
(* called by the application, or by mqueue_destroy for one consumer after  *)
(* another.                                                                *)
Deactivate(c) ==
    /\ ctl[c] = "running"
    /\ \/ phase = "open"
       \/ phase = "closing" /\ \A d \in Consumers : ctl[d] \notin {"stopping", "joining"}
    /\ active' = [active EXCEPT ![c] = FALSE]
    /\ ctl' = [ctl EXCEPT ![c] = "stopping"]
    /\ UNCHANGED <<queue, consumers, lock, counter, draft, stats, settings, phase,
                   topic, pc, hand, history>>

NotifyWithoutLock(c) ==
    /\ ctl[c] = "stopping"
    /\ pc' = Broadcast(pc)
    /\ ctl' = [ctl EXCEPT ![c] = "joining"]
    /\ UNCHANGED <<queue, consumers, lock, counter, draft, stats, settings, phase,
                   active, topic, hand, history>>

NotifyNobody(c) ==
    /\ ctl[c] = "stopping"
    /\ ctl' = [ctl EXCEPT ![c] = "joining"]
    /\ UNCHANGED <<queue, consumers, lock, counter, draft, stats, settings, phase,
                   active, topic, pc, hand, history>>

(* ... takes the mutex to broadcast ... *)
Notify(c) ==
    /\ ctl[c] = "stopping"
    /\ lock = None
    /\ pc' = Broadcast(pc)
    /\ ctl' = [ctl EXCEPT ![c] = "joining"]
    /\ UNCHANGED <<queue, consumers, lock, counter, draft, stats, settings, phase,
                   active, topic, hand, history>>

(* ... and, once pthread_join returns, unlinks and frees the consumer. *)
JoinAndUnlink(c) ==
    /\ ctl[c] = "joining"
    /\ pc[c] = "exited"
    /\ lock = None
    /\ consumers' = consumers \ {c}
    /\ pc' = [pc EXCEPT ![c] = "off"]
    /\ topic' = [topic EXCEPT ![c] = None]
    /\ ctl' = [ctl EXCEPT ![c] = "none"]
    /\ UNCHANGED <<queue, lock, counter, draft, stats, settings, phase, active, hand, history>>

-----------------------------------------------------------------------------
(* Queue management. *)

(* mqueue_clear: every queued message is destroyed. *)
Clear ==
    /\ phase = "open"
    /\ lock = None
    /\ dropped' = dropped \cup {m.id : m \in ToSet(queue)}
    /\ queue' = <<>>
    /\ UNCHANGED <<consumers, lock, counter, draft, stats, settings, phase, threads,
                   order, deliveries, requeued>>

(* mqueue_reject only counts: the id and the requeue flag are ignored. *)
Reject ==
    /\ phase = "open"
    /\ lock = None
    /\ total_rejected < MaxRejects
    /\ total_rejected' = total_rejected + 1
    /\ UNCHANGED <<queue, consumers, lock, counter, draft, total_published, total_consumed,
                   settings, phase, threads, history>>

(* The two setters write one field without the mutex. *)
SetDeliveryGuarantee(g) ==
    /\ phase = "open"
    /\ guarantee' = g
    /\ UNCHANGED <<queue, consumers, lock, counter, draft, stats, ordering, max_retries, phase,
                   threads, history>>

SetMaxRetries(n) ==
    /\ phase = "open"
    /\ max_retries' = n
    /\ UNCHANGED <<queue, consumers, lock, counter, draft, stats, ordering, guarantee, phase,
                   threads, history>>

(* mqueue_destroy, called with no other call on the queue under way. *)
DestroyBegin ==
    /\ phase = "open"
    /\ \A p \in Producers : draft[p] = None
    /\ \A c \in Consumers : ctl[c] \in {"none", "running"}
    /\ phase' = "closing"
    /\ UNCHANGED <<queue, consumers, lock, counter, draft, stats, settings, threads, history>>

DestroyWithoutUnsubscribe ==
    /\ phase = "closing"
    /\ lock = None
    /\ dropped' = dropped \cup {m.id : m \in ToSet(queue)}
    /\ queue' = <<>>
    /\ phase' = "freed"
    /\ UNCHANGED <<consumers, lock, counter, draft, stats, settings, threads,
                   order, deliveries, requeued>>

(* Every consumer unsubscribed (Deactivate .. JoinAndUnlink): mqueue_clear, *)
(* then the queue is freed.                                                 *)
DestroyEnd ==
    /\ phase = "closing"
    /\ consumers = {}
    /\ lock = None
    /\ dropped' = dropped \cup {m.id : m \in ToSet(queue)}
    /\ queue' = <<>>
    /\ phase' = "freed"
    /\ UNCHANGED <<consumers, lock, counter, draft, stats, settings, threads,
                   order, deliveries, requeued>>

(* Nothing is left to run once the queue is freed. *)
Terminated == phase = "freed" /\ UNCHANGED vars

Next ==
    \/ \E p \in Producers, t \in Topics, pri \in Priorities : CreateMessage(p, t, pri)
    \/ \E p \in Producers : Publish(p)
    \/ \E c \in Consumers :
          \/ ConsumerStep(c) \/ SpuriousWake(c)
          \/ \E t \in Topics : SubscribeCreate(c, t)
          \/ SubscribeLink(c) \/ Deactivate(c) \/ Notify(c) \/ JoinAndUnlink(c)
    \/ Clear
    \/ Reject
    \/ \E g \in Guarantees : SetDeliveryGuarantee(g)
    \/ \E n \in RetryLimits : SetMaxRetries(n)
    \/ DestroyBegin
    \/ DestroyEnd
    \/ Terminated

(* What the calls that own consumer c still have to do. *)
CallStep(c) ==
    \/ SubscribeLink(c) \/ Notify(c) \/ JoinAndUnlink(c)
    \/ phase = "closing" /\ Deactivate(c)

(* Threads are scheduled, handlers return, and a thread that competes for  *)
(* the mutex gets it if it is free again and again: strong fairness.  At   *)
(* each of its control points a thread has one step, so fairness of the    *)
(* disjunction is fairness of each step.  Nothing obliges the application  *)
(* to start a call, and the condition variable need not wake spuriously.   *)
Fairness ==
    /\ \A p \in Producers : SF_vars(Publish(p))
    /\ \A c \in Consumers : SF_vars(ConsumerStep(c)) /\ SF_vars(CallStep(c))
    /\ SF_vars(DestroyEnd)

Spec == Init /\ [][Next]_vars

FairSpec == Spec /\ Fairness

-----------------------------------------------------------------------------
(* Properties. *)

(* The ids a consumer thread is carrying to its handler or back to the queue. *)
Carried == {hand[c].id : c \in {d \in Consumers : pc[d] = "got"}}
Queued == {m.id : m \in ToSet(queue)}
Delivered == {i \in Ids : deliveries[i] > 0}
Published == {i \in Ids : order[i] > 0}

(* No message is lost and none is delivered twice, whatever the threads     *)
(* interleave: a published message (mqueue_publish_with_priority) is in     *)
(* exactly one place: once in the list, in the hands of one consumer        *)
(* thread, delivered to one handler, or destroyed by mqueue_clear.          *)
ExactlyOnePlace ==
    /\ Published = Queued \cup Carried \cup Delivered \cup dropped
    /\ \A i, j \in 1 .. Len(queue) : queue[i].id = queue[j].id => i = j
    /\ \A c, d \in Consumers :
          pc[c] = "got" /\ pc[d] = "got" /\ hand[c].id = hand[d].id => c = d
    /\ \A i \in Ids : deliveries[i] <= 1
    /\ Queued \cap (Carried \cup Delivered \cup dropped) = {}
    /\ Carried \cap (Delivered \cup dropped) = {}
    /\ Delivered \cap dropped = {}

(* The queue as its callers see it: a message is pending while it is in the *)
(* list or in the hands of a consumer thread.                               *)
Abstract == INSTANCE Delivery
            WITH published <- Published, pending <- Queued \cup Carried, handled <- deliveries

(* The list, the mutex and the threads implement Delivery: whatever they     *)
(* interleave, a message is accepted once, handled once or cleared, and      *)
(* taking it out of the list and putting it back are steps nobody sees.      *)
ImplementsDelivery == Abstract!Spec

(* mqueue_unsubscribe clears active before it takes the mutex, so a         *)
(* consumer may fall asleep after that; it does so only while the broadcast *)
(* that will wake it is still to come, and the join cannot hang.            *)
StopNotLost ==
    \A c \in Consumers : pc[c] = "waiting" /\ ~active[c] => ctl[c] = "stopping"

(* A message a sleeping consumer was not woken for has been put back by a   *)
(* consumer of another topic: publish itself never loses a wakeup.          *)
SleepersWereToldOfPublish ==
    \A c \in Consumers : pc[c] = "waiting" => Queued \subseteq requeued

(* A consumer_t is freed only after its thread has ended, and the queue     *)
(* only after every thread that uses it: no thread touches freed memory.    *)
NoUseAfterFree ==
    /\ \A c \in Consumers : ctl[c] = "none" => pc[c] = "off" /\ c \notin consumers
    /\ phase = "freed" => \A c \in Consumers : pc[c] = "off"

(* What mqueue_get_stats and mqueue_size report, read under the mutex. *)
(* No code retries, so total_retries stays 0.                          *)
Stats == [total_published |-> total_published, total_consumed |-> total_consumed,
          total_rejected |-> total_rejected, total_retries |-> 0,
          queue_size |-> Len(queue), consumer_count |-> Cardinality(consumers)]

(* What mqueue_get_stats reports adds up at every moment the mutex is free: *)
(* published = consumed + queued + carried by a thread + cleared.           *)
StatsAddUp ==
    Stats.total_published = Stats.total_consumed + Stats.queue_size + Cardinality(dropped)
                            + Cardinality({c \in Consumers : pc[c] \in {"got", "handled"}})

(* Message m should reach a handler before message n. *)
Precedes(m, n) ==
    IF ordering = "PRIORITY"
    THEN \/ m.priority > n.priority
         \/ m.priority = n.priority /\ order[m.id] < order[n.id]
    ELSE order[m.id] < order[n.id]

(* When a consumer takes a message, those left in the list that should      *)
(* precede it have been put back and are of no higher priority.             *)
TakesInOrder(c) ==
    pc[c] = "ready" /\ pc'[c] = "got" =>
        \A m \in ToSet(queue') :
            Precedes(m, hand'[c]) =>
                /\ m.id \in requeued
                /\ ordering = "PRIORITY" => m.priority = hand'[c].priority

(* Published, and neither handled nor cleared. *)
Waiting == ToSet(queue) \cup {hand[c] : c \in {d \in Consumers : pc[d] = "got"}}

(* When a handler is called, the messages published earlier that should     *)
(* precede its own are being carried by another thread or have been put     *)
(* back by one.                                                             *)
HandlesInOrder(c) ==
    pc[c] = "got" /\ pc'[c] = "handled" =>
        \A m \in Waiting :
            Precedes(m, hand[c]) /\ order[m.id] < order[hand[c].id] =>
                m.id \in requeued \cup Carried

(* What FIFO and priority ordering come to (enqueue_message): the list      *)
(* yields messages in order, so that one is overtaken only once a consumer  *)
(* thread has taken it: by what other threads handle while it is carried,   *)
(* and, if the thread was of another topic and put it back                  *)
(* (consumer_thread), by everything of its priority that it is now behind.  *)
OvertakenOnlyOnceTaken ==
    [][\A c \in Consumers : TakesInOrder(c) /\ HandlesInOrder(c)]_vars

(* The calls that join threads return: mqueue_unsubscribe, once active is   *)
(* cleared, and mqueue_destroy.                                             *)
JoiningCallsReturn ==
    /\ \A c \in Consumers : ctl[c] = "stopping" ~> ctl[c] = "none"
    /\ phase = "closing" ~> phase = "freed"

InQueue(i, t) == \E m \in ToSet(queue) : m.id = i /\ m.topic = t

(* A published message whose topic keeps a subscriber is handled in the end *)
(* unless mqueue_clear destroys it.                                         *)
EventuallyHandled ==
    \A c \in Consumers, t \in Topics, i \in Ids :
        <>[](ctl[c] = "running" /\ topic[c] = t)
        => [](InQueue(i, t) => <>(i \in Delivered \cup dropped))
=============================================================================
