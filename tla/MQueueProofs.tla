---------------------------- MODULE MQueueProofs ----------------------------
(***************************************************************************)
(* Proofs about MQueue, for every set of producers, consumers, topics and  *)
(* priorities, every ordering and every number of messages.                *)
(***************************************************************************)
EXTENDS MQueue, ListLemmas

(* enqueue_message links the node in somewhere in the list. *)
LEMMA PassedBound ==
    ASSUME NEW q \in Seq(Message), NEW m \in Message
    PROVE  Cardinality(Passed(q, m)) \in 0 .. Len(q)
<1>1. Len(q) \in Nat
    BY LenProperties
<1>2. IsFiniteSet(1 .. Len(q)) /\ Cardinality(1 .. Len(q)) = Len(q)
    BY <1>1, FS_Interval, SMTT(30)
<1>3. Passed(q, m) \subseteq 1 .. Len(q)
    BY DEF Passed
<1>4. /\ IsFiniteSet(Passed(q, m))
      /\ Cardinality(Passed(q, m)) <= Cardinality(1 .. Len(q))
    BY <1>2, <1>3, FS_Subset
<1>5. Cardinality(Passed(q, m)) \in Nat
    BY <1>4, FS_CardinalityType
<1> QED
    BY <1>1, <1>2, <1>4, <1>5

(* The list after enqueue_message: the nodes before the new one keep their *)
(* place, the others move one place back.                                  *)
LEMMA EnqueueShape ==
    ASSUME NEW q \in Seq(Message), NEW m \in Message
    PROVE  /\ Enqueue(q, m) \in Seq(Message)
           /\ Len(Enqueue(q, m)) = Len(q) + 1
           /\ \E p \in 1 .. Len(q) + 1 :
                 /\ p = Cardinality(Passed(q, m)) + 1
                 /\ \A i \in 1 .. Len(q) + 1 :
                     Enqueue(q, m)[i] = IF i < p THEN q[i] ELSE IF i = p THEN m ELSE q[i - 1]
<1> DEFINE p == Cardinality(Passed(q, m)) + 1
           front == SubSeq(q, 1, p - 1)
           back == SubSeq(q, p, Len(q))
<1>1. Len(q) \in Nat /\ p \in 1 .. Len(q) + 1
    BY LenProperties, PassedBound
<1>2. \A i \in 1 .. Len(q) : q[i] \in Message
    BY ElementOfSeq
<1> HIDE DEF p
<1>3. /\ front \in Seq(Message)
      /\ Len(front) = p - 1
      /\ \A i \in 1 .. p - 1 : front[i] = q[i]
  <2>1. \A i \in 1 .. p - 1 : q[i] \in Message
      BY <1>1, <1>2
  <2>2. 1 \in Int /\ p - 1 \in Int
      BY <1>1
  <2>3. /\ front \in Seq(Message)
        /\ Len(front) = IF 1 <= p - 1 THEN p - 1 - 1 + 1 ELSE 0
        /\ \A i \in 1 .. p - 1 - 1 + 1 : front[i] = q[1 + i - 1]
      BY <2>1, <2>2, SubSeqProperties
  <2> QED
      BY <1>1, <2>3
<1>4. /\ back \in Seq(Message)
      /\ Len(back) = Len(q) - p + 1
      /\ \A i \in 1 .. Len(q) - p + 1 : back[i] = q[p + i - 1]
  <2>1. \A i \in p .. Len(q) : q[i] \in Message
      BY <1>1, <1>2
  <2>2. Len(q) \in Int /\ p \in Int
      BY <1>1
  <2>3. /\ back \in Seq(Message)
        /\ Len(back) = IF p <= Len(q) THEN Len(q) - p + 1 ELSE 0
        /\ \A i \in 1 .. Len(q) - p + 1 : back[i] = q[p + i - 1]
      BY <2>1, <2>2, SubSeqProperties
  <2> QED
      BY <1>1, <2>3
<1> HIDE DEF front, back
<1>5. /\ <<m>> \in Seq(Message)
      /\ Len(<<m>>) = 1
      /\ <<m>>[1] = m
    OBVIOUS
<1> DEFINE fm == front \o <<m>>
<1>6. /\ fm \in Seq(Message)
      /\ Len(fm) = p
      /\ \A i \in 1 .. p : fm[i] = IF i < p THEN q[i] ELSE m
  <2>1. /\ fm \in Seq(Message)
        /\ Len(fm) = Len(front) + Len(<<m>>)
        /\ \A i \in 1 .. Len(front) + Len(<<m>>) :
              fm[i] = IF i <= Len(front) THEN front[i] ELSE <<m>>[i - Len(front)]
      BY <1>3, <1>5, ConcatProperties
  <2> HIDE DEF fm
  <2> QED
      BY <1>1, <1>3, <1>5, <2>1
<1> HIDE DEF fm
<1>7. /\ fm \o back \in Seq(Message)
      /\ Len(fm \o back) = Len(fm) + Len(back)
      /\ \A i \in 1 .. Len(fm) + Len(back) :
            (fm \o back)[i] = IF i <= Len(fm) THEN fm[i] ELSE back[i - Len(fm)]
    BY <1>4, <1>6, ConcatProperties
<1>8. Enqueue(q, m) = fm \o back
    BY DEF Enqueue, InsertAt, fm, front, back, p
<1>9. Len(fm) + Len(back) = Len(q) + 1
    BY <1>1, <1>4, <1>6
<1>10. \A i \in 1 .. Len(q) + 1 :
          Enqueue(q, m)[i] = IF i < p THEN q[i] ELSE IF i = p THEN m ELSE q[i - 1]
  <2> TAKE i \in 1 .. Len(q) + 1
  <2>1. CASE i <= p
      BY <1>1, <1>6, <1>7, <1>8, <1>9, <2>1
  <2>2. CASE i > p
    <3>1. Enqueue(q, m)[i] = back[i - p]
        BY <1>1, <1>6, <1>7, <1>8, <1>9, <2>2
    <3>2. i - p \in 1 .. Len(q) - p + 1 /\ p + (i - p) - 1 = i - 1
        BY <1>1, <2>2
    <3> QED
        BY <1>1, <1>4, <2>2, <3>1, <3>2
  <2> QED
      BY <1>1, <2>1, <2>2
<1> QED
    BY <1>1, <1>7, <1>8, <1>9, <1>10 DEF p

-----------------------------------------------------------------------------
(* The ids in a list of messages, and that no two of its nodes share one. *)
IdsOf(q) == {q[i].id : i \in 1 .. Len(q)}
DistinctIds(q) == \A i, j \in 1 .. Len(q) : q[i].id = q[j].id => i = j

LEMMA QueuedIsIdsOf ==
    ASSUME NEW q \in Seq(Message)
    PROVE  {m.id : m \in ToSet(q)} = IdsOf(q)
<1>1. DOMAIN q = 1 .. Len(q)
    BY LenProperties
<1> QED
    BY <1>1 DEF ToSet, IdsOf

LEMMA EnqueueIds ==
    ASSUME NEW q \in Seq(Message), NEW m \in Message
    PROVE  /\ IdsOf(Enqueue(q, m)) = IdsOf(q) \cup {m.id}
           /\ DistinctIds(q) /\ m.id \notin IdsOf(q) => DistinctIds(Enqueue(q, m))
<1>1. Len(q) \in Nat
    BY LenProperties
<1>2. PICK p \in 1 .. Len(q) + 1 : \A i \in 1 .. Len(q) + 1 :
          Enqueue(q, m)[i] = IF i < p THEN q[i] ELSE IF i = p THEN m ELSE q[i - 1]
    BY EnqueueShape
<1>3. Len(Enqueue(q, m)) = Len(q) + 1
    BY EnqueueShape
<1> DEFINE e == Enqueue(q, m)
<1> HIDE DEF e
<1>4. IdsOf(e) \subseteq IdsOf(q) \cup {m.id}
    BY <1>1, <1>2, <1>3 DEF IdsOf, e
<1>5. IdsOf(q) \cup {m.id} \subseteq IdsOf(e)
  <2>1. m.id \in IdsOf(e)
      BY <1>1, <1>2, <1>3 DEF IdsOf, e
  <2>2. ASSUME NEW i \in 1 .. Len(q) PROVE q[i].id \in IdsOf(e)
    <3>1. CASE i < p
      <4>1. e[i] = q[i] /\ i \in 1 .. Len(e)
          BY <1>1, <1>2, <1>3, <3>1 DEF e
      <4> QED
          BY <4>1 DEF IdsOf
    <3>2. CASE i >= p
      <4>1. i + 1 \in 1 .. Len(q) + 1 /\ ~(i + 1 < p) /\ i + 1 # p /\ (i + 1) - 1 = i
          BY <1>1, <3>2
      <4>2. e[i + 1] = q[i]
          BY <1>2, <4>1 DEF e
      <4> QED
          BY <1>3, <4>1, <4>2 DEF IdsOf, e
    <3> QED
        BY <1>1, <3>1, <3>2
  <2> QED
      BY <2>1, <2>2 DEF IdsOf
<1>6. ASSUME DistinctIds(q), m.id \notin IdsOf(q)
      PROVE  DistinctIds(e)
  <2> DEFINE src(i) == IF i < p THEN i ELSE i - 1
  <2>1. \A i \in 1 .. Len(q) + 1 : i # p => src(i) \in 1 .. Len(q) /\ e[i] = q[src(i)]
      BY <1>1, <1>2 DEF e
  <2>2. e[p] = m
      BY <1>2 DEF e
  <2>3. \A i, j \in 1 .. Len(q) + 1 : i # p /\ j # p /\ src(i) = src(j) => i = j
      BY <1>1
  <2>4. \A k \in 1 .. Len(q) : q[k].id # m.id
      BY <1>6 DEF IdsOf
  <2> HIDE DEF src
  <2>5. ASSUME NEW i \in 1 .. Len(q) + 1, NEW j \in 1 .. Len(q) + 1, e[i].id = e[j].id
        PROVE  i = j
    <3>1. CASE i # p /\ j # p
        BY <1>6, <2>1, <2>3, <2>5, <3>1 DEF DistinctIds
    <3>2. CASE i = p \/ j = p
        BY <2>1, <2>2, <2>4, <2>5, <3>2
    <3> QED
        BY <3>1, <3>2
  <2> QED
      BY <1>3, <2>5 DEF DistinctIds, e
<1> QED
    BY <1>4, <1>5, <1>6 DEF e

(* dequeue_message unlinks exactly the head. *)
LEMMA DequeueIds ==
    ASSUME NEW q \in Seq(Message), q # <<>>
    PROVE  /\ Head(q) \in Message
           /\ Tail(q) \in Seq(Message)
           /\ IdsOf(q) = IdsOf(Tail(q)) \cup {Head(q).id}
           /\ DistinctIds(q) => DistinctIds(Tail(q)) /\ Head(q).id \notin IdsOf(Tail(q))
<1>1. /\ Head(q) \in Message
      /\ Tail(q) \in Seq(Message)
      /\ Len(Tail(q)) = Len(q) - 1
      /\ \A i \in 1 .. Len(Tail(q)) : Tail(q)[i] = q[i + 1]
    BY HeadTailProperties
<1>2. Len(q) \in Nat /\ Len(q) > 0 /\ Head(q) = q[1]
    BY EmptySeq, LenProperties
<1> DEFINE t == Tail(q)
<1> HIDE DEF t
<1>3. IdsOf(q) \subseteq IdsOf(t) \cup {q[1].id}
  <2> SUFFICES ASSUME NEW i \in 1 .. Len(q), i # 1 PROVE q[i].id \in IdsOf(t)
      BY DEF IdsOf
  <2>1. i - 1 \in 1 .. Len(t) /\ (i - 1) + 1 = i
      BY <1>1, <1>2 DEF t
  <2>2. t[i - 1] = q[i]
      BY <1>1, <2>1 DEF t
  <2> QED
      BY <2>1, <2>2 DEF IdsOf
<1>4. IdsOf(t) \cup {q[1].id} \subseteq IdsOf(q)
    BY <1>1, <1>2 DEF IdsOf, t
<1>5. DistinctIds(q) => DistinctIds(t) /\ q[1].id \notin IdsOf(t)
  <2>1. \A i \in 1 .. Len(t) : t[i] = q[i + 1] /\ i + 1 \in 1 .. Len(q) /\ i + 1 # 1
      BY <1>1, <1>2 DEF t
  <2>2. 1 \in 1 .. Len(q)
      BY <1>2
  <2>3. \A i, j \in 1 .. Len(t) : i + 1 = j + 1 => i = j
      BY <1>1, <1>2 DEF t
  <2> SUFFICES ASSUME DistinctIds(q)
               PROVE  DistinctIds(t) /\ q[1].id \notin IdsOf(t)
      OBVIOUS
  <2>4. DistinctIds(t)
      BY <2>1, <2>3 DEF DistinctIds
  <2>5. \A i \in 1 .. Len(t) : t[i].id # q[1].id
      BY <2>1, <2>2 DEF DistinctIds
  <2> QED
      BY <2>4, <2>5 DEF IdsOf
<1> QED
    BY <1>1, <1>2, <1>3, <1>4, <1>5 DEF t

-----------------------------------------------------------------------------
(* A consumer thread has a message in hand exactly between its dequeue and  *)
(* the moment it destroys or requeues it.                                   *)
HandsFull ==
    \A c \in Consumers : hand[c] # None <=> pc[c] \in {"got", "handled"}

(* A handle is in use exactly as long as its thread is started and not joined. *)
HandlesInUse ==
    \A c \in Consumers : ctl[c] = "none" <=> pc[c] = "off"

TypeInv == TypeOK /\ HandsFull /\ HandlesInUse

LEMMA HandIsMessage ==
    ASSUME TypeInv, NEW c \in Consumers, pc[c] \in {"got", "handled"}
    PROVE  hand[c] \in Message
BY DEF TypeInv, TypeOK, HandsFull

LEMMA TypeInvStep == TypeInv /\ [Next]_vars => TypeInv'
<1> SUFFICES ASSUME TypeInv, [Next]_vars PROVE TypeInv'
    OBVIOUS
<1> USE NoneAssumption, BoundAssumption DEF stats, settings, threads, history
<1>1. ASSUME NEW p \in Producers, NEW t \in Topics, NEW pri \in Priorities,
             CreateMessage(p, t, pri)
      PROVE  TypeInv'
  <2>1. [id |-> counter, topic |-> t, priority |-> pri, max_retries |-> max_retries] \in Message
      BY <1>1 DEF CreateMessage, TypeInv, TypeOK, Message, Ids
  <2> QED
      BY <1>1, <2>1 DEF CreateMessage, TypeInv, TypeOK, HandsFull, HandlesInUse
<1>2. ASSUME NEW p \in Producers, Publish(p)
      PROVE  TypeInv'
  <2>1. draft[p] \in Message
      BY <1>2 DEF Publish, TypeInv, TypeOK
  <2>2. Enqueue(queue, draft[p]) \in Seq(Message)
      BY <2>1, EnqueueShape DEF TypeInv, TypeOK
  <2>3. pc' \in [Consumers -> PC]
      BY <1>2 DEF Publish, Broadcast, TypeInv, TypeOK, PC
  <2>4. HandsFull' /\ HandlesInUse'
      BY <1>2 DEF Publish, Broadcast, TypeInv, TypeOK, HandsFull, HandlesInUse
  <2>5. order' \in [Ids -> Nat]
    <3>1. draft[p].id \in Ids /\ total_published + 1 \in Nat
        BY <2>1 DEF TypeInv, TypeOK, Message
    <3> QED
        BY <1>2, <3>1 DEF Publish, TypeInv, TypeOK
  <2> QED
      BY <1>2, <2>2, <2>3, <2>4, <2>5 DEF Publish, TypeInv, TypeOK
<1>3. ASSUME NEW c \in Consumers, LoopTest(c)
      PROVE  TypeInv'
    BY <1>3 DEF LoopTest, Goto, TypeInv, TypeOK, HandsFull, HandlesInUse, PC
<1>4. ASSUME NEW c \in Consumers, Lock(c)
      PROVE  TypeInv'
    BY <1>4 DEF Lock, TypeInv, TypeOK, HandsFull, HandlesInUse, PC
<1>5. ASSUME NEW c \in Consumers, WaitTest(c)
      PROVE  TypeInv'
    BY <1>5 DEF WaitTest, Goto, TypeInv, TypeOK, HandsFull, HandlesInUse, PC
<1>6. ASSUME NEW c \in Consumers, Wait(c)
      PROVE  TypeInv'
    BY <1>6 DEF Wait, Goto, TypeInv, TypeOK, HandsFull, HandlesInUse, PC
<1>7. ASSUME NEW c \in Consumers, SpuriousWake(c)
      PROVE  TypeInv'
    BY <1>7 DEF SpuriousWake, Goto, TypeInv, TypeOK, HandsFull, HandlesInUse, PC
<1>8. ASSUME NEW c \in Consumers, Take(c)
      PROVE  TypeInv'
  <2>1. queue' \in Seq(Message) /\ hand' \in [Consumers -> Message \cup {None}]
    <3>1. CASE queue # <<>>
      <4>1. Head(queue) \in Message /\ Tail(queue) \in Seq(Message)
          BY <3>1, DequeueIds DEF TypeInv, TypeOK
      <4>2. queue \in Seq(Message) /\ hand \in [Consumers -> Message \cup {None}]
          BY DEF TypeInv, TypeOK
      <4>3. \/ queue' = queue /\ hand' = hand
            \/ queue' = Tail(queue) /\ hand' = [hand EXCEPT ![c] = Head(queue)]
          BY <1>8 DEF Take
      <4> QED
          BY <4>1, <4>2, <4>3
    <3>2. CASE queue = <<>>
        BY <1>8, <3>2 DEF Take, TypeInv, TypeOK
    <3> QED
        BY <3>1, <3>2
  <2>2. pc' \in [Consumers -> PC]
      BY <1>8 DEF Take, TypeInv, TypeOK, PC
  <2>3. HandsFull' /\ HandlesInUse'
    <3>1. CASE queue # <<>> /\ active[c]
      <4>1. Head(queue) \in Message
          BY <3>1, DequeueIds DEF TypeInv, TypeOK
      <4> QED
          BY <1>8, <3>1, <4>1, ZenonT(30) DEF Take, TypeInv, TypeOK, HandsFull, HandlesInUse
    <3>2. CASE ~(queue # <<>> /\ active[c])
        BY <1>8, <3>2, SMTT(30) DEF Take, TypeInv, TypeOK, HandsFull, HandlesInUse
    <3> QED
        BY <3>1, <3>2
  <2> QED
      BY <1>8, <2>1, <2>2, <2>3 DEF Take, TypeInv, TypeOK
<1>9. ASSUME NEW c \in Consumers, Handle(c)
      PROVE  TypeInv'
  <2>1. hand[c].id \in Ids
      BY <1>9, HandIsMessage DEF Handle, Goto, Message
  <2>2. deliveries' \in [Ids -> Nat]
      BY <1>9, <2>1 DEF Handle, TypeInv, TypeOK
  <2> QED
      BY <1>9, <2>2 DEF Handle, Goto, TypeInv, TypeOK, HandsFull, HandlesInUse, PC
<1>10. ASSUME NEW c \in Consumers, Count(c)
      PROVE  TypeInv'
    BY <1>10 DEF Count, Goto, TypeInv, TypeOK, HandsFull, HandlesInUse, PC
<1>11. ASSUME NEW c \in Consumers, Requeue(c)
      PROVE  TypeInv'
  <2>1. hand[c] \in Message
      BY <1>11, HandIsMessage DEF Requeue, Goto
  <2>2. Enqueue(queue, hand[c]) \in Seq(Message) /\ hand[c].id \in Ids
      BY <2>1, EnqueueShape DEF TypeInv, TypeOK, Message
  <2> QED
      BY <1>11, <2>2 DEF Requeue, Goto, TypeInv, TypeOK, HandsFull, HandlesInUse, PC
<1>12. ASSUME NEW c \in Consumers, NEW t \in Topics, SubscribeCreate(c, t)
      PROVE  TypeInv'
    BY <1>12 DEF SubscribeCreate, TypeInv, TypeOK, HandsFull, HandlesInUse, PC, Ctl
<1>13. ASSUME NEW c \in Consumers, SubscribeLink(c)
      PROVE  TypeInv'
    BY <1>13 DEF SubscribeLink, TypeInv, TypeOK, HandsFull, HandlesInUse, Ctl
<1>14. ASSUME NEW c \in Consumers, Deactivate(c)
      PROVE  TypeInv'
    BY <1>14 DEF Deactivate, TypeInv, TypeOK, HandsFull, HandlesInUse, Ctl
<1>15. ASSUME NEW c \in Consumers, Notify(c)
      PROVE  TypeInv'
  <2>1. pc' \in [Consumers -> PC] /\ HandsFull' /\ HandlesInUse'
      BY <1>15 DEF Notify, Broadcast, TypeInv, TypeOK, HandsFull, HandlesInUse, PC
  <2> QED
      BY <1>15, <2>1 DEF Notify, TypeInv, TypeOK, Ctl
<1>16. ASSUME NEW c \in Consumers, JoinAndUnlink(c)
      PROVE  TypeInv'
    BY <1>16 DEF JoinAndUnlink, TypeInv, TypeOK, HandsFull, HandlesInUse, Ctl, PC
<1>17. CASE Clear \/ DestroyEnd
  <2>1. {m.id : m \in ToSet(queue)} \subseteq Ids
    <3>1. queue \in Seq(Message)
        BY DEF TypeInv, TypeOK
    <3>2. \A i \in 1 .. Len(queue) : queue[i].id \in Ids
        BY <3>1, ElementOfSeq DEF Message
    <3>3. IdsOf(queue) \subseteq Ids
        BY <3>2 DEF IdsOf
    <3> QED
        BY <3>1, <3>3, QueuedIsIdsOf
  <2>2. <<>> \in Seq(Message)
      BY EmptySeq
  <2> QED
      BY <1>17, <2>1, <2>2 DEF Clear, DestroyEnd, TypeInv, TypeOK, HandsFull, HandlesInUse
<1>18. CASE Reject
    BY <1>18 DEF Reject, TypeInv, TypeOK, HandsFull, HandlesInUse
<1>19. ASSUME NEW g \in Guarantees, SetDeliveryGuarantee(g)
      PROVE  TypeInv'
    BY <1>19 DEF SetDeliveryGuarantee, TypeInv, TypeOK, HandsFull, HandlesInUse
<1>20. ASSUME NEW n \in RetryLimits, SetMaxRetries(n)
      PROVE  TypeInv'
    BY <1>20 DEF SetMaxRetries, TypeInv, TypeOK, HandsFull, HandlesInUse
<1>21. CASE DestroyBegin
    BY <1>21 DEF DestroyBegin, TypeInv, TypeOK, HandsFull, HandlesInUse
<1>22. CASE UNCHANGED vars
    BY <1>22 DEF vars, TypeInv, TypeOK, HandsFull, HandlesInUse
<1> QED
    BY <1>1, <1>2, <1>3, <1>4, <1>5, <1>6, <1>7, <1>8, <1>9, <1>10, <1>11, <1>12, <1>13,
       <1>14, <1>15, <1>16, <1>17, <1>18, <1>19, <1>20, <1>21, <1>22
    DEF Next, ConsumerStep, Terminated

LEMMA TypeInvInit == Init => TypeInv
<1> SUFFICES ASSUME Init PROVE TypeInv
    OBVIOUS
<1>1. <<>> \in Seq(Message)
    BY EmptySeq
<1> QED
    BY <1>1, BoundAssumption, DefaultsAssumption
    DEF Init, TypeInv, TypeOK, HandsFull, HandlesInUse, PC, Ctl

(* Every variable keeps its type in every reachable state: in particular   *)
(* the list holds messages only, and a thread never requeues or handles a  *)
(* message it does not hold.                                               *)
THEOREM TypeCorrect == Spec => []TypeOK
<1>1. TypeInv => TypeOK
    BY DEF TypeInv
<1> QED
    BY <1>1, TypeInvInit, TypeInvStep, PTL DEF Spec

-----------------------------------------------------------------------------
(* The control invariant: who holds the mutex, what consumer->active says  *)
(* about the handle, and who may sleep when active has been cleared.  The  *)
(* conjunct on "sleep" is what makes StopNotLost inductive: the thread     *)
(* holds the mutex from its test of active until it waits, and the         *)
(* broadcast of mqueue_unsubscribe needs the mutex.                        *)
LockHeld == \A c \in Consumers : pc[c] \in {"locked", "sleep", "ready"} <=> lock = c
ActiveMeansSubscribed == \A c \in Consumers : active[c] <=> ctl[c] \in {"created", "running"}
ListedMeansLinked ==
    \A c \in Consumers : c \in consumers <=> ctl[c] \in {"running", "stopping", "joining"}
SleepersWillBeStopped ==
    \A c \in Consumers :
        pc[c] \in {"sleep", "waiting"} /\ ctl[c] \notin {"created", "running"} => ctl[c] = "stopping"
ClosedMeansQuiet ==
    /\ phase # "open" => /\ \A p \in Producers : draft[p] = None
                         /\ \A c \in Consumers : ctl[c] # "created"
    /\ phase = "freed" => consumers = {}

ControlInv ==
    LockHeld /\ ActiveMeansSubscribed /\ ListedMeansLinked
    /\ SleepersWillBeStopped /\ ClosedMeansQuiet

LEMMA ControlInvStep ==
    TypeInv /\ ControlInv /\ [Next]_vars => ControlInv'
<1> SUFFICES ASSUME TypeInv, ControlInv, [Next]_vars PROVE ControlInv'
    OBVIOUS
<1> USE NoneAssumption DEF stats, settings, threads, history, TypeInv, TypeOK, HandlesInUse,
        ControlInv, LockHeld, ActiveMeansSubscribed, ListedMeansLinked,
        SleepersWillBeStopped, ClosedMeansQuiet
<1>1. ASSUME NEW p \in Producers, NEW t \in Topics, NEW pri \in Priorities,
             CreateMessage(p, t, pri)
      PROVE  ControlInv'
    BY <1>1 DEF CreateMessage
<1>2. ASSUME NEW p \in Producers, Publish(p)
      PROVE  ControlInv'
    BY <1>2 DEF Publish, Broadcast
<1>3. ASSUME NEW c \in Consumers, LoopTest(c)
      PROVE  ControlInv'
    BY <1>3 DEF LoopTest, Goto
<1>4. ASSUME NEW c \in Consumers, Lock(c)
      PROVE  ControlInv'
    BY <1>4 DEF Lock
<1>5. ASSUME NEW c \in Consumers, WaitTest(c)
      PROVE  ControlInv'
    BY <1>5 DEF WaitTest, Goto
<1>6. ASSUME NEW c \in Consumers, Wait(c)
      PROVE  ControlInv'
    BY <1>6 DEF Wait, Goto
<1>7. ASSUME NEW c \in Consumers, SpuriousWake(c)
      PROVE  ControlInv'
    BY <1>7 DEF SpuriousWake, Goto
<1>8. ASSUME NEW c \in Consumers, Take(c)
      PROVE  ControlInv'
  <2>1. PICK to \in {"exited", "loop", "got"} : pc' = [pc EXCEPT ![c] = to]
      BY <1>8 DEF Take
  <2>2. pc[c] = "ready" /\ lock' = None
      BY <1>8 DEF Take
  <2>3. UNCHANGED <<consumers, draft, phase, active, ctl>>
      BY <1>8 DEF Take
  <2> QED
      BY <2>1, <2>2, <2>3
<1>9. ASSUME NEW c \in Consumers, Handle(c)
      PROVE  ControlInv'
    BY <1>9 DEF Handle, Goto
<1>10. ASSUME NEW c \in Consumers, Count(c)
      PROVE  ControlInv'
    BY <1>10 DEF Count, Goto
<1>11. ASSUME NEW c \in Consumers, Requeue(c)
      PROVE  ControlInv'
    BY <1>11 DEF Requeue, Goto
<1>12. ASSUME NEW c \in Consumers, NEW t \in Topics, SubscribeCreate(c, t)
      PROVE  ControlInv'
    BY <1>12, SMTT(30) DEF SubscribeCreate
<1>13. ASSUME NEW c \in Consumers, SubscribeLink(c)
      PROVE  ControlInv'
    BY <1>13 DEF SubscribeLink
<1>14. ASSUME NEW c \in Consumers, Deactivate(c)
      PROVE  ControlInv'
    BY <1>14 DEF Deactivate
<1>15. ASSUME NEW c \in Consumers, Notify(c)
      PROVE  ControlInv'
    BY <1>15 DEF Notify, Broadcast
<1>16. ASSUME NEW c \in Consumers, JoinAndUnlink(c)
      PROVE  ControlInv'
    BY <1>16 DEF JoinAndUnlink
<1>17. CASE Clear
    BY <1>17 DEF Clear
<1>18. CASE Reject
    BY <1>18 DEF Reject
<1>19. ASSUME NEW g \in Guarantees, SetDeliveryGuarantee(g)
      PROVE  ControlInv'
    BY <1>19 DEF SetDeliveryGuarantee
<1>20. ASSUME NEW n \in RetryLimits, SetMaxRetries(n)
      PROVE  ControlInv'
    BY <1>20 DEF SetMaxRetries
<1>21. CASE DestroyBegin
    BY <1>21 DEF DestroyBegin
<1>22. CASE DestroyEnd
    BY <1>22 DEF DestroyEnd
<1>23. CASE UNCHANGED vars
    BY <1>23 DEF vars
<1> QED
    BY <1>1, <1>2, <1>3, <1>4, <1>5, <1>6, <1>7, <1>8, <1>9, <1>10, <1>11, <1>12,
       <1>13, <1>14, <1>15, <1>16, <1>17, <1>18, <1>19, <1>20, <1>21, <1>22, <1>23
    DEF Next, ConsumerStep, Terminated

LEMMA ControlInvInit == Init => ControlInv
BY NoneAssumption DEF Init, ControlInv, LockHeld, ActiveMeansSubscribed, ListedMeansLinked,
   SleepersWillBeStopped, ClosedMeansQuiet

(* Stopping a consumer cannot hang: whenever its thread sleeps although     *)
(* active is cleared, the broadcast of mqueue_unsubscribe is still to come. *)
THEOREM StopIsNeverLost == Spec => []StopNotLost
<1>1. ControlInv => StopNotLost
    BY DEF ControlInv, SleepersWillBeStopped, ActiveMeansSubscribed, StopNotLost
<1> QED
    BY <1>1, TypeInvInit, TypeInvStep, ControlInvInit, ControlInvStep, PTL DEF Spec

(* No consumer_t is freed under its running thread, and mqueue_destroy      *)
(* frees the queue only when no thread is left that uses it.                *)
THEOREM NothingUsedAfterFree == Spec => []NoUseAfterFree
<1>1. TypeInv /\ ControlInv => NoUseAfterFree
  <2> SUFFICES ASSUME TypeInv, ControlInv PROVE NoUseAfterFree
      OBVIOUS
  <2>1. \A c \in Consumers : ctl[c] = "none" => pc[c] = "off" /\ c \notin consumers
      BY DEF TypeInv, HandlesInUse, ControlInv, ListedMeansLinked
  <2>2. ASSUME phase = "freed", NEW c \in Consumers PROVE pc[c] = "off"
    <3>1. consumers = {} /\ ctl[c] # "created"
        BY <2>2 DEF ControlInv, ClosedMeansQuiet
    <3>2. ctl[c] \in Ctl
        BY DEF TypeInv, TypeOK
    <3>3. ctl[c] = "none"
        BY <3>1, <3>2 DEF Ctl, ControlInv, ListedMeansLinked
    <3> QED
        BY <2>1, <3>3
  <2> QED
      BY <2>1, <2>2 DEF NoUseAfterFree
<1> QED
    BY <1>1, TypeInvInit, TypeInvStep, ControlInvInit, ControlInvStep, PTL DEF Spec

-----------------------------------------------------------------------------
(* Who sleeps, or holds the mutex and is about to, knows every message that *)
(* was not put back by another consumer: there is none.                     *)
SleepInv ==
    \A c \in Consumers : pc[c] \in {"sleep", "waiting"} => Queued \subseteq requeued

LEMMA QueuedIds == TypeInv => Queued = IdsOf(queue)
BY QueuedIsIdsOf DEF TypeInv, TypeOK, Queued

LEMMA EmptyIds == IdsOf(<<>>) = {}
BY DEF IdsOf

LEMMA SleepInvStep ==
    TypeInv /\ TypeInv' /\ ControlInv /\ SleepInv /\ [Next]_vars => SleepInv'
<1> SUFFICES ASSUME TypeInv, TypeInv', ControlInv, SleepInv, [Next]_vars,
                    NEW s \in Consumers, pc'[s] \in {"sleep", "waiting"}
             PROVE  Queued' \subseteq requeued'
    BY DEF SleepInv
<1>0. Queued = IdsOf(queue) /\ Queued' = IdsOf(queue')
  <2>1. queue' \in Seq(Message)
      BY DEF TypeInv, TypeOK
  <2> QED
      BY <2>1, QueuedIds, QueuedIsIdsOf DEF Queued
<1>1. CASE pc[s] \in {"sleep", "waiting"} /\ queue' = queue /\ requeued' = requeued
    BY <1>0, <1>1 DEF SleepInv
<1>2. CASE queue' = <<>>
    BY <1>0, <1>2, EmptyIds
<1>3. ASSUME NEW p \in Producers, Publish(p)
      PROVE  FALSE
    BY <1>3, NoneAssumption
    DEF Publish, Broadcast, TypeInv, TypeOK, ControlInv, LockHeld
<1>4. ASSUME NEW c \in Consumers, Take(c)
      PROVE  Queued' \subseteq requeued'
  <2>1. pc[s] \in {"sleep", "waiting"} /\ requeued' = requeued
      BY <1>4 DEF Take, TypeInv, TypeOK, history
  <2>2. CASE queue # <<>> /\ active[c]
    <3>1. IdsOf(Tail(queue)) \subseteq IdsOf(queue)
        BY <2>2, DequeueIds DEF TypeInv, TypeOK
    <3>2. queue' = Tail(queue)
        BY <1>4, <2>2 DEF Take
    <3> QED
        BY <1>0, <2>1, <3>1, <3>2 DEF SleepInv
  <2>3. CASE ~(queue # <<>> /\ active[c])
      BY <1>1, <1>4, <2>1, <2>3 DEF Take
  <2> QED
      BY <2>2, <2>3
<1>5. ASSUME NEW c \in Consumers, Requeue(c)
      PROVE  Queued' \subseteq requeued'
  <2>1. pc[s] \in {"sleep", "waiting"} /\ requeued' = requeued \cup {hand[c].id}
      BY <1>5 DEF Requeue, Goto, TypeInv, TypeOK
  <2>2. hand[c] \in Message
      BY <1>5, HandIsMessage DEF Requeue, Goto
  <2>3. IdsOf(queue') = IdsOf(queue) \cup {hand[c].id}
      BY <1>5, <2>2, EnqueueIds DEF Requeue, TypeInv, TypeOK
  <2> QED
      BY <1>0, <2>1, <2>3 DEF SleepInv
<1>6. ASSUME NEW c \in Consumers, WaitTest(c)
      PROVE  Queued' \subseteq requeued'
  <2>1. CASE s = c
    <3>1. queue' = <<>>
        BY <1>6, <2>1 DEF WaitTest, Goto, TypeInv, TypeOK
    <3> QED
        BY <1>2, <3>1
  <2>2. CASE s # c
      BY <1>1, <1>6, <2>2 DEF WaitTest, Goto, TypeInv, TypeOK, history
  <2> QED
      BY <2>1, <2>2
<1>7. ASSUME NEW c \in Consumers,
             LoopTest(c) \/ Lock(c) \/ Wait(c) \/ SpuriousWake(c) \/ Handle(c) \/ Count(c)
      PROVE  Queued' \subseteq requeued'
    BY <1>1, <1>7
    DEF LoopTest, Lock, Wait, SpuriousWake, Handle, Count, Goto, TypeInv, TypeOK, history
<1>8. ASSUME NEW c \in Consumers,
             \/ \E t \in Topics : SubscribeCreate(c, t)
             \/ SubscribeLink(c) \/ Deactivate(c) \/ Notify(c) \/ JoinAndUnlink(c)
      PROVE  Queued' \subseteq requeued'
    BY <1>1, <1>8
    DEF SubscribeCreate, SubscribeLink, Deactivate, Notify, Broadcast, JoinAndUnlink,
        TypeInv, TypeOK, history
<1>9. CASE Clear \/ DestroyEnd
    BY <1>2, <1>9 DEF Clear, DestroyEnd
<1>10. CASE \/ \E p \in Producers, t \in Topics, pri \in Priorities : CreateMessage(p, t, pri)
            \/ Reject
            \/ \E g \in Guarantees : SetDeliveryGuarantee(g)
            \/ \E n \in RetryLimits : SetMaxRetries(n)
            \/ DestroyBegin
            \/ UNCHANGED vars
    BY <1>1, <1>10
    DEF CreateMessage, Reject, SetDeliveryGuarantee, SetMaxRetries, DestroyBegin,
        vars, threads, history
<1> QED
    BY <1>3, <1>4, <1>5, <1>6, <1>7, <1>8, <1>9, <1>10 DEF Next, ConsumerStep, Terminated

LEMMA SleepInvInit == Init => SleepInv
BY DEF Init, SleepInv

(* mqueue_publish never loses a wakeup: what a sleeping consumer was not    *)
(* told of was put back by a consumer of another topic.                     *)
THEOREM PublishWakesSleepers == Spec => []SleepersWereToldOfPublish
<1>1. SleepInv => SleepersWereToldOfPublish
    BY DEF SleepInv, SleepersWereToldOfPublish
<1> QED
    BY <1>1, TypeInvInit, TypeInvStep, ControlInvInit, ControlInvStep,
       SleepInvInit, SleepInvStep, PTL DEF Spec

-----------------------------------------------------------------------------
(* Where messages are before they are published: ids are handed out in      *)
(* order, and a producer alone holds the message it has built.              *)
DraftsFresh ==
    /\ \A i \in Ids : i >= counter => order[i] = 0
    /\ \A p \in Producers :
          draft[p] # None => draft[p].id < counter /\ order[draft[p].id] = 0
    /\ \A p, q \in Producers :
          draft[p] # None /\ draft[q] # None /\ draft[p].id = draft[q].id => p = q

PlacesInv == DraftsFresh /\ ExactlyOnePlace

(* ExactlyOnePlace over IdsOf, the form the steps below establish. *)
LEMMA PlacesByIds ==
    ASSUME TypeInv
    PROVE  ExactlyOnePlace <=>
             /\ Published = IdsOf(queue) \cup Carried \cup Delivered \cup dropped
             /\ DistinctIds(queue)
             /\ \A c, d \in Consumers :
                   pc[c] = "got" /\ pc[d] = "got" /\ hand[c].id = hand[d].id => c = d
             /\ \A i \in Ids : deliveries[i] <= 1
             /\ IdsOf(queue) \cap (Carried \cup Delivered \cup dropped) = {}
             /\ Carried \cap (Delivered \cup dropped) = {}
             /\ Delivered \cap dropped = {}
BY QueuedIds DEF ExactlyOnePlace, DistinctIds

(* A step that moves no message keeps them all in their places. *)
LEMMA PlacesFrame ==
    ASSUME PlacesInv, TypeInv, TypeInv',
           UNCHANGED <<queue, order, deliveries, dropped, counter, draft>>,
           \A c \in Consumers : pc'[c] = "got" <=> pc[c] = "got",
           \A c \in Consumers : pc[c] = "got" => hand'[c] = hand[c]
    PROVE  PlacesInv'
<1>1. Carried' = Carried
    BY DEF Carried
<1>2. Published' = Published /\ Delivered' = Delivered /\ Queued' = Queued
    BY DEF Published, Delivered, Queued
<1>3. ExactlyOnePlace'
    BY <1>1, <1>2 DEF PlacesInv, ExactlyOnePlace
<1>4. DraftsFresh'
    BY DEF PlacesInv, DraftsFresh
<1> QED
    BY <1>3, <1>4 DEF PlacesInv

LEMMA PublishPlaces ==
    ASSUME TypeInv, TypeInv', PlacesInv, NEW p \in Producers, Publish(p)
    PROVE  PlacesInv'
<1> DEFINE k == draft[p].id
<1>1. draft[p] \in Message /\ k \in Ids /\ order[k] = 0 /\ k < counter
    BY DEF Publish, TypeInv, TypeOK, PlacesInv, DraftsFresh, Message
<1>2. total_published + 1 \in Nat \ {0} /\ order' = [order EXCEPT ![k] = total_published + 1]
    BY DEF Publish, TypeInv, TypeOK
<1>3. Published' = Published \cup {k} /\ k \notin Published
    BY <1>1, <1>2 DEF Published, TypeInv, TypeOK
<1>4. Carried' = Carried
    BY ZenonT(60) DEF Publish, Broadcast, Carried, TypeInv, TypeOK
<1>5. Delivered' = Delivered /\ dropped' = dropped
    BY DEF Publish, Delivered
<1>6. /\ Published = IdsOf(queue) \cup Carried \cup Delivered \cup dropped
      /\ DistinctIds(queue)
      /\ IdsOf(queue) \cap (Carried \cup Delivered \cup dropped) = {}
      /\ Carried \cap (Delivered \cup dropped) = {}
      /\ Delivered \cap dropped = {}
    BY PlacesByIds DEF PlacesInv
<1>7. IdsOf(queue') = IdsOf(queue) \cup {k} /\ DistinctIds(queue')
    BY <1>1, <1>3, <1>6, EnqueueIds DEF Publish, TypeInv, TypeOK
<1>8. \A c, d \in Consumers :
         pc'[c] = "got" /\ pc'[d] = "got" /\ hand'[c].id = hand'[d].id => c = d
    BY DEF Publish, Broadcast, TypeInv, TypeOK, PlacesInv, ExactlyOnePlace
<1>9. \A i \in Ids : deliveries'[i] <= 1
    BY DEF Publish, PlacesInv, ExactlyOnePlace
<1>10. Queued' = IdsOf(queue')
    BY QueuedIsIdsOf DEF Queued, TypeInv, TypeOK
<1>11. ExactlyOnePlace'
    BY <1>3, <1>4, <1>5, <1>6, <1>7, <1>8, <1>9, <1>10 DEF ExactlyOnePlace, DistinctIds
<1>12. DraftsFresh'
    BY <1>1, <1>2 DEF Publish, PlacesInv, DraftsFresh, TypeInv, TypeOK, Message, Ids
<1> QED
    BY <1>11, <1>12 DEF PlacesInv

LEMMA TakePlaces ==
    ASSUME TypeInv, TypeInv', PlacesInv, NEW c \in Consumers, Take(c)
    PROVE  PlacesInv'
<1>1. CASE queue # <<>> /\ active[c]
  <2> DEFINE k == Head(queue).id
  <2>1. /\ queue' = Tail(queue)
        /\ pc' = [pc EXCEPT ![c] = "got"]
        /\ hand' = [hand EXCEPT ![c] = Head(queue)]
        /\ pc[c] = "ready"
        /\ UNCHANGED <<order, deliveries, dropped, counter, draft>>
      BY <1>1 DEF Take, history
  <2>2. /\ Published = IdsOf(queue) \cup Carried \cup Delivered \cup dropped
        /\ DistinctIds(queue)
        /\ IdsOf(queue) \cap (Carried \cup Delivered \cup dropped) = {}
        /\ Carried \cap (Delivered \cup dropped) = {}
        /\ Delivered \cap dropped = {}
      BY PlacesByIds DEF PlacesInv
  <2>3. /\ IdsOf(queue) = IdsOf(queue') \cup {k}
        /\ DistinctIds(queue')
        /\ k \notin IdsOf(queue')
      BY <1>1, <2>1, <2>2, DequeueIds DEF TypeInv, TypeOK
  <2>4. \A d \in Consumers :
           /\ pc'[d] = "got" <=> (pc[d] = "got" \/ d = c)
           /\ hand'[d] = IF d = c THEN Head(queue) ELSE hand[d]
      BY <2>1 DEF TypeInv, TypeOK
  <2>5. Carried' = Carried \cup {k}
      BY <2>1, <2>4 DEF Carried
  <2>6. k \notin Carried
      BY <2>2, <2>3
  <2>7. \A d, e \in Consumers :
           pc'[d] = "got" /\ pc'[e] = "got" /\ hand'[d].id = hand'[e].id => d = e
      BY <2>4, <2>6 DEF PlacesInv, ExactlyOnePlace, Carried
  <2>8. Published' = Published /\ Delivered' = Delivered /\ dropped' = dropped
      BY <2>1 DEF Published, Delivered
  <2>9. Queued' = IdsOf(queue')
      BY QueuedIsIdsOf DEF Queued, TypeInv, TypeOK
  <2>10. \A i \in Ids : deliveries'[i] <= 1
      BY <2>1 DEF PlacesInv, ExactlyOnePlace
  <2>11. ExactlyOnePlace'
      BY <2>2, <2>3, <2>5, <2>7, <2>8, <2>9, <2>10 DEF ExactlyOnePlace, DistinctIds
  <2>12. DraftsFresh'
      BY <2>1 DEF PlacesInv, DraftsFresh
  <2> QED
      BY <2>11, <2>12 DEF PlacesInv
<1>2. CASE ~(queue # <<>> /\ active[c])
    BY <1>2, PlacesFrame DEF Take, history, TypeInv, TypeOK
<1> QED
    BY <1>1, <1>2

LEMMA HandlePlaces ==
    ASSUME TypeInv, TypeInv', PlacesInv, NEW c \in Consumers, Handle(c)
    PROVE  PlacesInv'
<1> DEFINE k == hand[c].id
<1>1. /\ pc[c] = "got"
      /\ pc' = [pc EXCEPT ![c] = "handled"]
      /\ deliveries' = [deliveries EXCEPT ![k] = @ + 1]
      /\ UNCHANGED <<queue, hand, order, dropped, counter, draft>>
    BY DEF Handle, Goto
<1>2. k \in Ids
    BY <1>1, HandIsMessage DEF Message
<1>3. /\ Published = Queued \cup Carried \cup Delivered \cup dropped
      /\ Queued \cap (Carried \cup Delivered \cup dropped) = {}
      /\ Carried \cap (Delivered \cup dropped) = {}
      /\ Delivered \cap dropped = {}
      /\ \A d, e \in Consumers :
            pc[d] = "got" /\ pc[e] = "got" /\ hand[d].id = hand[e].id => d = e
    BY DEF PlacesInv, ExactlyOnePlace
<1>4. k \in Carried /\ k \notin Delivered
    BY <1>1, <1>3 DEF Carried
<1>5. deliveries[k] = 0
    BY <1>2, <1>4 DEF Delivered, TypeInv, TypeOK
<1>6. Delivered' = Delivered \cup {k} /\ \A i \in Ids : deliveries'[i] <= 1
    BY <1>1, <1>2, <1>5 DEF Delivered, TypeInv, TypeOK, PlacesInv, ExactlyOnePlace
<1>7. \A d \in Consumers : pc'[d] = "got" <=> (pc[d] = "got" /\ d # c)
    BY <1>1 DEF TypeInv, TypeOK
<1>8. Carried' = Carried \ {k}
    BY <1>1, <1>3, <1>7 DEF Carried
<1>9. Published' = Published /\ Queued' = Queued /\ dropped' = dropped
    BY <1>1 DEF Published, Queued
<1>10. ExactlyOnePlace'
  <2>1. /\ Published' = Queued' \cup Carried' \cup Delivered' \cup dropped'
        /\ Queued' \cap (Carried' \cup Delivered' \cup dropped') = {}
        /\ Carried' \cap (Delivered' \cup dropped') = {}
        /\ Delivered' \cap dropped' = {}
      BY <1>3, <1>4, <1>6, <1>8, <1>9
  <2>2. \A i, j \in 1 .. Len(queue') : queue'[i].id = queue'[j].id => i = j
      BY <1>1 DEF PlacesInv, ExactlyOnePlace
  <2>3. \A d, e \in Consumers :
           pc'[d] = "got" /\ pc'[e] = "got" /\ hand'[d].id = hand'[e].id => d = e
      BY <1>1, <1>3, <1>7
  <2> QED
      BY <1>6, <2>1, <2>2, <2>3 DEF ExactlyOnePlace
<1>11. DraftsFresh'
    BY <1>1 DEF PlacesInv, DraftsFresh
<1> QED
    BY <1>10, <1>11 DEF PlacesInv

LEMMA RequeuePlaces ==
    ASSUME TypeInv, TypeInv', PlacesInv, NEW c \in Consumers, Requeue(c)
    PROVE  PlacesInv'
<1> DEFINE k == hand[c].id
<1>1. /\ pc[c] = "got"
      /\ pc' = [pc EXCEPT ![c] = "loop"]
      /\ hand' = [hand EXCEPT ![c] = None]
      /\ queue' = Enqueue(queue, hand[c])
      /\ UNCHANGED <<order, deliveries, dropped, counter, draft>>
    BY DEF Requeue, Goto
<1>2. hand[c] \in Message /\ queue \in Seq(Message) /\ queue' \in Seq(Message)
    BY <1>1, HandIsMessage DEF TypeInv, TypeOK
<1>3. /\ Published = IdsOf(queue) \cup Carried \cup Delivered \cup dropped
      /\ DistinctIds(queue)
      /\ IdsOf(queue) \cap (Carried \cup Delivered \cup dropped) = {}
      /\ Carried \cap (Delivered \cup dropped) = {}
      /\ Delivered \cap dropped = {}
      /\ \A d, e \in Consumers :
            pc[d] = "got" /\ pc[e] = "got" /\ hand[d].id = hand[e].id => d = e
    BY PlacesByIds DEF PlacesInv
<1>4. k \in Carried
    BY <1>1 DEF Carried
<1>5. IdsOf(queue') = IdsOf(queue) \cup {k} /\ DistinctIds(queue')
    BY <1>1, <1>2, <1>3, <1>4, EnqueueIds
<1>6. \A d \in Consumers : /\ pc'[d] = "got" <=> (pc[d] = "got" /\ d # c)
                           /\ d # c => hand'[d] = hand[d]
    BY <1>1 DEF TypeInv, TypeOK
<1>7. Carried' = Carried \ {k}
    BY <1>1, <1>3, <1>6 DEF Carried
<1>8. Published' = Published /\ Delivered' = Delivered /\ dropped' = dropped
    BY <1>1 DEF Published, Delivered
<1>9. Queued' = IdsOf(queue')
    BY <1>2, QueuedIsIdsOf DEF Queued
<1>10. ExactlyOnePlace'
  <2>1. /\ Published' = Queued' \cup Carried' \cup Delivered' \cup dropped'
        /\ Queued' \cap (Carried' \cup Delivered' \cup dropped') = {}
        /\ Carried' \cap (Delivered' \cup dropped') = {}
        /\ Delivered' \cap dropped' = {}
      BY <1>3, <1>4, <1>5, <1>7, <1>8, <1>9
  <2>2. \A i, j \in 1 .. Len(queue') : queue'[i].id = queue'[j].id => i = j
      BY <1>5 DEF DistinctIds
  <2>3. \A d, e \in Consumers :
           pc'[d] = "got" /\ pc'[e] = "got" /\ hand'[d].id = hand'[e].id => d = e
      BY <1>3, <1>6
  <2>4. \A i \in Ids : deliveries'[i] <= 1
      BY <1>1 DEF PlacesInv, ExactlyOnePlace
  <2> QED
      BY <2>1, <2>2, <2>3, <2>4 DEF ExactlyOnePlace
<1>11. DraftsFresh'
    BY <1>1 DEF PlacesInv, DraftsFresh
<1> QED
    BY <1>10, <1>11 DEF PlacesInv

LEMMA ClearPlaces ==
    ASSUME TypeInv, TypeInv', PlacesInv, Clear \/ DestroyEnd
    PROVE  PlacesInv'
<1>1. /\ queue' = <<>>
      /\ dropped' = dropped \cup Queued
      /\ UNCHANGED <<pc, hand, order, deliveries, counter, draft>>
    BY DEF Clear, DestroyEnd, Queued, threads
<1>2. Queued' = {}
    BY <1>1, QueuedIsIdsOf, EmptyIds DEF Queued, TypeInv, TypeOK
<1>3. Carried' = Carried /\ Published' = Published /\ Delivered' = Delivered
    BY <1>1 DEF Carried, Published, Delivered
<1>4. Len(queue') = 0
    BY <1>1
<1>5. ExactlyOnePlace'
    BY <1>1, <1>2, <1>3, <1>4 DEF PlacesInv, ExactlyOnePlace
<1>6. DraftsFresh'
    BY <1>1 DEF PlacesInv, DraftsFresh
<1> QED
    BY <1>5, <1>6 DEF PlacesInv

LEMMA CreatePlaces ==
    ASSUME TypeInv, TypeInv', PlacesInv, NEW p \in Producers,
           NEW t \in Topics, NEW pri \in Priorities, CreateMessage(p, t, pri)
    PROVE  PlacesInv'
<1>1. /\ counter \in Ids /\ counter' = counter + 1
      /\ UNCHANGED <<queue, pc, hand, order, deliveries, dropped>>
    BY BoundAssumption DEF CreateMessage, threads, history, TypeInv, TypeOK, Ids
<1>2. Carried' = Carried /\ Published' = Published /\ Delivered' = Delivered /\ Queued' = Queued
    BY <1>1 DEF Carried, Published, Delivered, Queued
<1>3. ExactlyOnePlace'
    BY <1>1, <1>2 DEF PlacesInv, ExactlyOnePlace
<1>4. \A q \in Producers :
         /\ q # p => draft'[q] = draft[q]
         /\ q = p => draft'[q].id = counter
    BY DEF CreateMessage, TypeInv, TypeOK
<1>5. \A q \in Producers : draft[q] # None => draft[q].id \in Ids
    BY DEF TypeInv, TypeOK, Message
<1>6. DraftsFresh'
  <2>1. \A i \in Ids : i >= counter' => order'[i] = 0
      BY <1>1, BoundAssumption DEF PlacesInv, DraftsFresh, Ids
  <2>2. \A q \in Producers :
           draft'[q] # None => draft'[q].id < counter' /\ order'[draft'[q].id] = 0
      BY <1>1, <1>4, <1>5, BoundAssumption DEF PlacesInv, DraftsFresh, Ids
  <2>3. \A q, r \in Producers :
           draft'[q] # None /\ draft'[r] # None /\ draft'[q].id = draft'[r].id => q = r
    <3>1. \A q \in Producers : q # p /\ draft'[q] # None => draft'[q].id # counter
        BY <1>1, <1>4, <1>5, BoundAssumption DEF PlacesInv, DraftsFresh, Ids
    <3> QED
        BY <1>4, <3>1 DEF PlacesInv, DraftsFresh
  <2> QED
      BY <2>1, <2>2, <2>3 DEF DraftsFresh
<1> QED
    BY <1>3, <1>6 DEF PlacesInv

LEMMA PlacesInvStep ==
    TypeInv /\ TypeInv' /\ PlacesInv /\ [Next]_vars => PlacesInv'
<1> SUFFICES ASSUME TypeInv, TypeInv', PlacesInv, [Next]_vars PROVE PlacesInv'
    OBVIOUS
<1>1. ASSUME NEW c \in Consumers,
             \/ LoopTest(c) \/ Lock(c) \/ WaitTest(c) \/ Wait(c) \/ SpuriousWake(c) \/ Count(c)
             \/ \E t \in Topics : SubscribeCreate(c, t)
             \/ SubscribeLink(c) \/ Deactivate(c) \/ Notify(c) \/ JoinAndUnlink(c)
      PROVE  PlacesInv'
  <2>1. UNCHANGED <<queue, order, deliveries, dropped, counter, draft>>
      BY <1>1
      DEF LoopTest, Lock, WaitTest, Wait, SpuriousWake, Count, SubscribeCreate,
          SubscribeLink, Deactivate, Notify, JoinAndUnlink, history
  <2>2. /\ \A d \in Consumers : pc'[d] = "got" <=> pc[d] = "got"
        /\ \A d \in Consumers : pc[d] = "got" => hand'[d] = hand[d]
      BY <1>1
      DEF LoopTest, Lock, WaitTest, Wait, SpuriousWake, Count, SubscribeCreate,
          SubscribeLink, Deactivate, Notify, Broadcast, JoinAndUnlink, Goto,
          TypeInv, TypeOK, HandlesInUse
  <2> QED
      BY <2>1, <2>2, PlacesFrame
<1>2. CASE \/ Reject
           \/ \E g \in Guarantees : SetDeliveryGuarantee(g)
           \/ \E n \in RetryLimits : SetMaxRetries(n)
           \/ DestroyBegin
           \/ UNCHANGED vars
  <2>1. UNCHANGED <<queue, order, deliveries, dropped, counter, draft, pc, hand>>
      BY <1>2
      DEF Reject, SetDeliveryGuarantee, SetMaxRetries, DestroyBegin, vars, threads, history
  <2> QED
      BY <2>1, PlacesFrame
<1> QED
    BY <1>1, <1>2, CreatePlaces, PublishPlaces, TakePlaces, HandlePlaces, RequeuePlaces,
       ClearPlaces DEF Next, ConsumerStep, Terminated

LEMMA PlacesInvInit == Init => PlacesInv
<1> SUFFICES ASSUME Init PROVE PlacesInv
    OBVIOUS
<1>1. queue = <<>> /\ Len(queue) = 0
    BY DEF Init
<1>2. Queued = {}
    BY <1>1, QueuedIds, TypeInvInit, EmptyIds
<1>3. Carried = {} /\ Published = {} /\ Delivered = {} /\ dropped = {}
    BY DEF Init, Carried, Published, Delivered
<1>4. ExactlyOnePlace
    BY <1>1, <1>2, <1>3 DEF Init, ExactlyOnePlace
<1> QED
    BY <1>4 DEF Init, PlacesInv, DraftsFresh

(* No published message is lost and none is handed to two handlers: it is   *)
(* in the list once, in the hands of one consumer thread, delivered once,   *)
(* or was destroyed by mqueue_clear.                                        *)
THEOREM NoLossNoDuplicate == Spec => []ExactlyOnePlace
<1>1. PlacesInv => ExactlyOnePlace
    BY DEF PlacesInv
<1> QED
    BY <1>1, TypeInvInit, TypeInvStep, PlacesInvInit, PlacesInvStep, PTL DEF Spec

-----------------------------------------------------------------------------
(* The refinement.  Once every message is known to be in exactly one place,  *)
(* the pending ones are the published that are neither delivered nor         *)
(* dropped, so the three histories alone tell which abstract step is taken.  *)
LEMMA PendingIsTheRest ==
    ASSUME PlacesInv, PlacesInv'
    PROVE  /\ Queued \cup Carried = Published \ (Delivered \cup dropped)
           /\ (Queued \cup Carried)' = Published' \ (Delivered' \cup dropped')
BY DEF PlacesInv, ExactlyOnePlace

LEMMA AbstractInit == Init => Abstract!Init
<1> SUFFICES ASSUME Init PROVE Abstract!Init
    OBVIOUS
<1>1. Published = {} /\ deliveries = [i \in Ids |-> 0] /\ dropped = {}
    BY DEF Init, Published
<1>2. Queued \cup Carried = {}
    BY <1>1, PlacesInvInit DEF PlacesInv, ExactlyOnePlace
<1> QED
    BY <1>1, <1>2 DEF Abstract!Init

LEMMA AbstractPublish ==
    ASSUME TypeInv, PlacesInv, PlacesInv', NEW p \in Producers, Publish(p)
    PROVE  Abstract!Next
<1> DEFINE k == draft[p].id
<1>1. k \in Ids /\ order[k] = 0
    BY DEF Publish, TypeInv, TypeOK, PlacesInv, DraftsFresh, Message
<1>2. order' = [order EXCEPT ![k] = total_published + 1] /\ total_published + 1 > 0
    BY DEF Publish, TypeInv, TypeOK
<1>3. Published' = Published \cup {k} /\ k \notin Published
    BY <1>1, <1>2 DEF Published, TypeInv, TypeOK
<1>4. UNCHANGED <<deliveries, dropped>> /\ Delivered' = Delivered
    BY DEF Publish, Delivered
<1>5. k \notin Delivered \cup dropped
    BY <1>3 DEF PlacesInv, ExactlyOnePlace
<1>6. (Queued \cup Carried)' = (Queued \cup Carried) \cup {k}
    BY <1>3, <1>4, <1>5, PendingIsTheRest
<1>7. Abstract!Publish(k)
    BY <1>3, <1>4, <1>6 DEF Abstract!Publish
<1> QED
    BY <1>1, <1>7 DEF Abstract!Next

LEMMA AbstractDeliver ==
    ASSUME TypeInv, PlacesInv, PlacesInv', NEW c \in Consumers, Handle(c)
    PROVE  Abstract!Next
<1> DEFINE k == hand[c].id
<1>1. pc[c] = "got" /\ deliveries' = [deliveries EXCEPT ![k] = @ + 1]
    BY DEF Handle, Goto
<1>2. k \in Ids /\ k \in Carried
    BY <1>1, HandIsMessage DEF Message, Carried
<1>3. k \notin Delivered \cup dropped
    BY <1>2 DEF PlacesInv, ExactlyOnePlace
<1>4. deliveries[k] = 0 /\ deliveries' = [deliveries EXCEPT ![k] = 1]
  <2>1. deliveries[k] = 0
      BY <1>2, <1>3 DEF Delivered, TypeInv, TypeOK
  <2>2. deliveries[k] + 1 = 1
      BY <2>1
  <2> QED
      BY <1>1, <2>1, <2>2
<1>5. Delivered' = Delivered \cup {k}
    BY <1>2, <1>4 DEF Delivered, TypeInv, TypeOK
<1>6. Published' = Published /\ dropped' = dropped
    BY DEF Handle, Published
<1>7. (Queued \cup Carried)' = (Queued \cup Carried) \ {k}
    BY <1>5, <1>6, PendingIsTheRest
<1>8. Abstract!Deliver(k)
    BY <1>2, <1>4, <1>6, <1>7 DEF Abstract!Deliver
<1> QED
    BY <1>2, <1>8 DEF Abstract!Next

LEMMA AbstractDrop ==
    ASSUME PlacesInv, PlacesInv', Clear \/ DestroyEnd
    PROVE  Abstract!Next
<1>1. dropped' = dropped \cup Queued /\ UNCHANGED <<order, deliveries>>
    BY DEF Clear, DestroyEnd, Queued
<1>2. Published' = Published /\ Delivered' = Delivered
    BY <1>1 DEF Published, Delivered
<1>3. (Queued \cup Carried)' = (Queued \cup Carried) \ Queued
    BY <1>1, <1>2, PendingIsTheRest
<1>4. Abstract!Drop(Queued)
    BY <1>1, <1>2, <1>3 DEF Abstract!Drop
<1> QED
    BY <1>4 DEF Abstract!Next

LEMMA AbstractStutter ==
    ASSUME PlacesInv, PlacesInv', UNCHANGED <<order, deliveries, dropped>>
    PROVE  UNCHANGED Abstract!vars
<1>1. Published' = Published /\ Delivered' = Delivered
    BY DEF Published, Delivered
<1>2. (Queued \cup Carried)' = Queued \cup Carried
    BY <1>1, PendingIsTheRest
<1> QED
    BY <1>1, <1>2 DEF Abstract!vars

LEMMA AbstractStep ==
    TypeInv /\ PlacesInv /\ PlacesInv' /\ [Next]_vars => [Abstract!Next]_(Abstract!vars)
<1> SUFFICES ASSUME TypeInv, PlacesInv, PlacesInv', [Next]_vars
             PROVE  [Abstract!Next]_(Abstract!vars)
    OBVIOUS
<1>1. CASE \E p \in Producers : Publish(p)
    BY <1>1, AbstractPublish
<1>2. CASE \E c \in Consumers : Handle(c)
    BY <1>2, AbstractDeliver
<1>3. CASE Clear \/ DestroyEnd
    BY <1>3, AbstractDrop
<1>4. ASSUME NEW c \in Consumers,
             \/ LoopTest(c) \/ Lock(c) \/ WaitTest(c) \/ Wait(c) \/ SpuriousWake(c)
             \/ Take(c) \/ Count(c) \/ Requeue(c)
             \/ \E t \in Topics : SubscribeCreate(c, t)
             \/ SubscribeLink(c) \/ Deactivate(c) \/ Notify(c) \/ JoinAndUnlink(c)
      PROVE  UNCHANGED Abstract!vars
  <2>1. UNCHANGED <<order, deliveries, dropped>>
      BY <1>4
      DEF LoopTest, Lock, WaitTest, Wait, SpuriousWake, Take, Count, Requeue, SubscribeCreate,
          SubscribeLink, Deactivate, Notify, JoinAndUnlink, history
  <2> QED
      BY <2>1, AbstractStutter
<1>5. CASE \/ \E p \in Producers, t \in Topics, pri \in Priorities : CreateMessage(p, t, pri)
           \/ Reject
           \/ \E g \in Guarantees : SetDeliveryGuarantee(g)
           \/ \E n \in RetryLimits : SetMaxRetries(n)
           \/ DestroyBegin
           \/ UNCHANGED vars
  <2>1. UNCHANGED <<order, deliveries, dropped>>
      BY <1>5
      DEF CreateMessage, Reject, SetDeliveryGuarantee, SetMaxRetries, DestroyBegin, vars, history
  <2> QED
      BY <2>1, AbstractStutter
<1> QED
    BY <1>1, <1>2, <1>3, <1>4, <1>5 DEF Next, ConsumerStep, Terminated

(* The queue implements Delivery for any number of producers, consumers,    *)
(* topics and messages: each step of enqueue_message, consumer_thread,      *)
(* mqueue_clear and mqueue_destroy is one abstract step or none.            *)
THEOREM QueueImplementsDelivery == Spec => ImplementsDelivery
BY TypeInvInit, TypeInvStep, PlacesInvInit, PlacesInvStep, AbstractInit, AbstractStep, PTL
   DEF Spec, ImplementsDelivery, Abstract!Spec

-----------------------------------------------------------------------------
(* The counters of mqueue_get_stats.                                        *)

(* The threads that carry a message from the list to the end of its handler. *)
Busy == {c \in Consumers : pc[c] \in {"got", "handled"}}

StatsInv == IsFiniteSet(Busy) /\ StatsAddUp

LEMMA StatsForm ==
    StatsAddUp <=> total_published = total_consumed + Len(queue) + Cardinality(dropped) + Cardinality(Busy)
BY DEF StatsAddUp, Stats, Busy

(* Ids that differ are as many as the messages. *)
LEMMA IdsOfCardinality ==
    ASSUME NEW q \in Seq(Message), DistinctIds(q)
    PROVE  IsFiniteSet(IdsOf(q)) /\ Cardinality(IdsOf(q)) = Len(q)
<1> DEFINE f == [i \in 1 .. Len(q) |-> q[i].id]
<1>1. Len(q) \in Nat
    BY LenProperties
<1>2. f \in Bijection(1 .. Len(q), IdsOf(q))
    BY DEF Bijection, Injection, Surjection, IsInjective, DistinctIds, IdsOf
<1>3. IsFiniteSet(1 .. Len(q)) /\ Cardinality(1 .. Len(q)) = Len(q)
    BY <1>1, FS_Interval
<1> QED
    BY <1>2, <1>3, FS_Bijection DEF ExistsBijection

(* The numbers that are added. *)
LEMMA StatsTypes ==
    ASSUME TypeInv, StatsInv
    PROVE  /\ total_published \in Nat /\ total_consumed \in Nat /\ Len(queue) \in Nat
           /\ IsFiniteSet(dropped) /\ Cardinality(dropped) \in Nat
           /\ IsFiniteSet(Busy) /\ Cardinality(Busy) \in Nat
<1>1. total_published \in Nat /\ total_consumed \in Nat /\ Len(queue) \in Nat /\ dropped \in SUBSET Ids
    BY LenProperties DEF TypeInv, TypeOK
<1>2. IsFiniteSet(Ids)
  <2>1. 0 \in Int /\ MaxMessages - 1 \in Int
      BY BoundAssumption
  <2> QED
      BY <2>1, FS_Interval DEF Ids
<1>3. IsFiniteSet(dropped)
    BY <1>1, <1>2, FS_Subset
<1> QED
    BY <1>1, <1>3, FS_CardinalityType DEF StatsInv

(* A thread that gets a message or has done with it. *)
LEMMA BusyStep ==
    ASSUME TypeInv, StatsInv, NEW c \in Consumers, NEW to, pc' = [pc EXCEPT ![c] = to]
    PROVE  /\ pc[c] \notin {"got", "handled"} /\ to \in {"got", "handled"} =>
                 IsFiniteSet(Busy') /\ Cardinality(Busy') = Cardinality(Busy) + 1
           /\ pc[c] \in {"got", "handled"} /\ to \notin {"got", "handled"} =>
                 IsFiniteSet(Busy') /\ Cardinality(Busy') = Cardinality(Busy) - 1
           /\ (pc[c] \in {"got", "handled"} <=> to \in {"got", "handled"}) => Busy' = Busy
<1>1. pc'[c] = to /\ \A d \in Consumers \ {c} : pc'[d] = pc[d]
    BY DEF TypeInv, TypeOK
<1>2. IsFiniteSet(Busy)
    BY DEF StatsInv
<1>3. ASSUME pc[c] \notin {"got", "handled"}, to \in {"got", "handled"}
      PROVE  Busy' = Busy \cup {c} /\ c \notin Busy
    BY <1>1, <1>3 DEF Busy
<1>4. ASSUME pc[c] \in {"got", "handled"}, to \notin {"got", "handled"}
      PROVE  Busy' = Busy \ {c} /\ c \in Busy
    BY <1>1, <1>4 DEF Busy
<1>5. ASSUME pc[c] \in {"got", "handled"} <=> to \in {"got", "handled"} PROVE Busy' = Busy
    BY <1>1, <1>5 DEF Busy
<1>6. ASSUME Busy' = Busy \cup {c}, c \notin Busy
      PROVE  IsFiniteSet(Busy') /\ Cardinality(Busy') = Cardinality(Busy) + 1
    BY <1>2, <1>6, FS_AddElement
<1>7. ASSUME Busy' = Busy \ {c}, c \in Busy
      PROVE  IsFiniteSet(Busy') /\ Cardinality(Busy') = Cardinality(Busy) - 1
    BY <1>2, <1>7, FS_RemoveElement
<1> QED
    BY <1>3, <1>4, <1>5, <1>6, <1>7

LEMMA StatsInvStep ==
    TypeInv /\ TypeInv' /\ PlacesInv /\ StatsInv /\ [Next]_vars => StatsInv'
<1> SUFFICES ASSUME TypeInv, TypeInv', PlacesInv, StatsInv, [Next]_vars PROVE StatsInv'
    OBVIOUS
<1> DEFINE L == Len(queue)
           D == Cardinality(dropped)
           B == Cardinality(Busy)
<1>0. /\ total_published \in Nat /\ total_consumed \in Nat /\ L \in Nat /\ D \in Nat /\ B \in Nat
      /\ IsFiniteSet(dropped) /\ IsFiniteSet(Busy) /\ queue \in Seq(Message)
      /\ total_published = total_consumed + L + D + B
    BY StatsTypes, StatsForm DEF StatsInv, TypeInv, TypeOK
<1>a. ASSUME IsFiniteSet(Busy'),
             total_published' = total_consumed' + Len(queue') + Cardinality(dropped') + Cardinality(Busy')
      PROVE  StatsInv'
    BY <1>a DEF StatsInv, StatsAddUp, Stats, Busy
<1> HIDE DEF L, D, B
<1>1. ASSUME NEW p \in Producers, Publish(p) PROVE StatsInv'
  <2>1. draft[p] \in Message
      BY <1>1, NoneAssumption DEF Publish, TypeInv, TypeOK
  <2>2. Len(queue') = L + 1
      BY <1>0, <1>1, <2>1, EnqueueShape DEF Publish, L
  <2>3. Busy' = Busy
      BY <1>1 DEF Publish, Broadcast, Busy
  <2>4. total_published' = total_published + 1 /\ total_consumed' = total_consumed /\ dropped' = dropped
      BY <1>1 DEF Publish
  <2>5. total_published' = total_consumed' + Len(queue') + D + B
      BY <1>0, <2>2, <2>4
  <2> QED
      BY <1>0, <1>a, <2>3, <2>4, <2>5 DEF D, B
<1>2. ASSUME NEW c \in Consumers, Take(c) PROVE StatsInv'
  <2>1. /\ total_published' = total_published /\ total_consumed' = total_consumed /\ dropped' = dropped
        /\ pc[c] = "ready"
      BY <1>2 DEF Take, stats, history
  <2>2. CASE active[c] /\ queue # <<>>
    <3>1. queue' = Tail(queue) /\ pc' = [pc EXCEPT ![c] = "got"]
        BY <1>2, <2>2 DEF Take
    <3>2. Len(queue') = L - 1
        BY <1>0, <2>2, <3>1, HeadTailProperties DEF L
    <3>3. IsFiniteSet(Busy') /\ Cardinality(Busy') = B + 1
        BY <2>1, <3>1, BusyStep DEF B
    <3>4. total_published' = total_consumed' + Len(queue') + D + Cardinality(Busy')
        BY <1>0, <2>1, <3>2, <3>3
    <3> QED
        BY <1>a, <2>1, <3>3, <3>4 DEF D
  <2>3. CASE ~ (active[c] /\ queue # <<>>)
    <3>1. queue' = queue /\ \E to \in {"exited", "loop"} : pc' = [pc EXCEPT ![c] = to]
        BY <1>2, <2>3 DEF Take
    <3>2. Busy' = Busy
        BY <2>1, <3>1, BusyStep
    <3> QED
        BY <1>0, <1>a, <2>1, <3>1, <3>2 DEF L, D, B
  <2> QED
      BY <2>2, <2>3
<1>3. ASSUME NEW c \in Consumers, Handle(c) PROVE StatsInv'
  <2>1. /\ UNCHANGED <<total_published, total_consumed, dropped, queue>>
        /\ pc[c] = "got" /\ pc' = [pc EXCEPT ![c] = "handled"]
      BY <1>3 DEF Handle, Goto, stats
  <2>2. Busy' = Busy
      BY <2>1, BusyStep
  <2> QED
      BY <1>0, <1>a, <2>1, <2>2 DEF L, D, B
<1>4. ASSUME NEW c \in Consumers, Count(c) PROVE StatsInv'
  <2>1. /\ UNCHANGED <<total_published, dropped, queue>> /\ total_consumed' = total_consumed + 1
        /\ pc[c] = "handled" /\ pc' = [pc EXCEPT ![c] = "loop"]
      BY <1>4 DEF Count, Goto, history
  <2>2. IsFiniteSet(Busy') /\ Cardinality(Busy') = B - 1
    <3>1. pc[c] \in {"got", "handled"} /\ "loop" \notin {"got", "handled"}
        BY <2>1
    <3> QED
        BY <2>1, <3>1, BusyStep DEF B
  <2>3. total_published' = total_consumed' + L + D + Cardinality(Busy')
      BY <1>0, <2>1, <2>2
  <2> QED
      BY <1>a, <2>1, <2>2, <2>3 DEF L, D
<1>5. ASSUME NEW c \in Consumers, Requeue(c) PROVE StatsInv'
  <2>1. /\ UNCHANGED <<total_published, total_consumed, dropped>> /\ queue' = Enqueue(queue, hand[c])
        /\ pc[c] = "got" /\ pc' = [pc EXCEPT ![c] = "loop"]
      BY <1>5 DEF Requeue, Goto, stats
  <2>2. hand[c] \in Message
      BY <2>1, HandIsMessage
  <2>3. Len(queue') = L + 1
      BY <1>0, <2>1, <2>2, EnqueueShape DEF L
  <2>4. IsFiniteSet(Busy') /\ Cardinality(Busy') = B - 1
    <3>1. pc[c] \in {"got", "handled"} /\ "loop" \notin {"got", "handled"}
        BY <2>1
    <3> QED
        BY <2>1, <3>1, BusyStep DEF B
  <2>5. total_published' = total_consumed' + Len(queue') + D + Cardinality(Busy')
      BY <1>0, <2>1, <2>3, <2>4
  <2> QED
      BY <1>a, <2>1, <2>4, <2>5 DEF D
<1>6. CASE Clear \/ DestroyEnd
  <2>1. /\ UNCHANGED <<total_published, total_consumed, pc>> /\ queue' = <<>>
        /\ dropped' = dropped \cup Queued
      BY <1>6 DEF Clear, DestroyEnd, stats, threads, Queued
  <2>2. Queued = IdsOf(queue) /\ DistinctIds(queue) /\ dropped \cap Queued = {}
      BY QueuedIds DEF PlacesInv, ExactlyOnePlace, DistinctIds
  <2>3. IsFiniteSet(Queued) /\ Cardinality(Queued) = L
      BY <1>0, <2>2, IdsOfCardinality DEF L
  <2>4. Cardinality(dropped') = D + L
    <3>1. Cardinality(dropped \cup Queued) = D + L - Cardinality({})
        BY <1>0, <2>2, <2>3, FS_Union DEF D
    <3> QED
        BY <1>0, <2>1, <3>1, FS_EmptySet
  <2>5. Busy' = Busy /\ Len(queue') = 0
      BY <2>1 DEF Busy
  <2>6. total_published' = total_consumed' + Len(queue') + Cardinality(dropped') + B
      BY <1>0, <2>1, <2>4, <2>5
  <2> QED
      BY <1>0, <1>a, <2>5, <2>6 DEF B
<1>7. ASSUME UNCHANGED <<total_published, total_consumed, queue, dropped>>, Busy' = Busy
      PROVE  StatsInv'
    BY <1>0, <1>a, <1>7 DEF L, D, B
<1>8. ASSUME NEW c \in Consumers,
             \/ LoopTest(c) \/ Lock(c) \/ WaitTest(c) \/ Wait(c) \/ SpuriousWake(c)
             \/ \E t \in Topics : SubscribeCreate(c, t)
             \/ SubscribeLink(c) \/ Deactivate(c) \/ Notify(c) \/ JoinAndUnlink(c)
      PROVE  StatsInv'
  <2>1. UNCHANGED <<total_published, total_consumed, queue, dropped>>
      BY <1>8
      DEF LoopTest, Lock, WaitTest, Wait, SpuriousWake, SubscribeCreate, SubscribeLink, Deactivate,
          Notify, JoinAndUnlink, stats, history
  <2>2. \A d \in Consumers : pc'[d] \in {"got", "handled"} <=> pc[d] \in {"got", "handled"}
      BY <1>8
      DEF LoopTest, Lock, WaitTest, Wait, SpuriousWake, SubscribeCreate, SubscribeLink, Deactivate,
          Notify, JoinAndUnlink, Goto, Broadcast, TypeInv, TypeOK, HandlesInUse
  <2>3. Busy' = Busy
      BY <2>2 DEF Busy
  <2> QED
      BY <1>7, <2>1, <2>3
<1>9. CASE \/ \E p \in Producers, t \in Topics, pri \in Priorities : CreateMessage(p, t, pri)
           \/ Reject
           \/ \E g \in Guarantees : SetDeliveryGuarantee(g)
           \/ \E n \in RetryLimits : SetMaxRetries(n)
           \/ DestroyBegin
           \/ UNCHANGED vars
  <2>1. UNCHANGED <<total_published, total_consumed, queue, dropped, pc>>
      BY <1>9
      DEF CreateMessage, Reject, SetDeliveryGuarantee, SetMaxRetries, DestroyBegin, vars, stats,
          threads, history
  <2> QED
      BY <1>7, <2>1 DEF Busy
<1> QED
    BY <1>1, <1>2, <1>3, <1>4, <1>5, <1>6, <1>8, <1>9 DEF Next, ConsumerStep, Terminated

LEMMA StatsInvInit == Init => StatsInv
<1> SUFFICES ASSUME Init PROVE StatsInv
    OBVIOUS
<1>1. Busy = {} /\ dropped = {} /\ Len(queue) = 0 /\ total_published = 0 /\ total_consumed = 0
    BY DEF Init, Busy
<1> QED
    BY <1>1, StatsForm, FS_EmptySet DEF StatsInv

(* What mqueue_get_stats reports adds up, for any number of threads and     *)
(* messages: published = consumed + queued + carried + cleared.             *)
THEOREM StatisticsAddUp == Spec => []StatsAddUp
<1>1. StatsInv => StatsAddUp
    BY DEF StatsInv
<1> QED
    BY <1>1, TypeInvInit, TypeInvStep, PlacesInvInit, PlacesInvStep, StatsInvInit, StatsInvStep,
       PTL DEF Spec

-----------------------------------------------------------------------------
(* The order of the list.                                                   *)

(* A message that should precede one before it in the list has been put     *)
(* back, and has no higher priority.                                        *)
Overtaken(m, n) == m.id \in requeued /\ (ordering = "PRIORITY" => m.priority = n.priority)

ListInOrder ==
    \A i, j \in 1 .. Len(queue) :
        i < j /\ Precedes(queue[j], queue[i]) => Overtaken(queue[j], queue[i])

(* Messages are numbered as they are published. *)
OrderInv == (\A i \in Ids : order[i] <= total_published) /\ ListInOrder

(* Where enqueue_message puts a message: under ORDERING_PRIORITY behind     *)
(* messages of at least its priority and before a lower one, otherwise at   *)
(* the end.                                                                 *)
LEMMA EnqueuePlace ==
    ASSUME NEW q \in Seq(Message), NEW m \in Message
    PROVE  \E p \in 1 .. Len(q) + 1 :
              /\ \A i \in 1 .. Len(q) + 1 :
                    Enqueue(q, m)[i] = IF i < p THEN q[i] ELSE IF i = p THEN m ELSE q[i - 1]
              /\ ordering # "PRIORITY" => p = Len(q) + 1
              /\ ordering = "PRIORITY" =>
                    /\ \A i \in 1 .. p - 1 : q[i].priority >= m.priority
                    /\ p <= Len(q) => ~ (q[p].priority >= m.priority)
<1> DEFINE n == Len(q)
           P == Passed(q, m)
           rest == {i \in 1 .. n + 1 : i \notin P}
<1>1. n \in Nat
    BY LenProperties
<1>2. P \subseteq 1 .. n
    BY DEF Passed
<1>3. n + 1 \in rest /\ rest \in SUBSET Nat
    BY <1>1, <1>2
<1>4. PICK p \in rest : \A k \in rest : p <= k
    BY <1>3, LeastNumber
<1>5. p \in 1 .. n + 1 /\ p \in Nat
    BY <1>1
<1>6. \A i \in P, j \in 1 .. n : j <= i => j \in P
  <2> SUFFICES ASSUME NEW i \in P, NEW j \in 1 .. n, j <= i PROVE j \in P
      OBVIOUS
  <2>1. 1 .. j \subseteq 1 .. i
      BY <1>2
  <2> QED
      BY <2>1 DEF Passed
<1>7. P = 1 .. p - 1
  <2>1. ASSUME NEW i \in P PROVE i \in 1 .. p - 1
    <3>1. i \in 1 .. n
        BY <1>2
    <3>2. ~ (p <= i)
      <4> SUFFICES ASSUME p <= i PROVE FALSE
          OBVIOUS
      <4>1. p \in 1 .. n
          BY <1>1, <1>5, <3>1
      <4> QED
          BY <1>4, <1>6, <4>1
    <3> QED
        BY <1>5, <3>1, <3>2
  <2>2. ASSUME NEW i \in 1 .. p - 1 PROVE i \in P
    <3>1. i \in 1 .. n + 1 /\ ~ (p <= i)
        BY <1>1, <1>5
    <3> QED
        BY <1>4, <3>1
  <2> QED
      BY <2>1, <2>2
<1>8. Cardinality(P) = p - 1
  <2>1. 1 \in Int /\ p - 1 \in Int
      BY <1>5
  <2>2. Cardinality(1 .. p - 1) = IF 1 > p - 1 THEN 0 ELSE (p - 1) - 1 + 1
      BY <2>1, FS_Interval
  <2> QED
      BY <1>5, <1>7, <2>2
<1>9. \A i \in 1 .. n + 1 : Enqueue(q, m)[i] = IF i < p THEN q[i] ELSE IF i = p THEN m ELSE q[i - 1]
  <2>1. PICK k \in 1 .. n + 1 :
            /\ k = Cardinality(P) + 1
            /\ \A i \in 1 .. n + 1 :
                  Enqueue(q, m)[i] = IF i < k THEN q[i] ELSE IF i = k THEN m ELSE q[i - 1]
      BY EnqueueShape
  <2>2. k = p
      BY <1>5, <1>8, <2>1
  <2> QED
      BY <2>1, <2>2
<1>10. ordering # "PRIORITY" => p = n + 1
  <2> SUFFICES ASSUME ordering # "PRIORITY" PROVE p = n + 1
      OBVIOUS
  <2>1. P = 1 .. n
      BY DEF Passed
  <2> QED
      BY <1>1, <1>5, <1>7, <2>1
<1>11. ASSUME ordering = "PRIORITY"
       PROVE  /\ \A i \in 1 .. p - 1 : q[i].priority >= m.priority
              /\ p <= n => ~ (q[p].priority >= m.priority)
  <2>1. P = {i \in 1 .. n : \A j \in 1 .. i : q[j].priority >= m.priority}
      BY <1>11 DEF Passed
  <2>2. \A i \in 1 .. p - 1 : q[i].priority >= m.priority
    <3> SUFFICES ASSUME NEW i \in 1 .. p - 1 PROVE q[i].priority >= m.priority
        OBVIOUS
    <3>1. i \in P /\ i \in 1 .. i
        BY <1>5, <1>7
    <3> QED
        BY <2>1, <3>1
  <2>3. ASSUME p <= n, q[p].priority >= m.priority PROVE FALSE
    <3>1. p \in 1 .. n /\ p \notin P
        BY <1>1, <1>4, <1>5, <2>3
    <3>2. \A j \in 1 .. p : j \in 1 .. p - 1 \/ j = p
        BY <1>5
    <3> QED
        BY <2>1, <2>2, <2>3, <3>1, <3>2
  <2> QED
      BY <2>2, <2>3
<1> QED
    BY <1>5, <1>9, <1>10, <1>11

(* A message that is new, or put back, finds a place that keeps the order. *)
LEMMA EnqueueInOrder ==
    ASSUME TypeInv, TypeInv', OrderInv, ordering' = ordering, NEW m \in Message,
           queue' = Enqueue(queue, m), requeued \subseteq requeued',
           \A i \in 1 .. Len(queue) : order'[queue[i].id] = order[queue[i].id],
           \/ m.id \in requeued'
           \/ \A i \in 1 .. Len(queue) : order[queue[i].id] < order'[m.id]
    PROVE  ListInOrder'
<1> DEFINE n == Len(queue)
           q == queue
           e == queue'
<1>1. /\ q \in Seq(Message) /\ n \in Nat /\ Len(e) = n + 1 /\ order \in [Ids -> Nat]
      /\ order' \in [Ids -> Nat]
      /\ \A i \in 1 .. n : q[i] \in Message
    BY EnqueueShape, LenProperties, ElementOfSeq DEF TypeInv, TypeOK
<1>2. PICK p \in 1 .. n + 1 :
              /\ \A i \in 1 .. n + 1 : e[i] = IF i < p THEN q[i] ELSE IF i = p THEN m ELSE q[i - 1]
              /\ ordering # "PRIORITY" => p = n + 1
              /\ ordering = "PRIORITY" =>
                    /\ \A i \in 1 .. p - 1 : q[i].priority >= m.priority
                    /\ p <= n => ~ (q[p].priority >= m.priority)
    BY <1>1, EnqueuePlace
<1>3. \A x \in Message : x.priority \in Int /\ x.id \in Ids
    BY PriorityAssumption DEF Message
<1>4. \A x \in Message : order[x.id] \in Nat /\ order'[x.id] \in Nat
    BY <1>1, <1>3
<1>5. \A i, j \in 1 .. n : i < j /\ Precedes(q[j], q[i]) => Overtaken(q[j], q[i])
    BY DEF OrderInv, ListInOrder
<1> DEFINE Prec(x, y) == IF ordering = "PRIORITY"
                         THEN \/ x.priority > y.priority
                              \/ x.priority = y.priority /\ order'[x.id] < order'[y.id]
                         ELSE order'[x.id] < order'[y.id]
           Over(x, y) == x.id \in requeued' /\ (ordering = "PRIORITY" => x.priority = y.priority)
<1> SUFFICES ASSUME NEW i \in 1 .. n + 1, NEW j \in 1 .. n + 1, i < j, Prec(e[j], e[i])
             PROVE  Over(e[j], e[i])
    BY <1>1 DEF ListInOrder, Precedes, Overtaken
<1>6. ASSUME NEW a \in 1 .. n, NEW b \in 1 .. n, a < b, e[i] = q[a], e[j] = q[b]
      PROVE  Over(e[j], e[i])
  <2>1. order'[q[a].id] = order[q[a].id] /\ order'[q[b].id] = order[q[b].id]
      OBVIOUS
  <2>2. Precedes(q[b], q[a])
      BY <1>6, <2>1 DEF Precedes
  <2>3. Overtaken(q[b], q[a])
      BY <1>5, <1>6, <2>2
  <2> QED
      BY <1>6, <2>3 DEF Overtaken
<1>7. CASE i # p /\ j # p
  <2>1. CASE j < p
    <3>1. i \in 1 .. n /\ j \in 1 .. n /\ i < p
        BY <1>1, <2>1
    <3> QED
        BY <1>2, <1>6, <2>1, <3>1
  <2>2. CASE i < p /\ p < j
    <3>1. i \in 1 .. n /\ j - 1 \in 1 .. n /\ i < j - 1 /\ ~ (j < p)
        BY <1>1, <2>2
    <3> QED
        BY <1>2, <1>6, <1>7, <2>2, <3>1
  <2>3. CASE p < i
    <3>1. i - 1 \in 1 .. n /\ j - 1 \in 1 .. n /\ i - 1 < j - 1 /\ ~ (j < p) /\ ~ (i < p)
        BY <1>1, <2>3
    <3> QED
        BY <1>2, <1>6, <1>7, <3>1
  <2> QED
      BY <1>1, <1>7, <2>1, <2>2, <2>3
<1>8. CASE j = p
  <2>1. i \in 1 .. n /\ i \in 1 .. p - 1 /\ e[i] = q[i] /\ e[j] = m
      BY <1>1, <1>2, <1>8
  <2>2. order'[q[i].id] = order[q[i].id] /\ q[i] \in Message
      BY <1>1, <2>1
  <2>3. Prec(m, q[i])
      BY <2>1
  <2>4. ordering = "PRIORITY" => q[i].priority >= m.priority
      BY <1>2, <2>1
  <2>5. order'[m.id] < order'[q[i].id] /\ (ordering = "PRIORITY" => m.priority = q[i].priority)
      BY <1>3, <2>2, <2>3, <2>4
  <2>6. m.id \in requeued'
      BY <1>4, <2>1, <2>2, <2>5
  <2> QED
      BY <2>1, <2>5, <2>6
<1>9. CASE i = p
  <2> DEFINE b == j - 1
  <2>1. b \in 1 .. n /\ p \in 1 .. n /\ p <= b /\ e[i] = m /\ e[j] = q[b]
      BY <1>1, <1>2, <1>9
  <2> HIDE DEF b
  <2>2. ordering = "PRIORITY" /\ ~ (q[p].priority >= m.priority)
      BY <1>1, <1>2, <2>1
  <2>3. q[p] \in Message /\ q[b] \in Message
      BY <1>1, <2>1
  <2>4. ~ (q[b].priority > q[p].priority)
    <3> SUFFICES ASSUME q[b].priority > q[p].priority PROVE FALSE
        OBVIOUS
    <3>1. p < b
        BY <1>3, <2>1, <2>3
    <3>2. Precedes(q[b], q[p])
        BY <2>2 DEF Precedes
    <3>3. q[b].priority = q[p].priority
        BY <1>5, <2>1, <2>2, <3>1, <3>2 DEF Overtaken
    <3> QED
        BY <1>3, <2>3, <3>3
  <2>5. q[b].priority < m.priority
      BY <1>3, <2>2, <2>3, <2>4
  <2>6. Prec(q[b], m)
      BY <2>1
  <2> QED
      BY <1>3, <2>2, <2>3, <2>5, <2>6
<1> QED
    BY <1>7, <1>8, <1>9

LEMMA OrderInvStep ==
    TypeInv /\ TypeInv' /\ PlacesInv /\ OrderInv /\ [Next]_vars => OrderInv'
<1> SUFFICES ASSUME TypeInv, TypeInv', PlacesInv, OrderInv, [Next]_vars PROVE OrderInv'
    OBVIOUS
<1>0. /\ queue \in Seq(Message) /\ Len(queue) \in Nat /\ total_published \in Nat
      /\ order \in [Ids -> Nat] /\ \A i \in Ids : order[i] <= total_published
      /\ \A i \in 1 .. Len(queue) : queue[i] \in Message /\ queue[i].id \in Ids
  <2>1. queue \in Seq(Message) /\ order \in [Ids -> Nat] /\ total_published \in Nat
      BY DEF TypeInv, TypeOK
  <2>2. \A m \in Message : m.id \in Ids
      BY DEF Message
  <2> QED
      BY <2>1, <2>2, LenProperties, ElementOfSeq DEF OrderInv
<1>1. ASSUME NEW p \in Producers, Publish(p) PROVE OrderInv'
  <2> DEFINE k == draft[p].id
  <2>1. /\ queue' = Enqueue(queue, draft[p]) /\ order' = [order EXCEPT ![k] = total_published + 1]
        /\ total_published' = total_published + 1 /\ ordering' = ordering /\ requeued' = requeued
        /\ draft[p] # None
      BY <1>1 DEF Publish, settings
  <2>2. draft[p] \in Message /\ k \in Ids /\ order[k] = 0
      BY <2>1, NoneAssumption DEF TypeInv, TypeOK, Message, PlacesInv, DraftsFresh
  <2>3. order'[k] = total_published + 1 /\ \A i \in Ids \ {k} : order'[i] = order[i]
      BY <1>0, <2>1, <2>2
  <2>4. \A i \in 1 .. Len(queue) : queue[i].id # k
    <3>1. \A i \in 1 .. Len(queue) : queue[i].id \in Published
        BY QueuedIds DEF PlacesInv, ExactlyOnePlace, IdsOf
    <3> QED
        BY <2>2, <3>1 DEF Published
  <2>5. /\ \A i \in 1 .. Len(queue) : order'[queue[i].id] = order[queue[i].id]
        /\ \A i \in 1 .. Len(queue) : order[queue[i].id] < order'[k]
      BY <1>0, <2>3, <2>4
  <2>6. ListInOrder'
      BY <2>1, <2>2, <2>5, EnqueueInOrder
  <2>7. \A i \in Ids : order'[i] <= total_published'
      BY <1>0, <2>1, <2>3
  <2> QED
      BY <2>6, <2>7 DEF OrderInv
<1>2. ASSUME NEW c \in Consumers, Requeue(c) PROVE OrderInv'
  <2>1. /\ queue' = Enqueue(queue, hand[c]) /\ order' = order /\ ordering' = ordering
        /\ total_published' = total_published /\ pc[c] = "got"
        /\ requeued' = requeued \cup {hand[c].id}
      BY <1>2 DEF Requeue, Goto, settings, stats
  <2>2. hand[c] \in Message
      BY <2>1, HandIsMessage
  <2>3. ListInOrder'
      BY <2>1, <2>2, EnqueueInOrder
  <2> QED
      BY <1>0, <2>1, <2>3 DEF OrderInv
<1>3. ASSUME order' = order, ordering' = ordering, total_published' = total_published, queue' = queue,
             requeued' = requeued
      PROVE  OrderInv'
    BY <1>3 DEF OrderInv, ListInOrder, Precedes, Overtaken
<1>4. ASSUME NEW c \in Consumers, Take(c) PROVE OrderInv'
  <2>1. /\ order' = order /\ ordering' = ordering /\ total_published' = total_published
        /\ requeued' = requeued
      BY <1>4 DEF Take, history, settings, stats
  <2>2. CASE queue' = Tail(queue) /\ queue # <<>>
    <3>1. Len(queue') = Len(queue) - 1 /\ \A i \in 1 .. Len(queue) - 1 : queue'[i] = queue[i + 1]
        BY <1>0, <2>2, HeadTailProperties
    <3>2. \A i \in 1 .. Len(queue) - 1 : i + 1 \in 1 .. Len(queue)
        BY <1>0
    <3>3. ListInOrder'
      <4> SUFFICES ASSUME NEW i \in 1 .. Len(queue) - 1, NEW j \in 1 .. Len(queue) - 1, i < j,
                          Precedes(queue[j + 1], queue[i + 1])
                   PROVE  Overtaken(queue[j + 1], queue[i + 1])
          BY <2>1, <3>1, SMTT(60) DEF ListInOrder, Precedes, Overtaken
      <4>1. i + 1 < j + 1
          OBVIOUS
      <4> QED
          BY <3>2, <4>1 DEF OrderInv, ListInOrder
    <3> QED
        BY <1>0, <2>1, <3>3 DEF OrderInv
  <2>3. CASE queue' = queue
      BY <1>3, <2>1, <2>3
  <2> QED
      BY <1>4, <2>2, <2>3 DEF Take
<1>5. CASE Clear \/ DestroyEnd
  <2>1. queue' = <<>> /\ order' = order /\ total_published' = total_published
      BY <1>5 DEF Clear, DestroyEnd, stats
  <2> QED
      BY <1>0, <2>1 DEF OrderInv, ListInOrder
<1>6. ASSUME NEW c \in Consumers,
             \/ LoopTest(c) \/ Lock(c) \/ WaitTest(c) \/ Wait(c) \/ SpuriousWake(c)
             \/ Handle(c) \/ Count(c)
             \/ \E t \in Topics : SubscribeCreate(c, t)
             \/ SubscribeLink(c) \/ Deactivate(c) \/ Notify(c) \/ JoinAndUnlink(c)
      PROVE  OrderInv'
    BY <1>3, <1>6
    DEF LoopTest, Lock, WaitTest, Wait, SpuriousWake, Handle, Count, SubscribeCreate, SubscribeLink,
        Deactivate, Notify, JoinAndUnlink, stats, settings, history
<1>7. CASE \/ \E p \in Producers, t \in Topics, pri \in Priorities : CreateMessage(p, t, pri)
           \/ Reject
           \/ \E g \in Guarantees : SetDeliveryGuarantee(g)
           \/ \E n \in RetryLimits : SetMaxRetries(n)
           \/ DestroyBegin
           \/ UNCHANGED vars
    BY <1>3, <1>7
    DEF CreateMessage, Reject, SetDeliveryGuarantee, SetMaxRetries, DestroyBegin, vars, stats,
        settings, history
<1> QED
    BY <1>1, <1>2, <1>4, <1>5, <1>6, <1>7 DEF Next, ConsumerStep, Terminated

LEMMA OrderInvInit == Init => OrderInv
BY DEF Init, OrderInv, ListInOrder

(* Only dequeue_message in consumer_thread gives a consumer a message. *)
LEMMA OnlyTakeGives ==
    ASSUME TypeInv, [Next]_vars, NEW c \in Consumers, pc[c] = "ready", pc'[c] = "got"
    PROVE  Take(c)
<1>0. pc \in [Consumers -> PC]
    BY DEF TypeInv, TypeOK
<1>1. ASSUME NEW d \in Consumers,
             \/ LoopTest(d) \/ Lock(d) \/ WaitTest(d) \/ Wait(d) \/ SpuriousWake(d)
             \/ Handle(d) \/ Count(d) \/ Requeue(d)
             \/ \E t \in Topics : SubscribeCreate(d, t)
             \/ SubscribeLink(d) \/ Deactivate(d) \/ Notify(d) \/ JoinAndUnlink(d)
      PROVE  FALSE
    BY <1>0, <1>1
    DEF LoopTest, Lock, WaitTest, Wait, SpuriousWake, Handle, Count, Requeue, SubscribeCreate,
        SubscribeLink, Deactivate, Notify, Broadcast, JoinAndUnlink, Goto
<1>2. ASSUME NEW d \in Consumers, Take(d) PROVE d = c
    BY <1>0, <1>2 DEF Take
<1>3. ASSUME \E p \in Producers : Publish(p) PROVE FALSE
    BY <1>3 DEF Publish, Broadcast
<1>4. ASSUME \/ \E p \in Producers, t \in Topics, pri \in Priorities : CreateMessage(p, t, pri)
             \/ Clear \/ Reject
             \/ \E g \in Guarantees : SetDeliveryGuarantee(g)
             \/ \E n \in RetryLimits : SetMaxRetries(n)
             \/ DestroyBegin \/ DestroyEnd
             \/ UNCHANGED vars
      PROVE  FALSE
  <2>1. pc' = pc
      BY <1>4
      DEF CreateMessage, Clear, Reject, SetDeliveryGuarantee, SetMaxRetries, DestroyBegin, DestroyEnd,
          vars, threads
  <2> QED
      BY <2>1
<1> QED
    BY <1>1, <1>2, <1>3, <1>4 DEF Next, ConsumerStep, Terminated

LEMMA TakeInOrder ==
    ASSUME TypeInv, OrderInv, [Next]_vars, NEW c \in Consumers
    PROVE  TakesInOrder(c)
<1> SUFFICES ASSUME pc[c] = "ready", pc'[c] = "got",
                    NEW m \in ToSet(queue'), Precedes(m, hand'[c])
             PROVE  Overtaken(m, hand'[c])
    BY DEF TakesInOrder, Overtaken
<1>1. Take(c)
    BY OnlyTakeGives
<1>2. queue # <<>> /\ queue' = Tail(queue) /\ hand'[c] = Head(queue)
    BY <1>1 DEF Take, TypeInv, TypeOK
<1>3. queue \in Seq(Message) /\ Len(queue) \in Nat /\ Len(queue) > 0
    BY <1>2, LenProperties, EmptySeq DEF TypeInv, TypeOK
<1>4. /\ Tail(queue) \in Seq(Message) /\ Len(Tail(queue)) = Len(queue) - 1
      /\ \A i \in 1 .. Len(queue) - 1 : Tail(queue)[i] = queue[i + 1]
    BY <1>2, <1>3, HeadTailProperties
<1>5. ToSet(Tail(queue)) = {Tail(queue)[i] : i \in 1 .. Len(Tail(queue))}
  <2> DEFINE q == Tail(queue)
  <2>1. q \in Seq(Message)
      BY <1>4
  <2> HIDE DEF q
  <2>2. ToSet(q) = {q[i] : i \in 1 .. Len(q)}
      BY <2>1, Elements
  <2> QED
      BY <2>2 DEF q
<1>6. PICK i \in 1 .. Len(queue) - 1 : m = queue[i + 1]
    BY <1>2, <1>4, <1>5
<1>7. i + 1 \in 1 .. Len(queue) /\ 1 \in 1 .. Len(queue) /\ 1 < i + 1
    BY <1>3
<1>8. hand'[c] = queue[1]
    BY <1>2, <1>3
<1> QED
    BY <1>6, <1>7, <1>8 DEF OrderInv, ListInOrder

(* What is in the list when a consumer thread has a message in its hand and *)
(* should have come before it was published later or has been put back.     *)
HandsInOrder ==
    \A c \in Consumers : pc[c] = "got" =>
        \A i \in 1 .. Len(queue) :
            Precedes(queue[i], hand[c]) /\ order[queue[i].id] < order[hand[c].id] =>
                queue[i].id \in requeued

(* A step that adds to the list only what was put back or was published     *)
(* last keeps it so for the messages that stay in hands.                    *)
LEMMA HandsFrame ==
    ASSUME HandsInOrder, ordering' = ordering, requeued \subseteq requeued',
           NEW c \in Consumers, pc[c] = "got", hand'[c] = hand[c],
           order'[hand[c].id] = order[hand[c].id],
           \A i \in 1 .. Len(queue') :
              \/ \E j \in 1 .. Len(queue) :
                    queue'[i] = queue[j] /\ order'[queue[j].id] = order[queue[j].id]
              \/ queue'[i].id \in requeued'
              \/ ~ (order'[queue'[i].id] < order[hand[c].id])
    PROVE  \A i \in 1 .. Len(queue') :
              Precedes(queue[i], hand[c])' /\ order'[queue'[i].id] < order'[hand'[c].id]
              => queue'[i].id \in requeued'
<1> SUFFICES ASSUME NEW i \in 1 .. Len(queue'), Precedes(queue[i], hand[c])',
                    order'[queue'[i].id] < order'[hand'[c].id]
             PROVE  queue'[i].id \in requeued'
    OBVIOUS
<1>1. CASE \E j \in 1 .. Len(queue) :
              queue'[i] = queue[j] /\ order'[queue[j].id] = order[queue[j].id]
  <2>1. PICK j \in 1 .. Len(queue) :
              queue'[i] = queue[j] /\ order'[queue[j].id] = order[queue[j].id]
      BY <1>1
  <2>2. Precedes(queue[j], hand[c])
      BY <2>1 DEF Precedes
  <2> QED
      BY <2>1, <2>2 DEF HandsInOrder
<1> QED
    BY <1>1

LEMMA EnqueueElement ==
    ASSUME NEW q \in Seq(Message), NEW m \in Message, NEW i \in 1 .. Len(Enqueue(q, m))
    PROVE  Enqueue(q, m)[i] = m \/ \E j \in 1 .. Len(q) : Enqueue(q, m)[i] = q[j]
<1>1. Len(q) \in Nat /\ Len(Enqueue(q, m)) = Len(q) + 1
    BY EnqueueShape, LenProperties
<1>2. PICK p \in 1 .. Len(q) + 1 : \A j \in 1 .. Len(q) + 1 :
          Enqueue(q, m)[j] = IF j < p THEN q[j] ELSE IF j = p THEN m ELSE q[j - 1]
    BY EnqueueShape
<1>3. i < p => i \in 1 .. Len(q)
    BY <1>1, <1>2
<1>4. i > p => i - 1 \in 1 .. Len(q)
    BY <1>1, <1>2
<1> QED
    BY <1>1, <1>2, <1>3, <1>4

LEMMA HandsInOrderStep ==
    TypeInv /\ TypeInv' /\ PlacesInv /\ OrderInv /\ HandsInOrder /\ [Next]_vars => HandsInOrder'
<1> SUFFICES ASSUME TypeInv, TypeInv', PlacesInv, OrderInv, HandsInOrder, [Next]_vars,
                    NEW c \in Consumers, pc'[c] = "got"
             PROVE  \A i \in 1 .. Len(queue') :
                        Precedes(queue[i], hand[c])' /\ order'[queue'[i].id] < order'[hand'[c].id]
                        => queue'[i].id \in requeued'
    BY DEF HandsInOrder
<1>0. /\ queue \in Seq(Message) /\ Len(queue) \in Nat /\ order \in [Ids -> Nat]
      /\ pc \in [Consumers -> PC] /\ hand \in [Consumers -> Message \cup {None}]
    BY LenProperties DEF TypeInv, TypeOK
<1>1. ASSUME NEW p \in Producers, Publish(p)
      PROVE  \A i \in 1 .. Len(queue') :
                 Precedes(queue[i], hand[c])' /\ order'[queue'[i].id] < order'[hand'[c].id]
                 => queue'[i].id \in requeued'
  <2> DEFINE k == draft[p].id
  <2>1. /\ queue' = Enqueue(queue, draft[p]) /\ order' = [order EXCEPT ![k] = total_published + 1]
        /\ ordering' = ordering /\ requeued' = requeued /\ hand' = hand /\ pc[c] = "got"
        /\ draft[p] # None
      BY <1>0, <1>1 DEF Publish, settings, Broadcast
  <2>2. draft[p] \in Message /\ k \in Ids /\ order[k] = 0
      BY <2>1, NoneAssumption DEF TypeInv, TypeOK, Message, PlacesInv, DraftsFresh
  <2>3. order'[k] = total_published + 1 /\ \A i \in Ids \ {k} : order'[i] = order[i]
      BY <1>0, <2>1, <2>2
  <2>4. hand[c] \in Message /\ hand[c].id \in Published /\ hand[c].id \in Ids
      BY <2>1, HandIsMessage DEF PlacesInv, ExactlyOnePlace, Carried, Message
  <2>5. order'[hand[c].id] = order[hand[c].id] /\ order[hand[c].id] < order'[k]
    <3>1. hand[c].id # k
        BY <2>2, <2>4 DEF Published
    <3>2. order[hand[c].id] <= total_published /\ total_published \in Nat
        BY <2>4 DEF OrderInv, TypeInv, TypeOK
    <3>3. order[hand[c].id] \in Nat
        BY <1>0, <2>4
    <3> QED
        BY <2>3, <2>4, <3>1, <3>2, <3>3
  <2>6. \A i \in 1 .. Len(queue) : queue[i].id # k /\ queue[i].id \in Ids
    <3>1. \A i \in 1 .. Len(queue) : queue[i].id \in Published
        BY QueuedIds DEF PlacesInv, ExactlyOnePlace, IdsOf
    <3> QED
        BY <2>2, <3>1 DEF Published
  <2>7. ASSUME NEW i \in 1 .. Len(queue')
        PROVE  \/ \E j \in 1 .. Len(queue) :
                     queue'[i] = queue[j] /\ order'[queue[j].id] = order[queue[j].id]
               \/ ~ (order'[queue'[i].id] < order[hand[c].id])
    <3>1. queue'[i] = draft[p] \/ \E j \in 1 .. Len(queue) : queue'[i] = queue[j]
        BY <1>0, <2>1, <2>2, EnqueueElement
    <3>2. CASE queue'[i] = draft[p]
      <4>1. order'[queue'[i].id] = order'[k] /\ order'[k] \in Nat /\ order[hand[c].id] \in Nat
          BY <1>0, <2>2, <2>3, <2>4, <3>2 DEF TypeInv, TypeOK
      <4> QED
          BY <2>5, <4>1
    <3>3. ASSUME NEW j \in 1 .. Len(queue), queue'[i] = queue[j]
          PROVE  order'[queue[j].id] = order[queue[j].id]
        BY <2>3, <2>6
    <3> QED
        BY <3>1, <3>2, <3>3
  <2>8. hand'[c] = hand[c] /\ requeued \subseteq requeued'
      BY <2>1
  <2> QED
      BY <2>1, <2>5, <2>7, <2>8, HandsFrame
<1>2. ASSUME NEW d \in Consumers, Requeue(d)
      PROVE  \A i \in 1 .. Len(queue') :
                 Precedes(queue[i], hand[c])' /\ order'[queue'[i].id] < order'[hand'[c].id]
                 => queue'[i].id \in requeued'
  <2>1. /\ queue' = Enqueue(queue, hand[d]) /\ order' = order /\ ordering' = ordering
        /\ pc[d] = "got" /\ requeued' = requeued \cup {hand[d].id}
        /\ pc[c] = "got" /\ hand'[c] = hand[c]
      BY <1>0, <1>2 DEF Requeue, Goto, settings
  <2>2. hand[d] \in Message
      BY <2>1, HandIsMessage
  <2>3. ASSUME NEW i \in 1 .. Len(queue')
        PROVE  queue'[i] = hand[d] \/ \E j \in 1 .. Len(queue) : queue'[i] = queue[j]
      BY <1>0, <2>1, <2>2, EnqueueElement
  <2>4. /\ requeued \subseteq requeued' /\ order'[hand[c].id] = order[hand[c].id]
        /\ \A i \in 1 .. Len(queue') :
              \/ \E j \in 1 .. Len(queue) :
                    queue'[i] = queue[j] /\ order'[queue[j].id] = order[queue[j].id]
              \/ queue'[i].id \in requeued'
      BY <2>1, <2>3
  <2> QED
      BY <2>1, <2>4, HandsFrame
<1>3. ASSUME order' = order, ordering' = ordering, requeued' = requeued, pc[c] = "got", hand'[c] = hand[c],
             \A i \in 1 .. Len(queue') : \E j \in 1 .. Len(queue) : queue'[i] = queue[j]
      PROVE  \A i \in 1 .. Len(queue') :
                 Precedes(queue[i], hand[c])' /\ order'[queue'[i].id] < order'[hand'[c].id]
                 => queue'[i].id \in requeued'
  <2>1. requeued \subseteq requeued' /\ order'[hand[c].id] = order[hand[c].id]
      BY <1>3
  <2>2. \A i \in 1 .. Len(queue') : \E j \in 1 .. Len(queue) :
            queue'[i] = queue[j] /\ order'[queue[j].id] = order[queue[j].id]
      BY <1>3
  <2> QED
      BY <1>3, <2>1, <2>2, HandsFrame
<1>4. ASSUME NEW d \in Consumers, Take(d)
      PROVE  \A i \in 1 .. Len(queue') :
                 Precedes(queue[i], hand[c])' /\ order'[queue'[i].id] < order'[hand'[c].id]
                 => queue'[i].id \in requeued'
  <2>1. order' = order /\ ordering' = ordering /\ requeued' = requeued
      BY <1>4 DEF Take, history, settings
  <2>2. queue' \in Seq(Message) /\ \A i \in 1 .. Len(queue') : queue'[i] \in ToSet(queue')
      BY Elements DEF TypeInv, TypeOK
  <2>3. CASE d = c
    <3>1. pc[c] = "ready"
        BY <1>4, <2>3 DEF Take
    <3>2. \A m \in ToSet(queue') : Precedes(m, hand'[c]) => m.id \in requeued
        BY <3>1, TakeInOrder DEF TakesInOrder
    <3> QED
        BY <2>1, <2>2, <3>2 DEF Precedes
  <2>4. CASE d # c
    <3>1. pc[c] = "got" /\ hand'[c] = hand[c]
        BY <1>0, <1>4, <2>4 DEF Take
    <3>2. \A i \in 1 .. Len(queue') : \E j \in 1 .. Len(queue) : queue'[i] = queue[j]
      <4>1. CASE queue' = Tail(queue) /\ queue # <<>>
        <5>1. Len(queue') = Len(queue) - 1 /\ \A i \in 1 .. Len(queue) - 1 : queue'[i] = queue[i + 1]
            BY <1>0, <4>1, HeadTailProperties
        <5>2. \A i \in 1 .. Len(queue) - 1 : i + 1 \in 1 .. Len(queue)
            BY <1>0
        <5> QED
            BY <5>1, <5>2
      <4> QED
          BY <1>4, <4>1 DEF Take
    <3> QED
        BY <1>3, <2>1, <3>1, <3>2
  <2> QED
      BY <2>3, <2>4
<1>5. CASE Clear \/ DestroyEnd
  <2>1. Len(queue') = 0
      BY <1>5 DEF Clear, DestroyEnd
  <2> QED
      BY <2>1
<1>6. ASSUME NEW d \in Consumers,
             \/ LoopTest(d) \/ Lock(d) \/ WaitTest(d) \/ Wait(d) \/ SpuriousWake(d)
             \/ Handle(d) \/ Count(d)
             \/ \E t \in Topics : SubscribeCreate(d, t)
             \/ SubscribeLink(d) \/ Deactivate(d) \/ Notify(d) \/ JoinAndUnlink(d)
      PROVE  \A i \in 1 .. Len(queue') :
                 Precedes(queue[i], hand[c])' /\ order'[queue'[i].id] < order'[hand'[c].id]
                 => queue'[i].id \in requeued'
  <2>1. order' = order /\ ordering' = ordering /\ requeued' = requeued /\ queue' = queue
      BY <1>6
      DEF LoopTest, Lock, WaitTest, Wait, SpuriousWake, Handle, Count, SubscribeCreate, SubscribeLink,
          Deactivate, Notify, JoinAndUnlink, settings, history
  <2>2. pc[c] = "got" /\ hand'[c] = hand[c]
      BY <1>0, <1>6
      DEF LoopTest, Lock, WaitTest, Wait, SpuriousWake, Handle, Count, SubscribeCreate, SubscribeLink,
          Deactivate, Notify, JoinAndUnlink, Goto, Broadcast
  <2> QED
      BY <1>3, <2>1, <2>2
<1>7. CASE \/ \E p \in Producers, t \in Topics, pri \in Priorities : CreateMessage(p, t, pri)
           \/ Reject
           \/ \E g \in Guarantees : SetDeliveryGuarantee(g)
           \/ \E n \in RetryLimits : SetMaxRetries(n)
           \/ DestroyBegin
           \/ UNCHANGED vars
  <2>1. /\ order' = order /\ ordering' = ordering /\ requeued' = requeued /\ queue' = queue
        /\ pc' = pc /\ hand' = hand
      BY <1>7
      DEF CreateMessage, Reject, SetDeliveryGuarantee, SetMaxRetries, DestroyBegin, vars, settings,
          history, threads
  <2> QED
      BY <1>3, <2>1
<1> QED
    BY <1>1, <1>2, <1>4, <1>5, <1>6, <1>7 DEF Next, ConsumerStep, Terminated

LEMMA HandleInOrder ==
    ASSUME TypeInv, HandsInOrder, NEW c \in Consumers
    PROVE  HandlesInOrder(c)
<1> SUFFICES ASSUME pc[c] = "got", NEW m \in Waiting, Precedes(m, hand[c]),
                    order[m.id] < order[hand[c].id]
             PROVE  m.id \in requeued \cup Carried
    BY DEF HandlesInOrder
<1>1. CASE m \in ToSet(queue)
  <2>1. PICK i \in 1 .. Len(queue) : m = queue[i]
      BY <1>1, Elements DEF TypeInv, TypeOK
  <2> QED
      BY <2>1 DEF HandsInOrder
<1>2. CASE m \in {hand[d] : d \in {e \in Consumers : pc[e] = "got"}}
    BY <1>2 DEF Carried
<1> QED
    BY <1>1, <1>2 DEF Waiting

(* The list yields messages in order, for any number of threads, topics and *)
(* priorities: a message is overtaken only once a consumer thread has taken *)
(* it, while it is carried or after it was put back.                        *)
THEOREM MessagesKeepTheirOrder == Spec => OvertakenOnlyOnceTaken
<1>1. TypeInv /\ OrderInv /\ HandsInOrder /\ [Next]_vars
      => [\A c \in Consumers : TakesInOrder(c) /\ HandlesInOrder(c)]_vars
    BY TakeInOrder, HandleInOrder
<1>2. Init => HandsInOrder
    BY DEF Init, HandsInOrder
<1> QED
    BY <1>1, <1>2, TypeInvInit, TypeInvStep, PlacesInvInit, PlacesInvStep, OrderInvInit, OrderInvStep,
       HandsInOrderStep, PTL DEF Spec, OvertakenOnlyOnceTaken
=============================================================================
