-------------------------- MODULE LibrariesProofs ---------------------------
(***************************************************************************)
(* Proofs about the libraries that MCLibraries composes: the sockets, the  *)
(* status codes, the templates and the counter, for any objects,           *)
(* descriptors, codes, clients, addresses and threads.  The other          *)
(* components' own theorems are in CacheProofs and DistributedProofs; here *)
(* their types join those of these.                                        *)
(***************************************************************************)
EXTENDS MCLibraries, CacheProofs, DistributedProofs

(* An object holds no descriptor or one of the caller's, and no two objects *)
(* hold the same.  So whatever close() is called on is the caller's and is  *)
(* nobody else's afterwards.                                                *)
HeldByOne ==
    /\ \A o \in Objects :
          obj[o] # None /\ obj[o].sockfd # -1 =>
              obj[o].sockfd \in Fds /\ fd[obj[o].sockfd] = "caller"
    /\ \A o, p \in Objects :
          obj[o] # None /\ obj[p] # None /\ obj[o].sockfd = obj[p].sockfd =>
              o = p \/ obj[o].sockfd = -1

SocketsInv == Network!TypeOK /\ HeldByOne /\ wronged = {}

LEMMA SocketsInit == Network!Init => SocketsInv
BY FdsAssumption DEF Network!Init, SocketsInv, Network!TypeOK, HeldByOne

LEMMA SocketsStep == SocketsInv /\ [Network!Next]_socket_vars => SocketsInv'
<1> SUFFICES ASSUME SocketsInv, [Network!Next]_socket_vars PROVE SocketsInv'
    OBVIOUS
<1> USE FdsAssumption
    DEF SocketsInv, Network!TypeOK, HeldByOne, Network!Object, Network!Types, Network!Flags,
        Network!Is, Network!SUCCESS, Network!ERROR_INVALID_PARAM
<1>1. ASSUME NEW o \in Objects, NEW type \in Network!Types, Network!Create(o, type)
      PROVE  SocketsInv'
    BY <1>1 DEF Network!Create, Network!Created
<1>2. ASSUME NEW s \in Objects, NEW o \in Objects, Network!Accept(s, o)
      PROVE  SocketsInv'
    BY <1>2 DEF Network!Accept, Network!Created
<1>3. ASSUME NEW o \in Objects, NEW type \in Network!Types, NEW flag \in Network!Flags,
             Network!Mark(o, type, flag)
      PROVE  SocketsInv'
    BY <1>3 DEF Network!Mark
<1>4. ASSUME NEW o \in Objects, NEW type \in Network!Types, Network!Close(o, type)
      PROVE  SocketsInv'
  <2> DEFINE n == obj[o].sockfd
  <2>1. /\ obj[o] \in Network!Object /\ obj[o] # None
        /\ obj' = [obj EXCEPT ![o] = [obj[o] EXCEPT !.sockfd = -1, !.flags = {}]]
        /\ UNCHANGED socket_answer
      BY <1>4 DEF Network!Close, Network!Closed
  <2>2. n = -1 \/ (n \in Fds /\ fd[n] = "caller")
      BY <2>1
  <2>3. /\ wronged' = {}
        /\ fd' \in [Fds \cup {0} -> {"closed", "caller", "other"}]
        /\ \A m \in Fds : m # n => fd'[m] = fd[m]
      BY <1>4, <2>2 DEF Network!Close, Network!CloseFd
  <2>4. [obj[o] EXCEPT !.sockfd = -1, !.flags = {}] \in Network!Object
      BY <2>1
  <2>5. /\ obj' \in [Objects -> Network!Object \cup {None}]
        /\ obj'[o].sockfd = -1
        /\ \A p \in Objects \ {o} : obj'[p] = obj[p]
      BY <2>1, <2>4
  <2>6. HeldByOne'
      BY <2>1, <2>2, <2>3, <2>5
  <2> QED
      BY <2>1, <2>3, <2>5, <2>6
<1>5. ASSUME NEW o \in Objects, NEW type \in Network!Types, Network!Destroy(o, type)
      PROVE  SocketsInv'
    BY <1>5 DEF Network!Destroy, Network!CloseFd
<1>6. ASSUME NEW o \in Objects, NEW type \in Network!Types, Network!Transfer(o, type)
      PROVE  SocketsInv'
    BY <1>6 DEF Network!Transfer, Network!Lengths
<1>7. ASSUME NEW n \in Int, Network!CheckFd(n) \/ Network!Wait(n)
      PROVE  SocketsInv'
    BY <1>7 DEF Network!CheckFd, Network!Wait
<1>8. CASE Network!CheckPointers
    BY <1>8 DEF Network!CheckPointers
<1>9. ASSUME NEW n \in Fds, NEW who \in {"caller", "other"}, Network!Open(n, who)
      PROVE  SocketsInv'
    BY <1>9 DEF Network!Open
<1>10. ASSUME NEW o \in Objects, NEW n \in Fds, Network!Adopt(o, n)
       PROVE  SocketsInv'
  <2> DEFINE a == [obj[o] EXCEPT !.sockfd = n, !.flags = @ \cup {"is_active"}]
  <2>1. /\ obj[o] \in Network!Object /\ obj[o] # None
        /\ obj' = [obj EXCEPT ![o] = a]
        /\ UNCHANGED <<fd, socket_answer, wronged>>
        /\ fd[n] = "caller"
        /\ \A p \in Objects : obj[p] # None => obj[p].sockfd # n
      BY <1>10 DEF Network!Adopt
  <2>2. a \in Network!Object /\ a.sockfd = n
      BY <2>1
  <2>3. /\ obj' \in [Objects -> Network!Object \cup {None}]
        /\ obj'[o].sockfd = n
        /\ \A p \in Objects \ {o} : obj'[p] = obj[p]
      BY <2>1, <2>2
  <2>4. HeldByOne'
      BY <2>1, <2>3
  <2> QED
      BY <2>1, <2>3, <2>4
<1>11. ASSUME NEW o \in Objects, Network!FreeConnection(o)
       PROVE  SocketsInv'
    BY <1>11 DEF Network!FreeConnection
<1>12. CASE UNCHANGED socket_vars
    BY <1>12 DEF socket_vars
<1> HIDE DEF SocketsInv, Network!TypeOK, HeldByOne
<1> QED
    BY <1>1, <1>2, <1>3, <1>4, <1>5, <1>6, <1>7, <1>8, <1>9, <1>10, <1>11, <1>12
       DEF Network!Next, Network!TcpServer, Network!TcpClient, Network!UdpSocket, Network!Multiplexer,
           Network!AddressResolution, Network!SocketOptions, Network!Echo

-----------------------------------------------------------------------------
(* The answers are those of the code asked about. *)
StatusInv ==
    /\ Status!TypeOK
    /\ known = Status!Known(code)
    /\ category = Status!Category(code)
    /\ holds = Status!Holds(code)

LEMMA StatusInit == Status!Init => StatusInv
BY CodeAssumption
   DEF Status!Init, StatusInv, Status!TypeOK, Status!Codes, Status!Known, Status!Category,
       Status!Holds, Status!Categories

LEMMA StatusStep == StatusInv /\ [Status!Next]_status_vars => StatusInv'
<1> SUFFICES ASSUME StatusInv, [Status!Next]_status_vars PROVE StatusInv'
    OBVIOUS
<1>1. CASE Status!Next
  <2>1. code' \in Status!Codes /\ code' \in Int
      BY <1>1, CodeAssumption DEF Status!Next, Status!Ask, Status!Codes
  <2>2. /\ known' = Status!Known(code')
        /\ category' = Status!Category(code')
        /\ holds' = Status!Holds(code')
      BY <1>1 DEF Status!Next, Status!Ask
  <2>3. Status!Known(code') \in BOOLEAN
      BY DEF Status!Known
  <2>4. Status!Category(code') \in Status!Categories
      BY <2>1 DEF Status!Category, Status!Categories
  <2>5. Status!Holds(code') \in SUBSET (Status!Categories \cup {"ERROR"})
      BY DEF Status!Holds
  <2> QED
      BY <2>1, <2>2, <2>3, <2>4, <2>5 DEF StatusInv, Status!TypeOK
<1>2. CASE UNCHANGED status_vars
    BY <1>2
       DEF StatusInv, status_vars, Status!TypeOK, Status!Codes, Status!Known, Status!Category,
           Status!Holds
<1> QED
    BY <1>1, <1>2

LEMMA StatusAgrees == StatusInv => CategoriesAgree
<1> SUFFICES ASSUME StatusInv PROVE CategoriesAgree
    OBVIOUS
<1>0. code \in Int
    BY CodeAssumption DEF StatusInv, Status!TypeOK, Status!Codes
<1>1. known <=> code \in Status!Declared
    BY <1>0 DEF StatusInv, Status!Known, Status!Declared
<1>2. CASE code \in 100 .. 599
  <2>1. holds \ {"ERROR"} = {category}
    <3>1. CASE code < 200
        BY <1>0, <1>2, <3>1 DEF StatusInv, Status!Holds, Status!Category, Status!Categories
    <3>2. CASE code >= 200 /\ code < 300
        BY <1>0, <1>2, <3>2 DEF StatusInv, Status!Holds, Status!Category, Status!Categories
    <3>3. CASE code >= 300 /\ code < 400
        BY <1>0, <1>2, <3>3 DEF StatusInv, Status!Holds, Status!Category, Status!Categories
    <3>4. CASE code >= 400 /\ code < 500
        BY <1>0, <1>2, <3>4 DEF StatusInv, Status!Holds, Status!Category, Status!Categories
    <3>5. CASE code >= 500
        BY <1>0, <1>2, <3>5 DEF StatusInv, Status!Holds, Status!Category, Status!Categories
    <3> QED
        BY <1>0, <3>1, <3>2, <3>3, <3>4, <3>5
  <2>2. "ERROR" \in holds <=> code >= 400
      BY <1>0, <1>2 DEF StatusInv, Status!Holds, Status!Categories
  <2> QED
      BY <1>1, <1>2, <2>1, <2>2 DEF CategoriesAgree, Status!CategoriesAgree
<1>3. CASE code \notin 100 .. 599
    BY <1>0, <1>1, <1>3 DEF CategoriesAgree, Status!CategoriesAgree, StatusInv, Status!Holds,
                           Status!Category
<1> QED
    BY <1>2, <1>3

-----------------------------------------------------------------------------
(* The templates: whatever is called in whatever order, the heap, the       *)
(* handles and the answers are those of the family in use.                  *)
LEMMA LibraryInit == Library!Init => Library!TypeOK
BY DEF Library!Init, Library!TypeOK, Library!Answers

LEMMA LibraryStep == Library!TypeOK /\ [Library!Next]_library_vars => Library!TypeOK'
<1> SUFFICES ASSUME Library!TypeOK, [Library!Next]_library_vars PROVE Library!TypeOK'
    OBVIOUS
<1>0. /\ \A f \in family : f.does \in {"make", "make_out"} => f.what \in Library!Types(family)
      /\ \A f \in family : f.what \in Library!Answers(family)
      /\ {"SUCCESS", "true", "void", None} \cup Blocks \subseteq Library!Answers(family)
    BY DEF Library!Types, Library!Answers
<1>T. /\ heap \in [Blocks -> Library!Types(family) \cup {None}]
      /\ handles \in SUBSET Library!Handle
      /\ \A h \in handles : /\ h.client \in Clients /\ h.block \in Blocks
                            /\ h.type \in Library!Types(family) /\ h.alias \in BOOLEAN
      /\ crashed \in BOOLEAN /\ answer \in Library!Answers(family)
    BY DEF Library!TypeOK, Library!Handle
<1>1. ASSUME NEW c \in Clients, NEW b \in Blocks, Library!Make(c, b) PROVE Library!TypeOK'
  <2> DEFINE new(f) == [client |-> c, block |-> b, type |-> f.what, alias |-> FALSE]
  <2>1. PICK f \in family :
            /\ f.does \in {"make", "make_out"}
            /\ heap' = [heap EXCEPT ![b] = f.what]
            /\ handles' = handles \cup {new(f)}
            /\ answer' = IF f.does = "make" THEN b ELSE "true"
            /\ UNCHANGED <<family, crashed>>
      BY <1>1 DEF Library!Make, Library!NewHandle, Library!Doing
  <2>2. new(f) \in Library!Handle
      BY <1>0, <2>1 DEF Library!Handle
  <2> HIDE DEF new
  <2>3. Library!Handle' = Library!Handle
      BY <2>1 DEF Library!Handle
  <2> QED
      BY <1>0, <1>T, <2>1, <2>2, <2>3 DEF Library!TypeOK
<1>2. ASSUME NEW h \in handles, Library!GiveBack(h) \/ Library!FreeString(h) PROVE Library!TypeOK'
  <2>1. /\ heap' = [heap EXCEPT ![h.block] = None]
        /\ handles' = handles \ {h}
        /\ answer' \in {"SUCCESS", "void", answer}
        /\ crashed' \in BOOLEAN
        /\ UNCHANGED family
      BY <1>2, <1>T DEF Library!GiveBack, Library!FreeString, Library!Free, Library!Doing
  <2>2. Library!Handle' = Library!Handle
      BY <2>1 DEF Library!Handle
  <2> QED
      BY <1>0, <1>T, <2>1, <2>2 DEF Library!TypeOK
<1>3. ASSUME NEW h \in handles, Library!Same(h) PROVE Library!TypeOK'
  <2> DEFINE a == [h EXCEPT !.alias = TRUE]
  <2>1. /\ handles' = handles \cup {a}
        /\ answer' = h.block
        /\ UNCHANGED <<family, heap, crashed>>
      BY <1>3 DEF Library!Same, Library!Doing
  <2>2. a \in Library!Handle
      BY <1>T DEF Library!Handle
  <2> HIDE DEF a
  <2>3. Library!Handle' = Library!Handle
      BY <2>1 DEF Library!Handle
  <2> QED
      BY <1>0, <1>T, <2>1, <2>2, <2>3 DEF Library!TypeOK
<1>4. ASSUME heap' = heap, handles' = handles, family' = family,
             answer' \in Library!Answers(family), crashed' \in BOOLEAN
      PROVE  Library!TypeOK'
    BY <1>4 DEF Library!TypeOK, Library!Handle
<1>5. CASE Library!MakeFails \/ Library!Say
    BY <1>0, <1>4, <1>5, <1>T DEF Library!MakeFails, Library!Say, Library!Doing
<1>6. ASSUME NEW given \in BOOLEAN, Library!Store(given) PROVE Library!TypeOK'
    BY <1>0, <1>4, <1>6, <1>T DEF Library!Store, Library!Doing
<1>7. ASSUME NEW given \in BOOLEAN, Library!Fill(given) PROVE Library!TypeOK'
    BY <1>0, <1>4, <1>7, <1>T DEF Library!Fill, Library!Doing
<1>8. CASE UNCHANGED library_vars
    BY <1>4, <1>8, <1>T DEF library_vars
<1> QED
    BY <1>1, <1>2, <1>3, <1>5, <1>6, <1>7, <1>8 DEF Library!Next

-----------------------------------------------------------------------------
(* The threads that have loaded and not stored yet. *)
Pending == {t \in Threads : call[t] # None /\ ~ call[t].stored}

(* Calls that do not overlap are all counted, across zero and the largest   *)
(* number: the value of an atomic_counter_t that only one thread at a time  *)
(* was inside is the one that atomic operations would have given.           *)
SequentialCallsCount == value # None /\ ~ overlap => value = expected

(* There are no calls on a counter that does not exist; without an overlap  *)
(* at most one is under way, and it has loaded what is still there.         *)
AloneInv ==
    /\ value = None => \A t \in Threads : call[t] = None
    /\ ~ overlap => \A t, u \in Threads : call[t] # None /\ call[u] # None => t = u
    /\ ~ overlap => \A t \in Pending : call[t].loaded = value

CounterInv ==
    /\ Atomic!TypeOK
    /\ Len(changes) + Cardinality(Pending) <= MaxCalls
    /\ AloneInv
    /\ SequentialCallsCount

LEMMA CardinalityAgrees == \A S : Atomic!Cardinality(S) = Cardinality(S)
BY DEF Atomic!Cardinality, Cardinality

LEMMA PendingFinite == IsFiniteSet(Pending) /\ Cardinality(Pending) \in Nat
<1>1. Pending \subseteq Threads
    BY DEF Pending
<1> QED
    BY <1>1, CounterAssumption, FS_Subset, FS_CardinalityType

LEMMA CounterInit == Atomic!Init => CounterInv
<1> SUFFICES ASSUME Atomic!Init PROVE CounterInv
    OBVIOUS
<1> USE CounterAssumption DEF Atomic!Init
<1>1. Atomic!TypeOK
  <2>1. expected \in Atomic!Numbers /\ Len(changes) <= MaxCalls
      BY DEF Atomic!Numbers
  <2>2. overlap \in BOOLEAN
      OBVIOUS
  <2> QED
      BY <2>1, <2>2 DEF Atomic!TypeOK
<1>2. Pending = {}
    BY DEF Pending
<1>3. Len(changes) + Cardinality(Pending) <= MaxCalls
    BY <1>2, FS_EmptySet
<1> QED
    BY <1>1, <1>2, <1>3 DEF CounterInv, AloneInv, SequentialCallsCount

(* What the calls add is a number. *)
LEMMA CallsAdd == \A c \in Atomic!Calls : c.delta \in Atomic!Numbers /\ c.rereads \in BOOLEAN
<1> TAKE c \in Atomic!Calls
<1>1. CASE c = [delta |-> 1, rereads |-> FALSE]
    BY <1>1, CounterAssumption DEF Atomic!Numbers
<1>2. CASE c = [delta |-> Modulus - 1, rereads |-> FALSE]
    BY <1>2, CounterAssumption DEF Atomic!Numbers
<1>3. CASE \E d \in Deltas : c = [delta |-> d, rereads |-> TRUE]
    BY <1>3, CounterAssumption DEF Atomic!Numbers
<1> QED
    BY <1>1, <1>2, <1>3 DEF Atomic!Calls, Atomic!Increment, Atomic!Decrement, Atomic!Add

LEMMA CounterStep == CounterInv /\ [Atomic!Next]_counter_vars => CounterInv'
<1> SUFFICES ASSUME CounterInv, [Atomic!Next]_counter_vars PROVE CounterInv'
    OBVIOUS
<1> USE CounterAssumption
<1>N. \A a, b \in Atomic!Numbers : (a + b) % Modulus \in Atomic!Numbers
    BY DEF Atomic!Numbers
<1>I. Initial \subseteq Atomic!Numbers /\ Atomic!Numbers \subseteq Int /\ None \notin Atomic!Numbers
    BY DEF Atomic!Numbers
<1>T. /\ value \in Atomic!Numbers \cup {None}
      /\ call \in [Threads -> [change : Atomic!Calls, loaded : Atomic!Numbers, stored : BOOLEAN] \cup {None}]
      /\ expected \in Atomic!Numbers
      /\ changes \in Seq(Atomic!Numbers) /\ Len(changes) \in Nat
    BY DEF CounterInv, Atomic!TypeOK
<1>P. IsFiniteSet(Pending) /\ Cardinality(Pending) \in Nat
    BY PendingFinite
<1>1. ASSUME NEW n \in Initial, Atomic!Create(n) PROVE CounterInv'
  <2>0. overlap' \in BOOLEAN
      BY <1>1 DEF Atomic!Create
  <2>1. Atomic!TypeOK'
      BY <1>1, <2>0, <1>I DEF CounterInv, Atomic!TypeOK, Atomic!Create
  <2>2. Pending' = Pending /\ changes' = <<>>
      BY <1>1 DEF Pending, Atomic!Create
  <2>3. (Len(changes) + Cardinality(Pending) <= MaxCalls)'
      BY <2>2, <1>P, <1>T DEF CounterInv
  <2> QED
      BY <1>1, <2>1, <2>2, <2>3, <1>I
         DEF CounterInv, AloneInv, Atomic!Create, SequentialCallsCount, Pending
<1>2. CASE Atomic!Destroy
    BY <1>2 DEF CounterInv, Atomic!TypeOK, AloneInv, Atomic!Destroy, SequentialCallsCount, Pending
<1>3. ASSUME NEW t \in Threads, NEW change \in Atomic!Calls, Atomic!Load(t, change)
      PROVE  CounterInv'
  <2> DEFINE c == [change |-> change, loaded |-> value, stored |-> FALSE]
  <2>a. Atomic!Begun = Cardinality(Pending)
      BY CardinalityAgrees DEF Atomic!Begun, Pending
  <2>1. /\ value # None /\ call[t] = None
        /\ Len(changes) + Cardinality(Pending) < MaxCalls
        /\ call' = [call EXCEPT ![t] = c]
        /\ UNCHANGED <<value, returned, expected, starts, changes>>
      BY <1>3, <2>a DEF Atomic!Load, Atomic!Ready
  <2>0. /\ overlap' \in BOOLEAN
        /\ overlap' <=> overlap \/ \E u \in Threads \ {t} : call[u] # None
      BY <1>3 DEF Atomic!Load, Atomic!Met
  <2>2. c \in [change : Atomic!Calls, loaded : Atomic!Numbers, stored : BOOLEAN]
      BY <2>1, <1>T
  <2>3. Atomic!TypeOK'
      BY <2>0, <2>1, <2>2 DEF CounterInv, Atomic!TypeOK
  <2>4. Pending' \subseteq Pending \cup {t}
      BY <2>1, <1>T DEF Pending
  <2>5. Cardinality(Pending') <= Cardinality(Pending) + 1 /\ Cardinality(Pending') \in Nat
    <3>1. IsFiniteSet(Pending \cup {t}) /\ Cardinality(Pending \cup {t}) <= Cardinality(Pending) + 1
      <4>1. /\ IsFiniteSet(Pending \cup {t})
            /\ Cardinality(Pending \cup {t}) =
                 IF t \in Pending THEN Cardinality(Pending) ELSE Cardinality(Pending) + 1
          BY <1>P, FS_AddElement
      <4> QED
          BY <4>1, <1>P
    <3> QED
        BY <2>4, <3>1, <1>P, FS_Subset, FS_CardinalityType
  <2>6. (Len(changes) + Cardinality(Pending) <= MaxCalls)'
      BY <2>1, <2>5, <1>P, <1>T
  <2>7. AloneInv' /\ SequentialCallsCount'
      BY <2>0, <2>1, <1>T DEF CounterInv, AloneInv, SequentialCallsCount, Pending
  <2> QED
      BY <2>3, <2>6, <2>7 DEF CounterInv
<1>4. ASSUME NEW t \in Threads, Atomic!Store(t) PROVE CounterInv'
  <2> DEFINE d == call[t].change.delta
  <2>1. /\ call[t] # None /\ ~ call[t].stored
        /\ value' = (call[t].loaded + d) % Modulus
        /\ expected' = (expected + d) % Modulus
        /\ changes' = Append(changes, d)
        /\ call' = [call EXCEPT ![t].stored = TRUE]
        /\ UNCHANGED <<returned, starts, overlap>>
      BY <1>4 DEF Atomic!Store
  <2>2. /\ t \in Pending
        /\ call[t] \in [change : Atomic!Calls, loaded : Atomic!Numbers, stored : BOOLEAN]
        /\ call[t].loaded \in Atomic!Numbers /\ d \in Atomic!Numbers
      BY <2>1, <1>T, CallsAdd DEF Pending
  <2>3. value' \in Atomic!Numbers /\ expected' \in Atomic!Numbers
      BY <2>1, <2>2, <1>N, <1>T
  <2>4. Len(changes') = Len(changes) + 1 /\ changes' \in Seq(Atomic!Numbers)
      BY <2>1, <2>2, <1>T
  <2>5. call' \in [Threads -> [change : Atomic!Calls, loaded : Atomic!Numbers, stored : BOOLEAN] \cup {None}]
      BY <2>1, <2>2, <1>T
  <2>6. Pending' = Pending \ {t}
      BY <2>1, <2>2, <1>T DEF Pending
  <2>7. Cardinality(Pending') = Cardinality(Pending) - 1
      BY <2>2, <2>6, <1>P, FS_RemoveElement
  <2>8. Len(changes') + Cardinality(Pending') <= MaxCalls /\ Len(changes') <= MaxCalls
    <3>1. Cardinality(Pending) - 1 \in Nat
        BY <2>2, <1>P, FS_EmptySet
    <3> QED
        BY <2>4, <2>7, <3>1, <1>P, <1>T DEF CounterInv
  <2>9. Atomic!TypeOK'
      BY <2>1, <2>3, <2>4, <2>5, <2>8 DEF CounterInv, Atomic!TypeOK
  <2>10. AloneInv'
      BY <2>1, <2>2, <2>3, <2>5, <2>6, <1>I, <1>T DEF CounterInv, AloneInv, Pending
  <2>11. SequentialCallsCount'
      BY <2>1, <2>2, <1>I DEF CounterInv, AloneInv, SequentialCallsCount
  <2> QED
      BY <2>8, <2>9, <2>10, <2>11 DEF CounterInv
<1>5. ASSUME NEW t \in Threads, Atomic!Return(t) PROVE CounterInv'
  <2>1. /\ call[t] # None /\ call[t].stored
        /\ returned' = IF call[t].change.rereads THEN value
                       ELSE (call[t].loaded + call[t].change.delta) % Modulus
        /\ call' = [call EXCEPT ![t] = None]
        /\ UNCHANGED <<value, expected, starts, changes, overlap>>
      BY <1>5 DEF Atomic!Return
  <2>2. call[t].loaded \in Atomic!Numbers /\ call[t].change.delta \in Atomic!Numbers
      BY <2>1, <1>T, CallsAdd
  <2>3. returned' \in Atomic!Numbers \cup {None}
      BY <2>1, <2>2, <1>N, <1>T
  <2>4. Pending' = Pending
      BY <2>1, <1>T DEF Pending
  <2>5. Atomic!TypeOK'
      BY <2>1, <2>3 DEF CounterInv, Atomic!TypeOK
  <2>6. AloneInv' /\ SequentialCallsCount'
      BY <2>1, <2>4, <1>T DEF CounterInv, AloneInv, SequentialCallsCount, Pending
  <2> QED
      BY <2>1, <2>4, <2>5, <2>6 DEF CounterInv
<1>6. ASSUME NEW t \in Threads, Atomic!Get(t) PROVE CounterInv'
    BY <1>6, <1>T DEF Atomic!Get, Atomic!Ready, CounterInv, Atomic!TypeOK, AloneInv,
                      SequentialCallsCount, Pending
<1>7. ASSUME NEW t \in Threads, NEW n \in Initial, Atomic!Set(t, n) PROVE CounterInv'
  <2>1. /\ value # None /\ call[t] = None
        /\ value' = n /\ expected' = n
        /\ starts' = starts \cup {[number |-> n, set |-> TRUE]}
        /\ UNCHANGED <<call, returned, changes>>
      BY <1>7 DEF Atomic!Set, Atomic!Ready
  <2>0. /\ overlap' \in BOOLEAN
        /\ overlap' <=> overlap \/ \E u \in Threads \ {t} : call[u] # None
      BY <1>7 DEF Atomic!Set, Atomic!Met
  <2>2. n \in Atomic!Numbers /\ n # None
      BY <1>I
  <2>3. Atomic!TypeOK'
    <3>1. starts' \in SUBSET [number : Atomic!Numbers, set : BOOLEAN]
      <4>1. [number |-> n, set |-> TRUE] \in [number : Atomic!Numbers, set : BOOLEAN]
          BY <2>2
      <4>2. starts \in SUBSET [number : Atomic!Numbers, set : BOOLEAN]
          BY DEF CounterInv, Atomic!TypeOK
      <4> QED
          BY <2>1, <4>1, <4>2
    <3> QED
        BY <2>0, <2>1, <2>2, <3>1 DEF CounterInv, Atomic!TypeOK
  <2>4. Pending' = Pending
      BY <2>1 DEF Pending
  <2>5. AloneInv' /\ SequentialCallsCount'
      BY <2>0, <2>1, <2>2 DEF CounterInv, AloneInv, SequentialCallsCount, Pending
  <2> QED
      BY <2>1, <2>3, <2>4, <2>5 DEF CounterInv
<1>8. CASE UNCHANGED counter_vars
    BY <1>8 DEF counter_vars, CounterInv, Atomic!TypeOK, AloneInv, SequentialCallsCount, Pending
<1> QED
    BY <1>1, <1>2, <1>3, <1>4, <1>5, <1>6, <1>7, <1>8 DEF Atomic!Next

-----------------------------------------------------------------------------
(* What overlapping calls leave behind. *)

(* The changes at the places in S. *)
Of(c, S) == [i \in 1 .. Len(c) |-> IF i \in S THEN c[i] ELSE 0]

LEMMA TotalIsSum == \A S : Atomic!Total(S) = SumOf(Of(changes, S))
<1> TAKE S
<1> DEFINE s == [i \in 1 .. Len(changes) |-> IF i \in S THEN changes[i] ELSE 0]
<1>1. Atomic!Total(S) = Atomic!FoldLeft(LAMBDA n, m : n + m, 0, s)
    BY DEF Atomic!Total
<1> HIDE DEF s
<1>2. Atomic!FoldLeft(LAMBDA n, m : n + m, 0, s) = FoldLeft(LAMBDA n, m : n + m, 0, s)
    BY Zenon DEF Atomic!FoldLeft, Atomic!MapThenFoldSet, Atomic!Max, FoldLeft, MapThenFoldSet, Max
<1>3. s = Of(changes, S)
    BY DEF s, Of
<1> QED
    BY <1>1, <1>2, <1>3, Zenon DEF SumOf

(* One more change, left out or counted. *)
LEMMA OneMoreChange ==
    ASSUME NEW c \in Seq(Nat), NEW d \in Nat, NEW S \in SUBSET (1 .. Len(c))
    PROVE  /\ SumOf(Of(Append(c, d), S)) = SumOf(Of(c, S))
           /\ SumOf(Of(Append(c, d), S \cup {Len(c) + 1})) = SumOf(Of(c, S)) + d
           /\ SumOf(Of(c, S)) \in Nat
<1> DEFINE L == Len(c)
           a == Append(c, d)
<1>1. /\ L \in Nat /\ a \in Seq(Nat) /\ Len(a) = L + 1 /\ a[L + 1] = d
      /\ \A n \in 1 .. L : a[n] = c[n] /\ c[n] \in Nat
    BY LenProperties, AppendProperties, ElementOfSeq
<1> HIDE DEF a
<1>2. Of(c, S) \in Seq(Nat) /\ Len(Of(c, S)) = L /\ \A n \in 1 .. L : Of(c, S)[n] = IF n \in S THEN c[n] ELSE 0
    BY <1>1, IsASeq DEF Of
<1>3. ASSUME NEW T, NEW e \in Nat, \A n \in 1 .. L : n \in T <=> n \in S, e = IF L + 1 \in T THEN d ELSE 0
      PROVE  Of(a, T) = Append(Of(c, S), e)
  <2> DEFINE r == Append(Of(c, S), e)
             q == Of(a, T)
  <2>1. r \in Seq(Nat) /\ Len(r) = L + 1 /\ r[L + 1] = e /\ \A n \in 1 .. L : r[n] = Of(c, S)[n]
      BY <1>2, AppendProperties
  <2>2. /\ q \in Seq(Nat) /\ Len(q) = L + 1
        /\ \A n \in 1 .. L + 1 : q[n] = IF n \in T THEN a[n] ELSE 0
    <3>1. \A n \in 1 .. L + 1 : (IF n \in T THEN a[n] ELSE 0) \in Nat
        BY <1>1, ElementOfSeq
    <3> QED
        BY <1>1, <3>1, IsASeq DEF Of
  <2> HIDE DEF r, q
  <2>3. ASSUME NEW n \in 1 .. L + 1 PROVE q[n] = r[n]
    <3>1. CASE n = L + 1
        BY <1>1, <1>3, <2>1, <2>2, <3>1
    <3>2. CASE n \in 1 .. L
        BY <1>1, <1>2, <1>3, <2>1, <2>2, <3>2
    <3> QED
        BY <1>1, <3>1, <3>2
  <2>4. q = r
      BY <2>1, <2>2, <2>3, SeqEqual
  <2> QED
      BY <2>4 DEF q, r
<1>4. L + 1 \notin S /\ \A n \in 1 .. L : n # L + 1
    BY <1>1
<1>5. Of(a, S) = Append(Of(c, S), 0)
    BY <1>3, <1>4
<1>6. Of(a, S \cup {L + 1}) = Append(Of(c, S), d)
    BY <1>3, <1>4, SMTT(30)
<1>7. \A e \in Nat : SumOf(Append(Of(c, S), e)) = SumOf(Of(c, S)) + e /\ SumOf(Of(c, S)) \in Nat
    BY <1>2, SumOfAppend
<1>8. SumOf(Of(c, S)) \in Nat /\ SumOf(Of(a, S)) = SumOf(Of(c, S))
    BY <1>5, <1>7
<1>9. SumOf(Of(a, S \cup {L + 1})) = SumOf(Of(c, S)) + d
    BY <1>6, <1>7
<1> QED
    BY <1>8, <1>9 DEF a

LEMMA NoChange == \A c \in Seq(Nat) : SumOf(Of(c, {})) = 0
<1> SUFFICES ASSUME NEW c \in Seq(Nat) PROVE SumOf(Of(c, {})) = 0
    OBVIOUS
<1> DEFINE s == Of(c, {})
<1>1. s \in Seq(Nat) /\ \A n \in 1 .. Len(s) : s[n] = 0
    BY LenProperties, IsASeq DEF Of
<1> HIDE DEF s
<1> QED
    BY <1>1, SumOfZeros DEF s

(* v is what some of the changes make of one of the numbers in st ... *)
Made(v, st, c) ==
    \E s \in st, S \in SUBSET (1 .. Len(c)) : v = (s.number + SumOf(Of(c, S))) % Modulus

(* ... and not all of them are lost, unless that number was set. *)
SomeCount(v, st, c) ==
    \E s \in st, S \in SUBSET (1 .. Len(c)) :
        /\ v = (s.number + SumOf(Of(c, S))) % Modulus
        /\ S # {} \/ s.set \/ c = <<>>

(* What a thread has loaded and not stored yet was the value once, so it is *)
(* made of the changes stored by then; what it will store has its own       *)
(* change on top.                                                           *)
CountInv ==
    /\ CounterInv
    /\ value # None => SomeCount(value, starts, changes)
    /\ \A t \in Pending : Made(call[t].loaded, starts, changes)

LEMMA CountIsMade == \A v, st, c : SomeCount(v, st, c) => Made(v, st, c)
BY DEF SomeCount, Made

LEMMA MadeGrows ==
    ASSUME NEW v, NEW st, NEW su, st \subseteq su, NEW c \in Seq(Nat), NEW d \in Nat, Made(v, st, c)
    PROVE  Made(v, su, c) /\ Made(v, su, Append(c, d))
<1>1. PICK s \in st, S \in SUBSET (1 .. Len(c)) : v = (s.number + SumOf(Of(c, S))) % Modulus
    BY DEF Made
<1>2. SumOf(Of(Append(c, d), S)) = SumOf(Of(c, S))
    BY OneMoreChange
<1>3. S \in SUBSET (1 .. Len(Append(c, d)))
  <2>1. Len(c) \in Nat /\ Len(Append(c, d)) = Len(c) + 1
      BY LenProperties, AppendProperties
  <2> QED
      BY <2>1
<1>4. v = (s.number + SumOf(Of(Append(c, d), S))) % Modulus
    BY <1>1, <1>2, Zenon
<1>5. Made(v, su, c)
    BY <1>1 DEF Made
<1>6. Made(v, su, Append(c, d))
    BY <1>3, <1>4 DEF Made
<1> QED
    BY <1>5, <1>6

LEMMA CountGrows ==
    ASSUME NEW v, NEW st, NEW su, st \subseteq su, NEW c, SomeCount(v, st, c)
    PROVE  SomeCount(v, su, c)
BY DEF SomeCount

LEMMA StoredCounts ==
    ASSUME NEW v, NEW st \in SUBSET [number : Atomic!Numbers, set : BOOLEAN],
           NEW c \in Seq(Nat), NEW d \in Nat, Made(v, st, c)
    PROVE  SomeCount((v + d) % Modulus, st, Append(c, d))
<1>1. PICK s \in st, S \in SUBSET (1 .. Len(c)) : v = (s.number + SumOf(Of(c, S))) % Modulus
    BY DEF Made
<1> DEFINE T == S \cup {Len(c) + 1}
           x == s.number + SumOf(Of(c, S))
<1>2. SumOf(Of(Append(c, d), T)) = SumOf(Of(c, S)) + d /\ SumOf(Of(c, S)) \in Nat
    BY OneMoreChange
<1>3. s.number \in Nat /\ x \in Nat
    BY <1>2 DEF Atomic!Numbers
<1>4. T \in SUBSET (1 .. Len(Append(c, d))) /\ T # {}
  <2>1. Len(c) \in Nat /\ Len(Append(c, d)) = Len(c) + 1
      BY LenProperties, AppendProperties
  <2>2. Len(c) + 1 \in 1 .. Len(c) + 1 /\ 1 .. Len(c) \subseteq 1 .. Len(c) + 1
      BY <2>1
  <2> QED
      BY <2>1, <2>2
<1>5. s.number + SumOf(Of(Append(c, d), T)) = x + d
    BY <1>2, <1>3
<1> HIDE DEF T, x
<1>6. ((x % Modulus) + d) % Modulus = (x + d) % Modulus
    BY <1>3, CounterAssumption, RemainderOfSum
<1>7. (v + d) % Modulus = (s.number + SumOf(Of(Append(c, d), T))) % Modulus
    BY <1>1, <1>5, <1>6, Zenon DEF x
<1> QED
    BY <1>4, <1>7 DEF SomeCount

(* A number the counter was just created with or set to. *)
LEMMA FreshCounts ==
    ASSUME NEW n \in Atomic!Numbers, NEW st, NEW c \in Seq(Nat), NEW b \in BOOLEAN,
           [number |-> n, set |-> b] \in st, b \/ c = <<>>
    PROVE  SomeCount(n, st, c)
<1> DEFINE s == [number |-> n, set |-> b]
<1>1. s.number = n /\ s.set = b /\ n \in Nat
    BY DEF Atomic!Numbers
<1>2. SumOf(Of(c, {})) = 0
    BY NoChange
<1>3. n = (s.number + SumOf(Of(c, {}))) % Modulus
  <2>1. n % Modulus = n
      BY CounterAssumption DEF Atomic!Numbers
  <2> QED
      BY <1>1, <1>2, <2>1
<1>4. {} \in SUBSET (1 .. Len(c))
    OBVIOUS
<1> HIDE DEF s
<1> QED
    BY <1>1, <1>3, <1>4, Zenon DEF SomeCount, s

LEMMA CountInit == Atomic!Init => CountInv
<1> SUFFICES ASSUME Atomic!Init PROVE CountInv
    OBVIOUS
<1>1. Pending = {} /\ value = None
    BY DEF Pending, Atomic!Init
<1> QED
    BY <1>1, CounterInit DEF CountInv

LEMMA CountStep == CountInv /\ [Atomic!Next]_counter_vars => CountInv'
<1> SUFFICES ASSUME CountInv, [Atomic!Next]_counter_vars PROVE CountInv'
    OBVIOUS
<1>0. CounterInv /\ CounterInv'
    BY CounterStep DEF CountInv
<1>T. /\ Atomic!Numbers \subseteq Nat /\ None \notin Atomic!Numbers
      /\ value \in Atomic!Numbers \cup {None}
      /\ call \in [Threads -> [change : Atomic!Calls, loaded : Atomic!Numbers, stored : BOOLEAN] \cup {None}]
      /\ starts \in SUBSET [number : Atomic!Numbers, set : BOOLEAN]
      /\ changes \in Seq(Nat) /\ changes' \in Seq(Nat)
  <2>1. Atomic!Numbers \subseteq Nat /\ None \notin Atomic!Numbers
      BY CounterAssumption DEF Atomic!Numbers
  <2>2. changes \in Seq(Atomic!Numbers) /\ changes' \in Seq(Atomic!Numbers)
      BY <1>0 DEF CounterInv, Atomic!TypeOK
  <2>3. changes \in Seq(Nat) /\ changes' \in Seq(Nat)
      BY <2>1, <2>2, WiderSeq
  <2> QED
      BY <1>0, <2>1, <2>3 DEF CounterInv, Atomic!TypeOK
<1>C. /\ value # None => SomeCount(value, starts, changes)
      /\ \A t \in Pending : Made(call[t].loaded, starts, changes)
    BY DEF CountInv
<1> SUFFICES /\ value' # None => SomeCount(value', starts', changes')
             /\ \A t \in Pending' : Made(call'[t].loaded, starts', changes')
    BY <1>0 DEF CountInv
<1>1. ASSUME NEW n \in Initial, Atomic!Create(n)
      PROVE  /\ SomeCount(value', starts', changes') /\ Pending' = {}
  <2>1. /\ value = None /\ value' = n /\ starts' = {[number |-> n, set |-> FALSE]} /\ changes' = <<>>
        /\ call' = call
      BY <1>1 DEF Atomic!Create
  <2>2. Pending' = {}
      BY <1>0, <2>1 DEF CounterInv, AloneInv, Pending
  <2>3. n \in Atomic!Numbers
      BY CounterAssumption DEF Atomic!Numbers
  <2>4. SomeCount(n, starts', changes')
      BY <1>T, <2>1, <2>3, FreshCounts
  <2> QED
      BY <2>1, <2>2, <2>4
<1>2. CASE Atomic!Destroy
  <2>1. value' = None /\ call' = call /\ starts' = starts /\ changes' = changes
      BY <1>2 DEF Atomic!Destroy
  <2>2. Pending' = Pending
      BY <2>1 DEF Pending
  <2> QED
      BY <1>C, <2>1, <2>2
<1>3. ASSUME NEW t \in Threads, NEW change \in Atomic!Calls, Atomic!Load(t, change)
      PROVE  /\ value' # None => SomeCount(value', starts', changes')
             /\ \A u \in Pending' : Made(call'[u].loaded, starts', changes')
  <2>1. /\ value # None /\ value' = value /\ starts' = starts /\ changes' = changes
        /\ call' = [call EXCEPT ![t] = [change |-> change, loaded |-> value, stored |-> FALSE]]
      BY <1>3 DEF Atomic!Load, Atomic!Ready
  <2>2. Made(value, starts, changes)
      BY <1>C, <2>1, CountIsMade
  <2>3. call'[t].loaded = value /\ \A u \in Threads : u # t => call'[u] = call[u]
      BY <1>T, <2>1
  <2>4. \A u \in Pending' : u = t \/ u \in Pending
      BY <2>3 DEF Pending
  <2>5. \A u \in Pending' : u \in Threads
      BY DEF Pending
  <2> QED
      BY <1>C, <2>1, <2>2, <2>3, <2>4, <2>5
<1>4. ASSUME NEW t \in Threads, Atomic!Store(t)
      PROVE  /\ SomeCount(value', starts', changes')
             /\ \A u \in Pending' : Made(call'[u].loaded, starts', changes')
  <2> DEFINE d == call[t].change.delta
  <2>1. /\ call[t] # None /\ ~ call[t].stored
        /\ value' = (call[t].loaded + d) % Modulus
        /\ changes' = Append(changes, d)
        /\ call' = [call EXCEPT ![t].stored = TRUE]
        /\ starts' = starts
      BY <1>4 DEF Atomic!Store
  <2>2. t \in Pending /\ d \in Nat
      BY <1>T, <2>1, CallsAdd DEF Pending
  <2> HIDE DEF d
  <2>3. SomeCount(value', starts', changes')
      BY <1>C, <1>T, <2>1, <2>2, StoredCounts
  <2>4. \A u \in Pending' : u \in Pending /\ call'[u] = call[u]
    <3>1. call[t] \in [change : Atomic!Calls, loaded : Atomic!Numbers, stored : BOOLEAN]
        BY <1>T, <2>1
    <3>2. t \notin Pending'
        BY <1>T, <2>1, <3>1 DEF Pending
    <3> QED
        BY <1>T, <2>1, <3>2 DEF Pending
  <2>5. \A u \in Pending : Made(call[u].loaded, starts, Append(changes, d))
      BY <1>C, <1>T, <2>2, MadeGrows
  <2> QED
      BY <2>1, <2>3, <2>4, <2>5
<1>5. ASSUME NEW t \in Threads, Atomic!Return(t) \/ Atomic!Get(t)
      PROVE  /\ value' # None => SomeCount(value', starts', changes')
             /\ \A u \in Pending' : Made(call'[u].loaded, starts', changes')
  <2>1. /\ value' = value /\ starts' = starts /\ changes' = changes
        /\ call' = [call EXCEPT ![t] = None] \/ call' = call
      BY <1>5 DEF Atomic!Return, Atomic!Get
  <2>2. \A u \in Pending' : u \in Pending /\ call'[u] = call[u]
      BY <1>T, <2>1 DEF Pending
  <2> QED
      BY <1>C, <2>1, <2>2
<1>6. ASSUME NEW t \in Threads, NEW n \in Initial, Atomic!Set(t, n)
      PROVE  /\ SomeCount(value', starts', changes')
             /\ \A u \in Pending' : Made(call'[u].loaded, starts', changes')
  <2>1. /\ value' = n /\ starts' = starts \cup {[number |-> n, set |-> TRUE]}
        /\ changes' = changes /\ call' = call
      BY <1>6 DEF Atomic!Set
  <2>2. n \in Atomic!Numbers /\ [number |-> n, set |-> TRUE] \in starts' /\ starts \subseteq starts'
      BY <2>1, CounterAssumption DEF Atomic!Numbers
  <2>3. SomeCount(n, starts', changes')
      BY <1>T, <2>2, FreshCounts
  <2>4. Pending' = Pending
      BY <2>1 DEF Pending
  <2>5. \A u \in Pending : Made(call[u].loaded, starts', changes)
      BY <1>C, <1>T, <2>2, MadeGrows
  <2> QED
      BY <2>1, <2>3, <2>4, <2>5
<1>7. CASE UNCHANGED counter_vars
  <2>1. value' = value /\ starts' = starts /\ changes' = changes /\ call' = call
      BY <1>7 DEF counter_vars
  <2>2. Pending' = Pending
      BY <2>1 DEF Pending
  <2> QED
      BY <1>C, <2>1, <2>2
<1> QED
    BY <1>1, <1>2, <1>3, <1>4, <1>5, <1>6, <1>7 DEF Atomic!Next

LEMMA CountIsRight == CountInv => SomeCallsCount
<1> SUFFICES ASSUME CountInv, value # None
             PROVE  /\ ~ overlap => value = expected
                    /\ \E s \in starts, S \in SUBSET (1 .. Len(changes)) :
                          /\ value = (s.number + Atomic!Total(S)) % Modulus
                          /\ S # {} \/ s.set \/ changes = <<>>
    BY DEF SomeCallsCount, Atomic!SomeCallsCount
<1>1. ~ overlap => value = expected
    BY DEF CountInv, CounterInv, SequentialCallsCount
<1>2. PICK s \in starts, S \in SUBSET (1 .. Len(changes)) :
              /\ value = (s.number + SumOf(Of(changes, S))) % Modulus
              /\ S # {} \/ s.set \/ changes = <<>>
    BY DEF CountInv, SomeCount
<1>3. value = (s.number + Atomic!Total(S)) % Modulus
    BY <1>2, TotalIsSum, Zenon
<1> QED
    BY <1>1, <1>2, <1>3

-----------------------------------------------------------------------------
(* A behaviour of MCLibraries is, for each library, one of its own in which *)
(* it may stutter.                                                          *)
LEMMA LibrariesInit == MCInit => Init /\ Library!Init /\ Atomic!Init /\ Network!Init /\ Status!Init
BY DEF MCInit

LEMMA LibrariesStep ==
    ASSUME [MCNext]_MCvars
    PROVE  /\ [Next]_vars
           /\ [Library!Next]_library_vars
           /\ [Atomic!Next]_counter_vars
           /\ [Network!Next]_socket_vars
           /\ [Status!Next]_status_vars
<1>1. CASE MCNext
    BY <1>1, Zenon DEF MCNext
<1>2. CASE UNCHANGED MCvars
    BY <1>2 DEF MCvars
<1> QED
    BY <1>1, <1>2

(* tcp_close, tcp_server_stop, udp_close and the destroy functions never    *)
(* close a descriptor that the caller has not handed over or that was       *)
(* closed before, for any number of objects and descriptors.                *)
THEOREM OnlyOwnDescriptorsClosed == MCSpec => []NobodysDescriptorClosed
<1>1. MCInit => SocketsInv
    BY LibrariesInit, SocketsInit
<1>2. SocketsInv /\ [MCNext]_MCvars => SocketsInv'
    BY LibrariesStep, SocketsStep
<1>3. SocketsInv => NobodysDescriptorClosed
    BY DEF SocketsInv, NobodysDescriptorClosed, Network!NobodysDescriptorClosed
<1> QED
    BY <1>1, <1>2, <1>3, PTL DEF MCSpec

(* http_status_get_category, the http_status_is_... functions and the table *)
(* of messages agree on every code, however far the codes go.               *)
THEOREM StatusFunctionsAgree == MCSpec => []CategoriesAgree
<1>1. MCInit => StatusInv
    BY LibrariesInit, StatusInit
<1>2. StatusInv /\ [MCNext]_MCvars => StatusInv'
    BY LibrariesStep, StatusStep
<1> QED
    BY <1>1, <1>2, StatusAgrees, PTL DEF MCSpec

(* Calls on an atomic_counter_t may overlap in any way and number: one that *)
(* is lost is lost as a whole, the value being what some of them, applied   *)
(* once each, make of a number the counter was created with or set to, and  *)
(* without an overlap none is lost.                                         *)
THEOREM CallsAreLostOrCounted == MCSpec => []SomeCallsCount
<1>1. MCInit => CountInv
    BY LibrariesInit, CountInit
<1>2. CountInv /\ [MCNext]_MCvars => CountInv'
    BY LibrariesStep, CountStep
<1> QED
    BY <1>1, <1>2, CountIsRight, PTL DEF MCSpec

(* Calls of atomic_counter_increment, _decrement, _add and _set that do not *)
(* overlap are all counted, modulo 2^64, for any number of threads.         *)
THEOREM CallsThatDoNotOverlapCount == MCSpec => []SequentialCallsCount
<1>1. MCInit => CounterInv
    BY LibrariesInit, CounterInit
<1>2. CounterInv /\ [MCNext]_MCvars => CounterInv'
    BY LibrariesStep, CounterStep
<1>3. CounterInv => SequentialCallsCount
    BY DEF CounterInv
<1> QED
    BY <1>1, <1>2, <1>3, PTL DEF MCSpec

(* Every variable of the ten components keeps its type, for any constants, *)
(* the registry's with any number of registering threads.                   *)
THEOREM LibrariesTypeOK == MCSpec => []ComponentsTypeOK
<1> DEFINE AllInv == /\ Inv /\ Library!TypeOK /\ CounterInv /\ SocketsInv /\ StatusInv
                     /\ DistributedInv
<1>1. MCInit => AllInv
    BY LibrariesInit, CacheInit, LibraryInit, CounterInit, SocketsInit, StatusInit,
       DistributedTypes
<1>2. AllInv /\ [MCNext]_MCvars => AllInv'
    BY LibrariesStep, CacheStep, LibraryStep, CounterStep, SocketsStep, StatusStep,
       DistributedTypes
<1>3. AllInv => ComponentsTypeOK
    BY DistributedTypes DEF Inv, CounterInv, SocketsInv, StatusInv, ComponentsTypeOK
<1> QED
    BY <1>1, <1>2, <1>3, PTL DEF MCSpec
=============================================================================
