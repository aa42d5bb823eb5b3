----------------------------- MODULE WebProofs ------------------------------
(***************************************************************************)
(* Proofs about WebServer, for any connections, handlers, number of starts *)
(* and number of reused descriptors, and about Http, for any lines of a    *)
(* request, place where recv() cuts it and headers of the answer.  The     *)
(* circuit breaker's own theorems are in CircuitBreakerProofs; here its    *)
(* types join those of the server and the exchange.                        *)
(***************************************************************************)
EXTENDS CircuitBreakerProofs, ListLemmas

(* Outside webserver_stop the accepting thread exists exactly while the     *)
(* server runs, and only webserver_stop lets it leave its loop.  The        *)
(* application's thread has nothing left over between two calls.            *)
LoopInv ==
    /\ app.at \in {"idle", "registering"} => (is_running <=> loop # "off")
    /\ is_running => loop # "exited" /\ app.at \in {"idle", "registering"}
    /\ app.at = "idle" => app = Idle

ServerInv == TypeOK /\ LoopInv

LEMMA ServerInit == Init => ServerInv
<1> SUFFICES ASSUME Init PROVE ServerInv
    OBVIOUS
<1> USE BoundAssumption DEF Init, Idle, NothingRead
<1>1. TypeOK
  <2>1. starts \in 0 .. MaxStarts /\ reuses \in 0 .. MaxReuse
      OBVIOUS
  <2>2. freed \in BOOLEAN /\ is_running \in BOOLEAN /\ shut \in BOOLEAN /\ killed \in BOOLEAN
      OBVIOUS
  <2>3. app \in [at : App, destroying : BOOLEAN, fn : Handlers \cup {None}]
      BY DEF App
  <2>4. /\ conn \in [Connections -> Conn]
        /\ seen \in [Connections -> [fn : Handlers \cup {None}, data : Handlers \cup {None}]]
      BY DEF Conn
  <2> QED
      BY <2>1, <2>2, <2>3, <2>4 DEF TypeOK, Loop
<1>2. LoopInv
    BY DEF LoopInv
<1> QED
    BY <1>1, <1>2 DEF ServerInv

(* Each variable keeps its type in every step of the server. *)
LEMMA ServerTypeStep == TypeOK /\ [Next]_vars => TypeOK'
<1> SUFFICES ASSUME TypeOK, [Next]_vars PROVE TypeOK'
    OBVIOUS
<1> USE BoundAssumption DEF TypeOK, Conn, Loop, App, Idle, bounds, dispatch
<1>1. ASSUME NEW h \in Handlers \cup {None}, SetHandler(h) PROVE TypeOK'
    BY <1>1 DEF SetHandler
<1>2. CASE SetUserData
    BY <1>2 DEF SetUserData
<1>3. CASE Start
  <2>1. starts' \in 0 .. MaxStarts
      BY <1>3 DEF Start
  <2>2. is_running' \in BOOLEAN /\ shut' \in BOOLEAN
      BY <1>3 DEF Start
  <2> QED
      BY <1>3, <2>1, <2>2 DEF Start
<1>3a. CASE StartFails
    BY <1>3a DEF StartFails
<1>4. ASSUME NEW d \in BOOLEAN, StopBegin(d) PROVE TypeOK'
    BY <1>4 DEF StopBegin
<1>5. CASE Shutdown
    BY <1>5 DEF Shutdown, Reset
<1>5a. CASE CloseSocket
    BY <1>5a DEF CloseSocket
<1>5b. CASE JoinLoop
    BY <1>5b DEF JoinLoop
<1>6. CASE Destroy
    BY <1>6 DEF Destroy
<1>6a. CASE ReuseNumber
    BY <1>6a DEF ReuseNumber
<1>7. CASE LoopTest \/ EnterAccept \/ AcceptFails
    BY <1>7 DEF LoopTest, EnterAccept, AcceptFails
<1>8. ASSUME NEW i \in Connections,
             Connect(i) \/ Accept(i) \/ AcceptForeign(i) \/ Spawn(i) \/ SpawnFails(i)
      PROVE  TypeOK'
    BY <1>8 DEF Connect, Accept, AcceptForeign, Spawn, SpawnFails
<1>9. ASSUME NEW i \in Connections, ClientStep(i) PROVE TypeOK'
  <2>1. CASE Receive(i, TRUE) \/ Receive(i, FALSE) \/ ReadHandler(i)
      BY <2>1, SMTT(30) DEF Receive, ReadHandler, Read
  <2>2. CASE CallHandler(i)
    <3>0. /\ seen[i].fn \in Handlers \cup {None}
          /\ Read(handler) \subseteq Handlers \cup {None} /\ Read(user_data) \subseteq Handlers \cup {None}
        BY DEF Read
    <3>1. PICK fn \in {seen[i].fn} \cup Read(handler), data \in Read(user_data) :
              /\ seen' = [seen EXCEPT ![i] = [fn |-> fn, data |-> data]]
              /\ killed' = (fn = None)
              /\ conn' = [conn EXCEPT ![i] = IF fn = None THEN conn[i] ELSE "handling"]
        BY <2>2, Zenon DEF CallHandler
    <3>2. killed' \in BOOLEAN
        BY <3>1
    <3>3. conn' \in [Connections -> Conn]
        BY <3>1
    <3>4. seen' \in [Connections -> [fn : Handlers \cup {None}, data : Handlers \cup {None}]]
        BY <3>0, <3>1
    <3> QED
        BY <2>2, <3>2, <3>3, <3>4 DEF CallHandler
  <2>3. CASE Respond(i)
      BY <2>3 DEF Respond, NothingRead
  <2>4. CASE BrokenPipe(i)
    <3>1. killed' \in BOOLEAN
        BY <2>4 DEF BrokenPipe
    <3> QED
        BY <2>4, <3>1 DEF BrokenPipe
  <2> QED
      BY <1>9, <2>1, <2>2, <2>3, <2>4 DEF ClientStep
<1>10. CASE UNCHANGED vars
    BY <1>10 DEF vars
<1> QED
    BY <1>1, <1>2, <1>3, <1>4, <1>5, <1>6, <1>7, <1>8, <1>9, <1>10,
       <1>3a, <1>5a, <1>5b, <1>6a DEF Next, LoopStep, StopStep

(* The actions of the accepting thread, of webserver_start and of           *)
(* webserver_stop keep LoopInv; nobody else writes what it is about.        *)
LEMMA LoopInvStep == TypeOK /\ LoopInv /\ [Next]_vars => LoopInv'
<1> SUFFICES ASSUME TypeOK, LoopInv, [Next]_vars PROVE LoopInv'
    OBVIOUS
<1> USE DEF LoopInv, Idle
<1>0. app.at \in App /\ loop \in Loop /\ is_running \in BOOLEAN
    BY DEF TypeOK
<1>1. ASSUME NEW h \in Handlers \cup {None}, SetHandler(h) PROVE LoopInv'
  <2>1. app'.at = "registering" /\ app.at = "idle"
      BY <1>1 DEF SetHandler, TypeOK
  <2> QED
      BY <1>1, <2>1 DEF SetHandler
<1>2. CASE SetUserData
    BY <1>2 DEF SetUserData
<1>3. CASE Start
    BY <1>3 DEF Start
<1>4. CASE StartFails
    BY <1>4 DEF StartFails
<1>5. ASSUME NEW d \in BOOLEAN, StopBegin(d) PROVE LoopInv'
  <2>1. app'.at = "stopping"
      BY <1>5 DEF StopBegin, TypeOK
  <2> QED
      BY <1>5, <2>1 DEF StopBegin
<1>6. CASE Shutdown
  <2>1. app'.at = "closing"
      BY <1>6 DEF Shutdown, TypeOK
  <2> QED
      BY <1>6, <2>1 DEF Shutdown
<1>7. CASE CloseSocket
  <2>1. app'.at = "joining"
      BY <1>7 DEF CloseSocket, TypeOK
  <2> QED
      BY <1>7, <2>1 DEF CloseSocket
<1>8. CASE JoinLoop
    BY <1>8 DEF JoinLoop
<1>9. CASE Destroy \/ ReuseNumber
    BY <1>9 DEF Destroy, ReuseNumber
<1>10. CASE LoopTest
    BY <1>0, <1>10 DEF LoopTest, App
<1>11. CASE EnterAccept
    BY <1>11 DEF EnterAccept
<1>12. CASE AcceptFails
    BY <1>12 DEF AcceptFails
<1>13. ASSUME NEW i \in Connections,
              Connect(i) \/ Accept(i) \/ AcceptForeign(i) \/ Spawn(i) \/ SpawnFails(i)
       PROVE  LoopInv'
    BY <1>13 DEF Connect, Accept, AcceptForeign, Spawn, SpawnFails
<1>14. ASSUME NEW i \in Connections, ClientStep(i) PROVE LoopInv'
    BY <1>14 DEF ClientStep, Receive, ReadHandler, CallHandler, Respond, BrokenPipe
<1>15. CASE UNCHANGED vars
    BY <1>15 DEF vars
<1> QED
    BY <1>1, <1>2, <1>3, <1>4, <1>5, <1>6, <1>7, <1>8, <1>9, <1>10, <1>11, <1>12, <1>13, <1>14,
       <1>15 DEF Next, StopStep, LoopStep

LEMMA ServerStep == ServerInv /\ [Next]_vars => ServerInv'
BY ServerTypeStep, LoopInvStep DEF ServerInv

(* The accepting thread takes a connection only while it exists, which      *)
(* outside webserver_stop is while the server runs.                         *)
LEMMA AcceptedWhileRunning ==
    ASSUME ServerInv, Next, NEW i \in Connections,
           conn'[i] \in {"accepted", "started"}, conn[i] # conn'[i]
    PROVE  is_running \/ app # Idle
<1>1. \/ loop \in {"blocked", "stray", "got"}
      \/ conn' = conn
      \/ \A j \in Connections : conn'[j] \in {"accepted", "started"} => conn'[j] = conn[j]
  <2> USE DEF ServerInv, TypeOK
  <2>1. CASE \E h \in Handlers \cup {None} : SetHandler(h)
      BY <2>1 DEF SetHandler
  <2>2. CASE SetUserData \/ Start \/ StartFails \/ CloseSocket \/ JoinLoop \/ Destroy \/ ReuseNumber
      BY <2>2 DEF SetUserData, Start, StartFails, CloseSocket, JoinLoop, Destroy, ReuseNumber
  <2>3. CASE \E d \in BOOLEAN : StopBegin(d)
      BY <2>3 DEF StopBegin
  <2>4. CASE Shutdown
      BY <2>4 DEF Shutdown, Reset
  <2>5. CASE LoopTest \/ EnterAccept \/ AcceptFails
      BY <2>5 DEF LoopTest, EnterAccept, AcceptFails
  <2>6. CASE \E j \in Connections : Accept(j) \/ AcceptForeign(j) \/ Spawn(j) \/ SpawnFails(j)
      BY <2>6 DEF Accept, AcceptForeign, Spawn, SpawnFails
  <2>7. CASE \E j \in Connections : Connect(j) \/ ClientStep(j)
      BY <2>7 DEF Connect, ClientStep, Receive, ReadHandler, CallHandler, Respond, BrokenPipe
  <2> QED
      BY <2>1, <2>2, <2>3, <2>4, <2>5, <2>6, <2>7 DEF Next, StopStep, LoopStep
<1>2. loop # "off"
    BY <1>1
<1> QED
    BY <1>2 DEF ServerInv, LoopInv, Idle

-----------------------------------------------------------------------------
(* Once webserver_stop has returned, nothing is accepted and no connection  *)
(* thread started before the next webserver_start.                          *)
THEOREM StoppedServerAcceptsNothing == Spec => NothingAcceptedAfterStop
<1> DEFINE Allowed == \A i \in Connections :
                          conn'[i] \in {"accepted", "started"} /\ conn[i] # conn'[i]
                          => is_running \/ app # Idle
<1>1. ServerInv /\ [Next]_vars => [Allowed]_vars
    BY AcceptedWhileRunning
<1> QED
    BY <1>1, ServerInit, ServerStep, PTL DEF Spec, NothingAcceptedAfterStop

-----------------------------------------------------------------------------
(* One exchange: the headers that http_request_parse fills in. *)

Line == Names \cup {None, Blank}
Header == [name : Names \cup {None}, value : 0 .. MaxLines]

LEMMA LinesAre ==
    /\ \A l \in Exchange!Lines : l \in Seq(Line) /\ Len(l) \in 0 .. MaxLines
    /\ \A l \in Seq(Line) : Len(l) \in 0 .. MaxLines => l \in Exchange!Lines
<1>1. Exchange!Lines = UNION {[1 .. m -> Line] : m \in 0 .. MaxLines}
    BY DEF Exchange!Lines, Exchange!SeqOf, Line
<1>2. ASSUME NEW l \in Exchange!Lines PROVE l \in Seq(Line) /\ Len(l) \in 0 .. MaxLines
  <2>1. PICK m \in 0 .. MaxLines : l \in [1 .. m -> Line]
      BY <1>1, <1>2
  <2>2. m \in Nat
      BY ExchangeAssumption
  <2>3. l \in Seq(Line)
      BY <2>1, <2>2, SeqDef
  <2>4. Len(l) = m
      BY <2>1, <2>2, <2>3, LenProperties
  <2> QED
      BY <2>3, <2>4
<1>3. ASSUME NEW l \in Seq(Line), Len(l) \in 0 .. MaxLines PROVE l \in Exchange!Lines
  <2>1. l \in [1 .. Len(l) -> Line]
      BY LenProperties
  <2> QED
      BY <1>1, <1>3, <2>1
<1> QED
    BY <1>2, <1>3

(* The places of the array that the loop over the lines fills. *)
Filled(lines) == Exchange!FoldLeft(Exchange!FillIn, <<>>, Exchange!HeaderLines(lines))

(* What hs is after the first n lines: their headers, in their order. *)
FilledTo(hs, lines, n) ==
    /\ hs \in Seq(Header) /\ Len(hs) <= n
    /\ \A a \in 1 .. Len(hs) : /\ hs[a].value \in 1 .. n
                               /\ hs[a].name = lines[hs[a].value] /\ hs[a].name \in Names
    /\ \A a, b \in 1 .. Len(hs) : a < b => hs[a].value < hs[b].value
    /\ \A i \in 1 .. n : lines[i] \in Names => \E a \in 1 .. Len(hs) : hs[a].value = i

LEMMA FillSteps ==
    ASSUME NEW lines \in Seq(Line), Len(lines) \in 0 .. MaxLines
    PROVE  \E f \in [0 .. Len(lines) -> Seq(Header)] :
              /\ f[0] = <<>>
              /\ \A n \in 1 .. Len(lines) : f[n] = Exchange!FillIn(f[n - 1], [name |-> lines[n], value |-> n])
              /\ Filled(lines) = f[Len(lines)]
<1> DEFINE hl == Exchange!HeaderLines(lines)
           N == Len(lines)
           H == Seq(Header)
           G == [n \in 1 .. N |-> [v \in H |-> Exchange!FillIn(v, hl[n])]]
<1>1. N \in Nat /\ \A n \in 1 .. N : lines[n] \in Line
    BY LenProperties, ElementOfSeq
<1>a. /\ DOMAIN hl = 1 .. N
      /\ \A n \in 1 .. N : /\ hl[n] = [name |-> lines[n], value |-> n]
                           /\ hl[n].name \notin {None, Blank} => hl[n] \in Header
  <2>1. \A n \in 1 .. N : n \in 0 .. MaxLines /\ lines[n] \in Line
      BY <1>1, ExchangeAssumption
  <2>2. DOMAIN hl = 1 .. N /\ \A n \in 1 .. N : hl[n] = [name |-> lines[n], value |-> n]
      BY DEF Exchange!HeaderLines
  <2>3. \A n \in 1 .. N : lines[n] \notin {None, Blank} => [name |-> lines[n], value |-> n] \in Header
      BY <2>1 DEF Header, Line
  <2> QED
      BY <2>2, <2>3
<1> HIDE DEF hl
<1>b. \A n \in 1 .. N, v \in H : Exchange!FillIn(v, hl[n]) \in H
    BY <1>a, AppendProperties DEF Exchange!FillIn
<1>2. G \in [1 .. N -> [H -> H]] /\ \A n \in 1 .. N, v \in H : G[n][v] = Exchange!FillIn(v, hl[n])
    BY <1>b
<1>c. <<>> \in H
    OBVIOUS
<1> HIDE DEF G, H
<1>3. PICK g \in [SUBSET (1 .. N) -> H] : Folds(g, <<>>, G, N)
    BY <1>1, <1>2, <1>c, FoldExists
<1>4. g = [t \in SUBSET (DOMAIN hl) |->
             IF t = {} THEN <<>> ELSE Exchange!FillIn(g[t \ {Max(t)}], hl[Max(t)])]
  <2> SUFFICES ASSUME NEW t \in SUBSET (1 .. N), t # {}
               PROVE  g[t] = Exchange!FillIn(g[t \ {Max(t)}], hl[Max(t)])
      BY <1>a, <1>3 DEF Folds
  <2>1. Max(t) \in 1 .. N /\ g[t \ {Max(t)}] \in H
      BY <1>1, GreatestIsMax
  <2> QED
      BY <1>2, <1>3, <2>1 DEF Folds
<1>5. PICK h : /\ h = [t \in SUBSET (DOMAIN hl) |->
                         IF t = {} THEN <<>> ELSE Exchange!FillIn(h[t \ {Max(t)}], hl[Max(t)])]
               /\ Filled(lines) = h[DOMAIN hl]
    BY <1>4, Zenon DEF Filled, hl, Exchange!FoldLeft, Exchange!MapThenFoldSet, Exchange!Max, Max
<1> DEFINE f == [n \in 0 .. N |-> h[1 .. n]]
<1>6. f[0] = <<>>
    BY <1>1, <1>5
<1>7. \A n \in 1 .. N : f[n] = Exchange!FillIn(f[n - 1], hl[n])
  <2> SUFFICES ASSUME NEW n \in 1 .. N PROVE h[1 .. n] = Exchange!FillIn(h[1 .. n - 1], hl[n])
      BY <1>1
  <2>1. 1 .. n # {} /\ Max(1 .. n) = n /\ (1 .. n) \ {n} = 1 .. n - 1
      BY MaxOfInterval, SMTT(30)
  <2>2. 1 .. n \in SUBSET (DOMAIN hl)
      BY <1>1, <1>a
  <2> QED
      BY <1>5, <2>1, <2>2
<1>8. Filled(lines) = f[N]
    BY <1>1, <1>a, <1>5
<1>9. f \in [0 .. N -> H]
  <2>1. f = [n \in 0 .. N |-> f[n]]
      OBVIOUS
  <2> HIDE DEF f
  <2>2. \A n \in 1 .. N : f[n - 1] \in H => f[n] \in H
      BY <1>b, <1>7
  <2>3. f[0] \in H
      BY <1>6, <1>c
  <2> QED
      BY <1>1, <2>1, <2>2, <2>3, StepsTyped, Zenon
<1> HIDE DEF f
<1> QED
    BY <1>a, <1>6, <1>7, <1>8, <1>9 DEF H

LEMMA FilledIs ==
    ASSUME NEW lines \in Seq(Line), Len(lines) \in 0 .. MaxLines
    PROVE  FilledTo(Filled(lines), lines, Len(lines))
<1> DEFINE N == Len(lines)
<1>1. N \in Nat /\ MaxLines \in Nat /\ N <= MaxLines /\ \A n \in 1 .. N : lines[n] \in Line
    BY LenProperties, ElementOfSeq, ExchangeAssumption
<1>2. PICK f \in [0 .. N -> Seq(Header)] :
              /\ f[0] = <<>>
              /\ \A n \in 1 .. N : f[n] = Exchange!FillIn(f[n - 1], [name |-> lines[n], value |-> n])
              /\ Filled(lines) = f[N]
    BY FillSteps
<1> DEFINE S == {n \in 0 .. N : FilledTo(f[n], lines, n)}
<1>3. 0 \in S
  <2>1. 0 \in 0 .. N /\ f[0] = <<>> /\ <<>> \in Seq(Header) /\ Len(<<>>) = 0
      BY <1>1, <1>2
  <2>2. 1 .. 0 = {}
      OBVIOUS
  <2> QED
      BY <2>1, <2>2 DEF FilledTo
<1>4. ASSUME NEW n \in 1 .. N, n - 1 \in S PROVE n \in S
  <2> DEFINE e == [name |-> lines[n], value |-> n]
             hs == f[n - 1]
             L == Len(hs)
  <2>0. n \in 0 .. N /\ n - 1 \in Nat /\ n \in Nat
      BY <1>1
  <2>1. FilledTo(hs, lines, n - 1)
      BY <1>4
  <2>2. /\ e.name = lines[n] /\ e.value = n
        /\ e.name \in Names => e \in Header
      BY <1>1 DEF Header
  <2>3. f[n] = IF e.name \in Names THEN Append(hs, e) ELSE hs
    <3>1. f[n] = IF e.name \in {None, Blank} THEN hs ELSE Append(hs, e)
        BY <1>2 DEF Exchange!FillIn
    <3>2. lines[n] \in {None, Blank} <=> lines[n] \notin Names
        BY <1>1, ExchangeAssumption DEF Line
    <3> QED
        BY <3>1, <3>2
  <2> HIDE DEF e, hs
  <2>4. /\ hs \in Seq(Header) /\ L \in Nat /\ L <= n - 1
        /\ \A a \in 1 .. L : hs[a].value \in 1 .. n - 1 /\ hs[a].name = lines[hs[a].value] /\ hs[a].name \in Names
        /\ \A a, b \in 1 .. L : a < b => hs[a].value < hs[b].value
        /\ \A i \in 1 .. n - 1 : lines[i] \in Names => \E a \in 1 .. L : hs[a].value = i
      BY <2>1, LenProperties DEF FilledTo
  <2>5. \A i \in 1 .. n : i = n \/ i \in 1 .. n - 1
      BY <2>0
  <2>6. \A i \in 1 .. n - 1 : i \in 1 .. n /\ i < n
      BY <2>0
  <2>7. CASE e.name \notin Names
    <3>1. f[n] = hs /\ lines[n] \notin Names
        BY <2>2, <2>3, <2>7
    <3>2. L <= n
        BY <2>0, <2>4
    <3>3. \A a \in 1 .. L : hs[a].value \in 1 .. n
        BY <2>4, <2>6
    <3>4. \A i \in 1 .. n : lines[i] \in Names => \E a \in 1 .. L : hs[a].value = i
        BY <2>4, <2>5, <3>1
    <3>5. FilledTo(hs, lines, n)
        BY <2>4, <3>2, <3>3, <3>4 DEF FilledTo
    <3> QED
        BY <2>0, <3>1, <3>5
  <2>8. CASE e.name \in Names
    <3> DEFINE r == Append(hs, e)
    <3>1. /\ r \in Seq(Header) /\ Len(r) = L + 1 /\ r[L + 1] = e
          /\ \A a \in 1 .. L : r[a] = hs[a]
        BY <2>2, <2>4, <2>8, AppendProperties
    <3>2. f[n] = r
        BY <2>3, <2>8
    <3> HIDE DEF r, L
    <3>3. /\ \A a \in 1 .. L + 1 : a = L + 1 \/ a \in 1 .. L
          /\ \A a \in 1 .. L : a \in 1 .. L + 1
          /\ L + 1 \in 1 .. L + 1 /\ L + 1 <= n
          /\ n \in 1 .. n
        BY <2>0, <2>4
    <3>4. \A a \in 1 .. L + 1 : r[a].value \in 1 .. n /\ r[a].name = lines[r[a].value] /\ r[a].name \in Names
      <4> SUFFICES ASSUME NEW a \in 1 .. L + 1
                   PROVE  r[a].value \in 1 .. n /\ r[a].name = lines[r[a].value] /\ r[a].name \in Names
          OBVIOUS
      <4>1. CASE a = L + 1
          BY <2>2, <2>8, <3>1, <3>3, <4>1
      <4>2. CASE a \in 1 .. L
          BY <2>4, <2>6, <3>1, <4>2
      <4> QED
          BY <3>3, <4>1, <4>2
    <3>5. \A a, b \in 1 .. L + 1 : a < b => r[a].value < r[b].value
      <4> SUFFICES ASSUME NEW a \in 1 .. L + 1, NEW b \in 1 .. L + 1, a < b
                   PROVE  r[a].value < r[b].value
          OBVIOUS
      <4>1. a \in 1 .. L
          BY <2>4
      <4>2. CASE b = L + 1
          BY <2>2, <2>4, <2>6, <3>1, <4>1, <4>2
      <4>3. CASE b \in 1 .. L
          BY <2>4, <3>1, <4>1, <4>3
      <4> QED
          BY <3>3, <4>2, <4>3
    <3>6. ASSUME NEW i \in 1 .. n, lines[i] \in Names PROVE \E a \in 1 .. L + 1 : r[a].value = i
      <4>1. CASE i = n
          BY <2>2, <3>1, <3>3, <4>1
      <4>2. CASE i \in 1 .. n - 1
        <5>1. PICK a \in 1 .. L : hs[a].value = i
            BY <2>4, <3>6, <4>2
        <5> QED
            BY <3>1, <3>3, <5>1
      <4> QED
          BY <2>5, <4>1, <4>2
    <3>7. FilledTo(r, lines, n)
        BY <3>1, <3>3, <3>4, <3>5, <3>6 DEF FilledTo
    <3> QED
        BY <2>0, <3>2, <3>7
  <2> QED
      BY <2>7, <2>8
<1> HIDE DEF S
<1>5. \A n \in 0 .. N : n \in S
  <2>1. \A n \in 1 .. N : n - 1 \in S => n \in S
      BY <1>4
  <2> QED
      BY <1>1, <1>3, <2>1, UpTo, Zenon
<1>6. N \in S
    BY <1>1, <1>5
<1> QED
    BY <1>2, <1>6 DEF S

(* The array: the filled places, then NULL names. *)
LEMMA HeadersAre ==
    ASSUME NEW lines \in Seq(Line), Len(lines) \in 0 .. MaxLines
    PROVE  LET hs == Exchange!HeadersOf(lines)
               f == Filled(lines)
           IN  /\ hs \in Seq(Header) /\ Len(f) <= Len(hs)
               /\ \A a \in 1 .. Len(f) : hs[a] = f[a]
               /\ \A a \in Len(f) + 1 .. Len(hs) : hs[a].value = 0
<1> DEFINE f == Filled(lines)
           N == Len(lines)
           nul == [name |-> None, value |-> 0]
           pad == [i \in 1 .. N - Len(f) |-> nul]
           hs == Exchange!HeadersOf(lines)
<1>1. hs = f \o pad
    BY DEF Exchange!HeadersOf, Filled
<1>2. f \in Seq(Header) /\ Len(f) \in Nat /\ N - Len(f) \in Nat
    BY FilledIs, LenProperties DEF FilledTo
<1>3. nul \in Header /\ nul.value = 0
    BY ExchangeAssumption DEF Header
<1> HIDE DEF nul, f
<1>4. pad \in Seq(Header) /\ Len(pad) = N - Len(f) /\ \A i \in 1 .. N - Len(f) : pad[i] = nul
    BY <1>2, <1>3, IsASeq
<1> HIDE DEF pad
<1>5. /\ f \o pad \in Seq(Header) /\ Len(f \o pad) = Len(f) + Len(pad)
      /\ \A i \in 1 .. Len(f) + Len(pad) : (f \o pad)[i] = IF i <= Len(f) THEN f[i] ELSE pad[i - Len(f)]
    BY <1>2, <1>4, ConcatProperties
<1> HIDE DEF hs
<1>6. /\ hs \in Seq(Header) /\ Len(hs) = N
      /\ \A i \in 1 .. N : hs[i] = IF i <= Len(f) THEN f[i] ELSE pad[i - Len(f)]
  <2>1. N \in Nat /\ Len(f) + (N - Len(f)) = N
      BY <1>2, LenProperties
  <2> QED
      BY <1>1, <1>4, <1>5, <2>1
<1>7. Len(f) <= N /\ \A a \in 1 .. Len(f) : a \in 1 .. N /\ a <= Len(f)
    BY <1>2
<1>8. \A a \in Len(f) + 1 .. N : a \in 1 .. N /\ ~ (a <= Len(f)) /\ a - Len(f) \in 1 .. N - Len(f)
    BY <1>2
<1>9. \A a \in Len(f) + 1 .. N : hs[a].value = 0
    BY <1>3, <1>4, <1>6, <1>8
<1> QED
    BY <1>6, <1>7, <1>9 DEF hs, f

-----------------------------------------------------------------------------
(* What http_response_serialize allocates and writes. *)

LEMMA SameSum == \A s : Exchange!Sum(s) = SumOf(s)
<1> TAKE s
<1>1. Exchange!FoldLeft(LAMBDA n, m : n + m, 0, s) = FoldLeft(LAMBDA n, m : n + m, 0, s)
    BY Zenon DEF Exchange!FoldLeft, Exchange!MapThenFoldSet, Exchange!Max, FoldLeft, MapThenFoldSet, Max
<1> QED
    BY <1>1, Zenon DEF SumOf, Exchange!Sum

Answer == [message : Nat, headers : Seq(Nat), body_length : Nat]

(* The lengths written, and the sums of the first of them: with y for the   *)
(* headers alone.                                                           *)
LEMMA WrittenSums ==
    ASSUME response \in Answer
    PROVE  \E y :
              /\ y \in [0 .. Len(response.headers) -> Nat]
              /\ \A n \in 0 .. Len(response.headers) : y[n] <= y[Len(response.headers)]
              /\ Exchange!Size = 256 + y[Len(response.headers)] + response.body_length + 4
              /\ Len(Exchange!Written) = Len(response.headers) + 2
              /\ Exchange!Written[1] \in Nat
              /\ \A n \in 1 .. Len(response.headers) + 1 :
                    Exchange!Offset(n) = Exchange!Written[1] + y[n - 1]
              /\ Exchange!Offset(Len(response.headers) + 2) =
                    Exchange!Written[1] + y[Len(response.headers)] + 2
<1> DEFINE K == Len(response.headers)
           x == 9 + 3 + 1 + response.message + 2
           hw == [i \in 1 .. K |-> response.headers[i] + 4]
           w == Exchange!Written
<1>1. /\ response.headers \in Seq(Nat) /\ K \in Nat /\ x \in Nat /\ response.body_length \in Nat
      /\ \A i \in 1 .. K : response.headers[i] + 4 \in Nat
    BY LenProperties, ElementOfSeq DEF Answer
<1>2. hw \in Seq(Nat) /\ Len(hw) = K
    BY <1>1, IsASeq
<1>3. w = (<<x>> \o hw) \o << 2 >>
    BY DEF Exchange!Written
<1>4. Exchange!Size = 256 + SumOf(hw) + response.body_length + 4
    BY SameSum DEF Exchange!Size
<1>5. \A n : Exchange!Offset(n) = SumOf(SubSeq(w, 1, n))
    BY SameSum DEF Exchange!Offset
<1> HIDE DEF hw, x
<1>6. PICK y : SumsTo(y, hw) /\ SumOf(hw) = y[K]
    BY <1>2, SumSteps
<1>7. y \in [0 .. K -> Nat] /\ y[0] = 0 /\ \A n \in 1 .. K : y[n] = y[n - 1] + hw[n]
    BY <1>2, <1>6 DEF SumsTo
<1>8. \A n \in 0 .. K : y[n] <= y[K]
    BY <1>2, <1>6, SumsGrow
<1>9. /\ w \in Seq(Nat) /\ Len(w) = K + 2 /\ w[1] = x /\ w[K + 2] = 2
      /\ \A n \in 2 .. K + 1 : w[n] = hw[n - 1]
  <2> DEFINE one == <<x>>
             two == << 2 >>
             v == one \o hw
  <2>1. one \in Seq(Nat) /\ Len(one) = 1 /\ one[1] = x /\ two \in Seq(Nat) /\ Len(two) = 1 /\ two[1] = 2
      BY <1>1
  <2>2. w = v \o two
      BY <1>3
  <2> HIDE DEF one, two
  <2>3. /\ one \o hw \in Seq(Nat) /\ Len(one \o hw) = Len(one) + Len(hw)
        /\ \A i \in 1 .. Len(one) + Len(hw) :
              (one \o hw)[i] = IF i <= Len(one) THEN one[i] ELSE hw[i - Len(one)]
    <3>1. one \in Seq(Nat)
        BY <2>1
    <3>2. hw \in Seq(Nat)
        BY <1>2
    <3> QED
        BY <3>1, <3>2, ConcatProperties
  <2>a. v = one \o hw
      OBVIOUS
  <2> HIDE DEF v
  <2>b. /\ v \in Seq(Nat) /\ Len(v) = 1 + K
        /\ \A i \in 1 .. 1 + K : v[i] = IF i <= 1 THEN one[i] ELSE hw[i - 1]
      BY <1>2, <2>1, <2>3, <2>a
  <2> HIDE DEF K
  <2>4. /\ v \in Seq(Nat) /\ Len(v) = K + 1
        /\ v[1] = x /\ \A n \in 2 .. K + 1 : v[n] = hw[n - 1]
    <3>1. /\ 1 + K = K + 1 /\ 1 \in 1 .. 1 + K /\ 1 <= 1
          /\ \A n \in 2 .. K + 1 : n \in 1 .. 1 + K /\ ~ (n <= 1)
        BY <1>1
    <3> QED
        BY <2>1, <2>b, <3>1
  <2>5. /\ v \o two \in Seq(Nat) /\ Len(v \o two) = Len(v) + Len(two)
        /\ \A i \in 1 .. Len(v) + Len(two) : (v \o two)[i] = IF i <= Len(v) THEN v[i] ELSE two[i - Len(v)]
      BY <2>1, <2>4, ConcatProperties
  <2> HIDE DEF w
  <2>6. /\ w \in Seq(Nat) /\ Len(w) = K + 2
        /\ \A i \in 1 .. K + 2 : w[i] = IF i <= K + 1 THEN v[i] ELSE two[i - (K + 1)]
      BY <1>1, <2>1, <2>2, <2>4, <2>5, SMTT(30)
  <2>7. /\ 1 \in 1 .. K + 2 /\ 1 <= K + 1
        /\ K + 2 \in 1 .. K + 2 /\ ~ (K + 2 <= K + 1) /\ (K + 2) - (K + 1) = 1
        /\ \A n \in 2 .. K + 1 : n \in 1 .. K + 2 /\ n <= K + 1
      BY <1>1
  <2>8. w[1] = v[1] /\ \A n \in 2 .. K + 1 : w[n] = v[n]
      BY <2>6, <2>7
  <2>9. w[K + 2] = two[1]
    <3>1. w[K + 2] = IF K + 2 <= K + 1 THEN v[K + 2] ELSE two[(K + 2) - (K + 1)]
      <4>1. K + 2 \in 1 .. K + 2
          BY <2>7
      <4>2. \A i \in 1 .. K + 2 : w[i] = IF i <= K + 1 THEN v[i] ELSE two[i - (K + 1)]
          BY <2>6
      <4> HIDE DEF v
      <4> QED
          BY <4>1, <4>2, Zenon
    <3> QED
        BY <2>7, <3>1
  <2> QED
      BY <2>1, <2>4, <2>6, <2>8, <2>9
<1> HIDE DEF w
<1> DEFINE z == [n \in 0 .. K + 2 |->
                   IF n = 0 THEN 0 ELSE IF n = K + 2 THEN x + y[K] + 2 ELSE x + y[n - 1]]
<1>10. SumsTo(z, w)
  <2>1. ASSUME NEW n \in 0 .. K + 2 PROVE z[n] \in Nat
    <3>1. n = 0 \/ n = K + 2 \/ n - 1 \in 0 .. K
        BY <1>1
    <3>2. K \in 0 .. K
        BY <1>1
    <3>3. y[K] \in Nat /\ (n - 1 \in 0 .. K => y[n - 1] \in Nat)
        BY <1>7, <3>2
    <3>4. z[n] = IF n = 0 THEN 0 ELSE IF n = K + 2 THEN x + y[K] + 2 ELSE x + y[n - 1]
        OBVIOUS
    <3> HIDE DEF z, K
    <3> QED
        BY <1>1, <3>1, <3>3, <3>4
  <2>2. ASSUME NEW n \in 1 .. K + 2 PROVE z[n] = z[n - 1] + w[n]
    <3>1. CASE n = 1
      <4>1. z[1] = x + y[0] /\ z[0] = 0
          BY <1>1, <3>1
      <4> QED
          BY <1>1, <1>7, <1>9, <3>1, <4>1
    <3>2. CASE n = K + 2
      <4>1. K + 2 - 1 = K + 1 /\ K + 1 # 0 /\ K + 1 # K + 2 /\ K + 1 - 1 = K /\ K \in 0 .. K
            /\ K + 1 \in 0 .. K + 2 /\ K + 2 \in 0 .. K + 2 /\ K + 2 # 0
          BY <1>1
      <4>2. z[K + 1] = IF K + 1 = 0 THEN 0 ELSE IF K + 1 = K + 2 THEN x + y[K] + 2 ELSE x + y[K + 1 - 1]
          BY <4>1
      <4>3. z[K + 2] = IF K + 2 = 0 THEN 0 ELSE IF K + 2 = K + 2 THEN x + y[K] + 2 ELSE x + y[K + 2 - 1]
          BY <4>1
      <4>4. y[K] \in Nat
          BY <1>7, <4>1
      <4> HIDE DEF z, K
      <4>5. z[K + 1] = x + y[K] /\ z[K + 2] = x + y[K] + 2
          BY <4>1, <4>2, <4>3
      <4>6. z[K + 2] = z[K + 1] + 2
          BY <1>1, <4>4, <4>5
      <4> QED
          BY <1>9, <3>2, <4>1, <4>6
    <3>3. CASE n \in 2 .. K + 1
      <4>1. /\ n # 0 /\ n # K + 2 /\ n - 1 # 0 /\ n - 1 # K + 2 /\ n - 1 \in 1 .. K
            /\ n - 1 - 1 \in 0 .. K /\ n \in 0 .. K + 2 /\ n - 1 \in 0 .. K + 2
          BY <1>1, <3>3
      <4>2. z[n] = x + y[n - 1] /\ z[n - 1] = x + y[n - 1 - 1]
          BY <4>1
      <4>3. y[n - 1] = y[n - 1 - 1] + hw[n - 1] /\ y[n - 1 - 1] \in Nat /\ hw[n - 1] \in Nat
          BY <1>2, <1>7, <4>1, ElementOfSeq
      <4>4. w[n] = hw[n - 1]
          BY <1>9, <3>3
      <4> HIDE DEF z, K
      <4>5. \A p, q, u \in Nat : p = q + u => x + p = (x + q) + u
          BY <1>1
      <4>6. x + y[n - 1] = (x + y[n - 1 - 1]) + hw[n - 1]
          BY <4>3, <4>5
      <4> QED
          BY <4>2, <4>4, <4>6
    <3> QED
        BY <1>1, <3>1, <3>2, <3>3
  <2>3. z \in [0 .. K + 2 -> Nat]
    <3>1. z = [n \in 0 .. K + 2 |-> z[n]]
        OBVIOUS
    <3> HIDE DEF z
    <3> QED
        BY <2>1, <3>1
  <2>4. z[0] = 0
      BY <1>1
  <2> HIDE DEF z
  <2> QED
      BY <1>9, <2>2, <2>3, <2>4 DEF SumsTo
<1>11. \A n \in 0 .. K + 2 : Exchange!Offset(n) = z[n]
    BY <1>5, <1>9, <1>10, SumOfPrefix
<1>12. \A n \in 1 .. K + 1 : Exchange!Offset(n) = x + y[n - 1]
  <2> TAKE n \in 1 .. K + 1
  <2>1. n \in 0 .. K + 2 /\ n # 0 /\ n # K + 2
      BY <1>1
  <2> QED
      BY <1>11, <2>1
<1>13. Exchange!Offset(K + 2) = x + y[K] + 2
  <2>1. K + 2 \in 0 .. K + 2 /\ K + 2 # 0
      BY <1>1
  <2> QED
      BY <1>11, <2>1
<1> HIDE DEF K, z
<1> QED
    BY <1>1, <1>4, <1>6, <1>7, <1>8, <1>9, <1>12, <1>13 DEF K, w

(* What is written fits into what is allocated. *)
LEMMA AllFits ==
    ASSUME response \in Answer
    PROVE  /\ Exchange!Offset(Len(Exchange!Written)) + response.body_length \in Nat
           /\ Exchange!Written[1] <= 256 =>
                /\ \A n \in 1 .. Len(Exchange!Written) : Exchange!Offset(n) + 1 <= Exchange!Size
                /\ Exchange!Offset(Len(Exchange!Written)) + response.body_length <= Exchange!Size
<1> DEFINE K == Len(response.headers)
           x == Exchange!Written[1]
<1>1. K \in Nat /\ response.body_length \in Nat
    BY LenProperties DEF Answer
<1>2. PICK y : /\ y \in [0 .. K -> Nat] /\ \A n \in 0 .. K : y[n] <= y[K]
               /\ Exchange!Size = 256 + y[K] + response.body_length + 4
               /\ Len(Exchange!Written) = K + 2 /\ x \in Nat
               /\ \A n \in 1 .. K + 1 : Exchange!Offset(n) = x + y[n - 1]
               /\ Exchange!Offset(K + 2) = x + y[K] + 2
    BY WrittenSums
<1>3. y[K] \in Nat
    BY <1>1, <1>2
<1>4. ASSUME x <= 256, NEW n \in 1 .. K + 2 PROVE Exchange!Offset(n) + 1 <= Exchange!Size
  <2>1. CASE n = K + 2
      BY <1>1, <1>2, <1>3, <1>4, <2>1, SMTT(30)
  <2>2. CASE n \in 1 .. K + 1
    <3>1. n - 1 \in 0 .. K
        BY <1>1, <2>2
    <3>2. y[n - 1] \in Nat /\ y[n - 1] <= y[K] /\ Exchange!Offset(n) = x + y[n - 1]
        BY <1>2, <2>2, <3>1
    <3>3. \A p, q, u, b \in Nat : u <= 256 /\ p <= q => u + p + 1 <= 256 + q + b + 4
        OBVIOUS
    <3>4. x + y[n - 1] + 1 <= 256 + y[K] + response.body_length + 4
        BY <1>1, <1>2, <1>3, <1>4, <3>2, <3>3, SMTT(30)
    <3> QED
        BY <1>2, <3>2, <3>4
  <2> QED
      BY <1>1, <2>1, <2>2
<1> HIDE DEF x, K
<1>5. Exchange!Offset(K + 2) + response.body_length \in Nat
      /\ (x <= 256 => Exchange!Offset(K + 2) + response.body_length <= Exchange!Size)
    BY <1>1, <1>2, <1>3, SMTT(30)
<1> QED
    BY <1>2, <1>4, <1>5 DEF x

-----------------------------------------------------------------------------
(* The exchange, from recv() to http_response_serialize. *)

Text(t) ==
    /\ t = [words |-> t.words, ended |-> t.ended, lines |-> t.lines]
    /\ t.lines \in Exchange!Lines

ExchangeTypes ==
    /\ stage \in {"receiving", "handling", "sent", "closed", "crashed"}
    /\ Text(sent) /\ Text(received)
    /\ request \in [method : Methods \cup {"UNKNOWN"}, version : Versions \cup {"UNKNOWN"},
                    headers : Seq(Header), body_length : 0 .. MaxLines]
    /\ response \in [message : Nat, headers : Seq(HeaderLengths), body_length : 0 .. MaxBody]
    /\ out.length \in Nat

(* The headers hs begin with f; what follows stands for no line. *)
Begins(hs, f) ==
    /\ Len(f) <= Len(hs)
    /\ \A a \in 1 .. Len(f) : hs[a] = f[a]
    /\ \A a \in Len(f) + 1 .. Len(hs) : hs[a].value = 0

(* p is what precedes the first empty line. *)
IsHead(p, lines) ==
    /\ p \in Seq(Line) /\ Len(p) < Len(lines) /\ lines[Len(p) + 1] = Blank
    /\ \A i \in 1 .. Len(p) : p[i] = lines[i] /\ p[i] # Blank

(* The headers of a parsed request that has a header line begin with those  *)
(* of all the lines before its first empty one, or with none; NULL names    *)
(* and the handler's own headers follow.                                    *)
HeadersInv ==
    Exchange!Parsed /\ sent.lines[1] # Blank =>
        \/ \E p : IsHead(p, sent.lines) /\ Begins(request.headers, Filled(p))
        \/ Begins(request.headers, <<>>) /\ request.body_length = 0

ExchangeInv == ExchangeTypes /\ HeadersInv /\ Exchange!SerializedWhole

LEMMA EmptyText == Text(Exchange!NoText)
<1>1. <<>> \in Seq(Line) /\ Len(<<>>) = 0 /\ 0 \in 0 .. MaxLines
    BY ExchangeAssumption
<1>2. <<>> \in Exchange!Lines
    BY <1>1, LinesAre
<1> QED
    BY <1>1, <1>2 DEF Text, Exchange!NoText

(* What recv() returns of the lines. *)
LEMMA CutText ==
    ASSUME Text(sent), NEW t \in Exchange!Beginnings(sent)
    PROVE  /\ Text(t)
           /\ t.ended => /\ Len(t.lines) <= Len(sent.lines)
                         /\ \A i \in 1 .. Len(t.lines) : t.lines[i] = sent.lines[i]
<1>1. sent.lines \in Seq(Line) /\ Len(sent.lines) \in 0 .. MaxLines
    BY LinesAre DEF Text
<1>2. CASE \E n \in 0 .. Len(sent.lines) : t = [sent EXCEPT !.lines = SubSeq(@, 1, n)]
  <2>1. PICK n \in 0 .. Len(sent.lines) : t = [sent EXCEPT !.lines = SubSeq(@, 1, n)]
      BY <1>2
  <2> DEFINE p == SubSeq(sent.lines, 1, n)
  <2>2. p \in Exchange!Lines /\ Len(p) <= Len(sent.lines) /\ \A i \in 1 .. Len(p) : p[i] = sent.lines[i]
    <3>1. n \in Nat /\ n <= Len(sent.lines) /\ \A i \in 1 .. n : i \in 1 .. Len(sent.lines)
        BY <1>1
    <3>2. \A i \in 1 .. n : sent.lines[i] \in Line
        BY <1>1, <3>1, ElementOfSeq
    <3>3. /\ p \in Seq(Line) /\ Len(p) = IF 1 <= n THEN n - 1 + 1 ELSE 0
          /\ \A i \in 1 .. n - 1 + 1 : p[i] = sent.lines[1 + i - 1]
        BY <1>1, <3>1, <3>2, SubSeqProperties
    <3> HIDE DEF p
    <3>4. Len(p) = n /\ n \in 0 .. MaxLines
        BY <1>1, <3>1, <3>3, ExchangeAssumption
    <3>5. \A i \in 1 .. n : i \in 1 .. n - 1 + 1 /\ 1 + i - 1 = i
        BY <3>1
    <3> QED
        BY <3>1, <3>3, <3>4, <3>5, LinesAre
  <2>3. t = [words |-> sent.words, ended |-> sent.ended, lines |-> p]
      BY <2>1 DEF Text
  <2> HIDE DEF p
  <2> QED
      BY <2>2, <2>3 DEF Text
<1>3. CASE \E n \in 0 .. Len(sent.words) :
              t = [Exchange!NoText EXCEPT !.words = SubSeq(sent.words, 1, n)]
  <2>1. PICK n : t = [Exchange!NoText EXCEPT !.words = SubSeq(sent.words, 1, n)]
      BY <1>3
  <2>2. t = [words |-> SubSeq(sent.words, 1, n), ended |-> FALSE, lines |-> <<>>]
      BY <2>1 DEF Exchange!NoText
  <2>3. <<>> \in Exchange!Lines
      BY EmptyText DEF Text, Exchange!NoText
  <2> QED
      BY <2>2, <2>3 DEF Text
<1> QED
    BY <1>2, <1>3 DEF Exchange!Beginnings

(* Where the search for the end of the headers stops, and what it takes for *)
(* them: in a request whose first line is not empty, what precedes the      *)
(* first empty line.                                                        *)
LEMMA EndOfHeaders ==
    ASSUME NEW l \in Exchange!Lines, Exchange!EndLines(l) # {}
    PROVE  /\ Exchange!LinesBefore(l) \in Seq(Line) /\ Len(Exchange!LinesBefore(l)) \in 0 .. MaxLines
           /\ Exchange!BodyLength(l) \in 0 .. MaxLines
           /\ l[1] # Blank => IsHead(Exchange!LinesBefore(l), l) /\ Len(l) > 0
<1> DEFINE E == Exchange!EndLines(l)
           k == Exchange!HeadersEnd(l)
           p == SubSeq(l, 1, k)
<1>1. l \in Seq(Line) /\ Len(l) \in 0 .. MaxLines /\ Len(l) \in Nat /\ MaxLines \in Nat
    BY LinesAre, LenProperties, ExchangeAssumption
<1>2. E \in SUBSET Nat /\ E = {n \in 1 .. Len(l) - 1 : l[n + 1] = Blank}
    BY <1>1 DEF Exchange!EndLines
<1>3. k \in E /\ \A n \in E : k <= n
  <2>1. \E m \in E : \A n \in E : m <= n
      BY <1>2, LeastNumber
  <2> HIDE DEF E
  <2>2. Exchange!Min(E) \in E /\ \A n \in E : Exchange!Min(E) <= n
      BY <2>1, Zenon DEF Exchange!Min
  <2> QED
      BY <2>2 DEF Exchange!HeadersEnd, E
<1> HIDE DEF E, k
<1>4. k \in 1 .. Len(l) - 1 /\ l[k + 1] = Blank /\ k \in Nat
    BY <1>2, <1>3
<1>5. /\ p \in Seq(Line) /\ Len(p) = k /\ \A i \in 1 .. k : p[i] = l[i]
  <2>1. \A i \in 1 .. k : i \in 1 .. Len(l)
      BY <1>1, <1>4
  <2>2. \A i \in 1 .. k : l[i] \in Line
      BY <1>1, <2>1, ElementOfSeq
  <2>3. /\ p \in Seq(Line) /\ Len(p) = IF 1 <= k THEN k - 1 + 1 ELSE 0
        /\ \A i \in 1 .. k - 1 + 1 : p[i] = l[1 + i - 1]
      BY <1>1, <1>4, <2>1, <2>2, SubSeqProperties
  <2> HIDE DEF p
  <2>4. 1 <= k /\ k - 1 + 1 = k /\ \A i \in 1 .. k : 1 + i - 1 = i
      BY <1>4
  <2> QED
      BY <2>3, <2>4
<1>6. Exchange!LinesBefore(l) = IF k = 1 /\ l[1] = Blank THEN <<>> ELSE p
    BY DEF Exchange!LinesBefore, k
<1>7. Exchange!BodyLength(l) = Len(l) - k - 1
    BY DEF Exchange!BodyLength, k
<1> HIDE DEF p
<1>8. k \in 0 .. MaxLines /\ Len(l) - k - 1 \in 0 .. MaxLines /\ k < Len(l) /\ Len(l) > 0
    BY <1>1, <1>4
<1>9. <<>> \in Seq(Line) /\ Len(<<>>) \in 0 .. MaxLines
    BY <1>1
<1>10. ASSUME l[1] # Blank PROVE IsHead(p, l)
  <2>1. ASSUME NEW i \in 1 .. k, l[i] = Blank PROVE FALSE
    <3>1. i # 1
        BY <1>10, <2>1
    <3>2. i - 1 \in 1 .. Len(l) - 1 /\ (i - 1) + 1 = i /\ i - 1 \in Nat /\ ~ (k <= i - 1)
        BY <1>1, <1>4, <3>1
    <3>3. i - 1 \in E
        BY <1>2, <2>1, <3>2
    <3> QED
        BY <1>3, <3>2, <3>3
  <2> QED
      BY <1>4, <1>5, <1>8, <2>1 DEF IsHead
<1> QED
    BY <1>5, <1>6, <1>7, <1>8, <1>9, <1>10

LEMMA ExchangeInit == Exchange!Init \/ NoExchange => ExchangeInv
<1> SUFFICES ASSUME Exchange!Init \/ NoExchange PROVE ExchangeInv
    OBVIOUS
<1>1. /\ stage \in {"receiving", "closed"} /\ received = Exchange!NoText
      /\ request = [method |-> "UNKNOWN", version |-> "UNKNOWN", headers |-> <<>>, body_length |-> 0]
      /\ out = [size |-> 0, whole |-> TRUE, length |-> 0]
    BY DEF Exchange!Init, NoExchange
<1>2. Text(sent)
  <2>1. CASE Exchange!Init
    <3>1. \E w : \E l \in Exchange!Lines : sent = [words |-> w, ended |-> TRUE, lines |-> l]
        BY <2>1 DEF Exchange!Init
    <3> QED
        BY <3>1 DEF Text
  <2>2. CASE NoExchange
      BY <2>2, EmptyText DEF NoExchange
  <2> QED
      BY <2>1, <2>2
<1>3. response \in [message : Nat, headers : Seq(HeaderLengths), body_length : 0 .. MaxBody]
  <2>1. 0 \in 0 .. MaxBody /\ <<>> \in Seq(HeaderLengths)
      BY ExchangeAssumption
  <2>2. CASE Exchange!Init
    <3>1. response \in [message : MessageLengths, headers : {<<>>}, body_length : {0}]
        BY <2>2 DEF Exchange!Init
    <3> QED
        BY <2>1, <3>1, ExchangeAssumption
  <2>3. CASE NoExchange
      BY <2>1, <2>3 DEF NoExchange
  <2> QED
      BY <2>2, <2>3
<1>4. ExchangeTypes
  <2>1. 0 \in 0 .. MaxLines /\ <<>> \in Seq(Header)
      BY ExchangeAssumption
  <2>2. out.length \in Nat
      BY <1>1
  <2> QED
      BY <1>1, <1>2, <1>3, <2>1, <2>2, EmptyText DEF ExchangeTypes
<1> QED
    BY <1>1, <1>4 DEF ExchangeInv, HeadersInv, Exchange!Parsed, Exchange!SerializedWhole

(* http_request_parse *)
LEMMA ExchangeReceive ==
    ASSUME ExchangeInv, NEW t \in Exchange!Beginnings(sent), Exchange!Receive(t)
    PROVE  ExchangeInv'
<1>1. ExchangeTypes /\ HeadersInv /\ stage = "receiving" /\ received' = t
      /\ sent' = sent /\ response' = response /\ out' = out
    BY DEF ExchangeInv, Exchange!Receive
<1>2. /\ Text(t)
      /\ t.ended => /\ Len(t.lines) <= Len(sent.lines)
                    /\ \A i \in 1 .. Len(t.lines) : t.lines[i] = sent.lines[i]
    BY <1>1, CutText DEF ExchangeTypes
<1>3. Text(sent') /\ Text(received')
    BY <1>1, <1>2 DEF ExchangeTypes
<1>4. CASE request' = request /\ stage' = "closed"
    BY <1>1, <1>3, <1>4
       DEF ExchangeInv, ExchangeTypes, HeadersInv, Exchange!Parsed, Exchange!SerializedWhole
<1>5. CASE request' = Exchange!Parse(t) /\ stage' = "handling"
  <2> DEFINE found == Exchange!HeadersEndFound(t)
             p == Exchange!LinesBefore(t.lines)
             hs == IF found THEN Exchange!HeadersOf(p) ELSE <<>>
             n == IF found THEN Exchange!BodyLength(t.lines) ELSE 0
             m == Exchange!Known(Exchange!WordsOf(t)[1], Methods)
             v == Exchange!Known(Exchange!WordsOf(t)[3], Versions)
  <2>1. request' = [method |-> m, version |-> v, headers |-> hs, body_length |-> n]
      BY <1>5 DEF Exchange!Parse
  <2>2. m \in Methods \cup {"UNKNOWN"} /\ v \in Versions \cup {"UNKNOWN"}
      BY DEF Exchange!Known
  <2>3. /\ hs \in Seq(Header) /\ n \in 0 .. MaxLines
        /\ sent.lines[1] # Blank =>
              \/ \E q : IsHead(q, sent.lines) /\ Begins(hs, Filled(q))
              \/ Begins(hs, <<>>) /\ n = 0
    <3>1. CASE found
      <4>1. t.ended /\ t.lines \in Exchange!Lines /\ Exchange!EndLines(t.lines) # {}
          BY <1>2, <3>1 DEF Text, Exchange!HeadersEndFound
      <4>2. /\ p \in Seq(Line) /\ Len(p) \in 0 .. MaxLines /\ n \in 0 .. MaxLines
            /\ t.lines[1] # Blank => IsHead(p, t.lines) /\ Len(t.lines) > 0
          BY <3>1, <4>1, EndOfHeaders
      <4>3. hs = Exchange!HeadersOf(p)
          BY <3>1
      <4> HIDE DEF hs, n, p
      <4>4. hs \in Seq(Header) /\ Begins(hs, Filled(p))
          BY <4>2, <4>3, HeadersAre DEF Begins
      <4>5. ASSUME sent.lines[1] # Blank PROVE IsHead(p, sent.lines)
        <5>1. Len(t.lines) \in Nat /\ Len(sent.lines) \in Nat /\ Len(t.lines) > 0
          <6>1. /\ t.lines \in Seq(Line) /\ sent.lines \in Seq(Line)
                /\ Len(t.lines) \in Nat /\ Len(sent.lines) \in Nat
              BY <1>1, <4>1, LinesAre, LenProperties DEF ExchangeTypes, Text
          <6>2. Len(t.lines) # 0
              BY <4>1, <6>1 DEF Exchange!EndLines
          <6> QED
              BY <6>1, <6>2
        <5>2. t.lines[1] = sent.lines[1]
            BY <1>2, <4>1, <5>1
        <5>3. IsHead(p, t.lines)
            BY <4>2, <4>5, <5>2
        <5>4. Len(p) \in Nat /\ Len(p) < Len(t.lines) /\ t.lines[Len(p) + 1] = Blank
              /\ \A i \in 1 .. Len(p) : p[i] = t.lines[i] /\ p[i] # Blank
            BY <4>2, <5>3, LenProperties DEF IsHead
        <5>5. /\ Len(p) < Len(sent.lines) /\ Len(p) + 1 \in 1 .. Len(t.lines)
              /\ \A i \in 1 .. Len(p) : i \in 1 .. Len(t.lines)
            BY <1>2, <4>1, <5>1, <5>4
        <5> QED
            BY <1>2, <4>1, <4>2, <5>4, <5>5 DEF IsHead
      <4> QED
          BY <4>2, <4>4, <4>5
    <3>2. CASE ~ found
      <4>1. hs = <<>> /\ n = 0 /\ <<>> \in Seq(Header) /\ Len(<<>>) = 0 /\ 0 \in 0 .. MaxLines
          BY <3>2, ExchangeAssumption
      <4>2. 1 .. 0 = {}
          OBVIOUS
      <4>3. Begins(<<>>, <<>>)
          BY <4>1, <4>2 DEF Begins
      <4> QED
          BY <4>1, <4>3
    <3> QED
        BY <3>1, <3>2
  <2> HIDE DEF hs, n, m, v
  <2>5. request' \in [method : Methods \cup {"UNKNOWN"}, version : Versions \cup {"UNKNOWN"},
                      headers : Seq(Header), body_length : 0 .. MaxLines]
      BY <2>1, <2>2, <2>3
  <2>6. HeadersInv'
      BY <1>1, <2>1, <2>3 DEF HeadersInv
  <2>7. ExchangeTypes'
      BY <1>1, <1>3, <1>5, <2>5 DEF ExchangeTypes
  <2> QED
      BY <1>5, <2>6, <2>7 DEF ExchangeInv, Exchange!SerializedWhole
<1> QED
    BY <1>4, <1>5 DEF Exchange!Receive

(* What leaves the request, its lines and the answer alone. *)
LEMMA ExchangeSame ==
    ASSUME ExchangeInv, UNCHANGED <<sent, received, request, response, out>>,
           stage' = stage \/ (stage = "handling" /\ stage' = "crashed")
    PROVE  ExchangeInv'
<1>1. ExchangeTypes'
    BY DEF ExchangeInv, ExchangeTypes
<1>2. HeadersInv'
    BY DEF ExchangeInv, HeadersInv, Exchange!Parsed
<1>3. Exchange!Written' = Exchange!Written
    BY DEF Exchange!Written
<1>4. Exchange!SerializedWhole'
    BY <1>3 DEF ExchangeInv, Exchange!SerializedWhole
<1> QED
    BY <1>1, <1>2, <1>4 DEF ExchangeInv

(* http_request_add_header puts its header behind the others. *)
LEMMA BeginsAppended ==
    ASSUME NEW hs \in Seq(Header), NEW f, Len(f) \in Nat, Begins(hs, f), NEW e \in Header, e.value = 0
    PROVE  Append(hs, e) \in Seq(Header) /\ Begins(Append(hs, e), f)
<1> DEFINE r == Append(hs, e)
           L == Len(hs)
<1>1. /\ r \in Seq(Header) /\ Len(r) = L + 1 /\ r[L + 1] = e /\ L \in Nat
      /\ \A a \in 1 .. L : r[a] = hs[a]
    BY AppendProperties, LenProperties
<1>2. /\ Len(f) <= L /\ \A a \in 1 .. Len(f) : hs[a] = f[a]
      /\ \A a \in Len(f) + 1 .. L : hs[a].value = 0
    BY DEF Begins
<1> HIDE DEF r, L
<1>3. Len(f) <= L + 1 /\ \A a \in 1 .. Len(f) : a \in 1 .. L
    BY <1>1, <1>2
<1>4. \A a \in Len(f) + 1 .. L + 1 : a = L + 1 \/ (a \in Len(f) + 1 .. L /\ a \in 1 .. L)
    BY <1>1, <1>2
<1>5. \A a \in Len(f) + 1 .. L + 1 : r[a].value = 0
    BY <1>1, <1>2, <1>4
<1>6. Begins(r, f)
    BY <1>1, <1>2, <1>3, <1>5 DEF Begins
<1> QED
    BY <1>1, <1>6 DEF r

LEMMA HeadFilled ==
    ASSUME ExchangeTypes, NEW p, IsHead(p, sent.lines)
    PROVE  /\ p \in Seq(Line) /\ Len(p) \in 0 .. MaxLines /\ Len(p) \in Nat /\ Len(sent.lines) \in Nat
           /\ FilledTo(Filled(p), p, Len(p))
<1>1. sent.lines \in Seq(Line) /\ Len(sent.lines) \in 0 .. MaxLines
    BY LinesAre DEF ExchangeTypes, Text
<1>2. p \in Seq(Line) /\ Len(p) \in Nat /\ Len(p) < Len(sent.lines)
    BY LenProperties DEF IsHead
<1>3. Len(p) \in 0 .. MaxLines /\ Len(sent.lines) \in Nat
    BY <1>1, <1>2, ExchangeAssumption
<1> QED
    BY <1>2, <1>3, FilledIs

LEMMA ExchangeRequestAddHeader ==
    ASSUME ExchangeInv, NEW name \in Names, Exchange!RequestAddHeader(name)
    PROVE  ExchangeInv'
<1> DEFINE e == [name |-> name, value |-> 0]
<1>1. /\ ExchangeTypes /\ HeadersInv /\ stage = "handling"
      /\ request' = [request EXCEPT !.headers = Append(@, e)]
      /\ UNCHANGED <<stage, sent, received, response, out>>
    BY DEF ExchangeInv, Exchange!RequestAddHeader
<1>2. e \in Header /\ e.value = 0
    BY ExchangeAssumption DEF Header
<1> HIDE DEF e
<1>3. request.headers \in Seq(Header) /\ Append(request.headers, e) \in Seq(Header)
    BY <1>1, <1>2, AppendProperties DEF ExchangeTypes
<1>4. /\ request' \in [method : Methods \cup {"UNKNOWN"}, version : Versions \cup {"UNKNOWN"},
                       headers : Seq(Header), body_length : 0 .. MaxLines]
      /\ request'.headers = Append(request.headers, e)
      /\ request'.body_length = request.body_length
    BY <1>1, <1>3 DEF ExchangeTypes
<1>5. ExchangeTypes'
    BY <1>1, <1>4 DEF ExchangeTypes
<1>6. HeadersInv'
  <2> SUFFICES ASSUME sent.lines[1] # Blank
               PROVE  \/ \E p : IsHead(p, sent.lines) /\ Begins(request'.headers, Filled(p))
                      \/ Begins(request'.headers, <<>>) /\ request'.body_length = 0
      BY <1>1 DEF HeadersInv
  <2>1. CASE \E p : IsHead(p, sent.lines) /\ Begins(request.headers, Filled(p))
    <3>1. PICK p : IsHead(p, sent.lines) /\ Begins(request.headers, Filled(p))
        BY <2>1
    <3>2. Len(Filled(p)) \in Nat
        BY <1>1, <3>1, HeadFilled, LenProperties DEF FilledTo
    <3>3. Begins(request'.headers, Filled(p))
        BY <1>2, <1>3, <1>4, <3>1, <3>2, BeginsAppended
    <3> QED
        BY <3>1, <3>3
  <2>2. CASE Begins(request.headers, <<>>) /\ request.body_length = 0
    <3>1. Len(<<>>) \in Nat
        OBVIOUS
    <3>2. Begins(request'.headers, <<>>)
        BY <1>2, <1>3, <1>4, <2>2, <3>1, BeginsAppended
    <3> QED
        BY <1>4, <2>2, <3>2
  <2> QED
      BY <1>1, <2>1, <2>2 DEF HeadersInv, Exchange!Parsed
<1> QED
    BY <1>1, <1>5, <1>6 DEF ExchangeInv, Exchange!SerializedWhole

(* http_response_add_header and http_response_set_body *)
LEMMA ExchangeRespond ==
    ASSUME ExchangeInv,
           \/ \E length \in HeaderLengths : Exchange!AddHeader(length)
           \/ \E length \in 0 .. MaxBody : Exchange!SetBody(length)
    PROVE  ExchangeInv'
<1>1. ExchangeTypes /\ HeadersInv /\ stage = "handling" /\ UNCHANGED <<stage, sent, received, request, out>>
    BY DEF ExchangeInv, Exchange!AddHeader, Exchange!SetBody
<1>2. response' \in [message : Nat, headers : Seq(HeaderLengths), body_length : 0 .. MaxBody]
  <2>1. response \in [message : Nat, headers : Seq(HeaderLengths), body_length : 0 .. MaxBody]
      BY <1>1 DEF ExchangeTypes
  <2>2. ASSUME NEW length \in HeaderLengths, Exchange!AddHeader(length)
        PROVE  response' \in [message : Nat, headers : Seq(HeaderLengths), body_length : 0 .. MaxBody]
    <3>1. Append(response.headers, length) \in Seq(HeaderLengths)
        BY <2>1, AppendProperties
    <3> QED
        BY <2>1, <2>2, <3>1 DEF Exchange!AddHeader
  <2>3. ASSUME NEW length \in 0 .. MaxBody, Exchange!SetBody(length)
        PROVE  response' \in [message : Nat, headers : Seq(HeaderLengths), body_length : 0 .. MaxBody]
      BY <2>1, <2>3 DEF Exchange!SetBody
  <2> QED
      BY <2>2, <2>3
<1>3. ExchangeTypes'
    BY <1>1, <1>2 DEF ExchangeTypes
<1>4. HeadersInv'
    BY <1>1 DEF HeadersInv, Exchange!Parsed
<1> QED
    BY <1>1, <1>3, <1>4 DEF ExchangeInv, Exchange!SerializedWhole

(* http_response_serialize *)
LEMMA ExchangeSerialize == ASSUME ExchangeInv, Exchange!Serialize PROVE ExchangeInv'
<1>1. /\ ExchangeTypes /\ HeadersInv /\ stage = "handling" /\ stage' = "sent"
      /\ UNCHANGED <<sent, received, request, response>>
    BY DEF ExchangeInv, Exchange!Serialize
<1>2. response \in Answer
  <2>1. response \in [message : Nat, headers : Seq(HeaderLengths), body_length : 0 .. MaxBody]
      BY <1>1 DEF ExchangeTypes
  <2>2. response.headers \in Seq(Nat)
      BY <2>1, WiderSeq, ExchangeAssumption
  <2> QED
      BY <2>1, <2>2 DEF Answer
<1> DEFINE last == Exchange!Offset(Len(Exchange!Written)) + response.body_length
           fits == /\ \A n \in 1 .. Len(Exchange!Written) : Exchange!Offset(n) + 1 <= Exchange!Size
                   /\ last <= Exchange!Size
<1>3. out' = [size |-> Exchange!Size, whole |-> fits, length |-> last]
    BY Zenon DEF Exchange!Serialize
<1>4. last \in Nat /\ (Exchange!Written[1] <= 256 => fits)
    BY <1>2, AllFits, Zenon
<1> HIDE DEF fits, last
<1>5. out'.length = last /\ out'.whole = fits
    BY <1>3
<1>6. ExchangeTypes'
    BY <1>1, <1>4, <1>5 DEF ExchangeTypes
<1>7. HeadersInv'
    BY <1>1 DEF HeadersInv, Exchange!Parsed
<1>8. Exchange!Written' = Exchange!Written
    BY <1>1 DEF Exchange!Written
<1>9. Exchange!SerializedWhole'
    BY <1>4, <1>5, <1>8, Zenon DEF Exchange!SerializedWhole
<1> QED
    BY <1>6, <1>7, <1>9 DEF ExchangeInv

LEMMA ExchangeStep == ExchangeInv /\ [Exchange!Next]_exchange_vars => ExchangeInv'
<1> SUFFICES ASSUME ExchangeInv, [Exchange!Next]_exchange_vars PROVE ExchangeInv'
    OBVIOUS
<1>1. CASE \E t \in Exchange!Beginnings(sent) : Exchange!Receive(t)
    BY <1>1, ExchangeReceive
<1>2. CASE \E name \in Names : Exchange!GetHeader(name)
  <2>1. /\ UNCHANGED <<sent, received, request, response, out>>
        /\ stage' = stage \/ (stage = "handling" /\ stage' = "crashed")
    <3>1. PICK name \in Names : Exchange!GetHeader(name)
        BY <1>2
    <3> QED
        BY <3>1, Zenon DEF Exchange!GetHeader
  <2> QED
      BY <2>1, ExchangeSame
<1>3. CASE \E name \in Names : Exchange!RequestAddHeader(name)
    BY <1>3, ExchangeRequestAddHeader
<1>4. CASE \/ \E length \in HeaderLengths : Exchange!AddHeader(length)
           \/ \E length \in 0 .. MaxBody : Exchange!SetBody(length)
    BY <1>4, ExchangeRespond
<1>5. CASE Exchange!Serialize
    BY <1>5, ExchangeSerialize
<1>6. CASE UNCHANGED exchange_vars
  <2>1. UNCHANGED <<sent, received, request, response, out>> /\ stage' = stage
      BY <1>6 DEF exchange_vars
  <2> QED
      BY <2>1, ExchangeSame
<1> QED
    BY <1>1, <1>2, <1>3, <1>4, <1>5, <1>6, Zenon DEF Exchange!Next

-----------------------------------------------------------------------------
(* What http_request_get_header sees. *)

LEMMA FoundNone ==
    ASSUME Begins(request.headers, <<>>), request.headers \in Seq(Header)
    PROVE  Exchange!Found = {}
<1>1. \A a \in 1 .. Len(request.headers) : request.headers[a].value = 0
    BY LenProperties DEF Begins
<1> QED
    BY <1>1 DEF Exchange!Found

(* The header lines are the named ones before the first empty line. *)
LEMMA NamedBefore ==
    ASSUME ExchangeTypes, NEW p, IsHead(p, sent.lines)
    PROVE  Exchange!NamedLines = {i \in 1 .. Len(p) : p[i] \in Names}
<1>1. Len(p) \in Nat /\ Len(sent.lines) \in Nat
    BY HeadFilled
<1>2. /\ Len(p) < Len(sent.lines) /\ sent.lines[Len(p) + 1] = Blank
      /\ \A i \in 1 .. Len(p) : p[i] = sent.lines[i] /\ p[i] # Blank
    BY DEF IsHead
<1>3. ASSUME NEW i \in 1 .. Len(p), p[i] \in Names PROVE i \in Exchange!NamedLines
  <2>1. i \in 1 .. Len(sent.lines) /\ \A j \in 1 .. i : j \in 1 .. Len(p)
      BY <1>1, <1>2
  <2> QED
      BY <1>2, <1>3, <2>1 DEF Exchange!NamedLines
<1>4. ASSUME NEW i \in Exchange!NamedLines PROVE i \in 1 .. Len(p) /\ p[i] \in Names
  <2>1. i \in 1 .. Len(sent.lines) /\ sent.lines[i] \in Names /\ \A j \in 1 .. i : sent.lines[j] # Blank
      BY DEF Exchange!NamedLines
  <2>2. Len(p) + 1 \notin 1 .. i
      BY <1>2, <2>1
  <2>3. i \in 1 .. Len(p)
      BY <1>1, <2>1, <2>2
  <2> QED
      BY <1>2, <2>1, <2>3
<1> QED
    BY <1>3, <1>4

LEMMA FoundAll ==
    ASSUME ExchangeTypes, NEW p, IsHead(p, sent.lines), Begins(request.headers, Filled(p))
    PROVE  Exchange!Found = Exchange!NamedLines
<1> DEFINE f == Filled(p)
           hs == request.headers
<1>1. hs \in Seq(Header) /\ Exchange!NamedLines = {i \in 1 .. Len(p) : p[i] \in Names}
    BY NamedBefore DEF ExchangeTypes
<1>2. FilledTo(f, p, Len(p)) /\ Len(p) \in Nat
    BY HeadFilled
<1> HIDE DEF f, hs
<1>3. Len(f) \in Nat /\ Len(hs) \in Nat
    BY <1>1, <1>2, LenProperties DEF FilledTo
<1>4. /\ Len(f) <= Len(hs) /\ \A a \in 1 .. Len(f) : hs[a] = f[a]
      /\ \A a \in Len(f) + 1 .. Len(hs) : hs[a].value = 0
    BY DEF Begins, f, hs
<1>5. ASSUME NEW a \in 1 .. Len(hs), hs[a].value # 0
      PROVE  hs[a].value \in Exchange!NamedLines
  <2>1. a \in 1 .. Len(f)
    <3>1. a \in 1 .. Len(f) \/ a \in Len(f) + 1 .. Len(hs)
        BY <1>3
    <3> QED
        BY <1>4, <1>5, <3>1
  <2>2. f[a].value \in 1 .. Len(p) /\ p[f[a].value] \in Names
      BY <1>2, <2>1 DEF FilledTo
  <2> QED
      BY <1>1, <1>4, <2>1, <2>2
<1>6. ASSUME NEW i \in Exchange!NamedLines
      PROVE  i # 0 /\ \E a \in 1 .. Len(hs) : hs[a].value = i
  <2>1. i \in 1 .. Len(p) /\ p[i] \in Names
      BY <1>1
  <2>2. PICK a \in 1 .. Len(f) : f[a].value = i
      BY <1>2, <2>1 DEF FilledTo
  <2>3. a \in 1 .. Len(hs)
      BY <1>3, <1>4
  <2>4. i # 0
      BY <1>2, <2>1
  <2> QED
      BY <1>4, <2>2, <2>3, <2>4
<1>7. Exchange!Found = {hs[a].value : a \in 1 .. Len(hs)} \ {0}
    BY DEF Exchange!Found, hs
<1> QED
    BY <1>5, <1>6, <1>7

LEMMA HeadersFound == ExchangeInv => AllHeadersOrNone
<1> SUFFICES ASSUME ExchangeInv, Exchange!Parsed, sent.lines[1] # Blank
             PROVE  /\ Exchange!Found \in {{}, Exchange!NamedLines}
                    /\ request.body_length > 0 => Exchange!Found = Exchange!NamedLines
    BY DEF AllHeadersOrNone, Exchange!AllHeadersOrNone
<1>1. request.headers \in Seq(Header) /\ ExchangeTypes
    BY DEF ExchangeInv, ExchangeTypes
<1>2. CASE \E p : IsHead(p, sent.lines) /\ Begins(request.headers, Filled(p))
    BY <1>1, <1>2, FoundAll
<1>3. CASE Begins(request.headers, <<>>) /\ request.body_length = 0
    BY <1>1, <1>3, FoundNone
<1> QED
    BY <1>2, <1>3 DEF ExchangeInv, HeadersInv

(* The lookup stops at the place that the first line of its name filled:    *)
(* every place before is filled, by an earlier line.                        *)
LEMMA LookupStops ==
    ASSUME ExchangeTypes, NEW p, IsHead(p, sent.lines), Begins(request.headers, Filled(p)),
           NEW i \in Exchange!NamedLines,
           \A j \in Exchange!NamedLines : sent.lines[j] = sent.lines[i] => i <= j
    PROVE  /\ ~ Exchange!Crashes(sent.lines[i])
           /\ request.headers[Exchange!StopsAt(sent.lines[i])].value = i
<1> DEFINE f == Filled(p)
           hs == request.headers
           name == sent.lines[i]
           I == {a \in 1 .. Len(hs) : hs[a].name \in {name, None}}
           stop == Exchange!StopsAt(name)
<1>1. /\ hs \in Seq(Header)
      /\ Exchange!NamedLines = {j \in 1 .. Len(p) : p[j] \in Names}
      /\ \A j \in 1 .. Len(p) : p[j] = sent.lines[j]
    BY NamedBefore DEF ExchangeTypes, IsHead
<1>2. FilledTo(f, p, Len(p)) /\ Len(p) \in Nat
    BY HeadFilled
<1>3. stop = IF I # {} THEN Exchange!Min(I) ELSE 0
    BY DEF Exchange!StopsAt, Exchange!SelectInSeq
<1>4. i \in 1 .. Len(p) /\ p[i] \in Names /\ name = p[i] /\ name # None
    BY <1>1, ExchangeAssumption
<1>a. \A j \in 1 .. Len(p) : p[j] = name => i <= j
    BY <1>1, <1>4
<1> HIDE DEF f
<1>5. Len(f) \in Nat /\ Len(hs) \in Nat
    BY <1>1, <1>2, LenProperties DEF FilledTo
<1>6. /\ Len(f) <= Len(hs) /\ \A a \in 1 .. Len(f) : hs[a] = f[a]
    BY DEF Begins, f
<1>7. PICK b \in 1 .. Len(f) : f[b].value = i
    BY <1>2, <1>4 DEF FilledTo
<1>8. f[b].name = name
    BY <1>2, <1>4, <1>7 DEF FilledTo
<1> HIDE DEF hs, name
<1>9. b \in 1 .. Len(hs) /\ hs[b] = f[b]
    BY <1>5, <1>6
<1>10. b \in I /\ I \in SUBSET Nat
    BY <1>8, <1>9
<1>11. ASSUME NEW a \in I PROVE b <= a
  <2> SUFFICES ASSUME a < b PROVE FALSE
      BY <1>5
  <2>1. a \in 1 .. Len(f)
      BY <1>5
  <2>2. /\ f[a].value \in 1 .. Len(p) /\ f[a].name = p[f[a].value]
        /\ f[a].name \in Names /\ f[a].value < f[b].value
      BY <1>2, <2>1 DEF FilledTo
  <2>3. f[a].name = name
      BY <1>6, <2>1, <2>2, ExchangeAssumption
  <2>4. i <= f[a].value
      BY <1>a, <2>2, <2>3
  <2>5. i \in Nat /\ f[a].value \in Nat
      BY <1>4, <2>2
  <2> QED
      BY <1>7, <2>2, <2>4, <2>5
<1> HIDE DEF I
<1>12. Exchange!Min(I) = b
  <2>1. \E m \in I : \A k \in I : m <= k
      BY <1>10, <1>11
  <2>2. Exchange!Min(I) \in I /\ \A k \in I : Exchange!Min(I) <= k
      BY <2>1, Zenon DEF Exchange!Min
  <2>3. Exchange!Min(I) <= b /\ b <= Exchange!Min(I) /\ Exchange!Min(I) \in Nat /\ b \in Nat
      BY <1>10, <1>11, <2>2
  <2> QED
      BY <2>3
<1> HIDE DEF stop
<1>13. stop = b
    BY <1>3, <1>10, <1>12
<1>14. hs[stop].value = i /\ hs[stop].name # None
    BY <1>4, <1>7, <1>8, <1>9, <1>13
<1> QED
    BY <1>14 DEF Exchange!Crashes, stop, hs, name

LEMMA LookupsSucceed == ExchangeInv => SentHeadersAreFound
<1> SUFFICES ASSUME ExchangeInv, Exchange!Parsed, Exchange!Found # {},
                    NEW i \in Exchange!NamedLines,
                    \A j \in Exchange!NamedLines : sent.lines[j] = sent.lines[i] => i <= j
             PROVE  /\ ~ Exchange!Crashes(sent.lines[i])
                    /\ request.headers[Exchange!StopsAt(sent.lines[i])].value = i
    BY Zenon DEF SentHeadersAreFound, Exchange!SentHeadersAreFound
<1>1. request.headers \in Seq(Header) /\ ExchangeTypes
    BY DEF ExchangeInv, ExchangeTypes
<1>2. sent.lines[1] # Blank
    BY DEF Exchange!NamedLines
<1>3. \E p : IsHead(p, sent.lines) /\ Begins(request.headers, Filled(p))
    BY <1>1, <1>2, FoundNone DEF ExchangeInv, HeadersInv
<1> QED
    BY <1>1, <1>3, LookupStops

LEMMA ExchangeTyped == ExchangeInv => Exchange!TypeOK
<1> SUFFICES ASSUME ExchangeTypes PROVE Exchange!TypeOK
    BY DEF ExchangeInv
<1>1. Exchange!Header = Header
    BY DEF Exchange!Header, Header
<1>2. sent.lines \in Exchange!Lines /\ received.lines \in Exchange!Lines
    BY DEF ExchangeTypes, Text
<1> QED
    BY <1>1, <1>2 DEF ExchangeTypes, Exchange!TypeOK

LEMMA WebInit == MCInit => ServerInv /\ ExchangeInv
BY ServerInit, ExchangeInit DEF MCInit

LEMMA WebStep == ServerInv /\ ExchangeInv /\ [MCNext]_MCvars => ServerInv' /\ ExchangeInv'
<1>1. [MCNext]_MCvars => [Next]_vars /\ [Exchange!Next]_exchange_vars
  <2>1. CASE MCNext
      BY <2>1, Zenon DEF MCNext, OfServer, OfBreaker
  <2>2. CASE UNCHANGED MCvars
      BY <2>2 DEF MCvars
  <2> QED
      BY <2>1, <2>2
<1> QED
    BY <1>1, ServerStep, ExchangeStep

(* Every variable of the server, of the exchange and of the breaker keeps   *)
(* its type, for any connections, lines, names, lengths and callers.        *)
THEOREM WebTypes == MCSpec => []ComponentsTypeOK
<1>1. ServerInv /\ ExchangeInv /\ BreakerInv => ComponentsTypeOK
    BY ExchangeTyped DEF ServerInv, BreakerInv, ComponentsTypeOK
<1> QED
    BY <1>1, WebInit, WebStep, BreakerAlways, PTL DEF MCSpec

(* Wherever recv() cuts a request of at least one and of any number of      *)
(* header lines, and however many empty lines its body has,                 *)
(* http_request_parse gives the handler all its headers or none, nothing of *)
(* the body among them, and a body only with them.                          *)
THEOREM HeadersAllOrNone == MCSpec => []AllHeadersOrNone
BY HeadersFound, WebInit, WebStep, PTL DEF MCSpec

(* http_request_get_header finds every header that was sent at the first    *)
(* line of its name, for any lines with and without a colon and whatever    *)
(* headers the handler has added.                                           *)
THEOREM LookupsFindWhatWasSent == MCSpec => []SentHeadersAreFound
BY LookupsSucceed, WebInit, WebStep, PTL DEF MCSpec

(* http_response_serialize allocates as much as it writes, for any headers  *)
(* and body, when the status line has at most 256 bytes.                    *)
THEOREM ResponsesAreWhole == MCSpec => []SerializedWhole
<1>1. ExchangeInv => SerializedWhole
    BY DEF ExchangeInv, SerializedWhole
<1> QED
    BY <1>1, WebInit, WebStep, PTL DEF MCSpec
=============================================================================
