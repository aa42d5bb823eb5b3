----------------------------- MODULE MCServices -----------------------------
(***************************************************************************)
(* The web server, the life of one request in it, and the circuit breaker. *)
(* A request and its response belong to one connection thread and share    *)
(* nothing with the server's state, and the breaker shares nothing with    *)
(* either.  A step of one cannot disturb another, and an interleaving of   *)
(* two shows nothing that each alone does not: a behaviour picks one of    *)
(* the three and exercises it.                                             *)
(***************************************************************************)
EXTENDS WebServer

CONSTANTS Callers, FailureThreshold, TimeoutMs              \* of CircuitBreaker
CONSTANTS Names, Methods, Versions, Blank, MaxLines,        \* of Http
          MaxBody, MaxAdded, HeaderLengths, MessageLengths

VARIABLES
    which,                                                  \* the part exercised
    state, failure_count, since_failure, clock, pc,         \* of CircuitBreaker
    stage, sent, received, request, response, out           \* of Http

Breaker == INSTANCE CircuitBreaker
Exchange == INSTANCE Http

(* The code accepts any threshold; below 1 the breaker is tripped before it *)
(* has seen a failure, a use nothing in the repository makes.               *)
ASSUME BreakerAssumption == FailureThreshold \in Nat \ {0} /\ TimeoutMs \in Nat

(* What the client and the handler may send: finitely many lines, bytes of  *)
(* a body and headers, of any lengths.                                      *)
ASSUME ExchangeAssumption ==
    /\ MaxLines \in Nat /\ MaxBody \in Nat /\ MaxAdded \in Nat
    /\ HeaderLengths \subseteq Nat /\ MessageLengths \subseteq Nat
    /\ None \notin Names /\ Blank \notin Names

breaker_vars == <<state, failure_count, since_failure, clock, pc>>
exchange_vars == <<stage, sent, received, request, response, out>>
MCvars == <<which, vars, breaker_vars, exchange_vars>>

NoExchange ==
    /\ stage = "closed" /\ sent = Exchange!NoText /\ received = Exchange!NoText
    /\ request = [method |-> "UNKNOWN", version |-> "UNKNOWN", headers |-> <<>>, body_length |-> 0]
    /\ response = [message |-> 2, headers |-> <<>>, body_length |-> 0]
    /\ out = [size |-> 0, whole |-> TRUE, length |-> 0]

MCInit ==
    /\ Init
    /\ Breaker!Init
    /\ \/ which \in {"server", "breaker"} /\ NoExchange
       \/ which = "exchange" /\ Exchange!Init

OfServer(A) == which = "server" /\ A /\ UNCHANGED <<which, breaker_vars, exchange_vars>>
OfBreaker(A) == which = "breaker" /\ A /\ UNCHANGED <<which, vars, exchange_vars>>

MCNext ==
    \/ OfServer(Next)
    \/ OfBreaker(Breaker!Next)
    \/ which = "exchange" /\ Exchange!Next /\ UNCHANGED <<which, vars, breaker_vars>>

(* The fairness of WebServer and of CircuitBreaker. *)
MCFairness ==
    /\ WF_MCvars(OfServer(LoopProgress))
    /\ WF_MCvars(OfServer(StopProgress))
    /\ \A i \in Connections : WF_MCvars(OfServer(ClientProgress(i)))
    /\ WF_MCvars(OfBreaker(Breaker!Tick))
    /\ \A c \in Callers :
          WF_MCvars(OfBreaker(Breaker!Proceed(c))) /\ SF_MCvars(OfBreaker(Breaker!Admit(c)))

MCSpec == MCInit /\ [][MCNext]_MCvars /\ MCFairness

-----------------------------------------------------------------------------
(* Every variable of the server, the breaker and the exchange keeps its     *)
(* type.                                                                    *)
ComponentsTypeOK == TypeOK /\ Breaker!TypeOK /\ Exchange!TypeOK

(* circuit_breaker_record_*: the state agrees with the failure count,       *)
(* whatever results overlapping calls record late.                          *)
ClosedBelowThreshold == Breaker!ClosedBelowThreshold

(* circuit_breaker_call: a breaker is half open only when it has rested     *)
(* since the last failure.                                                  *)
HalfOpenMeansRested == Breaker!HalfOpenMeansRested

(* circuit_breaker_call lets no call through while the breaker is tripped   *)
(* and its timeout runs.                                                    *)
NoCallWhileTripped == Breaker!NoCallWhileTripped

(* circuit_breaker_call: a tripped breaker whose timeout stays passed lets  *)
(* a call through again.                                                    *)
TripEnds == Breaker!TripEnds

(* http_request_parse on a request that has a header line and that recv()   *)
(* cut anywhere: the handler sees all the headers that were sent or none,   *)
(* nothing of the body among them, and a body only with them.               *)
AllHeadersOrNone == Exchange!AllHeadersOrNone

(* http_request_get_header finds every header that was sent, at its first   *)
(* line, also among lines without a colon.                                  *)
SentHeadersAreFound == Exchange!SentHeadersAreFound

(* http_response_serialize allocates as much as it writes, for a status     *)
(* line of at most 256 bytes.                                               *)
SerializedWhole == Exchange!SerializedWhole
=============================================================================
