---------------------------- MODULE MCLibraries -----------------------------
(***************************************************************************)
(* The in-process libraries: the cache, the template libraries, the        *)
(* counter, the sockets, the status codes, and of distributed.c the rate   *)
(* limiter, the service registry, a retried call, an authentication token  *)
(* and the metrics collector.  None of them calls another or shares state  *)
(* with one, so a behaviour picks one and exercises it.                    *)
(***************************************************************************)
EXTENDS Cache

CONSTANTS Clients, Blocks, MaxHandles                       \* of Templates
CONSTANTS Threads, Modulus, Initial, Deltas, MaxCalls       \* of Counter
CONSTANTS Objects, Fds                                      \* of Sockets
CONSTANT MaxCode                                            \* of HttpStatus
CONSTANTS Limited, MaxRequests, WindowMs, MaxTime           \* of RateLimiter
CONSTANTS Registrars, Names, MaxIds                         \* of Registry
CONSTANTS MaxRetries, InitialDelay, Backoff, DelayRange     \* of Retry
CONSTANTS UserNames, EmptyNames, LongNames, NotANumber,     \* of AuthToken
          TokenTtls, SecondMs, WordRange
CONSTANTS Gauges, Unit, Overhead, BufferSize, MaxValue      \* of Metrics

VARIABLES
    which,                                                      \* the library exercised
    family, heap, handles, answer, crashed,                     \* of Templates
    value, call, returned, expected, starts, changes, overlap,  \* of Counter
    obj, fd, socket_answer, wronged,                            \* of Sockets
    code, known, category, holds,                               \* of HttpStatus
    now, turns, window, grants,                                 \* of RateLimiter
    next_id, services, register_pc, drawn, copy, gone,          \* of Registry
    max_retries, attempt, at, result, delay_ms, outcomes, sleeps,   \* of Retry
    token_now, token, text, restored,                           \* of AuthToken
    metrics, exported                                           \* of Metrics

(* User ids without and with a colon, followed by a number or by something else. *)
UserIds == [first : UserNames, rest : {<<>>, <<NotANumber>>, <<1>>, <<1, 2>>}]

(* A policy may carry any int. *)
RetryLimits == {-1, 0, MaxRetries}

(* Of different lengths: the order of the metrics decides which one is cut. *)
MetricNames == {[id |-> "a", length |-> 3], [id |-> "b", length |-> 4], [id |-> "c", length |-> 4]}

Library == INSTANCE Templates
Atomic == INSTANCE Counter
Network == INSTANCE Sockets WITH answer <- socket_answer
Status == INSTANCE HttpStatus
Limiter == INSTANCE RateLimiter WITH Clients <- Limited, steps <- turns, entry <- window
Services == INSTANCE Registry WITH Threads <- Registrars, pc <- register_pc
Retried == INSTANCE Retry
Tokens == INSTANCE AuthToken WITH now <- token_now, Ttls <- TokenTtls
Collector == INSTANCE Metrics WITH Values <- Gauges

(* The descriptors other than standard input, the numbers of the counter    *)
(* and of the codes.                                                        *)
ASSUME FdsAssumption == Fds \subseteq Nat \ {0}
ASSUME CounterAssumption ==
    /\ Modulus \in Nat \ {0, 1} /\ MaxCalls \in Nat
    /\ Initial \subseteq 0 .. Modulus - 1 /\ Deltas \subseteq 0 .. Modulus - 1
    /\ IsFiniteSet(Threads) /\ None \notin 0 .. Modulus - 1
ASSUME CodeAssumption == MaxCode \in Nat

(* The numbers of the rate limiter, of the registry and of a policy; time   *)
(* does not reach the end of uint64_t and times to live are of that type.   *)
ASSUME LimiterAssumption ==
    /\ MaxRequests \in Nat /\ WindowMs \in Nat /\ MaxTime \in Nat /\ MaxSteps \in Nat
    /\ None \notin [request_count : 0 .. MaxRequests, window_start : 0 .. MaxTime]
ASSUME RegistryAssumption == MaxIds \in Nat /\ None \notin Services!Service
ASSUME RetryAssumption ==
    /\ MaxRetries \in Int /\ DelayRange \in Nat \ {0}
    /\ InitialDelay \in 0 .. DelayRange - 1 /\ Backoff \in Nat
ASSUME TokenAssumption ==
    /\ WordRange \in Nat /\ WordRange > MaxTime /\ WordRange > 2
    /\ TokenTtls \subseteq 0 .. WordRange - 1 /\ SecondMs \in Nat
    /\ NotANumber \notin Nat
ASSUME MetricsAssumption ==
    /\ Gauges \subseteq Nat /\ MaxValue \in Nat /\ Unit \in Nat \ {0}
    /\ Overhead \in Nat /\ BufferSize \in Nat \ {0}

library_vars == <<family, heap, handles, answer, crashed>>
counter_vars == <<value, call, returned, expected, starts, changes, overlap>>
socket_vars == <<obj, fd, socket_answer, wronged>>
status_vars == <<code, known, category, holds>>
limiter_vars == <<now, turns, window, grants>>
services_vars == <<next_id, services, register_pc, drawn, copy, gone>>
retry_vars == <<max_retries, attempt, at, result, delay_ms, outcomes, sleeps>>
token_vars == <<token_now, token, text, restored>>
metrics_vars == <<metrics, exported>>
MCvars == <<which, vars, library_vars, counter_vars, socket_vars, status_vars,
            limiter_vars, services_vars, retry_vars, token_vars, metrics_vars>>

MCInit ==
    /\ which \in {"cache", "templates", "counter", "sockets", "status",
                  "limiter", "registry", "retry", "token", "metrics"}
    /\ Init
    /\ which # "cache" => policy = "LRU"
    /\ Library!Init
    /\ which # "templates" => family = Library!Barrier
    /\ Atomic!Init
    /\ Network!Init
    /\ Status!Init
    /\ Limiter!Init
    /\ Services!Init
    /\ Retried!Init
    /\ which # "retry" => \A n \in RetryLimits : max_retries <= n
    /\ Tokens!Init
    /\ Collector!Init

MCNext ==
    /\ UNCHANGED which
    /\ IF which = "cache" THEN Next ELSE UNCHANGED vars
    /\ IF which = "templates" THEN Library!Next ELSE UNCHANGED library_vars
    /\ IF which = "counter" THEN Atomic!Next ELSE UNCHANGED counter_vars
    /\ IF which = "sockets" THEN Network!Next ELSE UNCHANGED socket_vars
    /\ IF which = "status" THEN Status!Next ELSE UNCHANGED status_vars
    /\ IF which = "limiter" THEN Limiter!Next ELSE UNCHANGED limiter_vars
    /\ IF which = "registry" THEN Services!Next ELSE UNCHANGED services_vars
    /\ IF which = "retry" THEN Retried!Next ELSE UNCHANGED retry_vars
    /\ IF which = "token" THEN Tokens!Next ELSE UNCHANGED token_vars
    /\ IF which = "metrics" THEN Collector!Next ELSE UNCHANGED metrics_vars

MCSpec == MCInit /\ [][MCNext]_MCvars

(* The sets TLC may permute: those of the cache, which has the most states. *)
DataSymmetry == Permutations(Keys) \cup Permutations(Values)

-----------------------------------------------------------------------------
(* Every variable of the libraries keeps its type. *)
ComponentsTypeOK ==
    /\ TypeOK /\ Library!TypeOK /\ Atomic!TypeOK /\ Network!TypeOK /\ Status!TypeOK
    /\ Limiter!TypeOK /\ Services!TypeOK /\ Retried!TypeOK /\ Tokens!TypeOK /\ Collector!TypeOK

(* atomic_counter_*: calls that overlap are lost or counted, never garbled, *)
(* and the others are counted.                                              *)
SomeCallsCount == Atomic!SomeCallsCount

(* tcp_close and its like close what the caller handed over, once.          *)
NobodysDescriptorClosed == Network!NobodysDescriptorClosed

(* http_status_get_category and the predicates agree at every boundary.     *)
CategoriesAgree == Status!CategoriesAgree

(* rate_limiter_allow: a closed interval of window_ms sees less than twice  *)
(* the limit, wherever the windows lie in it, for each time the clock runs  *)
(* through it.                                                              *)
AtMostTwoWindowfuls == Limiter!AtMostTwoWindowfuls

(* rate_limiter_allow: a client that kept below the limit is not refused.   *)
NoneRefusedBelowLimit == Limiter!NoneRefusedBelowLimit

(* service_discover: a copy goes stale, but never speaks of another service. *)
CopyMeansItsService == Services!CopyMeansItsService

(* retry_with_policy: the number of calls and sleeps, and the result.       *)
RetryContract == Retried!RetryContract

(* auth_token_validate: a token, written and read back, is valid for its    *)
(* time to live.                                                            *)
ValidForTtl == Tokens!ValidForTtl

(* metrics_export: what of the text comes out, and when the buffer does not *)
(* hold it.                                                                 *)
ExportedOrOverrun == Collector!ExportedOrOverrun
=============================================================================
