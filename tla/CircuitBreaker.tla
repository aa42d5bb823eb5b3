--------------------------- MODULE CircuitBreaker ---------------------------
(***************************************************************************)
(* The circuit breaker of src/distributed/distributed.c.  A call of        *)
(* circuit_breaker_call takes the mutex twice: to be admitted, and, after  *)
(* the protected function has run without it, to record the result.  Calls *)
(* of several threads overlap, so a result can be recorded in a state that *)
(* is no longer the one the call was admitted in.                          *)
(*                                                                         *)
(* failure_count only matters through failure_count >= failure_threshold,  *)
(* so the model stops it at the threshold.  The clock only matters         *)
(* through now - last_failure_time > timeout_ms: since_failure is that     *)
(* difference, stopped at timeout_ms + 1.  The clock is CLOCK_REALTIME,    *)
(* which may be set back; the difference is unsigned, so that the timeout  *)
(* of a failure in the future has passed.  -1 stands for any such time.    *)
(***************************************************************************)
EXTENDS Integers

CONSTANTS
    Callers,            \* threads that call circuit_breaker_call
    FailureThreshold,
    TimeoutMs

VARIABLES
    state,              \* CLOSED, OPEN, HALF_OPEN
    failure_count,      \* at most FailureThreshold
    since_failure,      \* now - last_failure_time, from -1 to TimeoutMs + 1
    clock,              \* history: "steady", or "moved" since the last failure
    pc                  \* caller -> "idle", "running" (in func), "success", "failure"

vars == <<state, failure_count, since_failure, clock, pc>>

TypeOK ==
    /\ state \in {"CLOSED", "OPEN", "HALF_OPEN"}
    /\ failure_count \in 0 .. FailureThreshold
    /\ since_failure \in -1 .. TimeoutMs + 1
    /\ clock \in {"steady", "moved"}
    /\ pc \in [Callers -> {"idle", "running", "success", "failure"}]

(* circuit_breaker_create: last_failure_time is 0, long ago. *)
Init ==
    /\ state = "CLOSED"
    /\ failure_count = 0
    /\ since_failure = TimeoutMs + 1
    /\ clock = "steady"
    /\ pc = [c \in Callers |-> "idle"]

Tick ==
    /\ since_failure <= TimeoutMs
    /\ since_failure' = since_failure + 1
    /\ UNCHANGED <<state, failure_count, clock, pc>>

(* The wall clock is set back. *)
StepBack ==
    /\ since_failure' \in -1 .. since_failure
    /\ clock' = "moved"
    /\ UNCHANGED <<state, failure_count, pc>>

(* now - breaker->last_failure_time > breaker->timeout_ms, in uint64_t. *)
TimeoutPassed == since_failure > TimeoutMs \/ since_failure < 0

AdmitAlways(c) ==
    /\ pc[c] = "idle"
    /\ state' = state
    /\ pc' = [pc EXCEPT ![c] = "running"]
    /\ UNCHANGED <<failure_count, since_failure, clock>>

AdmitClosedOnly(c) ==
    /\ pc[c] = "idle"
    /\ state # "OPEN"
    /\ pc' = [pc EXCEPT ![c] = "running"]
    /\ UNCHANGED <<state, failure_count, since_failure, clock>>

(* The first critical section of circuit_breaker_call lets the call        *)
(* through, after OPEN only when the timeout has passed ...                *)
Admit(c) ==
    /\ pc[c] = "idle"
    /\ state = "OPEN" => TimeoutPassed
    /\ state' = IF state = "OPEN" THEN "HALF_OPEN" ELSE state
    /\ pc' = [pc EXCEPT ![c] = "running"]
    /\ UNCHANGED <<failure_count, since_failure, clock>>

(* ... or refuses it with ERROR_TIMEOUT. *)
Refuse(c) ==
    /\ pc[c] = "idle"
    /\ state = "OPEN"
    /\ ~ TimeoutPassed
    /\ UNCHANGED vars

(* func(arg) returns. *)
Return(c, result) ==
    /\ pc[c] = "running"
    /\ pc' = [pc EXCEPT ![c] = result]
    /\ UNCHANGED <<state, failure_count, since_failure, clock>>

(* The application may also report a result by itself: both record functions *)
(* are public.                                                              *)
Report(c, result) ==
    /\ pc[c] = "idle"
    /\ pc' = [pc EXCEPT ![c] = result]
    /\ UNCHANGED <<state, failure_count, since_failure, clock>>

RecordSuccessDecrementing(c) ==
    /\ pc[c] = "success"
    /\ state' = IF state = "HALF_OPEN" THEN "CLOSED" ELSE state
    /\ failure_count' = failure_count - 1
    /\ pc' = [pc EXCEPT ![c] = "idle"]
    /\ UNCHANGED <<since_failure, clock>>

RecordSuccessKeepingCount(c) ==
    /\ pc[c] = "success"
    /\ state' = IF state = "HALF_OPEN" THEN "CLOSED" ELSE state
    /\ pc' = [pc EXCEPT ![c] = "idle"]
    /\ UNCHANGED <<failure_count, since_failure, clock>>

(* circuit_breaker_record_success *)
RecordSuccess(c) ==
    /\ pc[c] = "success"
    /\ \/ /\ state = "HALF_OPEN"
          /\ state' = "CLOSED"
          /\ failure_count' = 0
       \/ /\ state # "HALF_OPEN"
          /\ UNCHANGED <<state, failure_count>>
    /\ pc' = [pc EXCEPT ![c] = "idle"]
    /\ UNCHANGED <<since_failure, clock>>

OneMore(n) == IF n < FailureThreshold THEN n + 1 ELSE n

RecordFailureWithoutTrip(c) ==
    /\ pc[c] = "failure"
    /\ failure_count' = OneMore(failure_count)
    /\ since_failure' = 0
    /\ clock' = "steady"
    /\ state' = IF state = "CLOSED" /\ failure_count' >= FailureThreshold THEN "OPEN" ELSE state
    /\ pc' = [pc EXCEPT ![c] = "idle"]

(* circuit_breaker_record_failure *)
RecordFailure(c) ==
    /\ pc[c] = "failure"
    /\ failure_count' = OneMore(failure_count)
    /\ since_failure' = 0
    /\ clock' = "steady"
    /\ state' = IF failure_count' >= FailureThreshold THEN "OPEN" ELSE state
    /\ pc' = [pc EXCEPT ![c] = "idle"]

(* circuit_breaker_destroy with no call under way, and another breaker is   *)
(* created.                                                                 *)
Destroy ==
    /\ \A c \in Callers : pc[c] = "idle"
    /\ state' = "CLOSED"
    /\ failure_count' = 0
    /\ since_failure' = TimeoutMs + 1
    /\ clock' = "steady"
    /\ UNCHANGED pc

(* What a caller goes on to do by itself. *)
Proceed(c) ==
    \/ Return(c, "success") \/ Return(c, "failure")
    \/ RecordSuccess(c) \/ RecordFailure(c)

Next ==
    \/ Tick \/ StepBack
    \/ Destroy
    \/ \E c \in Callers :
          \/ Admit(c) \/ Refuse(c) \/ Proceed(c)
          \/ Report(c, "success") \/ Report(c, "failure")

(* Time passes, functions return, and a caller that could be let through    *)
(* again and again does call.                                               *)
Fairness ==
    /\ WF_vars(Tick)
    /\ \A c \in Callers : WF_vars(Proceed(c)) /\ SF_vars(Admit(c))

Spec == Init /\ [][Next]_vars

FairSpec == Spec /\ Fairness

-----------------------------------------------------------------------------
(* Properties. *)

(* The state and the count never disagree, whatever results overlapping     *)
(* calls record late: the breaker is closed exactly while fewer failures    *)
(* than the threshold are on record.                                        *)
ClosedBelowThreshold == state = "CLOSED" <=> failure_count < FailureThreshold

(* Half open means rested: no failure was recorded in the last timeout_ms,  *)
(* by the probe or by a call admitted before the breaker opened, unless the *)
(* clock that says so was set back since.                                   *)
HalfOpenMeansRested == state = "HALF_OPEN" => TimeoutPassed \/ clock = "moved"

(* A tripped breaker protects: no call reaches the function within          *)
(* timeout_ms of a failure while the threshold is reached, as long as the   *)
(* clock is not set back after the failure.                                 *)
NoCallWhileTripped ==
    [][\A c \in Callers :
          pc[c] = "idle" /\ pc'[c] = "running" =>
              failure_count < FailureThreshold \/ TimeoutPassed \/ clock = "moved"]_vars

(* The breaker cannot stay shut off: once failures are no longer recorded,  *)
(* a tripped breaker lets a call through again.                             *)
TripEnds == <>[]TimeoutPassed => (state = "OPEN" ~> state # "OPEN")
=============================================================================
