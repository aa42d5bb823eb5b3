------------------------------- MODULE Retry --------------------------------
(***************************************************************************)
(* retry_with_policy of src/distributed/distributed.c: a call, and after a *)
(* failure a sleep and the next call, the sleep growing by a factor.  The  *)
(* factor is a whole number here; delays are uint64_t, so they wrap.       *)
(***************************************************************************)
EXTENDS Integers, Sequences

CONSTANTS
    RetryLimits,    \* max_retries of retry_policy_create, any int
    InitialDelay,   \* initial_delay_ms
    Backoff,        \* backoff_multiplier
    DelayRange      \* delays are below this (2^64 in the code)

VARIABLES
    max_retries,
    attempt,        \* the loop's counter
    at,             \* "test", "call", "failed", "returned"
    result,         \* "SUCCESS", "ERROR", or "unset" before the first call
    delay_ms,
    outcomes,       \* history: what the calls of func returned
    sleeps          \* history: [delay, calls made before]

vars == <<max_retries, attempt, at, result, delay_ms, outcomes, sleeps>>

Outcome == {"SUCCESS", "ERROR"}

TypeOK ==
    /\ max_retries \in RetryLimits
    /\ attempt \in Nat
    /\ at \in {"test", "call", "failed", "returned"}
    /\ result \in Outcome \cup {"unset"}
    /\ delay_ms \in 0 .. DelayRange - 1
    /\ outcomes \in Seq(Outcome)
    /\ sleeps \in Seq([delay : 0 .. DelayRange - 1, after : Nat])

(* retry_policy_create and the head of retry_with_policy. *)
Init ==
    /\ max_retries \in RetryLimits
    /\ attempt = 0
    /\ at = "test"
    /\ result = "unset"
    /\ delay_ms = InitialDelay
    /\ outcomes = <<>>
    /\ sleeps = <<>>

(* The loop's test; behind the loop the last result is returned, and        *)
(* whatever the variable holds when the loop was never entered.             *)
LoopTest ==
    /\ at = "test"
    /\ \/ attempt <= max_retries /\ at' = "call" /\ UNCHANGED result
       \/ /\ attempt > max_retries
          /\ at' = "returned"
          /\ result' \in IF result = "unset" THEN Outcome ELSE {result}
    /\ UNCHANGED <<max_retries, attempt, delay_ms, outcomes, sleeps>>

(* func(arg) returns; on SUCCESS so does retry_with_policy. *)
Call(outcome) ==
    /\ at = "call"
    /\ result' = outcome
    /\ outcomes' = Append(outcomes, outcome)
    /\ at' = IF outcome = "SUCCESS" THEN "returned" ELSE "failed"
    /\ UNCHANGED <<max_retries, attempt, delay_ms, sleeps>>

(* What the cast of a product to uint64_t may give: the C standard leaves   *)
(* it undefined when the product is too large.                              *)
Delays(product) == IF product < DelayRange THEN {product} ELSE 0 .. DelayRange - 1

BackOffAlways ==
    /\ at = "failed"
    /\ sleeps' = Append(sleeps, [delay |-> delay_ms, after |-> Len(outcomes)])
    /\ delay_ms' \in Delays(delay_ms * Backoff)
    /\ attempt' = attempt + 1
    /\ at' = "test"
    /\ UNCHANGED <<max_retries, result, outcomes>>

(* The sleep, unless the last attempt failed, and the loop's increment. *)
BackOff ==
    /\ at = "failed"
    /\ \/ /\ attempt < max_retries
          /\ sleeps' = Append(sleeps, [delay |-> delay_ms, after |-> Len(outcomes)])
          /\ delay_ms' \in Delays(delay_ms * Backoff)
       \/ attempt >= max_retries /\ UNCHANGED <<sleeps, delay_ms>>
    /\ attempt' = attempt + 1
    /\ at' = "test"
    /\ UNCHANGED <<max_retries, result, outcomes>>

Next == LoopTest \/ (\E outcome \in Outcome : Call(outcome)) \/ BackOff

Spec == Init /\ [][Next]_vars

-----------------------------------------------------------------------------
(* Properties. *)

(* What retry_with_policy promises when it returns, for max_retries >= 0:   *)
(* all calls but the last failed, the result is the last one's, a failure   *)
(* is only reported after max_retries + 1 calls, and there was exactly one  *)
(* sleep between two calls and none behind the last.                        *)
RetryContract ==
    at = "returned" /\ max_retries >= 0 =>
        /\ outcomes # <<>>
        /\ result = outcomes[Len(outcomes)]
        /\ \A i \in 1 .. Len(outcomes) - 1 : outcomes[i] = "ERROR"
        /\ result = "ERROR" => Len(outcomes) = max_retries + 1
        /\ Len(sleeps) = Len(outcomes) - 1
        /\ \A i \in 1 .. Len(sleeps) : sleeps[i].after = i
=============================================================================
