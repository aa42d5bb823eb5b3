---------------------------- MODULE RateLimiter -----------------------------
(***************************************************************************)
(* The rate limiter of src/distributed/distributed.c: per client a window  *)
(* that starts with its first request and a count of the requests allowed  *)
(* in it.  Every call holds the mutex from start to end and is one step.   *)
(* The list of entries is the partial map from clients it implements.  The *)
(* clock is CLOCK_REALTIME, which may be set back; the difference of two   *)
(* times is unsigned, so that a window that starts in the future has       *)
(* expired.                                                                *)
(***************************************************************************)
EXTENDS Integers, FiniteSets, Sequences

CONSTANTS
    Clients,
    MaxRequests,    \* max_requests of rate_limiter_create, a natural number like the rest
    WindowMs,       \* window_ms
    MaxTime,        \* bound: the clock
    MaxSteps,       \* bound: how often the clock is set back
    None            \* no entry for the client

VARIABLES
    now,
    steps,          \* history: how often the clock was set back
    entry,          \* client -> [request_count, window_start]
    grants          \* history: client -> times of its allowed requests since a reset

vars == <<now, steps, entry, grants>>

TypeOK ==
    /\ now \in 0 .. MaxTime
    /\ steps \in 0 .. MaxSteps
    /\ entry \in [Clients -> [request_count : 0 .. MaxRequests, window_start : 0 .. MaxTime]
                             \cup {None}]
    /\ grants \in [Clients -> Seq(0 .. MaxTime)]

Init ==
    /\ now = 0
    /\ steps = 0
    /\ entry = [c \in Clients |-> None]
    /\ grants = [c \in Clients |-> <<>>]

Tick ==
    /\ now < MaxTime
    /\ now' = now + 1
    /\ UNCHANGED <<steps, entry, grants>>

(* The wall clock is set back to t. *)
StepBack(t) ==
    /\ t < now
    /\ steps < MaxSteps
    /\ now' = t
    /\ steps' = steps + 1
    /\ UNCHANGED <<entry, grants>>

CurrentRestartedOnRequest(c) ==
    IF entry[c] = None \/ now # entry[c].window_start
    THEN [request_count |-> 0, window_start |-> now]
    ELSE entry[c]

CurrentNeverRestarted(c) ==
    IF entry[c] = None THEN [request_count |-> 0, window_start |-> now] ELSE entry[c]

(* now - entry->window_start > window_ms, in uint64_t. *)
WindowOver(e) == now - e.window_start > WindowMs \/ now < e.window_start

(* The entry rate_limiter_allow decides on: a new one, one whose window has *)
(* expired and starts again, or the one it finds.                           *)
Current(c) ==
    IF entry[c] = None \/ WindowOver(entry[c])
    THEN [request_count |-> 0, window_start |-> now]
    ELSE entry[c]

(* rate_limiter_allow returns 1 ... *)
Allow(c) ==
    /\ Current(c).request_count < MaxRequests
    /\ entry' = [entry EXCEPT ![c] = [Current(c) EXCEPT !.request_count = @ + 1]]
    /\ grants' = [grants EXCEPT ![c] = Append(@, now)]
    /\ UNCHANGED <<now, steps>>

(* ... or 0; the entry it found or made stays. *)
Deny(c) ==
    /\ Current(c).request_count >= MaxRequests
    /\ entry' = [entry EXCEPT ![c] = Current(c)]
    /\ UNCHANGED <<now, steps, grants>>

(* rate_limiter_reset of a client that has an entry: the entry is freed. *)
Reset(c) ==
    /\ entry[c] # None
    /\ entry' = [entry EXCEPT ![c] = None]
    /\ grants' = [grants EXCEPT ![c] = <<>>]
    /\ UNCHANGED <<now, steps>>

(* rate_limiter_destroy, and another limiter is created. *)
Destroy ==
    /\ entry' = [c \in Clients |-> None]
    /\ grants' = [c \in Clients |-> <<>>]
    /\ UNCHANGED <<now, steps>>

Next ==
    \/ Tick
    \/ \E t \in 0 .. MaxTime : StepBack(t)
    \/ \E c \in Clients : Allow(c) \/ Deny(c) \/ Reset(c)
    \/ Destroy

Spec == Init /\ [][Next]_vars

-----------------------------------------------------------------------------
(* Properties. *)

(* The requests of c allowed from t to t + WindowMs, both included. *)
GrantsFrom(c, t) ==
    {i \in 1 .. Len(grants[c]) : grants[c][i] >= t /\ grants[c][i] <= t + WindowMs}

(* What the fixed window guarantees without a reset: an interval of         *)
(* window_ms on the clock, its ends included, sees less than twice the      *)
(* limit, wherever the windows lie in it (a window that began before the    *)
(* interval spent its first request there), and as much again for each time *)
(* the clock was set back and could run through the interval once more.     *)
AtMostTwoWindowfuls ==
    MaxRequests > 0 =>
        \A c \in Clients, t \in 0 .. MaxTime :
            Cardinality(GrantsFrom(c, t)) <= (steps + 1) * (2 * MaxRequests - 1)

(* The limiter does not refuse a client that kept below the limit: with     *)
(* fewer than max_requests grants in the last window_ms + 1 milliseconds    *)
(* (now included), the next request passes, also after the clock was set    *)
(* back into the window or to before it.                                    *)
NoneRefusedBelowLimit ==
    \A c \in Clients :
        Cardinality({i \in 1 .. Len(grants[c]) : grants[c][i] >= now - WindowMs}) < MaxRequests
        => Current(c).request_count < MaxRequests
=============================================================================
