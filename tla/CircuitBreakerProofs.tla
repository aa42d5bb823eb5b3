------------------------ MODULE CircuitBreakerProofs ------------------------
(***************************************************************************)
(* Proofs about the circuit breaker, which MCServices exercises beside the *)
(* web server, for any number of overlapping calls, any threshold of at    *)
(* least 1 and any timeout.                                                *)
(***************************************************************************)
EXTENDS MCServices, TLAPS

(* A failure lies in the future only of a clock that was set back. *)
FutureNeedsStep == since_failure < 0 => clock = "moved"

BreakerInv ==
    Breaker!TypeOK /\ Breaker!ClosedBelowThreshold /\ Breaker!HalfOpenMeansRested /\ FutureNeedsStep

LEMMA BreakerInit == Breaker!Init => BreakerInv
BY BreakerAssumption
   DEF Breaker!Init, BreakerInv, Breaker!TypeOK, Breaker!ClosedBelowThreshold,
       Breaker!HalfOpenMeansRested, FutureNeedsStep

LEMMA BreakerStep == BreakerInv /\ [Breaker!Next]_breaker_vars => BreakerInv'
<1> SUFFICES ASSUME BreakerInv, [Breaker!Next]_breaker_vars PROVE BreakerInv'
    OBVIOUS
<1> USE BreakerAssumption
        DEF BreakerInv, Breaker!TypeOK, Breaker!ClosedBelowThreshold,
            Breaker!HalfOpenMeansRested, FutureNeedsStep, Breaker!TimeoutPassed
<1>1. CASE Breaker!Tick
    BY <1>1 DEF Breaker!Tick
<1>b. CASE Breaker!StepBack
    BY <1>b DEF Breaker!StepBack
<1>d. CASE Breaker!Destroy
    BY <1>d DEF Breaker!Destroy
<1>2. ASSUME NEW c \in Callers, Breaker!Admit(c)
      PROVE  BreakerInv'
    BY <1>2 DEF Breaker!Admit
<1>3. ASSUME NEW c \in Callers, NEW result \in {"success", "failure"}, Breaker!Return(c, result)
      PROVE  BreakerInv'
    BY <1>3 DEF Breaker!Return
<1>a. ASSUME NEW c \in Callers, NEW result \in {"success", "failure"}, Breaker!Report(c, result)
      PROVE  BreakerInv'
    BY <1>a DEF Breaker!Report
<1>4. ASSUME NEW c \in Callers, Breaker!RecordSuccess(c)
      PROVE  BreakerInv'
    BY <1>4 DEF Breaker!RecordSuccess
<1>5. ASSUME NEW c \in Callers, Breaker!RecordFailure(c)
      PROVE  BreakerInv'
  <2>1. /\ failure_count' \in 0 .. FailureThreshold
        /\ failure_count' >= FailureThreshold <=> failure_count + 1 >= FailureThreshold
        /\ failure_count' < FailureThreshold => failure_count < FailureThreshold
        /\ since_failure' \in -1 .. TimeoutMs + 1 /\ clock' \in {"steady", "moved"}
        /\ pc' \in [Callers -> {"idle", "running", "success", "failure"}]
      BY <1>5 DEF Breaker!RecordFailure, Breaker!OneMore
  <2>2. CASE failure_count' >= FailureThreshold
      BY <1>5, <2>1, <2>2 DEF Breaker!RecordFailure
  <2>3. CASE failure_count' < FailureThreshold
      BY <1>5, <2>1, <2>3 DEF Breaker!RecordFailure
  <2> QED
      BY <2>1, <2>2, <2>3
<1>6. CASE UNCHANGED breaker_vars
    BY <1>6 DEF breaker_vars
<1> QED
    BY <1>1, <1>b, <1>d, <1>2, <1>3, <1>a, <1>4, <1>5, <1>6
       DEF Breaker!Next, Breaker!Proceed, Breaker!Refuse, Breaker!vars, breaker_vars

(* A behaviour of MCServices is, for the breaker, one of its own in which   *)
(* it may stutter.                                                          *)
LEMMA BreakerMoves == [MCNext]_MCvars => [Breaker!Next]_breaker_vars
<1>1. MCNext => Breaker!Next \/ UNCHANGED breaker_vars
    BY Zenon DEF MCNext, OfServer, OfBreaker
<1>2. UNCHANGED MCvars => UNCHANGED breaker_vars
    BY DEF MCvars
<1> QED
    BY <1>1, <1>2

(* BreakerInv is inductive. *)
THEOREM BreakerAlways == MCSpec => []BreakerInv
<1>1. MCInit => BreakerInv
    BY BreakerInit DEF MCInit
<1> QED
    BY <1>1, BreakerStep, BreakerMoves, PTL DEF MCSpec

(* The state agrees with the failure count in every interleaving of calls. *)
THEOREM ClosedIffBelowThreshold == MCSpec => []ClosedBelowThreshold
<1>1. BreakerInv => ClosedBelowThreshold
    BY DEF BreakerInv, ClosedBelowThreshold
<1> QED
    BY <1>1, BreakerAlways, PTL

(* A breaker is half open only when it has rested since the last failure,   *)
(* whatever calls admitted before it opened report late.                    *)
THEOREM HalfOpenIsRested == MCSpec => []HalfOpenMeansRested
<1>1. BreakerInv => HalfOpenMeansRested
    BY DEF BreakerInv, HalfOpenMeansRested
<1> QED
    BY <1>1, BreakerAlways, PTL

(* Once the threshold is reached, no call reaches the protected function    *)
(* until timeout_ms have passed without a failure on a clock that was not   *)
(* set back.                                                                *)
THEOREM TrippedBreakerProtects == MCSpec => NoCallWhileTripped
<1> DEFINE Rested ==
               \A c \in Callers :
                   pc[c] = "idle" /\ pc'[c] = "running" =>
                       failure_count < FailureThreshold \/ Breaker!TimeoutPassed \/ clock = "moved"
<1>1. BreakerInv /\ [Breaker!Next]_breaker_vars => [Rested]_Breaker!vars
  <2> SUFFICES ASSUME BreakerInv, Breaker!Next,
                      NEW c \in Callers, pc[c] = "idle", pc'[c] = "running"
               PROVE  failure_count < FailureThreshold \/ Breaker!TimeoutPassed \/ clock = "moved"
      BY DEF Breaker!vars, breaker_vars
  <2> USE DEF BreakerInv, Breaker!TypeOK
  <2>1. PICK d \in Callers :
            \/ Breaker!Admit(d) \/ Breaker!Return(d, "success") \/ Breaker!Return(d, "failure")
            \/ Breaker!Report(d, "success") \/ Breaker!Report(d, "failure")
            \/ Breaker!RecordSuccess(d) \/ Breaker!RecordFailure(d)
      BY DEF Breaker!Next, Breaker!Proceed, Breaker!Tick, Breaker!StepBack, Breaker!Destroy,
             Breaker!Refuse, Breaker!vars
  <2>2. Breaker!Admit(d)
      BY <2>1 DEF Breaker!Return, Breaker!Report, Breaker!RecordSuccess, Breaker!RecordFailure
  <2> QED
      BY <2>2 DEF Breaker!Admit, Breaker!ClosedBelowThreshold, Breaker!HalfOpenMeansRested
<1>2. [MCNext]_MCvars => [Breaker!Next]_breaker_vars
    BY BreakerMoves
<1> QED
    BY <1>1, <1>2, BreakerAlways, PTL DEF MCSpec, NoCallWhileTripped, Breaker!NoCallWhileTripped
=============================================================================
