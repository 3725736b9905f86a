---------------------------- MODULE BreakerState ----------------------------
(***************************************************************************)
(* The state of a circuit breaker (CircuitBreaker), which Compaction has   *)
(* too, and what is promised of it.                                        *)
(***************************************************************************)
EXTENDS Naturals

CONSTANTS FailureThreshold, ResetTimeout

VARIABLES
    breaker,   \* "closed", "open", "half_open"
    failures,  \* failures since the last success
    age        \* time since openedAt

\* The breaker is never closed once failureThreshold failures have followed the
\* last success, whatever calls were in flight.
ClosedBelowThreshold == breaker = "closed" => failures < FailureThreshold
=============================================================================
