-------------------------- MODULE MCCircuitBreaker --------------------------
(* CircuitBreaker with three callers, for TLC. *)
EXTENDS CircuitBreaker

CONSTANTS c1, c2, c3

ThreeCalls == {c1, c2, c3}
=============================================================================
