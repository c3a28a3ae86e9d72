-------------------------- MODULE MCCircuitBreaker --------------------------
(* CircuitBreaker for TLC. *)
EXTENDS CircuitBreaker, TLC

=============================================================================
