--------------------------- MODULE MCCircuitBreaker ---------------------------
(* A small instance of CircuitBreaker for TLC. *)
EXTENDS CircuitBreaker

CONSTANTS c1, c2, c3

MCCalls == {c1, c2, c3}
===============================================================================
