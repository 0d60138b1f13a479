----------------------------- MODULE MCBreaker -----------------------------
(* Small instances of the circuit breaker.  The callers are interchangeable,
   but the run checks liveness, where symmetry is not sound. *)
EXTENDS Breaker
CONSTANTS a1, a2, a3
=============================================================================
