------------------------------ MODULE MCTimers ------------------------------
(* Small instances of the timer wheel. *)
EXTENDS Timers
=============================================================================
