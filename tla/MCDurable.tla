----------------------------- MODULE MCDurable -----------------------------
(* Small instances of the durability facade. *)
EXTENDS Durable, TLC
CONSTANTS w1, w2, e1, v1, v2, r1, r2

\* Interchangeable records and states.  Not used for the liveness run.
Symmetry == Permutations(Ids) \union Permutations(Events) \union Permutations(States)
=============================================================================
