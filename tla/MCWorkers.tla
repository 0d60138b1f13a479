----------------------------- MODULE MCWorkers ------------------------------
(* A conversation's turn r, and s: a step's turn or a think. *)
EXTENDS Workers, TLC
CONSTANTS r, s

KindsDef == {r :> "root" @@ s :> k : k \in {"step", "think"}}
EstDef == [u \in Units |-> 2]
=============================================================================
