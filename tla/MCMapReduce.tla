----------------------------- MODULE MCMapReduce -----------------------------
(* Instances of MapReduce for TLC. *)
EXTENDS MapReduce

CONSTANTS w1, w2, w3

\* w1 fails after one call, w2 lives, w3 has a limit of two and may die.
Limits == [w \in Worker |-> IF w = w1 THEN 1 ELSE IF w = w2 THEN -1 ELSE 2]
=============================================================================
