------------------------------ MODULE MCMalloc ------------------------------
(* Instances of MallocDriver for TLC. *)
EXTENDS MallocDriver

CONSTANTS i1, i2, i3

Names == Permutations(Index)
=============================================================================
