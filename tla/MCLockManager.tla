--------------------------- MODULE MCLockManager ---------------------------
(* Instances of LockManager for TLC. *)
EXTENDS LockManager, TLC

CONSTANT t3     \* one of the transactions

\* Every transaction makes two requests: the transactions are alike.
TwoEach == [t \in Tid |-> 2]

\* One transaction makes a single request.  Three transactions with 2, 2 and
\* 1 requests are the fewest for a deadlock that the waits-for graph shows
\* only when a bystander completes.
OneShorter == [t \in Tid |-> IF t = t3 THEN 1 ELSE 2]

Symmetry == Permutations(Tid) \cup Permutations(PageId)
=============================================================================
