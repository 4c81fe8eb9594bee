---------------------------- MODULE MCHeapFile -----------------------------
(* Instances of HeapFile for TLC. *)
EXTENDS HeapFile, TLC

Symmetry == Permutations(Tid)

ScanDelete == {"scan", "delete"}
ScanInsert == {"scan", "insert", "flushAll"}
JustScan == {"scan"}
JustInsert == {"insert"}
Commit == {"commit"}
CommitOrAbort == {"commit", "abort"}
=============================================================================
