----------------------------- MODULE Dictionary -----------------------------
(***************************************************************************)
(* What uw_cse333/hw/hw1/HashTable.h promises: a map from keys to values   *)
(* and an iterator that visits each element exactly once, in an order of   *)
(* its own, and may remove the element it is at.  The table changes in no  *)
(* other way while an iteration is under way.                              *)
(***************************************************************************)
CONSTANTS Key, Value

VARIABLES map,          \* the elements
          left          \* the keys that the iteration has not passed

vars == <<map, left>>

With(key, value) == [k \in DOMAIN map \cup {key} |-> IF k = key THEN value ELSE map[k]]
Without(key) == [k \in DOMAIN map \ {key} |-> map[k]]

Init == map = <<>> /\ left = {}

Insert == left = {} /\ \E k \in Key, v \in Value : map' = With(k, v) /\ UNCHANGED left
Remove == left = {} /\ \E k \in Key : map' = Without(k) /\ UNCHANGED left

MakeIterator == left' = DOMAIN map /\ UNCHANGED map
Visit == \E k \in left : left' = left \ {k} /\ UNCHANGED map
VisitAndDelete == \E k \in left : left' = left \ {k} /\ map' = Without(k)

Next == Insert \/ Remove \/ MakeIterator \/ Visit \/ VisitAndDelete

Spec == Init /\ [][Next]_vars
=============================================================================
