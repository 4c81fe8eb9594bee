------------------------------ MODULE Sequence ------------------------------
(***************************************************************************)
(* What uw_cse333/hw/hw1/LinkedList.h promises: a sequence, and at most    *)
(* one iterator, which is at one of its elements.  While there is an       *)
(* iterator the sequence changes through it alone.                         *)
(***************************************************************************)
EXTENDS Integers, Sequences, FiniteSets

CONSTANT Element        \* the numbers that a list may hold

VARIABLES seq,          \* the elements
          at            \* the index of the iterator, 0 when there is none

vars == <<seq, at>>

Sorted(s, ascending) ==
    \A i, j \in DOMAIN s : i < j => IF ascending THEN s[i] <= s[j] ELSE s[i] >= s[j]

Occurrences(s, p) == Cardinality({i \in DOMAIN s : s[i] = p})

Init == seq = <<>> /\ at = 0

\* Through the functions of the list.
Change ==
    /\ at = 0
    /\ \/ \E p \in Element : seq' = <<p>> \o seq \/ seq' = Append(seq, p)
       \/ seq # <<>> /\ (seq' = Tail(seq) \/ seq' = SubSeq(seq, 1, Len(seq) - 1))
       \/ /\ \E ascending \in BOOLEAN : Sorted(seq', ascending)
          /\ \A p \in Element : Occurrences(seq', p) = Occurrences(seq, p)
    /\ UNCHANGED at

Make == at = 0 /\ seq # <<>> /\ at' \in {1, Len(seq)} /\ UNCHANGED seq
Free == at # 0 /\ at' = 0 /\ UNCHANGED seq

Move == at # 0 /\ at' \in {at - 1, at + 1} \cap DOMAIN seq /\ UNCHANGED seq

Delete ==
    /\ at # 0
    /\ seq' = SubSeq(seq, 1, at - 1) \o SubSeq(seq, at + 1, Len(seq))
    /\ at' = IF at > Len(seq') THEN Len(seq') ELSE at

InsertBefore ==
    /\ at # 0
    /\ \E p \in Element : seq' = SubSeq(seq, 1, at - 1) \o <<p>> \o SubSeq(seq, at, Len(seq))
    /\ at' = at + 1

Next == Change \/ Make \/ Free \/ Move \/ Delete \/ InsertBefore

Spec == Init /\ [][Next]_vars
=============================================================================
