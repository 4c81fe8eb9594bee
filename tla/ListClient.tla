----------------------------- MODULE ListClient -----------------------------
(***************************************************************************)
(* Any client of one list of LinkedList.h that keeps to its rules: while   *)
(* an iterator is in use, the list changes through it.                     *)
(***************************************************************************)
EXTENDS LinkedList

CONSTANTS
    Payloads,       \* what lists hold: numbers, which are sorted as such
    MaxElements     \* bound: the elements of a container

ASSUME ListAssumption == Payloads \subseteq Nat /\ MaxElements \in Nat

VARIABLES list, it      \* the list, and its iterator or NULL

listVars == <<list, it>>

ListInit ==
    /\ list = AllocateLinkedList
    /\ it = NULL
-----------------------------------------------------------------------------
Room == list.num_elements < MaxElements
ByValue == [p \in Payloads |-> p]

ListChanges ==
    /\ it = NULL
    /\ \/ \E p \in Payloads : Room /\ list' = PushLinkedList(list, p)
       \/ \E p \in Payloads : Room /\ list' = AppendLinkedList(list, p)
       \/ list.num_elements > 0 /\ list' = PopLinkedList(list)
       \/ list.num_elements > 0 /\ list' = SliceLinkedList(list)
       \/ \E ascending \in BOOLEAN : list' = SortLinkedList(list, ascending, ByValue)
    /\ UNCHANGED it

IteratorMoves ==
    /\ \/ \E pos \in {0, 1} : it = NULL /\ it' = LLMakeIterator(list, pos)
       \/ it # NULL /\ it' = LLIteratorNext(list, it)
       \/ it # NULL /\ it' = LLIteratorPrev(list, it)
       \/ it # NULL /\ it' = NULL                          \* LLIteratorFree
    /\ UNCHANGED list

IteratorDeletes ==
    /\ it # NULL
    /\ list' = LLIteratorDelete(list, it).list
    /\ it' = LLIteratorDelete(list, it).node

IteratorInserts ==
    /\ it # NULL /\ Room
    /\ \E p \in Payloads : list' = LLIteratorInsertBefore(list, it, p)
    /\ UNCHANGED it
-----------------------------------------------------------------------------
ListNext == ListChanges \/ IteratorMoves \/ IteratorDeletes \/ IteratorInserts

ListSpec == ListInit /\ [][ListNext]_listVars

\* Whatever is pushed, popped, spliced and sorted, the links of the list in both
\* directions, its ends and num_elements agree, and no node is lost without
\* having been freed; the iterator is never at a freed node (LinkedList.c).
ListWellFormed == WellFormed(list) /\ it \in DOMAIN list.node \cup {NULL}
=============================================================================
