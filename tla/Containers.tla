----------------------------- MODULE Containers -----------------------------
(***************************************************************************)
(* Any client of LinkedList.h, or of HashTable.h, that keeps to their      *)
(* rules: while an iterator is in use, a container changes through it.     *)
(*                                                                         *)
(* A behaviour uses one list or one table.  Memory may run out where the   *)
(* code goes on without it: in ResizeHashtable.                            *)
(***************************************************************************)
EXTENDS ListClient, HashTable

CONSTANTS
    Pairs,          \* what tables hold: keys, which are numbers, with values
    NumBuckets      \* of the table at first

ASSUME ContainersAssumption ==
    /\ \A kv \in Pairs : kv.key \in Nat
    /\ NumBuckets \in Nat \ {0}

VARIABLES
    uses,       \* which of the two this client uses
    table, iter \* the table, and its iterator

vars == <<uses, list, it, table, iter>>
tableVars == <<table, iter>>

Init ==
    /\ uses \in {"list", "table"}
    /\ ListInit
    /\ table = AllocateHashTable(NumBuckets)
    /\ iter = HashTableMakeIterator(table)
-----------------------------------------------------------------------------
Fits(key) == Has(table, key) \/ table.num_elements < MaxElements

\* The table changes between iterations.  An iterator that is freed before its
\* end leaves the table as it is, and is not modelled.
Insert(kv) ==
    /\ HTIteratorPastEnd(iter) /\ Fits(kv.key)
    /\ table' = InsertHashTable(table, kv)
    /\ UNCHANGED iter

\* No memory for the larger table or for the iterator over the old one.  When it
\* is found at last, the larger table can take all elements as it is.
InsertUnresized(kv) ==
    /\ HTIteratorPastEnd(iter) /\ Fits(kv.key) /\ MustResize(table)
    /\ table.num_elements < 27 * table.num_buckets
    /\ table' = InsertInChain(table, kv)
    /\ UNCHANGED iter

Remove(key) ==
    /\ HTIteratorPastEnd(iter)
    /\ table' = RemoveFromHashTable(table, key)
    /\ UNCHANGED iter

Iterate ==
    /\ iter' = HashTableMakeIterator(table)
    /\ UNCHANGED table

Advance ==
    /\ ~HTIteratorPastEnd(iter)
    /\ iter' = HTIteratorNext(table, iter)
    /\ UNCHANGED table

DeleteAndAdvance ==
    /\ ~HTIteratorPastEnd(iter)
    /\ table' = HTIteratorDelete(table, iter).table
    /\ iter' = HTIteratorDelete(table, iter).iter
-----------------------------------------------------------------------------
TableNext ==
    \/ \E kv \in Pairs : Insert(kv) \/ InsertUnresized(kv)
    \/ \E kv \in Pairs : Remove(kv.key)
    \/ Iterate \/ Advance \/ DeleteAndAdvance

Next ==
    /\ UNCHANGED uses
    /\ \/ uses = "list" /\ ListNext /\ UNCHANGED tableVars
       \/ uses = "table" /\ TableNext /\ UNCHANGED listVars

Spec == Init /\ [][Next]_vars
-----------------------------------------------------------------------------
\* Through resizing and deletion, each key is in the table once and in the bucket
\* where FindKVInHashTable looks for it, and num_elements is exact; a valid
\* iterator is at a node of its bucket (HashTable.c).
BucketsWellFormed ==
    /\ TableWellFormed(table)
    /\ iter.is_valid => iter.node \in DOMAIN table.buckets[iter.bucket_num].node

IndexOf(n) == IF n = NULL THEN 0 ELSE CHOOSE i \in DOMAIN Nodes(list) : Nodes(list)[i] = n

S == INSTANCE Sequence WITH Element <- Payloads, seq <- Contents(list), at <- IndexOf(it)
D == INSTANCE Dictionary WITH Key <- {kv.key : kv \in Pairs}, Value <- {kv.value : kv \in Pairs},
                              map <- AsMap(table), left <- KeysLeft(table, iter)

\* The list is a sequence, and an iterator that deletes goes to the successor of
\* what it deleted, or to the new last element (LinkedList.h, LLIteratorDelete).
ImplementsSequence == S!Spec

\* The table is a map, resizing does not show, and an iteration visits each
\* element exactly once, also when it deletes on its way (HashTable.h).
ImplementsDictionary == D!Spec
=============================================================================
