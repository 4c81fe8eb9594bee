----------------------------- MODULE HashTable -----------------------------
(***************************************************************************)
(* uw_cse333/hw/hw1/HashTable.c: a chained hash table over LinkedList that *)
(* grows ninefold when it holds three elements per bucket, and an iterator *)
(* that can delete.                                                        *)
(*                                                                         *)
(* The payload of a chain is a key and a value.  A table is its record,    *)
(* an iterator its valid bit, its bucket and its node in that bucket.      *)
(***************************************************************************)
EXTENDS LinkedList

KeyValue(key, value) == [key |-> key, value |-> value]

AllocateHashTable(num_buckets) ==
    [num_buckets |-> num_buckets, num_elements |-> 0,
     buckets |-> [i \in 0 .. num_buckets - 1 |-> AllocateLinkedList]]

HashKeyToBucketNum(ht, key) == key % ht.num_buckets
Chain(ht, key) == ht.buckets[HashKeyToBucketNum(ht, key)]

\* The node of a key in a chain, the first from the head on, or NULL.
FindKVInHashTable(L, key) ==
    LET hits == {i \in DOMAIN Nodes(L) : Payload(L, Nodes(L)[i]).key = key}
    IN  IF hits = {} THEN NULL
        ELSE Nodes(L)[CHOOSE i \in hits : \A j \in hits : i <= j]

Has(ht, key) == FindKVInHashTable(Chain(ht, key), key) # NULL

\* The value of a key that is in the table.
LookupHashTable(ht, key) ==
    Payload(Chain(ht, key), FindKVInHashTable(Chain(ht, key), key)).value

\* InsertHashTable behind the call of ResizeHashtable.
InsertInChain(ht, kv) ==
    LET b == HashKeyToBucketNum(ht, kv.key)
        location == FindKVInHashTable(ht.buckets[b], kv.key)
    IN  IF location = NULL
        THEN [ht EXCEPT !.buckets[b] = AppendLinkedList(@, kv), !.num_elements = @ + 1]
        ELSE [ht EXCEPT !.buckets[b] = SetPayload(@, location, kv)]

RemoveFromHashTable(ht, key) ==
    LET b == HashKeyToBucketNum(ht, key)
        location == FindKVInHashTable(ht.buckets[b], key)
    IN  IF location = NULL THEN ht
        ELSE [ht EXCEPT !.buckets[b] = LLIteratorDelete(@, location).list,
                        !.num_elements = @ - 1]
-----------------------------------------------------------------------------
(* Iterators. *)

\* The buckets from b on that hold something.
Filled(ht, b) == {i \in b .. ht.num_buckets - 1 : ht.buckets[i].num_elements > 0}

AtBucket(ht, b) ==
    [is_valid |-> TRUE, bucket_num |-> b, node |-> LLMakeIterator(ht.buckets[b], 0)]

Invalid == [is_valid |-> FALSE, bucket_num |-> 0, node |-> NULL]

HashTableMakeIterator(ht) ==
    IF ht.num_elements = 0 THEN Invalid
    ELSE AtBucket(ht, CHOOSE b \in Filled(ht, 0) : \A c \in Filled(ht, 0) : b <= c)

HTIteratorNext_SkipEmpty(ht, it) ==
    LET L == ht.buckets[it.bucket_num]
        b == it.bucket_num + 1
    IN  CASE ~it.is_valid -> it
          [] it.is_valid /\ L.node[it.node].next # NULL ->
                [it EXCEPT !.node = LLIteratorNext(L, @)]
          [] OTHER ->
                IF b < ht.num_buckets /\ ht.buckets[b].num_elements > 0
                THEN AtBucket(ht, b) ELSE Invalid

HTIteratorNext(ht, it) ==
    LET L == ht.buckets[it.bucket_num]
        filled == Filled(ht, it.bucket_num + 1)
    IN  CASE ~it.is_valid -> it
          [] it.is_valid /\ L.node[it.node].next # NULL ->
                [it EXCEPT !.node = LLIteratorNext(L, @)]
          [] OTHER ->
                IF filled = {} THEN Invalid
                ELSE AtBucket(ht, CHOOSE b \in filled : \A c \in filled : b <= c)

HTIteratorPastEnd(it) == ~it.is_valid

HTIteratorGet(ht, it) == Payload(ht.buckets[it.bucket_num], it.node)

\* Of a valid iterator: it moves on before the element is removed.
HTIteratorDelete(ht, it) ==
    [table |-> RemoveFromHashTable(ht, HTIteratorGet(ht, it).key),
     iter |-> HTIteratorNext(ht, it)]
-----------------------------------------------------------------------------
(* ResizeHashtable *)

MustResize(ht) == ht.num_elements >= 3 * ht.num_buckets

\* One round of the loop over the old table, until the iterator is past the end.
CopyItem(ht, copy) ==
    IF HTIteratorPastEnd(copy.it) THEN copy
    ELSE [it |-> HTIteratorNext(ht, copy.it),
          newht |-> InsertInChain(copy.newht, HTIteratorGet(ht, copy.it))]

\* The iterator and the new table behind each round: there is one for each
\* element.  InsertHashTable does not resize the new table, which is large
\* enough while ht has no more than 27 elements for each bucket.
Copies(ht) ==
    LET copy[k \in 0 .. ht.num_elements] ==
            IF k = 0 THEN [it |-> HashTableMakeIterator(ht),
                           newht |-> AllocateHashTable(9 * ht.num_buckets)]
            ELSE CopyItem(ht, copy[k - 1])
    IN  copy

ResizeHashtable_Rehash(ht) ==
    IF MustResize(ht)
    THEN [num_buckets |-> 9 * ht.num_buckets, num_elements |-> ht.num_elements,
          buckets |-> ht.buckets @@ AllocateHashTable(9 * ht.num_buckets).buckets]
    ELSE ht

\* When all allocations succeed.  When the new table, or the iterator over the
\* old one, cannot be allocated, the table stays as it is.
ResizeHashtable(ht) ==
    IF MustResize(ht)
    THEN Copies(ht)[ht.num_elements].newht
    ELSE ht

InsertHashTable(ht, kv) == InsertInChain(ResizeHashtable(ht), kv)
-----------------------------------------------------------------------------
(* What a table stands for. *)

KVs(ht) == UNION {{Payload(ht.buckets[b], n) : n \in DOMAIN ht.buckets[b].node} :
                    b \in DOMAIN ht.buckets}
Keys(ht) == {kv.key : kv \in KVs(ht)}
AsMap(ht) == [key \in Keys(ht) |-> (CHOOSE kv \in KVs(ht) : kv.key = key).value]

\* The nodes of a list from n on.
From(L, n) ==
    {Nodes(L)[i] : i \in {i \in DOMAIN Nodes(L) : \E j \in 1 .. i : Nodes(L)[j] = n}}

\* The nodes an iterator has not passed, in bucket b.
Unpassed(ht, it, b) ==
    IF b = it.bucket_num THEN From(ht.buckets[b], it.node) ELSE DOMAIN ht.buckets[b].node

\* The elements an iterator has not passed.
KVsLeft(ht, it) ==
    IF HTIteratorPastEnd(it) THEN {}
    ELSE UNION {{Payload(ht.buckets[b], n) : n \in Unpassed(ht, it, b)} :
                    b \in it.bucket_num .. ht.num_buckets - 1}
KeysLeft(ht, it) == {kv.key : kv \in KVsLeft(ht, it)}

\* Chains are proper lists, every key is in its own bucket and once, and
\* num_elements counts them.
TableWellFormed(ht) ==
    /\ DOMAIN ht.buckets = 0 .. ht.num_buckets - 1
    /\ \A b \in DOMAIN ht.buckets :
        /\ WellFormed(ht.buckets[b])
        /\ \A n \in DOMAIN ht.buckets[b].node :
            HashKeyToBucketNum(ht, Payload(ht.buckets[b], n).key) = b
    /\ Cardinality(Keys(ht)) = ht.num_elements
    /\ \A b \in DOMAIN ht.buckets : \A m, n \in DOMAIN ht.buckets[b].node :
        Payload(ht.buckets[b], m).key = Payload(ht.buckets[b], n).key => m = n
=============================================================================
