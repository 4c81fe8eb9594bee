----------------------------- MODULE LinkedList -----------------------------
(***************************************************************************)
(* uw_cse333/hw/hw1/LinkedList.c: a doubly linked list with head, tail and *)
(* element count, and iterators that can delete and insert.                *)
(*                                                                         *)
(* A list is a record of its three fields and of its nodes; a node is      *)
(* known by the place malloc gave it, here the smallest free one.  Reading *)
(* a node that was freed is an error.  An iterator is the node it is at.   *)
(***************************************************************************)
EXTENDS Integers, Sequences, FiniteSets, TLC

NULL == 0

AllocateLinkedList ==
    [num_elements |-> 0, head |-> NULL, tail |-> NULL, node |-> <<>>]

malloc(L) == CHOOSE n \in 1 .. Cardinality(DOMAIN L.node) + 1 : n \notin DOMAIN L.node
free(nodes, n) == [m \in DOMAIN nodes \ {n} |-> nodes[m]]
Put(nodes, n, node) == [m \in DOMAIN nodes \cup {n} |-> IF m = n THEN node ELSE nodes[m]]

Node(payload, next, prev) == [payload |-> payload, next |-> next, prev |-> prev]

Payload(L, n) == L.node[n].payload
SetPayload(L, n, payload) == [L EXCEPT !.node[n].payload = payload]
-----------------------------------------------------------------------------
OnlyNode(L, payload) ==
    LET ln == malloc(L)
    IN  [num_elements |-> 1, head |-> ln, tail |-> ln,
         node |-> Put(L.node, ln, Node(payload, NULL, NULL))]

PushLinkedList(L, payload) ==
    LET ln == malloc(L)
    IN  IF L.num_elements = 0 THEN OnlyNode(L, payload)
        ELSE [L EXCEPT !.num_elements = @ + 1, !.head = ln,
                       !.node = Put([@ EXCEPT ![L.head].prev = ln],
                                    ln, Node(payload, L.head, NULL))]

AppendLinkedList(L, payload) ==
    LET ln == malloc(L)
    IN  IF L.num_elements = 0 THEN OnlyNode(L, payload)
        ELSE [L EXCEPT !.num_elements = @ + 1, !.tail = ln,
                       !.node = Put([@ EXCEPT ![L.tail].next = ln],
                                    ln, Node(payload, NULL, L.tail))]

NoNode(L) ==
    [num_elements |-> L.num_elements - 1, head |-> NULL, tail |-> NULL,
     node |-> free(L.node, L.head)]

PopLinkedList_KeepPrev(L) ==
    LET next == L.node[L.head].next
    IN  IF L.num_elements = 1 THEN NoNode(L)
        ELSE [L EXCEPT !.num_elements = @ - 1, !.head = next, !.node = free(@, L.head)]

\* Of a list that is not empty; the payload is that of the head.
PopLinkedList(L) ==
    LET next == L.node[L.head].next
    IN  IF L.num_elements = 1 THEN NoNode(L)
        ELSE [L EXCEPT !.num_elements = @ - 1, !.head = next,
                       !.node = free([@ EXCEPT ![next].prev = NULL], L.head)]

\* Of a list that is not empty; the payload is that of the tail.
SliceLinkedList(L) ==
    LET prev == L.node[L.tail].prev
    IN  IF L.num_elements = 1 THEN NoNode(L)
        ELSE [L EXCEPT !.num_elements = @ - 1, !.tail = prev,
                       !.node = free([@ EXCEPT ![prev].next = NULL], L.tail)]
-----------------------------------------------------------------------------
(* SortLinkedList: bubble sort that moves the payloads and leaves the nodes *)
(* where they are.  key maps a payload to the number that is compared.      *)

Misplaced(p, q, ascending, key) == IF ascending THEN key[p] > key[q] ELSE key[p] < key[q]

\* One round of the loop over the nodes, or the end of a pass: another one
\* begins when this one has swapped something, and else nothing happens.
Round(L, loop, ascending, key) ==
    LET n == loop.curnode
        next == L.node[n].next
        payload == loop.payload
    IN  CASE next = NULL /\ ~loop.swapped -> loop
          [] next = NULL /\ loop.swapped ->
                [loop EXCEPT !.curnode = L.head, !.swapped = FALSE]
          [] next # NULL /\ ~Misplaced(payload[n], payload[next], ascending, key) ->
                [loop EXCEPT !.curnode = next]
          [] OTHER ->
                [curnode |-> next, swapped |-> TRUE,
                 payload |-> [payload EXCEPT ![n] = payload[next], ![next] = payload[n]]]

\* The payloads of the nodes behind so many rounds.
PayloadsAfter(L, rounds, ascending, key) ==
    LET loop[k \in 0 .. rounds] ==
            IF k = 0
            THEN [curnode |-> L.head, swapped |-> FALSE,
                  payload |-> [n \in DOMAIN L.node |-> Payload(L, n)]]
            ELSE Round(L, loop[k - 1], ascending, key)
    IN  loop[rounds].payload

WithPayloads(L, payload) ==
    [L EXCEPT !.node = [n \in DOMAIN @ |-> [@[n] EXCEPT !.payload = payload[n]]]]

SortLinkedList_OnePass(L, ascending, key) ==
    IF L.num_elements < 2 THEN L
    ELSE WithPayloads(L, PayloadsAfter(L, L.num_elements, ascending, key))

\* A pass is a round for each element; a pass for each element sorts them.
SortLinkedList(L, ascending, key) ==
    IF L.num_elements < 2 THEN L
    ELSE WithPayloads(L, PayloadsAfter(L, L.num_elements * L.num_elements, ascending, key))
-----------------------------------------------------------------------------
(* Iterators. *)

LLMakeIterator(L, pos) == IF pos = 0 THEN L.head ELSE L.tail

\* At the last node the iterator stays, and so it does at the first.
LLIteratorNext(L, n) == IF L.node[n].next = NULL THEN n ELSE L.node[n].next
LLIteratorPrev(L, n) == IF L.node[n].prev = NULL THEN n ELSE L.node[n].prev

Splice(L, n) ==
    LET next == L.node[n].next
        prev == L.node[n].prev
    IN  [L EXCEPT !.num_elements = @ - 1,
                  !.node = free([@ EXCEPT ![prev].next = next, ![next].prev = prev], n)]

LLIteratorDelete_Prev(L, n) ==
    LET next == L.node[n].next
        prev == L.node[n].prev
    IN  CASE prev = NULL /\ next = NULL -> [list |-> PopLinkedList(L), node |-> NULL]
          [] prev = NULL /\ next # NULL -> [list |-> PopLinkedList(L), node |-> next]
          [] prev # NULL /\ next = NULL -> [list |-> SliceLinkedList(L), node |-> prev]
          [] OTHER -> [list |-> Splice(L, n), node |-> prev]

\* The list without the node and the node the iterator goes to: the next one,
\* or the new tail behind the old one.
LLIteratorDelete(L, n) ==
    LET next == L.node[n].next
        prev == L.node[n].prev
    IN  CASE prev = NULL /\ next = NULL -> [list |-> PopLinkedList(L), node |-> NULL]
          [] prev = NULL /\ next # NULL -> [list |-> PopLinkedList(L), node |-> next]
          [] prev # NULL /\ next = NULL -> [list |-> SliceLinkedList(L), node |-> prev]
          [] OTHER -> [list |-> Splice(L, n), node |-> next]

LLIteratorInsertBefore(L, n, payload) ==
    LET ln == malloc(L)
        prev == L.node[n].prev
    IN  IF n = L.head THEN PushLinkedList(L, payload)
        ELSE [L EXCEPT !.num_elements = @ + 1,
                       !.node = Put([@ EXCEPT ![prev].next = ln, ![n].prev = ln],
                                    ln, Node(payload, n, prev))]
-----------------------------------------------------------------------------
(* What a list stands for. *)

\* The first num_elements nodes from the head on.
Nodes(L) ==
    LET node[i \in 1 .. L.num_elements] == IF i = 1 THEN L.head ELSE L.node[node[i - 1]].next
    IN  [i \in 1 .. L.num_elements |-> node[i]]

Contents(L) == [i \in 1 .. L.num_elements |-> Payload(L, Nodes(L)[i])]

\* s lists the nodes in the order of the links, which agree in both directions.
InOrder(L, s) ==
    /\ \A n \in DOMAIN L.node : \E i \in DOMAIN s : s[i] = n
    /\ \A i, j \in DOMAIN s : s[i] = s[j] => i = j
    /\ L.head = IF L.num_elements = 0 THEN NULL ELSE s[1]
    /\ L.tail = IF L.num_elements = 0 THEN NULL ELSE s[L.num_elements]
    /\ \A i \in DOMAIN s :
        /\ L.node[s[i]].next = IF i = L.num_elements THEN NULL ELSE s[i + 1]
        /\ L.node[s[i]].prev = IF i = 1 THEN NULL ELSE s[i - 1]

\* The links in both directions, the ends and the count of a list agree, and no
\* node is outside the list: none leaks.
WellFormed(L) == \E s \in [1 .. L.num_elements -> DOMAIN L.node] : InOrder(L, s)
=============================================================================
