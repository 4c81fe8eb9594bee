-------------------------- MODULE ListClientProofs --------------------------
(***************************************************************************)
(* Proofs about ListClient: the links of a list agree, whatever a client   *)
(* does with it and however long it is.                                    *)
(*                                                                         *)
(* Every operation of LinkedList.c puts a new node at some place of the    *)
(* list, takes a node out at some place, or leaves the links alone.        *)
(***************************************************************************)
EXTENDS ListClient, FiniteSetTheorems, TLAPS

\* Each node is a payload and two links.
AreNodes(f) == f = [n \in DOMAIN f |-> Node(f[n].payload, f[n].next, f[n].prev)]

\* A list is its four fields; its nodes are finitely many, and none is NULL.
IsList(L) ==
    /\ L = [num_elements |-> L.num_elements, head |-> L.head, tail |-> L.tail, node |-> L.node]
    /\ L.num_elements \in Nat
    /\ IsFiniteSet(DOMAIN L.node) /\ DOMAIN L.node \subseteq Nat \ {NULL}
    /\ AreNodes(L.node)

\* The order of the nodes of a list.
Orders(L) == {s \in [1 .. L.num_elements -> DOMAIN L.node] : InOrder(L, s)}

\* M is L with a new node between the places k - 1 and k of the order s.
PutAt(L, s, M, k, ln) ==
    LET n == L.num_elements
    IN  /\ M.num_elements = n + 1
        /\ DOMAIN M.node = DOMAIN L.node \cup {ln}
        /\ M.head = IF k = 1 THEN ln ELSE L.head
        /\ M.tail = IF k = n + 1 THEN ln ELSE L.tail
        /\ M.node[ln].next = IF k = n + 1 THEN NULL ELSE s[k]
        /\ M.node[ln].prev = IF k = 1 THEN NULL ELSE s[k - 1]
        /\ \A m \in DOMAIN L.node :
            /\ M.node[m].next = IF k > 1 /\ m = s[k - 1] THEN ln ELSE L.node[m].next
            /\ M.node[m].prev = IF k <= n /\ m = s[k] THEN ln ELSE L.node[m].prev

\* M is L without the node at place k of the order s.
TakenAt(L, s, M, k) ==
    LET n == L.num_elements
        next == IF k = n THEN NULL ELSE s[k + 1]
        prev == IF k = 1 THEN NULL ELSE s[k - 1]
    IN  /\ M.num_elements = n - 1
        /\ DOMAIN M.node = DOMAIN L.node \ {s[k]}
        /\ M.head = IF k = 1 THEN next ELSE L.head
        /\ M.tail = IF k = n THEN prev ELSE L.tail
        /\ \A m \in DOMAIN M.node :
            /\ M.node[m].next = IF k > 1 /\ m = s[k - 1] THEN next ELSE L.node[m].next
            /\ M.node[m].prev = IF k < n /\ m = s[k + 1] THEN prev ELSE L.node[m].prev

\* The order s without its place k.
Cut(L, s, k) == [i \in 1 .. L.num_elements - 1 |-> IF i < k THEN s[i] ELSE s[i + 1]]

\* M is the list L without the node m.
Removed(L, m, M) ==
    /\ IsList(M) /\ WellFormed(M)
    /\ DOMAIN M.node = DOMAIN L.node \ {m}
    /\ \A x \in DOMAIN M.node : Payload(M, x) = Payload(L, x)
    /\ \E s \in Orders(L) : \E k \in 1 .. L.num_elements : s[k] = m /\ Cut(L, s, k) \in Orders(M)

\* M is the list L with a new node ln.
Added(L, ln, payload, M) ==
    /\ IsList(M) /\ WellFormed(M)
    /\ ln \notin DOMAIN L.node /\ DOMAIN M.node = DOMAIN L.node \cup {ln}
    /\ Payload(M, ln) = payload
    /\ \A x \in DOMAIN L.node : Payload(M, x) = Payload(L, x)

ListInv == IsList(list) /\ ListWellFormed
-----------------------------------------------------------------------------
\* The node malloc gives is a new one.
LEMMA Fresh ==
    ASSUME NEW L, IsFiniteSet(DOMAIN L.node)
    PROVE  malloc(L) \in Nat \ {NULL} /\ malloc(L) \notin DOMAIN L.node
<1> DEFINE D == DOMAIN L.node
           c == Cardinality(D)
<1>1. c \in Nat
  BY FS_CardinalityType, Zenon
<1>2. \E n \in 1 .. c + 1 : n \notin D
  <2> SUFFICES ASSUME 1 .. c + 1 \subseteq D PROVE FALSE
    BY Zenon
  <2>1. Cardinality(1 .. c + 1) <= c
    BY FS_Subset, Zenon
  <2>2. Cardinality(1 .. c + 1) = c + 1
    <3>1. 1 \in Int /\ c + 1 \in Int /\ 1 <= c + 1 /\ (c + 1) - 1 + 1 = c + 1
      BY <1>1
    <3> HIDE DEF c
    <3> QED BY <3>1, FS_Interval
  <2> QED BY <1>1, <2>1, <2>2
<1>3. malloc(L) \in 1 .. c + 1 /\ malloc(L) \notin D
  BY <1>2, Zenon DEF malloc
<1> QED BY <1>1, <1>3 DEF NULL

\* A list stays in order when a node is put in at any place.
LEMMA PutKeepsOrder ==
    ASSUME NEW L, IsList(L), NEW s \in Orders(L), NEW M, NEW ln, ln \notin DOMAIN L.node,
           NEW k \in 1 .. L.num_elements + 1, PutAt(L, s, M, k, ln)
    PROVE  WellFormed(M)
<1> DEFINE n == L.num_elements
           t == [i \in 1 .. n + 1 |-> IF i < k THEN s[i] ELSE IF i = k THEN ln ELSE s[i - 1]]
<1>1. /\ n \in Nat /\ DOMAIN s = 1 .. n /\ InOrder(L, s)
      /\ \A i \in 1 .. n : s[i] \in DOMAIN L.node
  BY Zenon DEF IsList, Orders
<1>2. t \in [1 .. M.num_elements -> DOMAIN M.node]
  BY <1>1 DEF PutAt
<1>0. /\ DOMAIN t = 1 .. n + 1
      /\ t[k] = ln
      /\ \A i \in 1 .. n + 1 : i < k => i \in 1 .. n /\ t[i] = s[i]
      /\ \A i \in 1 .. n + 1 : i > k => i - 1 \in 1 .. n /\ t[i] = s[i - 1]
      /\ \A i \in 1 .. n : i < k => i \in 1 .. n + 1 /\ t[i] = s[i]
      /\ \A i \in 1 .. n : i >= k => i + 1 \in 1 .. n + 1 /\ t[i + 1] = s[i]
  BY <1>1
<1> HIDE DEF t
<1>3. \A m \in DOMAIN M.node : \E i \in 1 .. n + 1 : t[i] = m
  <2> SUFFICES ASSUME NEW m \in DOMAIN M.node PROVE \E i \in 1 .. n + 1 : t[i] = m
    BY Zenon
  <2>1. CASE m = ln
    BY <1>0, <2>1, Zenon
  <2>2. CASE m # ln
    <3>1. PICK i \in 1 .. n : s[i] = m
      BY <1>1, <2>2 DEF PutAt, InOrder
    <3> QED BY <1>0, <1>1, <3>1
  <2> QED BY <2>1, <2>2, Zenon
<1>7. \A i, j \in 1 .. n : s[i] = s[j] => i = j
  BY <1>1, Zenon DEF InOrder
<1>4. \A i, j \in 1 .. n + 1 : t[i] = t[j] => i = j
  <2>1. \A i \in 1 .. n : s[i] # ln
    BY <1>1, Zenon
  <2> QED BY <1>0, <1>1, <1>7, <2>1
<1>5. /\ M.head = IF M.num_elements = 0 THEN NULL ELSE t[1]
      /\ M.tail = IF M.num_elements = 0 THEN NULL ELSE t[M.num_elements]
  <2>1. n = 0 \/ (1 \in 1 .. n /\ n \in 1 .. n)
    BY <1>1
  <2> QED BY <1>0, <1>1, <2>1 DEF PutAt, InOrder
<1>6. ASSUME NEW i \in 1 .. n + 1
      PROVE  /\ M.node[t[i]].next = IF i = M.num_elements THEN NULL ELSE t[i + 1]
             /\ M.node[t[i]].prev = IF i = 1 THEN NULL ELSE t[i - 1]
  <2>1. CASE i = k
    <3>1. i = n + 1 \/ (i + 1 \in 1 .. n + 1 /\ i + 1 > k /\ i + 1 - 1 = k)
      BY <1>1, <2>1
    <3>2. i = 1 \/ (i - 1 \in 1 .. n + 1 /\ i - 1 < k)
      BY <1>1, <2>1
    <3> QED BY <1>0, <1>1, <2>1, <3>1, <3>2 DEF PutAt
  <2>2. CASE i < k
    <3>1. t[i] = s[i] /\ i \in 1 .. n /\ s[i] \in DOMAIN L.node
      BY <1>0, <1>1, <2>2, Zenon
    <3>2. (k > 1 /\ s[i] = s[k - 1]) <=> i = k - 1
      BY <1>1, <1>7, <2>2, <3>1
    <3>3. ~(k <= n /\ s[i] = s[k])
      BY <1>1, <1>7, <2>2, <3>1
    <3>4. i + 1 = k \/ (i + 1 < k /\ i + 1 \in 1 .. n)
      BY <1>1, <2>2
    <3>5. i = 1 \/ (i - 1 < k /\ i - 1 \in 1 .. n)
      BY <1>1, <2>2
    <3>6. /\ L.node[s[i]].next = IF i = n THEN NULL ELSE s[i + 1]
          /\ L.node[s[i]].prev = IF i = 1 THEN NULL ELSE s[i - 1]
      BY <1>1, <3>1, Zenon DEF InOrder
    <3>7. /\ M.node[s[i]].next = IF i = k - 1 THEN ln ELSE L.node[s[i]].next
          /\ M.node[s[i]].prev = L.node[s[i]].prev
      BY <3>1, <3>2, <3>3, Zenon DEF PutAt
    <3>8. i # M.num_elements /\ (i = k - 1 <=> i + 1 = k) /\ (i = n => i + 1 = k)
      BY <1>1, <2>2, <3>1 DEF PutAt
    <3> QED BY <1>0, <3>1, <3>4, <3>5, <3>6, <3>7, <3>8, Zenon
  <2>3. CASE i > k
    <3>1. t[i] = s[i - 1] /\ i - 1 \in 1 .. n /\ s[i - 1] \in DOMAIN L.node
      BY <1>0, <1>1, <2>3, Zenon
    <3>2. ~(k > 1 /\ s[i - 1] = s[k - 1])
      BY <1>1, <1>7, <2>3, <3>1
    <3>3. (k <= n /\ s[i - 1] = s[k]) <=> i - 1 = k
      BY <1>1, <1>7, <2>3, <3>1
    <3>4. i = n + 1 \/ (i + 1 > k /\ i + 1 \in 1 .. n + 1 /\ i + 1 - 1 = i /\ i - 1 + 1 = i)
      BY <1>1, <2>3
    <3>5. i - 1 = k \/ (i - 1 > k /\ i - 1 \in 1 .. n + 1)
      BY <1>1, <2>3
    <3>6. /\ L.node[s[i - 1]].next = IF i - 1 = n THEN NULL ELSE s[i - 1 + 1]
          /\ L.node[s[i - 1]].prev = IF i - 1 = 1 THEN NULL ELSE s[i - 1 - 1]
      BY <1>1, <3>1, SMTT(30) DEF InOrder
    <3>7. /\ M.node[s[i - 1]].next = L.node[s[i - 1]].next
          /\ M.node[s[i - 1]].prev = IF i - 1 = k THEN ln ELSE L.node[s[i - 1]].prev
      BY <3>1, <3>2, <3>3, Zenon DEF PutAt
    <3>8. i # 1 /\ (i = M.num_elements <=> i - 1 = n) /\ (i = n + 1 <=> i - 1 = n) /\ (i - 1 = 1 => i - 1 = k)
      BY <1>1, <2>3, <3>1 DEF PutAt
    <3> QED BY <1>0, <3>1, <3>4, <3>5, <3>6, <3>7, <3>8
  <2> QED BY <1>1, <2>1, <2>2, <2>3
<1>8. InOrder(M, t)
  BY <1>0, <1>3, <1>4, <1>5, <1>6, Zenon DEF InOrder
<1> QED BY <1>2, <1>8, Zenon DEF WellFormed

\* It does so when a node is taken out.
LEMMA TakenKeepsOrder ==
    ASSUME NEW L, IsList(L), NEW s \in Orders(L), NEW M,
           NEW k \in 1 .. L.num_elements, TakenAt(L, s, M, k)
    PROVE  WellFormed(M) /\ Cut(L, s, k) \in Orders(M)
<1> DEFINE n == L.num_elements
           t == [i \in 1 .. n - 1 |-> IF i < k THEN s[i] ELSE s[i + 1]]
<1>1. /\ n \in Nat \ {0} /\ DOMAIN s = 1 .. n /\ InOrder(L, s)
      /\ \A i \in 1 .. n : s[i] \in DOMAIN L.node
  BY DEF IsList, Orders
<1>0. \A i, j \in 1 .. n : s[i] = s[j] => i = j
  BY <1>1, Zenon DEF InOrder
<1>2. t \in [1 .. M.num_elements -> DOMAIN M.node]
  <2>1. \A i \in 1 .. n - 1 : t[i] \in DOMAIN M.node
    BY <1>0, <1>1 DEF TakenAt
  <2> QED BY <2>1, Zenon DEF TakenAt
<1>7. /\ DOMAIN t = 1 .. n - 1
      /\ \A i \in 1 .. n - 1 : i < k => i \in 1 .. n /\ t[i] = s[i]
      /\ \A i \in 1 .. n - 1 : i >= k => i + 1 \in 1 .. n /\ t[i] = s[i + 1]
      /\ \A i \in 1 .. n : i < k => i \in 1 .. n - 1
      /\ \A i \in 1 .. n : i > k => i - 1 \in 1 .. n - 1 /\ t[i - 1] = s[i]
  BY <1>1
<1> HIDE DEF t
<1>3. \A m \in DOMAIN M.node : \E i \in 1 .. n - 1 : t[i] = m
  <2> SUFFICES ASSUME NEW m \in DOMAIN M.node PROVE \E i \in 1 .. n - 1 : t[i] = m
    BY Zenon
  <2>1. PICK i \in 1 .. n : s[i] = m /\ i # k
    BY <1>1 DEF TakenAt, InOrder
  <2> QED BY <1>1, <1>7, <2>1
<1>4. \A i, j \in 1 .. n - 1 : t[i] = t[j] => i = j
  BY <1>0, <1>1, <1>7
<1>5. /\ M.head = IF M.num_elements = 0 THEN NULL ELSE t[1]
      /\ M.tail = IF M.num_elements = 0 THEN NULL ELSE t[M.num_elements]
  <2>1. n = 1 \/ (1 \in 1 .. n - 1 /\ n - 1 \in 1 .. n - 1 /\ 1 + 1 = 2)
    BY <1>1
  <2>2. M.num_elements = 0 <=> n = 1
    BY <1>1 DEF TakenAt
  <2>3. /\ k = n => n - 1 < k
        /\ k # n => n - 1 >= k /\ n - 1 + 1 = n
        /\ k # 1 => 1 < k
        /\ k = 1 => 1 >= k
        /\ n = 1 => k = n /\ k = 1
    BY <1>1
  <2> QED BY <1>1, <1>7, <2>1, <2>2, <2>3 DEF TakenAt, InOrder
<1>6. ASSUME NEW i \in 1 .. n - 1
      PROVE  /\ M.node[t[i]].next = IF i = M.num_elements THEN NULL ELSE t[i + 1]
             /\ M.node[t[i]].prev = IF i = 1 THEN NULL ELSE t[i - 1]
  <2>0. t[i] \in DOMAIN M.node
    BY <1>2, <1>7, Zenon DEF TakenAt
  <2>1. CASE i < k
    <3>1. t[i] = s[i] /\ i \in 1 .. n
      BY <1>1, <1>7, <2>1, Zenon
    <3>2. (k > 1 /\ s[i] = s[k - 1]) <=> i = k - 1
      BY <1>0, <1>1, <2>1, <3>1
    <3>3. ~(k < n /\ s[i] = s[k + 1])
      BY <1>0, <1>1, <2>1, <3>1
    <3>4. i + 1 = k \/ (i + 1 < k /\ i + 1 \in 1 .. n - 1)
      BY <1>1, <2>1
    <3>5. i = 1 \/ (i - 1 < k /\ i - 1 \in 1 .. n - 1)
      BY <1>1, <2>1
    <3>6. /\ L.node[s[i]].next = s[i + 1]
          /\ L.node[s[i]].prev = IF i = 1 THEN NULL ELSE s[i - 1]
      BY <1>1, <2>1, <3>1, SMTT(30) DEF InOrder
    <3>7. /\ M.node[s[i]].next = IF i = k - 1 THEN IF k = n THEN NULL ELSE s[k + 1] ELSE L.node[s[i]].next
          /\ M.node[s[i]].prev = L.node[s[i]].prev
      BY <2>0, <3>1, <3>2, <3>3, Zenon DEF TakenAt
    <3>8. /\ i = M.num_elements <=> i = n - 1
          /\ i = k - 1 <=> i + 1 = k
          /\ i = k - 1 => (k = n <=> i = n - 1)
          /\ i = n - 1 => i + 1 = k
          /\ i # n - 1 => i + 1 \in 1 .. n - 1
      BY <1>1, <2>1, <3>1 DEF TakenAt
    <3>9. i = k - 1 /\ i # n - 1 => t[i + 1] = s[k + 1]
      BY <1>1, <1>7, <3>8
    <3> QED BY <1>7, <3>1, <3>4, <3>5, <3>6, <3>7, <3>8, <3>9, Zenon
  <2>2. CASE i >= k
    <3>1. t[i] = s[i + 1] /\ i + 1 \in 1 .. n
      BY <1>1, <1>7, <2>2, Zenon
    <3>2. ~(k > 1 /\ s[i + 1] = s[k - 1])
      BY <1>0, <1>1, <2>2, <3>1
    <3>3. (k < n /\ s[i + 1] = s[k + 1]) <=> i = k
      BY <1>0, <1>1, <2>2, <3>1
    <3>4. i = n - 1 \/ (i + 1 >= k /\ i + 1 \in 1 .. n - 1)
      BY <1>1, <2>2
    <3>5. i = k \/ (i - 1 >= k /\ i - 1 \in 1 .. n - 1 /\ i - 1 + 1 = i)
      BY <1>1, <2>2
    <3>6. /\ L.node[s[i + 1]].next = IF i + 1 = n THEN NULL ELSE s[i + 1 + 1]
          /\ L.node[s[i + 1]].prev = s[i]
      <4>1. PICK j \in 1 .. n : j = i + 1 /\ j # 1 /\ j - 1 = i
        BY <1>1, <3>1
      <4>2. /\ L.node[s[j]].next = IF j = n THEN NULL ELSE s[j + 1]
            /\ L.node[s[j]].prev = s[j - 1]
        BY <1>1, <4>1, Zenon DEF InOrder
      <4> QED BY <4>1, <4>2, Zenon
    <3>7. /\ M.node[s[i + 1]].next = L.node[s[i + 1]].next
          /\ M.node[s[i + 1]].prev = IF i = k THEN IF k = 1 THEN NULL ELSE s[k - 1] ELSE L.node[s[i + 1]].prev
      BY <2>0, <3>1, <3>2, <3>3, Zenon DEF TakenAt
    <3>8. /\ i = M.num_elements <=> i + 1 = n
          /\ i = n - 1 <=> i + 1 = n
          /\ i # k => i # 1
          /\ i = k /\ i # 1 => k - 1 \in 1 .. n - 1 /\ k - 1 < k
      BY <1>1, <2>2, <3>1 DEF TakenAt
    <3> QED BY <1>7, <3>1, <3>4, <3>5, <3>6, <3>7, <3>8
  <2> QED BY <1>1, <2>1, <2>2
<1>8. InOrder(M, t)
  BY <1>3, <1>4, <1>5, <1>6, <1>7, SMTT(30) DEF InOrder
<1>9. t = Cut(L, s, k)
  BY Zenon DEF t, Cut
<1> QED BY <1>2, <1>8, <1>9, Zenon DEF WellFormed, Orders
-----------------------------------------------------------------------------
(* What stores to the links make of the nodes. *)

\* An assignment to the prev of one node changes nothing else.
LEMMA PrevStored ==
    ASSUME NEW f, AreNodes(f), NEW a \in DOMAIN f, NEW x
    PROVE  LET g == [f EXCEPT ![a].prev = x]
           IN  /\ AreNodes(g) /\ DOMAIN g = DOMAIN f
               /\ \A n \in DOMAIN f : /\ g[n].payload = f[n].payload
                                      /\ g[n].next = f[n].next
                                      /\ g[n].prev = IF n = a THEN x ELSE f[n].prev
BY DEF AreNodes, Node

\* An assignment to the next of one node changes nothing else.
LEMMA NextStored ==
    ASSUME NEW f, AreNodes(f), NEW a \in DOMAIN f, NEW x
    PROVE  LET g == [f EXCEPT ![a].next = x]
           IN  /\ AreNodes(g) /\ DOMAIN g = DOMAIN f
               /\ \A n \in DOMAIN f : /\ g[n].payload = f[n].payload
                                      /\ g[n].prev = f[n].prev
                                      /\ g[n].next = IF n = a THEN x ELSE f[n].next
BY DEF AreNodes, Node
-----------------------------------------------------------------------------
(* The operations of LinkedList.c. *)

\* The ends of a list, and the links of a node of it.
LEMMA Ends ==
    ASSUME NEW L, IsList(L), NEW s \in Orders(L)
    PROVE  LET n == L.num_elements
           IN  /\ n = 0 => DOMAIN L.node = {} /\ L.head = NULL /\ L.tail = NULL
               /\ n # 0 => /\ L.head = s[1] /\ L.tail = s[n]
                          /\ 1 \in 1 .. n /\ n \in 1 .. n
                          /\ L.head \in DOMAIN L.node /\ L.tail \in DOMAIN L.node
<1>1. /\ L.num_elements \in Nat /\ DOMAIN s = 1 .. L.num_elements
      /\ InOrder(L, s) /\ \A i \in 1 .. L.num_elements : s[i] \in DOMAIN L.node
  BY Zenon DEF IsList, Orders
<1>2. CASE L.num_elements = 0
  <2>1. DOMAIN s = {}
    BY <1>1, <1>2
  <2> QED BY <1>1, <1>2, <2>1, Zenon DEF InOrder
<1>3. CASE L.num_elements # 0
  <2>1. 1 \in 1 .. L.num_elements /\ L.num_elements \in 1 .. L.num_elements
    BY <1>1, <1>3
  <2> QED BY <1>1, <1>3, <2>1, Zenon DEF InOrder
<1> QED BY <1>2, <1>3, Zenon

\* Every node has a place in an order of the list, and its two pointers lead to
\* its neighbours there.
LEMMA Place ==
    ASSUME NEW L, IsList(L), NEW s \in Orders(L), NEW m \in DOMAIN L.node
    PROVE  \E k \in 1 .. L.num_elements :
             /\ s[k] = m
             /\ IF k = L.num_elements THEN L.node[m].next = NULL
                ELSE k + 1 \in 1 .. L.num_elements /\ L.node[m].next = s[k + 1]
             /\ IF k = 1 THEN L.node[m].prev = NULL
                ELSE k - 1 \in 1 .. L.num_elements /\ L.node[m].prev = s[k - 1]
<1>1. /\ L.num_elements \in Nat /\ DOMAIN s = 1 .. L.num_elements /\ InOrder(L, s)
  BY Zenon DEF IsList, Orders
<1>2. PICK k \in 1 .. L.num_elements : s[k] = m
  BY <1>1, Zenon DEF InOrder
<1>3. /\ k # L.num_elements => k + 1 \in 1 .. L.num_elements
      /\ k # 1 => k - 1 \in 1 .. L.num_elements
  BY <1>1
<1>4. /\ L.node[m].next = IF k = L.num_elements THEN NULL ELSE s[k + 1]
      /\ L.node[m].prev = IF k = 1 THEN NULL ELSE s[k - 1]
  BY <1>1, <1>2, Zenon DEF InOrder
<1> QED BY <1>2, <1>3, <1>4, Zenon

\* A well-formed list has an order of its nodes to start from.
LEMMA OrderExists ==
    ASSUME NEW L, WellFormed(L)
    PROVE  \E s \in Orders(L) : TRUE
BY Zenon DEF WellFormed, Orders

\* A new list has no node.
LEMMA Allocated ==
    /\ IsList(AllocateLinkedList) /\ WellFormed(AllocateLinkedList)
    /\ DOMAIN AllocateLinkedList.node = {} /\ AllocateLinkedList.num_elements = 0
<1> DEFINE L == AllocateLinkedList
<1>1. /\ L = [num_elements |-> 0, head |-> NULL, tail |-> NULL, node |-> <<>>]
      /\ L.num_elements = 0 /\ L.head = NULL /\ L.tail = NULL
      /\ L.node = <<>> /\ DOMAIN L.node = {}
  BY DEF AllocateLinkedList
<1> HIDE DEF L
<1>2. IsList(L)
  <2>1. AreNodes(L.node)
    BY <1>1 DEF AreNodes
  <2>2. IsFiniteSet(DOMAIN L.node)
    BY <1>1, FS_EmptySet, Zenon
  <2> QED BY <1>1, <2>1, <2>2, Zenon DEF IsList
<1>3. WellFormed(L)
  <2>1. <<>> \in [1 .. L.num_elements -> DOMAIN L.node]
    BY <1>1
  <2>2. InOrder(L, <<>>)
    BY <1>1, Zenon DEF InOrder
  <2> QED BY <2>1, <2>2, Zenon DEF WellFormed
<1> QED BY <1>1, <1>2, <1>3, Zenon DEF L

\* Push and Append to an empty list: the new node is the only one.
LEMMA FirstNode ==
    ASSUME NEW L, IsList(L), WellFormed(L), L.num_elements = 0, NEW p
    PROVE  Added(L, malloc(L), p, OnlyNode(L, p))
<1> DEFINE ln == malloc(L)
           M == OnlyNode(L, p)
<1>0. PICK s \in Orders(L) : TRUE
  BY OrderExists, Zenon
<1>1. ln \in Nat \ {NULL} /\ ln \notin DOMAIN L.node /\ IsFiniteSet(DOMAIN L.node \cup {ln})
  BY Fresh, FS_AddElement, Zenon DEF IsList
<1>2. /\ M = [num_elements |-> 1, head |-> ln, tail |-> ln, node |-> M.node]
      /\ M.num_elements = 1 /\ M.head = ln /\ M.tail = ln
      /\ M.node = Put(L.node, ln, Node(p, NULL, NULL))
  BY Zenon DEF OnlyNode
<1>3. /\ AreNodes(M.node) /\ DOMAIN M.node = DOMAIN L.node \cup {ln}
      /\ M.node[ln].next = NULL /\ M.node[ln].prev = NULL /\ M.node[ln].payload = p
  <2> DEFINE g == Put(L.node, ln, Node(p, NULL, NULL))
  <2>1. /\ AreNodes(g) /\ DOMAIN g = DOMAIN L.node \cup {ln}
        /\ g[ln].next = NULL /\ g[ln].prev = NULL /\ g[ln].payload = p
    BY <1>1, Zenon DEF IsList, AreNodes, Put, Node
  <2> QED BY <1>2, <2>1, Zenon
<1>4. DOMAIN L.node = {}
  BY <1>0, Ends, Zenon
<1> HIDE DEF ln, M
<1>5. IsList(M)
  <2>1. DOMAIN M.node \subseteq Nat \ {NULL} /\ IsFiniteSet(DOMAIN M.node)
    BY <1>1, <1>3, Zenon DEF IsList
  <2>2. M = [num_elements |-> M.num_elements, head |-> M.head, tail |-> M.tail, node |-> M.node]
    BY <1>2, Zenon
  <2>3. M.num_elements \in Nat
    BY <1>2
  <2> QED BY <1>3, <2>1, <2>2, <2>3, Zenon DEF IsList
<1>6. PutAt(L, s, M, 1, ln)
  BY <1>2, <1>3, <1>4 DEF PutAt
<1>7. WellFormed(M)
  BY <1>1, <1>6, PutKeepsOrder
<1>8. Added(L, ln, p, M)
  BY <1>1, <1>3, <1>4, <1>5, <1>7, Zenon DEF Added, Payload
<1> QED BY <1>8, Zenon DEF M, ln

\* PushLinkedList puts a node in front and frees none.
LEMMA Pushed ==
    ASSUME NEW L, IsList(L), WellFormed(L), NEW p
    PROVE  LET M == PushLinkedList(L, p)
           IN  IsList(M) /\ WellFormed(M) /\ DOMAIN L.node \subseteq DOMAIN M.node
<1> DEFINE ln == malloc(L)
           M == PushLinkedList(L, p)
           n == L.num_elements
<1>1. CASE n = 0
  BY <1>1, FirstNode, Zenon DEF PushLinkedList, Added, Added
<1>2. CASE n # 0
  <2>0. PICK s \in Orders(L) : TRUE
    BY OrderExists, Zenon
  <2>1. ln \in Nat \ {NULL} /\ ln \notin DOMAIN L.node /\ IsFiniteSet(DOMAIN L.node \cup {ln})
    BY Fresh, FS_AddElement, Zenon DEF IsList
  <2>2. L.head = s[1] /\ L.head \in DOMAIN L.node /\ n \in Nat /\ 1 \in 1 .. n + 1 /\ n + 1 # 1
    BY <1>2, Ends DEF IsList
  <2> DEFINE f == [L.node EXCEPT ![L.head].prev = ln]
  <2>3. /\ M = [num_elements |-> n + 1, head |-> ln, tail |-> L.tail, node |-> M.node]
        /\ M.num_elements = n + 1 /\ M.head = ln /\ M.tail = L.tail
        /\ M.node = Put(f, ln, Node(p, L.head, NULL))
    BY <1>2, Zenon DEF PushLinkedList, IsList
  <2>4. /\ AreNodes(f) /\ DOMAIN f = DOMAIN L.node
        /\ \A m \in DOMAIN L.node : /\ f[m].next = L.node[m].next
                                    /\ f[m].prev = IF m = L.head THEN ln ELSE L.node[m].prev
    BY <2>2, PrevStored DEF IsList
  <2> HIDE DEF f, ln, M
  <2>5. /\ AreNodes(M.node) /\ DOMAIN M.node = DOMAIN L.node \cup {ln}
        /\ M.node[ln].next = L.head /\ M.node[ln].prev = NULL
        /\ \A m \in DOMAIN L.node : M.node[m].next = f[m].next /\ M.node[m].prev = f[m].prev
    <3> DEFINE g == Put(f, ln, Node(p, L.head, NULL))
    <3>1. /\ AreNodes(g) /\ DOMAIN g = DOMAIN f \cup {ln}
          /\ g[ln].next = L.head /\ g[ln].prev = NULL
          /\ \A m \in DOMAIN f : g[m].next = f[m].next /\ g[m].prev = f[m].prev
      BY ONLY <2>1, <2>4 DEF AreNodes, Put, Node
    <3> QED BY <2>3, <2>4, <3>1, Zenon
  <2>6. IsList(M)
    <3>1. DOMAIN M.node \subseteq Nat \ {NULL} /\ IsFiniteSet(DOMAIN M.node)
      BY <2>1, <2>5, Zenon DEF IsList
    <3>2. M = [num_elements |-> M.num_elements, head |-> M.head, tail |-> M.tail, node |-> M.node]
      BY <2>3, Zenon
    <3>3. M.num_elements \in Nat
      BY <2>2, <2>3
    <3> QED BY <2>5, <3>1, <3>2, <3>3, Zenon DEF IsList
  <2>7. PutAt(L, s, M, 1, ln)
    BY <1>2, <2>2, <2>3, <2>4, <2>5 DEF PutAt
  <2>8. WellFormed(M)
    BY <2>1, <2>2, <2>7, PutKeepsOrder, Zenon
  <2> QED BY <2>5, <2>6, <2>8, Zenon DEF M
<1> QED BY <1>1, <1>2, Zenon

\* AppendLinkedList puts a node at the end.
LEMMA Appended ==
    ASSUME NEW L, IsList(L), WellFormed(L), NEW p
    PROVE  Added(L, malloc(L), p, AppendLinkedList(L, p))
<1> DEFINE ln == malloc(L)
           M == AppendLinkedList(L, p)
           n == L.num_elements
<1>1. CASE n = 0
  BY <1>1, FirstNode, Zenon DEF AppendLinkedList
<1>2. CASE n # 0
  <2>0. PICK s \in Orders(L) : TRUE
    BY OrderExists, Zenon
  <2>1. ln \in Nat \ {NULL} /\ ln \notin DOMAIN L.node /\ IsFiniteSet(DOMAIN L.node \cup {ln})
    BY Fresh, FS_AddElement, Zenon DEF IsList
  <2>2. /\ L.tail = s[n] /\ L.tail \in DOMAIN L.node /\ n \in Nat
        /\ n + 1 \in 1 .. n + 1 /\ n + 1 # 1 /\ n + 1 > 1 /\ n + 1 - 1 = n /\ ~(n + 1 <= n)
    BY <1>2, Ends DEF IsList
  <2> DEFINE f == [L.node EXCEPT ![L.tail].next = ln]
  <2>3. /\ M = [num_elements |-> n + 1, head |-> L.head, tail |-> ln, node |-> M.node]
        /\ M.num_elements = n + 1 /\ M.head = L.head /\ M.tail = ln
        /\ M.node = Put(f, ln, Node(p, NULL, L.tail))
    BY <1>2, Zenon DEF AppendLinkedList, IsList
  <2>4. /\ AreNodes(f) /\ DOMAIN f = DOMAIN L.node
        /\ \A m \in DOMAIN L.node : /\ f[m].payload = L.node[m].payload
                                    /\ f[m].prev = L.node[m].prev
                                    /\ f[m].next = IF m = L.tail THEN ln ELSE L.node[m].next
    BY <2>2, NextStored DEF IsList
  <2> HIDE DEF f, ln, M
  <2>5. /\ AreNodes(M.node) /\ DOMAIN M.node = DOMAIN L.node \cup {ln}
        /\ M.node[ln].next = NULL /\ M.node[ln].prev = L.tail /\ M.node[ln].payload = p
        /\ \A m \in DOMAIN L.node : /\ M.node[m].next = f[m].next /\ M.node[m].prev = f[m].prev
                                    /\ M.node[m].payload = f[m].payload
    <3> DEFINE g == Put(f, ln, Node(p, NULL, L.tail))
    <3>1. /\ AreNodes(g) /\ DOMAIN g = DOMAIN f \cup {ln}
          /\ g[ln].next = NULL /\ g[ln].prev = L.tail /\ g[ln].payload = p
          /\ \A m \in DOMAIN f : /\ g[m].next = f[m].next /\ g[m].prev = f[m].prev
                                /\ g[m].payload = f[m].payload
      BY ONLY <2>1, <2>4 DEF AreNodes, Put, Node
    <3> QED BY <2>3, <2>4, <3>1
  <2>6. IsList(M)
    <3>1. DOMAIN M.node \subseteq Nat \ {NULL} /\ IsFiniteSet(DOMAIN M.node)
      BY <2>1, <2>5, Zenon DEF IsList
    <3>2. M = [num_elements |-> M.num_elements, head |-> M.head, tail |-> M.tail, node |-> M.node]
      BY <2>3, Zenon
    <3>3. M.num_elements \in Nat
      BY <2>2, <2>3
    <3> QED BY <2>5, <3>1, <3>2, <3>3, Zenon DEF IsList
  <2>7. PutAt(L, s, M, n + 1, ln)
    BY <2>2, <2>3, <2>4, <2>5 DEF PutAt
  <2>8. WellFormed(M)
    BY <2>1, <2>2, <2>7, PutKeepsOrder, Zenon
  <2>9. Added(L, ln, p, M)
    BY <2>1, <2>4, <2>5, <2>6, <2>8, Zenon DEF Added, Payload
  <2> QED BY <2>9, Zenon DEF M, ln
<1> QED BY <1>1, <1>2, Zenon

\* The last node of a list is freed.
LEMMA LastFreed ==
    ASSUME NEW L, IsList(L), WellFormed(L), L.num_elements = 1
    PROVE  Removed(L, L.head, NoNode(L)) /\ L.head = L.tail
<1> DEFINE M == NoNode(L)
<1>0. PICK s \in Orders(L) : TRUE
  BY OrderExists, Zenon
<1>1. L.head = s[1] /\ L.tail = s[1] /\ 1 \in 1 .. L.num_elements /\ L.head \in DOMAIN L.node
  BY Ends
<1>2. /\ M = [num_elements |-> 0, head |-> NULL, tail |-> NULL, node |-> M.node]
      /\ M.num_elements = 0 /\ M.head = NULL /\ M.tail = NULL
      /\ M.node = free(L.node, L.head)
  BY DEF NoNode
<1>3. /\ AreNodes(M.node) /\ DOMAIN M.node = DOMAIN L.node \ {L.head}
      /\ \A m \in DOMAIN M.node : /\ M.node[m].next = L.node[m].next
                                   /\ M.node[m].prev = L.node[m].prev
                                   /\ M.node[m].payload = L.node[m].payload
  BY <1>2 DEF IsList, AreNodes, free, Node
<1> HIDE DEF M
<1>4. IsList(M)
  <2>1. DOMAIN M.node \subseteq Nat \ {NULL} /\ IsFiniteSet(DOMAIN M.node)
    BY <1>3, FS_RemoveElement DEF IsList
  <2>2. M = [num_elements |-> M.num_elements, head |-> M.head, tail |-> M.tail, node |-> M.node]
    BY <1>2, Zenon
  <2>3. M.num_elements \in Nat
    BY <1>2
  <2> QED BY <1>3, <2>1, <2>2, <2>3, Zenon DEF IsList
<1>5. TakenAt(L, s, M, 1)
  BY <1>1, <1>2, <1>3 DEF TakenAt
<1>6. WellFormed(M) /\ Cut(L, s, 1) \in Orders(M)
  BY <1>1, <1>5, TakenKeepsOrder, Zenon
<1>7. Removed(L, L.head, M)
  BY <1>1, <1>3, <1>4, <1>6, Zenon DEF Removed, Payload
<1> QED BY <1>1, <1>7, Zenon DEF M

\* PopLinkedList takes out the node at the head.
LEMMA Popped ==
    ASSUME NEW L, IsList(L), WellFormed(L), L.num_elements > 0
    PROVE  Removed(L, L.head, PopLinkedList(L))
<1> DEFINE M == PopLinkedList(L)
           n == L.num_elements
<1>1. CASE n = 1
  BY <1>1, LastFreed, Zenon DEF PopLinkedList
<1>2. CASE n # 1
  <2>0. PICK s \in Orders(L) : TRUE
    BY OrderExists, Zenon
  <2> DEFINE next == L.node[L.head].next
             f == [L.node EXCEPT ![next].prev = NULL]
  <2>1. L.head = s[1] /\ L.head \in DOMAIN L.node /\ n \in Nat /\ n > 1 /\ 1 \in 1 .. n /\ 2 \in 1 .. n
    BY <1>2, Ends DEF IsList
  <2>2. next = s[2] /\ next \in DOMAIN L.node
    BY <1>2, <2>1 DEF Orders, InOrder
  <2>3. /\ M = [num_elements |-> n - 1, head |-> next, tail |-> L.tail, node |-> M.node]
        /\ M.num_elements = n - 1 /\ M.head = next /\ M.tail = L.tail
        /\ M.node = free(f, L.head)
    BY <1>2, Zenon DEF PopLinkedList, IsList
  <2>4. /\ AreNodes(f) /\ DOMAIN f = DOMAIN L.node
        /\ \A m \in DOMAIN L.node : /\ f[m].payload = L.node[m].payload
                                    /\ f[m].next = L.node[m].next
                                    /\ f[m].prev = IF m = next THEN NULL ELSE L.node[m].prev
    BY <2>2, PrevStored DEF IsList
  <2> HIDE DEF f, M, next
  <2>5. /\ AreNodes(M.node) /\ DOMAIN M.node = DOMAIN L.node \ {L.head}
        /\ \A m \in DOMAIN M.node : /\ M.node[m].next = f[m].next /\ M.node[m].prev = f[m].prev
                                    /\ M.node[m].payload = f[m].payload
    BY <2>3, <2>4 DEF AreNodes, free, Node
  <2>6. IsList(M)
    <3>1. DOMAIN M.node \subseteq Nat \ {NULL} /\ IsFiniteSet(DOMAIN M.node)
      BY <2>5, FS_RemoveElement, Zenon DEF IsList
    <3>2. M = [num_elements |-> M.num_elements, head |-> M.head, tail |-> M.tail, node |-> M.node]
      BY <2>3, Zenon
    <3>3. M.num_elements \in Nat
      BY <2>1, <2>3
    <3> QED BY <2>5, <3>1, <3>2, <3>3, Zenon DEF IsList
  <2>7. TakenAt(L, s, M, 1)
    BY <1>2, <2>1, <2>2, <2>3, <2>4, <2>5 DEF TakenAt
  <2>8. WellFormed(M) /\ Cut(L, s, 1) \in Orders(M)
    BY <2>1, <2>7, TakenKeepsOrder, Zenon
  <2>9. Removed(L, L.head, M)
    BY <2>1, <2>4, <2>5, <2>6, <2>8, Zenon DEF Removed, Payload
  <2> QED BY <2>9, Zenon DEF M
<1> QED BY <1>1, <1>2, Zenon

\* SliceLinkedList takes out the node at the tail.
LEMMA Sliced ==
    ASSUME NEW L, IsList(L), WellFormed(L), L.num_elements > 0
    PROVE  Removed(L, L.tail, SliceLinkedList(L))
<1> DEFINE M == SliceLinkedList(L)
           n == L.num_elements
<1>1. CASE n = 1
  BY <1>1, LastFreed, Zenon DEF SliceLinkedList
<1>2. CASE n # 1
  <2>0. PICK s \in Orders(L) : TRUE
    BY OrderExists, Zenon
  <2> DEFINE prev == L.node[L.tail].prev
             f == [L.node EXCEPT ![prev].next = NULL]
  <2>1. /\ L.tail = s[n] /\ L.tail \in DOMAIN L.node /\ n \in Nat /\ n > 1
        /\ n \in 1 .. n /\ n - 1 \in 1 .. n
    BY <1>2, Ends DEF IsList
  <2>2. prev = s[n - 1] /\ prev \in DOMAIN L.node
    BY <1>2, <2>1 DEF Orders, InOrder
  <2>3. /\ M = [num_elements |-> n - 1, head |-> L.head, tail |-> prev, node |-> M.node]
        /\ M.num_elements = n - 1 /\ M.head = L.head /\ M.tail = prev
        /\ M.node = free(f, L.tail)
    BY <1>2, Zenon DEF SliceLinkedList, IsList
  <2>4. /\ AreNodes(f) /\ DOMAIN f = DOMAIN L.node
        /\ \A m \in DOMAIN L.node : /\ f[m].payload = L.node[m].payload
                                    /\ f[m].prev = L.node[m].prev
                                    /\ f[m].next = IF m = prev THEN NULL ELSE L.node[m].next
    BY <2>2, NextStored DEF IsList
  <2> HIDE DEF f, M, prev
  <2>5. /\ AreNodes(M.node) /\ DOMAIN M.node = DOMAIN L.node \ {L.tail}
        /\ \A m \in DOMAIN M.node : /\ M.node[m].next = f[m].next /\ M.node[m].prev = f[m].prev
                                    /\ M.node[m].payload = f[m].payload
    BY <2>3, <2>4 DEF AreNodes, free, Node
  <2>6. IsList(M)
    <3>1. DOMAIN M.node \subseteq Nat \ {NULL} /\ IsFiniteSet(DOMAIN M.node)
      BY <2>5, FS_RemoveElement, Zenon DEF IsList
    <3>2. M = [num_elements |-> M.num_elements, head |-> M.head, tail |-> M.tail, node |-> M.node]
      BY <2>3, Zenon
    <3>3. M.num_elements \in Nat
      BY <2>1, <2>3
    <3> QED BY <2>5, <3>1, <3>2, <3>3, Zenon DEF IsList
  <2>7. TakenAt(L, s, M, n)
    BY <1>2, <2>1, <2>2, <2>3, <2>4, <2>5 DEF TakenAt
  <2>8. WellFormed(M) /\ Cut(L, s, n) \in Orders(M)
    BY <2>1, <2>7, TakenKeepsOrder, Zenon
  <2>9. Removed(L, L.tail, M)
    BY <2>1, <2>4, <2>5, <2>6, <2>8, Zenon DEF Removed, Payload
  <2> QED BY <2>9, Zenon DEF M
<1> QED BY <1>1, <1>2, Zenon

\* LLIteratorDelete at a node that is neither the first nor the last.
LEMMA Spliced ==
    ASSUME NEW L, IsList(L), WellFormed(L), NEW m \in DOMAIN L.node,
           L.node[m].next # NULL, L.node[m].prev # NULL
    PROVE  Removed(L, m, Splice(L, m)) /\ L.node[m].next \in DOMAIN Splice(L, m).node
<1> DEFINE M == Splice(L, m)
           n == L.num_elements
           nx == L.node[m].next
           pv == L.node[m].prev
           e == [L.node EXCEPT ![pv].next = nx]
           f == [e EXCEPT ![nx].prev = pv]
<1>0. PICK s \in Orders(L) : TRUE
  BY OrderExists, Zenon
<1>1. PICK k \in 1 .. n : /\ s[k] = m /\ k # n /\ k # 1
                          /\ k + 1 \in 1 .. n /\ nx = s[k + 1]
                          /\ k - 1 \in 1 .. n /\ pv = s[k - 1]
  BY Place
<1>2. /\ n \in Nat /\ n - 1 \in Nat /\ k > 1 /\ k < n
      /\ pv \in DOMAIN L.node /\ nx \in DOMAIN L.node /\ nx # m
  BY <1>1 DEF IsList, Orders, InOrder
<1>3. /\ M = [num_elements |-> n - 1, head |-> L.head, tail |-> L.tail, node |-> M.node]
      /\ M.num_elements = n - 1 /\ M.head = L.head /\ M.tail = L.tail
      /\ M.node = free(f, m)
  <2> DEFINE g == [L.node EXCEPT ![pv].next = nx, ![nx].prev = pv]
  <2>1. g = f
    BY Zenon
  <2>2. M = [L EXCEPT !.num_elements = n - 1, !.node = free(g, m)]
    BY Zenon DEF Splice
  <2> HIDE DEF f, g, M
  <2> QED BY <2>1, <2>2, Zenon DEF IsList
<1>4. /\ AreNodes(e) /\ DOMAIN e = DOMAIN L.node
      /\ \A x \in DOMAIN L.node : /\ e[x].payload = L.node[x].payload
                                  /\ e[x].prev = L.node[x].prev
                                  /\ e[x].next = IF x = pv THEN nx ELSE L.node[x].next
  BY <1>2, NextStored DEF IsList
<1> HIDE DEF e, nx, pv
<1>5. /\ AreNodes(f) /\ DOMAIN f = DOMAIN L.node
      /\ \A x \in DOMAIN L.node : /\ f[x].payload = e[x].payload
                                  /\ f[x].next = e[x].next
                                  /\ f[x].prev = IF x = nx THEN pv ELSE e[x].prev
  <2>1. nx \in DOMAIN e
    BY <1>2, <1>4, Zenon
  <2>2. /\ AreNodes(f) /\ DOMAIN f = DOMAIN e
        /\ \A x \in DOMAIN e : /\ f[x].payload = e[x].payload
                              /\ f[x].next = e[x].next
                              /\ f[x].prev = IF x = nx THEN pv ELSE e[x].prev
    <3>1. AreNodes(e)
      BY <1>4, Zenon
    <3> QED BY ONLY <2>1, <3>1, PrevStored
  <2> QED BY <1>4, <2>2, Zenon
<1> HIDE DEF f, M
<1>6. /\ AreNodes(M.node) /\ DOMAIN M.node = DOMAIN L.node \ {m}
      /\ \A x \in DOMAIN M.node : /\ M.node[x].next = f[x].next /\ M.node[x].prev = f[x].prev
                                  /\ M.node[x].payload = f[x].payload
  BY <1>3, <1>5 DEF AreNodes, free, Node
<1>7. IsList(M)
  <2>1. DOMAIN M.node \subseteq Nat \ {NULL} /\ IsFiniteSet(DOMAIN M.node)
    BY <1>6, FS_RemoveElement, Zenon DEF IsList
  <2>2. M = [num_elements |-> M.num_elements, head |-> M.head, tail |-> M.tail, node |-> M.node]
    BY <1>3, Zenon
  <2>3. M.num_elements \in Nat
    BY <1>2, <1>3, Zenon
  <2> QED BY <1>6, <2>1, <2>2, <2>3, Zenon DEF IsList
<1>8. TakenAt(L, s, M, k)
  BY <1>1, <1>2, <1>3, <1>4, <1>5, <1>6 DEF TakenAt
<1>9. WellFormed(M) /\ Cut(L, s, k) \in Orders(M)
  BY <1>8, TakenKeepsOrder, Zenon
<1>10. Removed(L, m, M)
  <2>1. \A x \in DOMAIN M.node : x \in DOMAIN L.node
    BY <1>6, Zenon
  <2>2. \A x \in DOMAIN M.node : Payload(M, x) = Payload(L, x)
    BY ONLY <1>4, <1>5, <1>6, <2>1, Zenon DEF Payload
  <2>3. \E i \in 1 .. L.num_elements : s[i] = m /\ Cut(L, s, i) \in Orders(M)
    BY <1>1, <1>9, Zenon
  <2> QED BY <1>6, <1>7, <1>9, <2>2, <2>3, Zenon DEF Removed
<1>11. nx \in DOMAIN M.node
  BY <1>2, <1>6, Zenon
<1> QED BY <1>10, <1>11, Zenon DEF M, nx

\* LLIteratorDelete takes out the node it is at and goes to one that is left.
LEMMA Deleted ==
    ASSUME NEW L, IsList(L), WellFormed(L), NEW m \in DOMAIN L.node
    PROVE  LET r == LLIteratorDelete(L, m)
           IN  Removed(L, m, r.list) /\ r.node \in DOMAIN r.list.node \cup {NULL}
<1> DEFINE n == L.num_elements
           next == L.node[m].next
           prev == L.node[m].prev
           r == LLIteratorDelete(L, m)
<1>0. PICK s \in Orders(L) : TRUE
  BY OrderExists, Zenon
<1>1. PICK k \in 1 .. n : /\ s[k] = m
                          /\ IF k = n THEN next = NULL
                             ELSE k + 1 \in 1 .. n /\ next = s[k + 1]
                          /\ IF k = 1 THEN prev = NULL
                             ELSE k - 1 \in 1 .. n /\ prev = s[k - 1]
  BY Place
<1>2. /\ n \in Nat /\ n > 0 /\ NULL \notin DOMAIN L.node
      /\ DOMAIN s = 1 .. n /\ \A i \in 1 .. n : s[i] \in DOMAIN L.node
      /\ \A i, j \in 1 .. n : s[i] = s[j] => i = j
  BY <1>1 DEF IsList, Orders, InOrder
<1>3. /\ next = NULL <=> k = n
      /\ prev = NULL <=> k = 1
  BY <1>1, <1>2
<1>4. L.head = s[1] /\ L.tail = s[n]
  BY <1>2, Ends, Zenon
<1>5. CASE prev = NULL
  <2>1. m = L.head
    BY <1>1, <1>3, <1>4, <1>5, Zenon
  <2>2. r = [list |-> PopLinkedList(L), node |-> next]
    BY <1>5, Zenon DEF LLIteratorDelete
  <2>3. next \in (DOMAIN L.node \ {m}) \cup {NULL}
    BY <1>1, <1>2
  <2> HIDE DEF next
  <2>4. r.list = PopLinkedList(L) /\ r.node = next
    BY <2>2
  <2> QED BY <1>2, <2>1, <2>3, <2>4, Popped DEF Removed
<1>6. CASE prev # NULL /\ next = NULL
  <2>1. m = L.tail
    BY <1>1, <1>3, <1>4, <1>6, Zenon
  <2>2. r = [list |-> SliceLinkedList(L), node |-> prev]
    BY <1>6, Zenon DEF LLIteratorDelete
  <2>3. prev \in (DOMAIN L.node \ {m}) \cup {NULL}
    BY <1>1, <1>2
  <2> HIDE DEF prev
  <2>4. r.list = SliceLinkedList(L) /\ r.node = prev
    BY <2>2
  <2> QED BY <1>2, <2>1, <2>3, <2>4, Sliced DEF Removed
<1>7. CASE prev # NULL /\ next # NULL
  <2>1. r = [list |-> Splice(L, m), node |-> next]
    BY <1>7, Zenon DEF LLIteratorDelete
  <2>2. r.list = Splice(L, m) /\ r.node = next
    BY <2>1
  <2> QED BY <1>7, <2>2, Spliced, Zenon
<1> QED BY <1>5, <1>6, <1>7, Zenon

\* LLIteratorInsertBefore puts a node in front of the one the iterator is at.
LEMMA InsertedBefore ==
    ASSUME NEW L, IsList(L), WellFormed(L), NEW m \in DOMAIN L.node, NEW p
    PROVE  LET M == LLIteratorInsertBefore(L, m, p)
           IN  IsList(M) /\ WellFormed(M) /\ m \in DOMAIN M.node
<1> DEFINE ln == malloc(L)
           M == LLIteratorInsertBefore(L, m, p)
           n == L.num_elements
           prev == L.node[m].prev
           e == [L.node EXCEPT ![prev].next = ln]
           f == [e EXCEPT ![m].prev = ln]
<1>1. CASE m = L.head
  BY <1>1, Pushed, Zenon DEF LLIteratorInsertBefore
<1>2. CASE m # L.head
  <2>0. PICK s \in Orders(L) : TRUE
    BY OrderExists, Zenon
  <2>1. PICK k \in 1 .. n : /\ s[k] = m
                            /\ IF k = 1 THEN prev = NULL
                               ELSE k - 1 \in 1 .. n /\ prev = s[k - 1]
    BY Place
  <2>2. /\ n \in Nat /\ k # 1 /\ k > 1 /\ k <= n /\ k # n + 1 /\ k \in 1 .. n + 1
        /\ prev = s[k - 1] /\ prev \in DOMAIN L.node
    <3>1. n \in Nat /\ n # 0 /\ L.head = s[1]
      BY <2>1, Ends, Zenon DEF IsList
    <3>2. k # 1
      BY <1>2, <2>1, <3>1, Zenon
    <3> QED BY <2>1, <3>1, <3>2 DEF Orders
  <2>3. ln \in Nat \ {NULL} /\ ln \notin DOMAIN L.node /\ IsFiniteSet(DOMAIN L.node \cup {ln})
    BY Fresh, FS_AddElement, Zenon DEF IsList
  <2>4. /\ M = [num_elements |-> n + 1, head |-> L.head, tail |-> L.tail, node |-> M.node]
        /\ M.num_elements = n + 1 /\ M.head = L.head /\ M.tail = L.tail
        /\ M.node = Put(f, ln, Node(p, m, prev))
    BY <1>2, Zenon DEF LLIteratorInsertBefore, IsList
  <2>5. /\ AreNodes(e) /\ DOMAIN e = DOMAIN L.node
        /\ \A x \in DOMAIN L.node : /\ e[x].prev = L.node[x].prev
                                    /\ e[x].next = IF x = prev THEN ln ELSE L.node[x].next
    BY <2>2, NextStored DEF IsList
  <2> HIDE DEF e, prev, ln
  <2>6. /\ AreNodes(f) /\ DOMAIN f = DOMAIN L.node
        /\ \A x \in DOMAIN L.node : /\ f[x].next = e[x].next
                                    /\ f[x].prev = IF x = m THEN ln ELSE e[x].prev
    <3>1. m \in DOMAIN e /\ AreNodes(e)
      BY <2>5, Zenon
    <3>2. /\ AreNodes(f) /\ DOMAIN f = DOMAIN e
          /\ \A x \in DOMAIN e : /\ f[x].next = e[x].next
                                /\ f[x].prev = IF x = m THEN ln ELSE e[x].prev
      BY ONLY <3>1, PrevStored
    <3> QED BY <2>5, <3>2, Zenon
  <2> HIDE DEF f, M
  <2>7. /\ AreNodes(M.node) /\ DOMAIN M.node = DOMAIN L.node \cup {ln}
        /\ M.node[ln].next = m /\ M.node[ln].prev = prev
        /\ \A x \in DOMAIN L.node : M.node[x].next = f[x].next /\ M.node[x].prev = f[x].prev
    <3> DEFINE g == Put(f, ln, Node(p, m, prev))
    <3>1. /\ AreNodes(g) /\ DOMAIN g = DOMAIN f \cup {ln}
          /\ g[ln].next = m /\ g[ln].prev = prev
          /\ \A x \in DOMAIN f : g[x].next = f[x].next /\ g[x].prev = f[x].prev
      BY ONLY <2>3, <2>6 DEF AreNodes, Put, Node
    <3> QED BY <2>4, <2>6, <3>1, Zenon
  <2>8. IsList(M)
    <3>1. DOMAIN M.node \subseteq Nat \ {NULL} /\ IsFiniteSet(DOMAIN M.node)
      BY <2>3, <2>7, Zenon DEF IsList
    <3>2. M = [num_elements |-> M.num_elements, head |-> M.head, tail |-> M.tail, node |-> M.node]
      BY <2>4, Zenon
    <3>3. M.num_elements \in Nat
      BY <2>2, <2>4
    <3> QED BY <2>7, <3>1, <3>2, <3>3, Zenon DEF IsList
  <2>9. PutAt(L, s, M, k, ln)
    BY <2>1, <2>2, <2>4, <2>5, <2>6, <2>7 DEF PutAt
  <2>10. WellFormed(M)
    BY <2>2, <2>3, <2>9, PutKeepsOrder, Zenon
  <2> QED BY <2>7, <2>8, <2>10, Zenon DEF M
<1> QED BY <1>1, <1>2, Zenon

\* SortLinkedList moves payloads and leaves the links alone.
LEMMA SortedStays ==
    ASSUME NEW L, IsList(L), WellFormed(L), NEW ascending, NEW key
    PROVE  IsList(SortLinkedList(L, ascending, key)) /\ WellFormed(SortLinkedList(L, ascending, key))
<1> SUFFICES ASSUME NEW payload
             PROVE  IsList(WithPayloads(L, payload)) /\ WellFormed(WithPayloads(L, payload))
  BY Zenon DEF SortLinkedList
<1> DEFINE M == WithPayloads(L, payload)
<1>1. /\ M = [num_elements |-> L.num_elements, head |-> L.head, tail |-> L.tail, node |-> M.node]
      /\ M.num_elements = L.num_elements /\ M.head = L.head /\ M.tail = L.tail
      /\ M.node = [m \in DOMAIN L.node |-> [L.node[m] EXCEPT !.payload = payload[m]]]
  BY DEF WithPayloads, IsList
<1> HIDE DEF M
<1>2. /\ AreNodes(M.node) /\ DOMAIN M.node = DOMAIN L.node
      /\ \A m \in DOMAIN L.node : /\ M.node[m].next = L.node[m].next
                                  /\ M.node[m].prev = L.node[m].prev
  BY <1>1 DEF IsList, AreNodes, Node
<1>3. IsList(M)
  <2>1. M = [num_elements |-> M.num_elements, head |-> M.head, tail |-> M.tail, node |-> M.node]
    BY <1>1, Zenon
  <2> QED BY <1>1, <1>2, <2>1, Zenon DEF IsList
<1>4. WellFormed(M)
  <2>1. PICK s \in [1 .. L.num_elements -> DOMAIN L.node] : InOrder(L, s)
    BY Zenon DEF WellFormed
  <2>2. InOrder(M, s)
    BY <1>1, <1>2, <2>1 DEF InOrder
  <2> QED BY <1>1, <1>2, <2>2, Zenon DEF WellFormed
<1> QED BY <1>3, <1>4, Zenon DEF M
-----------------------------------------------------------------------------
\* Whatever a client does with a list of any length, through its functions or an
\* iterator, the links, the ends and the count agree, no node is lost without
\* being freed, and the iterator is at a node of the list (ListWellFormed).
THEOREM ListStaysWellFormed == ListSpec => []ListWellFormed
<1>1. ListInit => ListInv
  <2> SUFFICES ASSUME ListInit PROVE ListInv
    BY Zenon
  <2>1. list = AllocateLinkedList /\ it = NULL
    BY Zenon DEF ListInit
  <2> QED BY <2>1, Allocated, Zenon DEF ListInv, ListWellFormed
<1>2. ListInv /\ [ListNext]_listVars => ListInv'
  <2> SUFFICES ASSUME ListInv, [ListNext]_listVars PROVE ListInv'
    BY Zenon
  <2>0. IsList(list) /\ WellFormed(list) /\ it \in DOMAIN list.node \cup {NULL}
    BY Zenon DEF ListInv, ListWellFormed
  <2>1. CASE ListChanges
    <3>1. it' = NULL
      BY <2>1, Zenon DEF ListChanges
    <3>2. IsList(list') /\ WellFormed(list')
      <4>1. list.num_elements \in Nat
        BY <2>0, Zenon DEF IsList
      <4> QED BY <2>0, <2>1, <4>1, Pushed, Appended, Popped, Sliced, SortedStays
            DEF ListChanges, Added, Removed
    <3> QED BY <3>1, <3>2, Zenon DEF ListInv, ListWellFormed
  <2>2. CASE IteratorMoves
    <3>1. PICK s \in Orders(list) : TRUE
      BY <2>0, OrderExists, Zenon
    <3>2. list.head \in DOMAIN list.node \cup {NULL} /\ list.tail \in DOMAIN list.node \cup {NULL}
      BY <2>0, Ends, Zenon
    <3>3. ASSUME it # NULL
          PROVE  /\ list.node[it].next \in DOMAIN list.node \cup {NULL}
                 /\ list.node[it].prev \in DOMAIN list.node \cup {NULL}
      <4>1. it \in DOMAIN list.node
        BY <2>0, <3>3, Zenon
      <4>2. \A k \in 1 .. list.num_elements : s[k] \in DOMAIN list.node
        BY Zenon DEF Orders
      <4> QED BY <2>0, <4>1, <4>2, Place
    <3>4. it' \in DOMAIN list.node \cup {NULL}
      BY <2>0, <2>2, <3>2, <3>3, Zenon DEF IteratorMoves, LLMakeIterator, LLIteratorNext, LLIteratorPrev
    <3>5. list' = list
      BY <2>2, Zenon DEF IteratorMoves
    <3> QED BY <2>0, <3>4, <3>5, Zenon DEF ListInv, ListWellFormed
  <2>3. CASE IteratorDeletes
    BY <2>0, <2>3, Deleted, Zenon DEF IteratorDeletes, ListInv, ListWellFormed, Removed
  <2>4. CASE IteratorInserts
    BY <2>0, <2>4, InsertedBefore, Zenon DEF IteratorInserts, ListInv, ListWellFormed
  <2>5. CASE UNCHANGED listVars
    BY <2>0, <2>5, Zenon DEF listVars, ListInv, ListWellFormed
  <2> QED BY <2>1, <2>2, <2>3, <2>4, <2>5, Zenon DEF ListNext
<1>3. ListInv => ListWellFormed
  BY Zenon DEF ListInv
<1> QED BY <1>1, <1>2, <1>3, PTL DEF ListSpec
=============================================================================
