-------------------------- MODULE ContainersProofs --------------------------
(***************************************************************************)
(* The hash table of HashTable.c is a dictionary, whatever number of       *)
(* elements and buckets it has: its chains are proper lists that hold each *)
(* key once and where it is looked for, ResizeHashtable loses and repeats  *)
(* nothing, and an iteration visits each element once.                     *)
(***************************************************************************)
EXTENDS Containers, ListClientProofs

-----------------------------------------------------------------------------
(* The order of a chain. *)

\* A set of numbers that is not empty has a least element.
LEMMA Least ==
    ASSUME NEW X \in SUBSET Nat, X # {}
    PROVE  \E k \in X : \A j \in X : k <= j
<1> DEFINE R == {ss \in Nat \X Nat : ss[1] < ss[2]}
<1>1. IsWellFoundedOn(R, Nat)
  BY NatLessThanWellFounded, Zenon DEF OpToRel
<1> HIDE DEF R
<1>2. PICK k \in X : \A j \in X : ~(<<j, k>> \in R)
  BY <1>1, WFMin, Zenon
<1>3. ASSUME NEW j \in X PROVE k <= j
  <2>1. j \in Nat /\ k \in Nat
    BY Zenon
  <2>2. j < k => <<j, k>> \in R
    BY <2>1, Zenon DEF R
  <2> QED BY <1>2, <2>1, <2>2
<1> QED BY <1>3, Zenon

\* A proper list has one order, and Nodes, which follows the next pointers from
\* the head on, is that order.
LEMMA NodesInOrder ==
    ASSUME NEW L, IsList(L), NEW s \in Orders(L)
    PROVE  Nodes(L) = s
<1> DEFINE n == L.num_elements
           F(f) == [i \in 1 .. n |-> IF i = 1 THEN L.head ELSE L.node[f[i - 1]].next]
           g == CHOOSE f : f = F(f)
<1>1. /\ n \in Nat /\ s \in [1 .. n -> DOMAIN L.node] /\ DOMAIN s = 1 .. n /\ InOrder(L, s)
  BY Zenon DEF IsList, Orders
<1>2. \A i \in 1 .. n : s[i] = IF i = 1 THEN L.head ELSE L.node[s[i - 1]].next
  <2> SUFFICES ASSUME NEW i \in 1 .. n
               PROVE  s[i] = IF i = 1 THEN L.head ELSE L.node[s[i - 1]].next
    BY Zenon
  <2>1. CASE i = 1
    <3>1. n # 0
      BY <1>1
    <3> QED BY <1>1, <2>1, <3>1, Zenon DEF InOrder
  <2>2. CASE i # 1
    <3>1. PICK j \in 1 .. n : j = i - 1 /\ j # n /\ j + 1 = i
      BY <1>1, <2>2
    <3>2. L.node[s[j]].next = s[j + 1]
      BY <1>1, <3>1, Zenon DEF InOrder
    <3> QED BY <2>2, <3>1, <3>2, Zenon
  <2> QED BY <2>1, <2>2, Zenon
<1>3. s = F(s)
  <2>1. s = [i \in 1 .. n |-> s[i]]
    BY <1>1, Zenon
  <2> QED BY <1>2, <2>1, Zenon
<1>4. g = F(g)
  BY <1>3, Zenon
<1>5. Nodes(L) = [i \in 1 .. n |-> g[i]]
  BY Zenon DEF Nodes
<1> HIDE DEF g
<1>6. \A i \in 1 .. n : g[i] = IF i = 1 THEN L.head ELSE L.node[g[i - 1]].next
  BY <1>4, Zenon
<1>7. \A i \in 1 .. n : g[i] = s[i]
  <2> DEFINE bad == {i \in 1 .. n : g[i] # s[i]}
  <2> SUFFICES ASSUME bad # {} PROVE FALSE
    BY Zenon
  <2>1. bad \in SUBSET Nat
    BY <1>1
  <2>2. PICK i \in bad : \A j \in bad : i <= j
    BY <2>1, Least, Zenon
  <2>3. i # 1 /\ i - 1 \in 1 .. n /\ ~(i <= i - 1)
    BY <1>1, <1>2, <1>6, <2>2
  <2>4. g[i - 1] = s[i - 1]
    BY <2>2, <2>3, Zenon
  <2> QED BY <1>2, <1>6, <2>2, <2>3, <2>4
<1> QED BY <1>1, <1>5, <1>7, Zenon

\* Nodes lists all nodes of a proper list.
LEMMA ListOrder ==
    ASSUME NEW L, IsList(L), WellFormed(L)
    PROVE  /\ Nodes(L) \in Orders(L) /\ L.num_elements \in Nat
           /\ DOMAIN Nodes(L) = 1 .. L.num_elements
           /\ \A i \in 1 .. L.num_elements : Nodes(L)[i] \in DOMAIN L.node
           /\ \A n \in DOMAIN L.node : \E i \in 1 .. L.num_elements : Nodes(L)[i] = n
           /\ \A i, j \in 1 .. L.num_elements : Nodes(L)[i] = Nodes(L)[j] => i = j
<1>1. PICK s \in Orders(L) : TRUE
  BY OrderExists, Zenon
<1>2. Nodes(L) = s
  BY NodesInOrder, Zenon
<1>3. s \in [1 .. L.num_elements -> DOMAIN L.node] /\ InOrder(L, s)
  BY Zenon DEF Orders
<1>4. DOMAIN s = 1 .. L.num_elements /\ \A i \in 1 .. L.num_elements : s[i] \in DOMAIN L.node
  BY <1>3, Zenon
<1>5. L.num_elements \in Nat
  BY Zenon DEF IsList
<1> QED BY <1>2, <1>3, <1>4, <1>5, Zenon DEF InOrder

\* FindKVInHashTable returns a node with the key if there is one.
LEMMA Found ==
    ASSUME NEW L, IsList(L), WellFormed(L), NEW key
    PROVE  LET f == FindKVInHashTable(L, key)
           IN  \/ f = NULL /\ \A n \in DOMAIN L.node : Payload(L, n).key # key
               \/ f # NULL /\ f \in DOMAIN L.node /\ Payload(L, f).key = key
<1> DEFINE s == Nodes(L)
           hits == {i \in DOMAIN s : Payload(L, s[i]).key = key}
           f == FindKVInHashTable(L, key)
<1>1. /\ DOMAIN s = 1 .. L.num_elements
      /\ \A i \in 1 .. L.num_elements : s[i] \in DOMAIN L.node
      /\ \A n \in DOMAIN L.node : \E i \in 1 .. L.num_elements : s[i] = n
  BY ListOrder, Zenon
<1>2. f = IF hits = {} THEN NULL ELSE s[CHOOSE i \in hits : \A j \in hits : i <= j]
  BY Zenon DEF FindKVInHashTable
<1> HIDE DEF s, f
<1>3. CASE hits = {}
  <2>1. \A n \in DOMAIN L.node : Payload(L, n).key # key
    BY <1>1, <1>3, Zenon
  <2> QED BY <1>2, <1>3, <2>1, Zenon DEF f
<1>4. CASE hits # {}
  <2>1. hits \in SUBSET Nat
    BY <1>1, ListOrder DEF s
  <2>2. PICK i \in hits : \A j \in hits : i <= j
    BY <1>4, <2>1, Least, Zenon
  <2> DEFINE c == CHOOSE h \in hits : \A j \in hits : h <= j
  <2>3. c \in hits
    BY <2>2, Zenon
  <2>4. f = s[c]
    BY <1>2, <1>4, Zenon
  <2> HIDE DEF c
  <2>5. f \in DOMAIN L.node /\ Payload(L, f).key = key
    BY <1>1, <2>3, <2>4, Zenon
  <2>6. NULL \notin DOMAIN L.node
    BY Zenon DEF IsList
  <2> QED BY <2>5, <2>6, Zenon DEF f
<1> QED BY <1>3, <1>4, Zenon

\* From a place of the order on, there are the nodes from that place on.
LEMMA FromPlace ==
    ASSUME NEW L, IsList(L), NEW s \in Orders(L), NEW k \in 1 .. L.num_elements
    PROVE  \A x : x \in From(L, s[k]) <=> \E i \in k .. L.num_elements : s[i] = x
<1>1. Nodes(L) = s /\ WellFormed(L)
  BY NodesInOrder, Zenon DEF WellFormed, Orders
<1>2. /\ DOMAIN s = 1 .. L.num_elements /\ L.num_elements \in Nat
      /\ \A i, j \in 1 .. L.num_elements : s[i] = s[j] => i = j
  BY <1>1, ListOrder, Zenon
<1>3. \A x : x \in From(L, s[k]) <=>
        \E i \in DOMAIN Nodes(L) : (\E j \in 1 .. i : Nodes(L)[j] = s[k]) /\ Nodes(L)[i] = x
  BY Zenon DEF From
<1>4. \A x : x \in From(L, s[k]) <=>
        \E i \in 1 .. L.num_elements : (\E j \in 1 .. i : s[j] = s[k]) /\ s[i] = x
  BY ONLY <1>1, <1>2, <1>3, Zenon
<1>5. ASSUME NEW i \in 1 .. L.num_elements, NEW j \in 1 .. i, s[j] = s[k]
      PROVE  i \in k .. L.num_elements
  <2>1. j \in 1 .. L.num_elements /\ j <= i
    BY <1>2
  <2>2. j = k
    BY <1>2, <1>5, <2>1, Zenon
  <2> QED BY <1>2, <2>1, <2>2
<1>6. ASSUME NEW i \in k .. L.num_elements
      PROVE  i \in 1 .. L.num_elements /\ k \in 1 .. i
  BY <1>2
<1> QED BY <1>4, <1>5, <1>6, Zenon

\* The nodes from a node on are that node and those from the next one on.
LEMMA FromNode ==
    ASSUME NEW L, IsList(L), WellFormed(L), NEW m \in DOMAIN L.node
    PROVE  LET next == L.node[m].next
           IN  /\ m \in From(L, m) /\ From(L, m) \subseteq DOMAIN L.node
               /\ next = NULL => From(L, m) = {m}
               /\ next # NULL => next \in DOMAIN L.node /\ From(L, next) = From(L, m) \ {m}
<1> DEFINE s == Nodes(L)
           n == L.num_elements
           next == L.node[m].next
<1>1. /\ s \in Orders(L) /\ n \in Nat
      /\ \A i \in 1 .. n : s[i] \in DOMAIN L.node
      /\ \A i, j \in 1 .. n : s[i] = s[j] => i = j
      /\ NULL \notin DOMAIN L.node
  BY ListOrder, Zenon DEF IsList
<1> HIDE DEF s
<1>2. PICK k \in 1 .. n : /\ s[k] = m
                          /\ IF k = n THEN next = NULL ELSE k + 1 \in 1 .. n /\ next = s[k + 1]
  BY <1>1, Place
<1>3. \A x : x \in From(L, m) <=> \E i \in k .. n : s[i] = x
  BY <1>1, <1>2, FromPlace
<1>4. k \in k .. n /\ k .. n \subseteq 1 .. n
  BY <1>1
<1>5. m \in From(L, m) /\ From(L, m) \subseteq DOMAIN L.node
  <2>1. m \in From(L, m)
    BY <1>2, <1>3, <1>4, Zenon
  <2>2. \A i \in k .. n : s[i] \in DOMAIN L.node
    BY <1>1, <1>4, Zenon
  <2>3. \A x : x \in From(L, m) => x \in DOMAIN L.node
    BY <1>3, <2>2, Zenon
  <2> QED BY <2>1, <2>3, Zenon
<1>6. ASSUME next = NULL PROVE From(L, m) = {m}
  <2>1. k = n
    BY <1>1, <1>2, <1>6, Zenon
  <2>2. k .. n = {k}
    BY <1>1, <2>1
  <2> QED BY <1>2, <1>3, <2>2, Zenon
<1>7. ASSUME next # NULL PROVE next \in DOMAIN L.node /\ From(L, next) = From(L, m) \ {m}
  <2>1. k + 1 \in 1 .. n /\ next = s[k + 1]
    BY <1>2, <1>7, Zenon
  <2>2. \A x : x \in From(L, next) <=> \E i \in k + 1 .. n : s[i] = x
    BY <1>1, <2>1, FromPlace
  <2>3. \A i : i \in k + 1 .. n <=> i \in k .. n /\ i # k
    BY <1>1
  <2>4. \A i \in k .. n : s[i] = m <=> i = k
    BY <1>1, <1>2, <1>4, Zenon
  <2>5. \A x : x \in From(L, next) <=> x \in From(L, m) \ {m}
    BY <1>3, <2>2, <2>3, <2>4, Zenon
  <2>6. From(L, next) = From(L, m) \ {m}
    BY ONLY <2>5, Zenon
  <2> QED BY <1>1, <2>1, <2>6, Zenon
<1> QED BY <1>5, <1>6, <1>7, Zenon

\* From the head on there are all nodes.
LEMMA FromHead ==
    ASSUME NEW L, IsList(L), WellFormed(L)
    PROVE  /\ L.num_elements > 0 => L.head \in DOMAIN L.node /\ From(L, L.head) = DOMAIN L.node
           /\ L.num_elements = 0 <=> DOMAIN L.node = {}
           /\ L.num_elements \in Nat
<1> DEFINE s == Nodes(L)
           n == L.num_elements
<1>1. /\ s \in Orders(L) /\ n \in Nat
      /\ \A i \in 1 .. n : s[i] \in DOMAIN L.node
      /\ \A m \in DOMAIN L.node : \E i \in 1 .. n : s[i] = m
  BY ListOrder, Zenon
<1> HIDE DEF s
<1>2. ASSUME n > 0 PROVE L.head \in DOMAIN L.node /\ From(L, L.head) = DOMAIN L.node
  <2>1. L.head = s[1] /\ 1 \in 1 .. n
    BY <1>1, <1>2, Ends
  <2>2. \A x : x \in From(L, L.head) <=> \E i \in 1 .. n : s[i] = x
    <3>1. s \in Orders(L)
      BY <1>1, Zenon
    <3>2. PICK k \in 1 .. L.num_elements : k = 1
      BY <2>1, Zenon
    <3>3. \A x : x \in From(L, s[k]) <=> \E i \in k .. L.num_elements : s[i] = x
      BY <3>1, FromPlace, Zenon
    <3> QED BY ONLY <2>1, <3>2, <3>3, Zenon
  <2>3. \A x : x \in From(L, L.head) <=> x \in DOMAIN L.node
    BY <1>1, <2>2, Zenon
  <2> QED BY <1>1, <2>1, <2>3, Zenon
<1>3. n = 0 => DOMAIN L.node = {}
  BY <1>1, Ends, Zenon
<1> QED BY <1>1, <1>2, <1>3

\* When a node is taken out, the nodes from the next one on stay.
LEMMA FromRemoved ==
    ASSUME NEW L, IsList(L), WellFormed(L), NEW m \in DOMAIN L.node, NEW M, Removed(L, m, M),
           L.node[m].next # NULL
    PROVE  /\ L.node[m].next \in DOMAIN M.node
           /\ From(M, L.node[m].next) = From(L, L.node[m].next)
<1> DEFINE n == L.num_elements
           next == L.node[m].next
<1>0. /\ IsList(M) /\ WellFormed(M) /\ DOMAIN M.node = DOMAIN L.node \ {m}
  BY Zenon DEF Removed
<1>1. PICK s \in Orders(L), k \in 1 .. n : s[k] = m /\ Cut(L, s, k) \in Orders(M)
  BY Zenon DEF Removed
<1>2. /\ n \in Nat /\ \A i, j \in 1 .. n : s[i] = s[j] => i = j
      /\ \A i \in 1 .. n : s[i] \in DOMAIN L.node
  BY Zenon DEF IsList, Orders, InOrder
<1>3. k + 1 \in 1 .. n /\ k # n /\ next = s[k + 1]
  <2>1. PICK h \in 1 .. n : /\ s[h] = m
                            /\ IF h = n THEN next = NULL ELSE h + 1 \in 1 .. n /\ next = s[h + 1]
    BY Place
  <2>2. h = k
    BY <1>1, <1>2, <2>1, Zenon
  <2> QED BY <2>1, <2>2, Zenon
<1> DEFINE t == Cut(L, s, k)
<1>4. /\ t \in Orders(M)
      /\ \A i \in 1 .. n - 1 : t[i] = IF i < k THEN s[i] ELSE s[i + 1]
      /\ DOMAIN t = 1 .. n - 1
  BY <1>1, Zenon DEF Cut
<1> HIDE DEF t
<1>5. M.num_elements = n - 1
  <2>1. DOMAIN t = 1 .. M.num_elements /\ M.num_elements \in Nat
    BY <1>0, <1>4, Zenon DEF Orders, IsList
  <2>2. 1 .. M.num_elements = 1 .. n - 1 /\ n - 1 \in Nat
    BY <1>2, <1>3, <1>4, <2>1
  <2> QED BY ONLY <2>1, <2>2
<1>6. k \in 1 .. n - 1 /\ t[k] = next
  BY <1>2, <1>3, <1>4
<1>7. \A x : x \in From(M, next) <=> \E i \in k .. n - 1 : t[i] = x
  <2>0. k \in 1 .. M.num_elements
    BY ONLY <1>5, <1>6, Zenon
  <2>1. \A x : x \in From(M, t[k]) <=> \E i \in k .. M.num_elements : t[i] = x
    <3>1. IsList(M) /\ t \in Orders(M)
      BY <1>0, <1>4, Zenon
    <3> QED BY ONLY <3>1, <2>0, FromPlace, Zenon
  <2> QED BY ONLY <1>5, <1>6, <2>1, Zenon
<1>8. \A x : x \in From(L, next) <=> \E i \in k + 1 .. n : s[i] = x
  <2> DEFINE j == k + 1
  <2>1. IsList(L) /\ s \in Orders(L) /\ j \in 1 .. L.num_elements /\ next = s[j]
    BY <1>1, <1>3, Zenon
  <2> HIDE DEF j, next
  <2>2. \A x : x \in From(L, s[j]) <=> \E i \in j .. L.num_elements : s[i] = x
    BY ONLY <2>1, FromPlace, Zenon
  <2> QED BY ONLY <2>1, <2>2, Zenon DEF j
<1>9. \A i \in k .. n - 1 : t[i] = s[i + 1] /\ i + 1 \in k + 1 .. n
  BY <1>2, <1>4
<1>10. \A i \in k + 1 .. n : i - 1 \in k .. n - 1 /\ t[i - 1] = s[i]
  BY <1>2, <1>4
<1>11. \A x : x \in From(M, next) <=> x \in From(L, next)
  BY <1>7, <1>8, <1>9, <1>10, Zenon
<1>12. next \in DOMAIN M.node
  BY <1>0, <1>1, <1>2, <1>3
<1> QED BY <1>11, <1>12, Zenon
-----------------------------------------------------------------------------
(* Tables *)

\* x is what a node of the list L holds.
Holds(L, x) == \E n \in DOMAIN L.node : x = Payload(L, n)

\* L is a proper list, and every key in it is there once and belongs to the
\* b-th of nb buckets.
IsChain(L, b, nb) ==
    /\ IsList(L) /\ WellFormed(L)
    /\ \A n \in DOMAIN L.node : Payload(L, n).key \in Nat /\ Payload(L, n).key % nb = b
    /\ \A m, n \in DOMAIN L.node : Payload(L, m).key = Payload(L, n).key => m = n

\* ht is a record of nb chains.
IsHash(ht) ==
    /\ ht = [num_buckets |-> ht.num_buckets, num_elements |-> ht.num_elements, buckets |-> ht.buckets]
    /\ ht.num_buckets \in Nat \ {0} /\ ht.num_elements \in Nat
    /\ ht.buckets = [b \in 0 .. ht.num_buckets - 1 |-> ht.buckets[b]]
    /\ \A b \in 0 .. ht.num_buckets - 1 : IsChain(ht.buckets[b], b, ht.num_buckets)

\* ... which num_elements counts.
IsTable(ht) ==
    /\ IsHash(ht)
    /\ IsFiniteSet(Keys(ht)) /\ Cardinality(Keys(ht)) = ht.num_elements

\* What a table holds is what its chains hold, and each element is in the chain
\* of its key.
LEMMA Elements ==
    ASSUME NEW ht, IsHash(ht)
    PROVE  /\ \A x : x \in KVs(ht) <=> \E b \in 0 .. ht.num_buckets - 1 : Holds(ht.buckets[b], x)
           /\ \A b \in 0 .. ht.num_buckets - 1 : \A x :
                Holds(ht.buckets[b], x) <=> x \in KVs(ht) /\ x.key % ht.num_buckets = b
           /\ \A x \in KVs(ht) : /\ x.key \in Nat
                                 /\ x.key % ht.num_buckets \in 0 .. ht.num_buckets - 1
           /\ \A x, y \in KVs(ht) : x.key = y.key => x = y
<1> DEFINE nb == ht.num_buckets
           B == 0 .. nb - 1
<1>0. DOMAIN ht.buckets = B /\ nb \in Nat \ {0}
  BY Zenon DEF IsHash
<1>1. \A b \in B : IsChain(ht.buckets[b], b, nb)
  BY Zenon DEF IsHash
<1>2. \A x : x \in KVs(ht) <=> \E b \in B : Holds(ht.buckets[b], x)
  <2>1. \A x : x \in KVs(ht) <=>
          \E b \in DOMAIN ht.buckets : x \in {Payload(ht.buckets[b], n) : n \in DOMAIN ht.buckets[b].node}
    BY Zenon DEF KVs
  <2> QED BY <1>0, <2>1, Zenon DEF Holds
<1>3. \A b \in B : \A x : Holds(ht.buckets[b], x) => x.key \in Nat /\ x.key % nb = b
  BY <1>1, Zenon DEF Holds, IsChain
<1>4. \A b \in B : \A x : Holds(ht.buckets[b], x) <=> x \in KVs(ht) /\ x.key % nb = b
  BY <1>2, <1>3, Zenon
<1>5. \A x \in KVs(ht) : x.key \in Nat /\ x.key % nb \in B
  BY <1>2, <1>3, Zenon
<1>6. ASSUME NEW x \in KVs(ht), NEW y \in KVs(ht), x.key = y.key PROVE x = y
  <2>1. PICK b \in B : Holds(ht.buckets[b], x) /\ Holds(ht.buckets[b], y)
    BY <1>4, <1>5, <1>6, Zenon
  <2> QED BY <1>1, <1>6, <2>1, Zenon DEF Holds, IsChain
<1> QED BY <1>2, <1>4, <1>5, <1>6, Zenon

\* One chain of a table is replaced by another.
LEMMA ChainReplaced ==
    ASSUME NEW ht, IsHash(ht), NEW b \in 0 .. ht.num_buckets - 1,
           NEW M, IsChain(M, b, ht.num_buckets), NEW c \in Nat, NEW H,
           H = [num_buckets |-> ht.num_buckets, num_elements |-> c, buckets |-> [ht.buckets EXCEPT ![b] = M]]
    PROVE  /\ IsHash(H) /\ H.num_buckets = ht.num_buckets /\ H.num_elements = c
           /\ \A i \in 0 .. ht.num_buckets - 1 : H.buckets[i] = IF i = b THEN M ELSE ht.buckets[i]
           /\ \A x : x \in KVs(H) <=> (x \in KVs(ht) /\ x.key % ht.num_buckets # b) \/ Holds(M, x)
<1> DEFINE nb == ht.num_buckets
           B == 0 .. nb - 1
<1>0. ht.buckets = [i \in B |-> ht.buckets[i]] /\ nb \in Nat \ {0}
  BY Zenon DEF IsHash
<1>1. /\ H.num_buckets = nb /\ H.num_elements = c /\ H.buckets = [ht.buckets EXCEPT ![b] = M]
      /\ H = [num_buckets |-> H.num_buckets, num_elements |-> H.num_elements, buckets |-> H.buckets]
  BY Zenon
<1>2. /\ H.buckets = [i \in B |-> H.buckets[i]]
      /\ \A i \in B : H.buckets[i] = IF i = b THEN M ELSE ht.buckets[i]
  BY <1>0, <1>1, Zenon
<1>3. \A i \in B : IsChain(H.buckets[i], i, nb)
  <2>1. \A i \in B : IsChain(ht.buckets[i], i, nb)
    BY Zenon DEF IsHash
  <2> QED BY <1>2, <2>1, Zenon
<1>4. IsHash(H)
  BY <1>0, <1>1, <1>2, <1>3, Zenon DEF IsHash
<1>5. \A x : x \in KVs(H) <=> \E i \in B : Holds(H.buckets[i], x)
  BY <1>1, <1>4, Elements, Zenon
<1>6. \A i \in B : \A x : Holds(ht.buckets[i], x) <=> x \in KVs(ht) /\ x.key % nb = i
  BY Elements, Zenon
<1>7. \A x \in KVs(ht) : x.key % nb \in B
  BY Elements, Zenon
<1>8. \A x : x \in KVs(H) <=> (x \in KVs(ht) /\ x.key % nb # b) \/ Holds(M, x)
  <2> SUFFICES ASSUME NEW x
               PROVE  x \in KVs(H) <=> (x \in KVs(ht) /\ x.key % nb # b) \/ Holds(M, x)
    BY Zenon
  <2>1. ASSUME NEW i \in B, Holds(H.buckets[i], x)
        PROVE  (x \in KVs(ht) /\ x.key % nb # b) \/ Holds(M, x)
    BY <1>2, <1>6, <2>1, Zenon
  <2>2. ASSUME x \in KVs(ht), x.key % nb # b PROVE \E i \in B : Holds(H.buckets[i], x)
    <3>1. PICK i \in B : i = x.key % nb
      BY <1>7, <2>2, Zenon
    <3>2. H.buckets[i] = ht.buckets[i] /\ Holds(ht.buckets[i], x)
      BY <1>2, <1>6, <2>2, <3>1, Zenon
    <3> QED BY <3>2, Zenon
  <2>3. ASSUME Holds(M, x) PROVE \E i \in B : Holds(H.buckets[i], x)
    <3>1. b \in B /\ H.buckets[b] = M
      BY <1>2, Zenon
    <3> QED BY <2>3, <3>1, Zenon
  <2> QED BY <1>5, <2>1, <2>2, <2>3, Zenon
<1> QED BY <1>1, <1>2, <1>4, <1>8, Zenon

\* An element with a new key is appended to its chain.
LEMMA ChainAdded ==
    ASSUME NEW L, NEW b, NEW nb, IsChain(L, b, nb),
           NEW kv, kv.key \in Nat, kv.key % nb = b, \A n \in DOMAIN L.node : Payload(L, n).key # kv.key
    PROVE  LET M == AppendLinkedList(L, kv)
           IN  IsChain(M, b, nb) /\ \A x : Holds(M, x) <=> Holds(L, x) \/ x = kv
<1> DEFINE M == AppendLinkedList(L, kv)
           ln == malloc(L)
<1>1. /\ IsList(M) /\ WellFormed(M) /\ ln \notin DOMAIN L.node
      /\ Payload(M, ln) = kv /\ \A x \in DOMAIN L.node : Payload(M, x) = Payload(L, x)
  BY Appended, Zenon DEF IsChain, Added
<1>2. \A n : n \in DOMAIN M.node <=> n \in DOMAIN L.node \/ n = ln
  <2>1. DOMAIN M.node = DOMAIN L.node \cup {ln}
    BY Appended, Zenon DEF IsChain, Added
  <2> QED BY <2>1, Zenon
<1> HIDE DEF M, ln
<1>3. IsChain(M, b, nb)
  <2>1. \A n \in DOMAIN M.node : Payload(M, n).key \in Nat /\ Payload(M, n).key % nb = b
    BY <1>1, <1>2, Zenon DEF IsChain
  <2>2. \A m, n \in DOMAIN M.node : Payload(M, m).key = Payload(M, n).key => m = n
    BY <1>1, <1>2, Zenon DEF IsChain
  <2> QED BY <1>1, <2>1, <2>2, Zenon DEF IsChain
<1>4. \A x : Holds(M, x) <=> Holds(L, x) \/ x = kv
  BY <1>1, <1>2, Zenon DEF Holds
<1> QED BY <1>3, <1>4, Zenon DEF M

\* The element at a node is replaced by one with the same key.
LEMMA ChainSet ==
    ASSUME NEW L, NEW b, NEW nb, IsChain(L, b, nb),
           NEW f \in DOMAIN L.node, NEW kv, kv.key = Payload(L, f).key
    PROVE  LET M == SetPayload(L, f, kv)
           IN  IsChain(M, b, nb) /\ \A x : Holds(M, x) <=> (Holds(L, x) /\ x.key # kv.key) \/ x = kv
<1> DEFINE M == SetPayload(L, f, kv)
<1>0. IsList(L) /\ WellFormed(L)
  BY Zenon DEF IsChain
<1>1. /\ M = [num_elements |-> L.num_elements, head |-> L.head, tail |-> L.tail, node |-> M.node]
      /\ M.num_elements = L.num_elements /\ M.head = L.head /\ M.tail = L.tail
      /\ M.node = [L.node EXCEPT ![f].payload = kv]
  BY <1>0 DEF IsList, SetPayload
<1> HIDE DEF M
<1>2. /\ DOMAIN M.node = DOMAIN L.node /\ AreNodes(M.node)
      /\ \A n \in DOMAIN L.node : /\ M.node[n].payload = IF n = f THEN kv ELSE L.node[n].payload
                                  /\ M.node[n].next = L.node[n].next
                                  /\ M.node[n].prev = L.node[n].prev
  BY <1>0, <1>1 DEF IsList, AreNodes, Node
<1>3. IsList(M)
  BY <1>0, <1>1, <1>2, Zenon DEF IsList
<1>4. WellFormed(M)
  <2>1. PICK s \in [1 .. L.num_elements -> DOMAIN L.node] : InOrder(L, s)
    BY <1>0, Zenon DEF WellFormed
  <2>2. \A i \in DOMAIN s : s[i] \in DOMAIN L.node
    BY Zenon
  <2>3. InOrder(M, s)
    BY <1>1, <1>2, <2>1, <2>2 DEF InOrder
  <2> QED BY <1>1, <1>2, <2>3, Zenon DEF WellFormed
<1>5. \A n \in DOMAIN L.node : Payload(M, n) = IF n = f THEN kv ELSE Payload(L, n)
  BY <1>2, Zenon DEF Payload
<1>6. IsChain(M, b, nb)
  <2>1. \A n \in DOMAIN M.node : Payload(M, n).key = Payload(L, n).key
    BY <1>2, <1>5, Zenon
  <2> QED BY <1>2, <1>3, <1>4, <2>1, Zenon DEF IsChain
<1>7. ASSUME NEW x PROVE Holds(M, x) <=> (Holds(L, x) /\ x.key # kv.key) \/ x = kv
  <2>1. \A n \in DOMAIN L.node : n # f => Payload(L, n).key # kv.key
    BY Zenon DEF IsChain
  <2> QED BY <1>2, <1>5, <2>1, Zenon DEF Holds
<1> QED BY <1>6, <1>7, Zenon DEF M

\* A node is taken out of a chain.
LEMMA ChainTaken ==
    ASSUME NEW L, NEW b, NEW nb, IsChain(L, b, nb), NEW f \in DOMAIN L.node
    PROVE  LET M == LLIteratorDelete(L, f).list
           IN  /\ IsChain(M, b, nb) /\ Removed(L, f, M)
               /\ \A x : Holds(M, x) <=> Holds(L, x) /\ x.key # Payload(L, f).key
<1> DEFINE M == LLIteratorDelete(L, f).list
<1>1. Removed(L, f, M)
  BY Deleted, Zenon DEF IsChain
<1> HIDE DEF M
<1>2. /\ IsList(M) /\ WellFormed(M) /\ \A x \in DOMAIN M.node : Payload(M, x) = Payload(L, x)
      /\ \A n : n \in DOMAIN M.node <=> n \in DOMAIN L.node /\ n # f
  <2>1. DOMAIN M.node = DOMAIN L.node \ {f}
    BY <1>1, Zenon DEF Removed
  <2> QED BY <1>1, <2>1, Zenon DEF Removed
<1>3. IsChain(M, b, nb)
  BY <1>2, Zenon DEF IsChain
<1>4. ASSUME NEW x PROVE Holds(M, x) <=> Holds(L, x) /\ x.key # Payload(L, f).key
  <2>1. \A n \in DOMAIN L.node : n # f => Payload(L, n).key # Payload(L, f).key
    BY Zenon DEF IsChain
  <2> QED BY <1>2, <2>1, Zenon DEF Holds
<1> QED BY <1>1, <1>3, <1>4, Zenon DEF M

\* The bucket of a key.
LEMMA BucketOf ==
    ASSUME NEW ht, IsHash(ht), NEW key \in Nat
    PROVE  /\ HashKeyToBucketNum(ht, key) = key % ht.num_buckets
           /\ key % ht.num_buckets \in 0 .. ht.num_buckets - 1
BY DEF IsHash, HashKeyToBucketNum

\* FindKVInHashTable in the chain of a key tells whether the table has the key.
LEMMA FoundInTable ==
    ASSUME NEW ht, IsHash(ht), NEW key \in Nat, NEW b, b = key % ht.num_buckets
    PROVE  LET f == FindKVInHashTable(ht.buckets[b], key)
           IN  \/ f = NULL /\ key \notin Keys(ht)
               \/ /\ f \in DOMAIN ht.buckets[b].node /\ f # NULL /\ key \in Keys(ht)
                  /\ Payload(ht.buckets[b], f).key = key
<1> DEFINE L == ht.buckets[b]
           f == FindKVInHashTable(L, key)
<1>1. b \in 0 .. ht.num_buckets - 1
  BY BucketOf, Zenon
<1>2. IsChain(L, b, ht.num_buckets)
  BY <1>1, Zenon DEF IsHash
<1>3. \/ f = NULL /\ \A n \in DOMAIN L.node : Payload(L, n).key # key
      \/ f # NULL /\ f \in DOMAIN L.node /\ Payload(L, f).key = key
  BY <1>2, Found, Zenon DEF IsChain
<1> HIDE DEF f
<1>4. \A x : Holds(L, x) <=> x \in KVs(ht) /\ x.key % ht.num_buckets = b
  BY <1>1, Elements, Zenon
<1>5. key \in Keys(ht) <=> \E x \in KVs(ht) : x.key = key
  BY Zenon DEF Keys
<1>6. CASE f = NULL
  <2>1. \A n \in DOMAIN L.node : Payload(L, n).key # key
    BY <1>3, <1>6, Zenon
  <2>2. key \notin Keys(ht)
    <3> SUFFICES ASSUME NEW x \in KVs(ht), x.key = key PROVE FALSE
      BY <1>5, Zenon
    <3>1. Holds(L, x)
      BY <1>4, Zenon
    <3> QED BY <2>1, <3>1, Zenon DEF Holds
  <2> QED BY <1>6, <2>2, Zenon DEF f
<1>7. CASE f # NULL
  <2>1. f \in DOMAIN L.node /\ Payload(L, f).key = key
    BY <1>3, <1>7, Zenon
  <2>2. key \in Keys(ht)
    BY <1>4, <1>5, <2>1, Zenon DEF Holds
  <2> QED BY <1>7, <2>1, <2>2, Zenon DEF f
<1> QED BY <1>6, <1>7, Zenon

\* What InsertInChain does: the new element takes the place of the one with its
\* key, if there is one.
LEMMA Inserted ==
    ASSUME NEW ht, IsTable(ht), NEW kv, kv.key \in Nat
    PROVE  LET H == InsertInChain(ht, kv)
           IN  /\ IsTable(H) /\ H.num_buckets = ht.num_buckets
               /\ \A x : x \in KVs(H) <=> (x \in KVs(ht) /\ x.key # kv.key) \/ x = kv
               /\ H.num_elements = IF kv.key \in Keys(ht) THEN ht.num_elements ELSE ht.num_elements + 1
<1> DEFINE H == InsertInChain(ht, kv)
           nb == ht.num_buckets
           b == HashKeyToBucketNum(ht, kv.key)
           L == ht.buckets[b]
           f == FindKVInHashTable(L, kv.key)
<1>0. /\ IsHash(ht) /\ IsFiniteSet(Keys(ht)) /\ Cardinality(Keys(ht)) = ht.num_elements
      /\ ht.num_elements \in Nat
  BY Zenon DEF IsTable, IsHash
<1>1. b = kv.key % nb /\ b \in 0 .. nb - 1
  BY <1>0, BucketOf, Zenon
<1>2. IsChain(L, b, nb)
  BY <1>0, <1>1, Zenon DEF IsHash
<1>3. \/ f = NULL /\ kv.key \notin Keys(ht)
      \/ f \in DOMAIN L.node /\ f # NULL /\ kv.key \in Keys(ht) /\ Payload(L, f).key = kv.key
  BY <1>0, <1>1, FoundInTable, Zenon
<1>4. H = IF f = NULL
          THEN [ht EXCEPT !.buckets[b] = AppendLinkedList(@, kv), !.num_elements = @ + 1]
          ELSE [ht EXCEPT !.buckets[b] = SetPayload(@, f, kv)]
  BY Zenon DEF InsertInChain
<1>5. /\ ht = [num_buckets |-> ht.num_buckets, num_elements |-> ht.num_elements, buckets |-> ht.buckets]
      /\ ht.buckets = [i \in 0 .. nb - 1 |-> ht.buckets[i]]
  BY <1>0, Zenon DEF IsHash
<1> DEFINE M == IF f = NULL THEN AppendLinkedList(L, kv) ELSE SetPayload(L, f, kv)
           c == IF f = NULL THEN ht.num_elements + 1 ELSE ht.num_elements
<1> HIDE DEF H, f, b
<1>6. H = [num_buckets |-> nb, num_elements |-> c, buckets |-> [ht.buckets EXCEPT ![b] = M]] /\ c \in Nat
  <2>1. CASE f = NULL
    <3>1. H = [ht EXCEPT !.buckets[b] = AppendLinkedList(@, kv), !.num_elements = @ + 1]
      BY <1>4, <2>1, Zenon
    <3>2. M = AppendLinkedList(ht.buckets[b], kv) /\ c = ht.num_elements + 1
      BY <2>1, Zenon
    <3> HIDE DEF M, c
    <3>3. H = [num_buckets |-> nb, num_elements |-> ht.num_elements + 1,
               buckets |-> [ht.buckets EXCEPT ![b] = AppendLinkedList(@, kv)]]
      BY ONLY <1>5, <3>1, Zenon
    <3>4. [ht.buckets EXCEPT ![b] = AppendLinkedList(@, kv)] = [ht.buckets EXCEPT ![b] = M]
      BY ONLY <1>1, <1>5, <3>2, Zenon
    <3>5. ht.num_elements + 1 \in Nat
      BY <1>0
    <3> QED BY <3>2, <3>3, <3>4, <3>5, Zenon
  <2>2. CASE f # NULL
    <3>1. H = [ht EXCEPT !.buckets[b] = SetPayload(@, f, kv)]
      BY <1>4, <2>2, Zenon
    <3>2. M = SetPayload(ht.buckets[b], f, kv) /\ c = ht.num_elements
      BY <2>2, Zenon
    <3> HIDE DEF M, c
    <3>3. H = [num_buckets |-> nb, num_elements |-> ht.num_elements,
               buckets |-> [ht.buckets EXCEPT ![b] = SetPayload(@, f, kv)]]
      BY ONLY <1>5, <3>1, Zenon
    <3>4. [ht.buckets EXCEPT ![b] = SetPayload(@, f, kv)] = [ht.buckets EXCEPT ![b] = M]
      BY ONLY <1>1, <1>5, <3>2, Zenon
    <3> QED BY <1>0, <3>2, <3>3, <3>4, Zenon
  <2> QED BY <2>1, <2>2, Zenon
<1>7. IsChain(M, b, nb) /\ \A x : Holds(M, x) <=> (Holds(L, x) /\ x.key # kv.key) \/ x = kv
  <2>1. CASE f = NULL
    <3>1. \A n \in DOMAIN L.node : Payload(L, n).key # kv.key
      <4>1. \A x : Holds(L, x) => x \in KVs(ht)
        BY <1>0, <1>1, Elements, Zenon
      <4> QED BY <1>3, <2>1, <4>1, Zenon DEF Holds, Keys
    <3>2. /\ IsChain(AppendLinkedList(L, kv), b, nb)
          /\ \A x : Holds(AppendLinkedList(L, kv), x) <=> Holds(L, x) \/ x = kv
      BY <1>1, <1>2, <3>1, ChainAdded
    <3>3. \A x : Holds(L, x) => x.key # kv.key
      BY <3>1, Zenon DEF Holds
    <3>4. M = AppendLinkedList(L, kv)
      BY <2>1, Zenon
    <3> QED BY <3>2, <3>3, <3>4, Zenon
  <2>2. CASE f # NULL
    <3>1. f \in DOMAIN L.node /\ kv.key = Payload(L, f).key
      BY <1>3, <2>2, Zenon
    <3>2. /\ IsChain(SetPayload(L, f, kv), b, nb)
          /\ \A x : Holds(SetPayload(L, f, kv), x) <=> (Holds(L, x) /\ x.key # kv.key) \/ x = kv
      BY <1>2, <3>1, ChainSet
    <3>3. M = SetPayload(L, f, kv)
      BY <2>2, Zenon
    <3> QED BY <3>2, <3>3, Zenon
  <2> QED BY <2>1, <2>2, Zenon
<1> HIDE DEF M, c
<1>8. /\ IsHash(H) /\ H.num_buckets = nb /\ H.num_elements = c
      /\ \A x : x \in KVs(H) <=> (x \in KVs(ht) /\ x.key % nb # b) \/ Holds(M, x)
  BY <1>0, <1>1, <1>6, <1>7, ChainReplaced
<1>9. ASSUME NEW x PROVE x \in KVs(H) <=> (x \in KVs(ht) /\ x.key # kv.key) \/ x = kv
  <2>1. Holds(L, x) <=> x \in KVs(ht) /\ x.key % nb = b
    BY <1>0, <1>1, Elements, Zenon
  <2> QED BY <1>1, <1>7, <1>8, <2>1, Zenon
<1>10. Keys(H) = Keys(ht) \cup {kv.key}
  <2>1. \A k : k \in Keys(H) <=> \E x \in KVs(H) : x.key = k
    BY Zenon DEF Keys
  <2>2. \A k : k \in Keys(ht) <=> \E x \in KVs(ht) : x.key = k
    BY Zenon DEF Keys
  <2>3. \A k : k \in Keys(H) <=> k \in Keys(ht) \/ k = kv.key
    BY <1>9, <2>1, <2>2, Zenon
  <2> QED BY ONLY <2>3, Zenon
<1>11. IsFiniteSet(Keys(H)) /\ Cardinality(Keys(H)) = c
  <2>1. CASE f = NULL
    <3>1. kv.key \notin Keys(ht) /\ c = ht.num_elements + 1
      BY <1>3, <2>1, Zenon DEF c
    <3>2. /\ IsFiniteSet(Keys(ht) \cup {kv.key})
          /\ Cardinality(Keys(ht) \cup {kv.key}) = Cardinality(Keys(ht)) + 1
      BY <1>0, <3>1, FS_AddElement, Zenon
    <3> QED BY <1>0, <1>10, <3>1, <3>2, Zenon
  <2>2. CASE f # NULL
    <3>1. kv.key \in Keys(ht) /\ c = ht.num_elements
      BY <1>3, <2>2, Zenon DEF c
    <3>2. Keys(H) = Keys(ht)
      BY ONLY <1>10, <3>1, Zenon
    <3> QED BY <1>0, <3>1, <3>2, Zenon
  <2> QED BY <2>1, <2>2, Zenon
<1>12. c = IF kv.key \in Keys(ht) THEN ht.num_elements ELSE ht.num_elements + 1
  BY <1>3, Zenon DEF c
<1> QED BY <1>8, <1>9, <1>11, <1>12, Zenon DEF H, IsTable

\* What RemoveFromHashTable does; the chain of the key loses the node with it.
LEMMA RemovedKey ==
    ASSUME NEW ht, IsTable(ht), NEW key \in Nat
    PROVE  LET H == RemoveFromHashTable(ht, key)
               b == key % ht.num_buckets
           IN  /\ IsTable(H) /\ H.num_buckets = ht.num_buckets /\ H.num_elements <= ht.num_elements
               /\ \A x : x \in KVs(H) <=> x \in KVs(ht) /\ x.key # key
               /\ \A i \in 0 .. ht.num_buckets - 1 : i # b => H.buckets[i] = ht.buckets[i]
               /\ \A n \in DOMAIN ht.buckets[b].node :
                    Payload(ht.buckets[b], n).key = key => Removed(ht.buckets[b], n, H.buckets[b])
<1> DEFINE H == RemoveFromHashTable(ht, key)
           nb == ht.num_buckets
           b == key % nb
           L == ht.buckets[b]
           f == FindKVInHashTable(L, key)
           M == LLIteratorDelete(L, f).list
           c == ht.num_elements - 1
<1>0. /\ IsHash(ht) /\ IsFiniteSet(Keys(ht)) /\ Cardinality(Keys(ht)) = ht.num_elements
      /\ ht.num_elements \in Nat
  BY Zenon DEF IsTable, IsHash
<1>1. HashKeyToBucketNum(ht, key) = b /\ b \in 0 .. nb - 1
  BY <1>0, BucketOf, Zenon
<1>2. IsChain(L, b, nb)
  BY <1>0, <1>1, Zenon DEF IsHash
<1>3. \/ f = NULL /\ key \notin Keys(ht)
      \/ f \in DOMAIN L.node /\ f # NULL /\ key \in Keys(ht) /\ Payload(L, f).key = key
  BY <1>0, <1>1, FoundInTable, Zenon
<1>4. H = IF f = NULL THEN ht
          ELSE [ht EXCEPT !.buckets[b] = LLIteratorDelete(@, f).list, !.num_elements = @ - 1]
  BY <1>1, Zenon DEF RemoveFromHashTable
<1>5. /\ ht = [num_buckets |-> ht.num_buckets, num_elements |-> ht.num_elements, buckets |-> ht.buckets]
      /\ ht.buckets = [i \in 0 .. nb - 1 |-> ht.buckets[i]]
  BY <1>0, Zenon DEF IsHash
<1>6. \A x : Holds(L, x) <=> x \in KVs(ht) /\ x.key % nb = b
  BY <1>0, <1>1, Elements, Zenon
<1> HIDE DEF H, f
<1>7. CASE f = NULL
  <2>1. H = ht /\ \A x \in KVs(ht) : x.key # key
    BY <1>3, <1>4, <1>7, Zenon DEF Keys
  <2>2. \A n \in DOMAIN L.node : Payload(L, n).key # key
    BY <1>6, <2>1, Zenon DEF Holds
  <2>3. H.num_elements <= ht.num_elements
    BY <1>0, <2>1
  <2> QED BY <2>1, <2>2, <2>3, Zenon DEF H
<1>8. CASE f # NULL
  <2>0. f \in DOMAIN L.node /\ Payload(L, f).key = key /\ key \in Keys(ht)
    BY <1>3, <1>8, Zenon
  <2>1. c \in Nat /\ Cardinality(Keys(ht) \ {key}) = c /\ IsFiniteSet(Keys(ht) \ {key})
    <3>1. /\ IsFiniteSet(Keys(ht) \ {key})
          /\ Cardinality(Keys(ht) \ {key}) = Cardinality(Keys(ht)) - 1
      BY <1>0, <2>0, FS_RemoveElement, Zenon
    <3>2. Cardinality(Keys(ht) \ {key}) \in Nat
      BY <3>1, FS_CardinalityType, Zenon
    <3> QED BY <1>0, <3>1, <3>2, Zenon
  <2>2. H = [num_buckets |-> nb, num_elements |-> c, buckets |-> [ht.buckets EXCEPT ![b] = M]]
    <3>1. H = [ht EXCEPT !.buckets[b] = LLIteratorDelete(@, f).list, !.num_elements = @ - 1]
      BY <1>4, <1>8, Zenon
    <3> HIDE DEF b
    <3>3. H = [num_buckets |-> nb, num_elements |-> ht.num_elements - 1,
               buckets |-> [ht.buckets EXCEPT ![b] = LLIteratorDelete(@, f).list]]
      BY ONLY <1>5, <3>1, Zenon
    <3>4. [ht.buckets EXCEPT ![b] = LLIteratorDelete(@, f).list]
            = [ht.buckets EXCEPT ![b] = LLIteratorDelete(ht.buckets[b], f).list]
      BY ONLY <1>1, <1>5, Zenon
    <3> QED BY <3>3, <3>4, Zenon
  <2>3. /\ IsChain(M, b, nb) /\ Removed(L, f, M)
        /\ \A x : Holds(M, x) <=> Holds(L, x) /\ x.key # key
    <3>1. /\ IsChain(M, b, nb) /\ Removed(L, f, M)
          /\ \A x : Holds(M, x) <=> Holds(L, x) /\ x.key # Payload(L, f).key
      BY <1>2, <2>0, ChainTaken, Zenon
    <3> QED BY <2>0, <3>1, Zenon
  <2> HIDE DEF M, c
  <2>4. /\ IsHash(H) /\ H.num_buckets = nb /\ H.num_elements = c
        /\ \A i \in 0 .. nb - 1 : H.buckets[i] = IF i = b THEN M ELSE ht.buckets[i]
        /\ \A x : x \in KVs(H) <=> (x \in KVs(ht) /\ x.key % nb # b) \/ Holds(M, x)
    <3> HIDE DEF b
    <3>1. IsHash(ht) /\ b \in 0 .. nb - 1 /\ c \in Nat /\ IsChain(M, b, nb)
      BY <1>0, <1>1, <2>1, <2>3, Zenon
    <3>2. /\ IsHash(H) /\ H.num_buckets = nb /\ H.num_elements = c
          /\ \A x : x \in KVs(H) <=> (x \in KVs(ht) /\ x.key % nb # b) \/ Holds(M, x)
      BY <2>2, <3>1, ChainReplaced
    <3>3. \A i \in 0 .. nb - 1 : H.buckets[i] = IF i = b THEN M ELSE ht.buckets[i]
      BY ONLY <1>5, <2>2, <3>1, Zenon
    <3> QED BY <3>2, <3>3, Zenon
  <2>5. \A x : x \in KVs(H) <=> x \in KVs(ht) /\ x.key # key
    BY <1>6, <2>3, <2>4, Zenon
  <2>6. Keys(H) = Keys(ht) \ {key}
    <3>1. \A k : k \in Keys(H) <=> \E x \in KVs(H) : x.key = k
      BY Zenon DEF Keys
    <3>2. \A k : k \in Keys(ht) <=> \E x \in KVs(ht) : x.key = k
      BY Zenon DEF Keys
    <3>3. \A k : k \in Keys(H) <=> k \in Keys(ht) /\ k # key
      BY <2>5, <3>1, <3>2, Zenon
    <3> QED BY ONLY <3>3, Zenon
  <2>7. IsTable(H)
    BY <2>1, <2>4, <2>6, Zenon DEF IsTable
  <2>8. c <= ht.num_elements
    BY <1>0 DEF c
  <2>9. ASSUME NEW n \in DOMAIN L.node, Payload(L, n).key = key PROVE Removed(L, n, H.buckets[b])
    <3>1. n = f
      BY <1>2, <2>0, <2>9, Zenon DEF IsChain
    <3>2. H.buckets[b] = M
      BY <1>1, <2>4, Zenon
    <3> QED BY <2>3, <3>1, <3>2, Zenon
  <2>10. \A i \in 0 .. nb - 1 : i # b => H.buckets[i] = ht.buckets[i]
    BY <2>4, Zenon
  <2> QED BY <2>4, <2>5, <2>7, <2>8, <2>9, <2>10, Zenon DEF H
<1> QED BY <1>7, <1>8, Zenon

-----------------------------------------------------------------------------
(* Iterators *)

\* An iterator is past the end or at a node of a bucket.
IsIter(ht, h) ==
    \/ h = Invalid
    \/ /\ h = [is_valid |-> TRUE, bucket_num |-> h.bucket_num, node |-> h.node]
       /\ h.bucket_num \in 0 .. ht.num_buckets - 1
       /\ h.node \in DOMAIN ht.buckets[h.bucket_num].node

\* What a valid iterator has not passed: the nodes of its bucket from its own on,
\* and all nodes of the buckets behind.
LEMMA LeftOf ==
    ASSUME NEW ht, IsHash(ht), NEW h, IsIter(ht, h)
    PROVE  /\ ~h.is_valid => h = Invalid /\ KVsLeft(ht, h) = {}
           /\ h.is_valid =>
                /\ h = [is_valid |-> TRUE, bucket_num |-> h.bucket_num, node |-> h.node]
                /\ h.bucket_num \in 0 .. ht.num_buckets - 1
                /\ h.node \in DOMAIN ht.buckets[h.bucket_num].node
                /\ \A x : x \in KVsLeft(ht, h) <=>
                    \/ \E n \in From(ht.buckets[h.bucket_num], h.node) :
                         x = Payload(ht.buckets[h.bucket_num], n)
                    \/ \E b \in h.bucket_num + 1 .. ht.num_buckets - 1 : Holds(ht.buckets[b], x)
<1> DEFINE c == h.bucket_num
           nb == ht.num_buckets
<1>0. Invalid.is_valid = FALSE
  BY Zenon DEF Invalid
<1>1. ASSUME ~h.is_valid PROVE h = Invalid /\ KVsLeft(ht, h) = {}
  <2>1. h = Invalid
    BY <1>1 DEF IsIter
  <2> QED BY <1>1, <2>1, Zenon DEF KVsLeft, HTIteratorPastEnd
<1>2. ASSUME h.is_valid
      PROVE  /\ h = [is_valid |-> TRUE, bucket_num |-> c, node |-> h.node]
             /\ c \in 0 .. nb - 1 /\ h.node \in DOMAIN ht.buckets[c].node
             /\ \A x : x \in KVsLeft(ht, h) <=>
                  \/ \E n \in From(ht.buckets[c], h.node) : x = Payload(ht.buckets[c], n)
                  \/ \E b \in c + 1 .. nb - 1 : Holds(ht.buckets[b], x)
  <2>1. /\ h = [is_valid |-> TRUE, bucket_num |-> c, node |-> h.node]
        /\ c \in 0 .. nb - 1 /\ h.node \in DOMAIN ht.buckets[c].node
    BY <1>0, <1>2, Zenon DEF IsIter
  <2>2. \A b : b \in c .. nb - 1 <=> b = c \/ b \in c + 1 .. nb - 1
    BY <2>1 DEF IsHash
  <2>3. \A b \in c + 1 .. nb - 1 : b # c
    BY <2>1 DEF IsHash
  <2>4. \A x : x \in KVsLeft(ht, h) <=>
          \E b \in c .. nb - 1 : x \in {Payload(ht.buckets[b], n) : n \in Unpassed(ht, h, b)}
    BY <1>2, Zenon DEF KVsLeft, HTIteratorPastEnd
  <2>5. \A b \in c + 1 .. nb - 1 : Unpassed(ht, h, b) = DOMAIN ht.buckets[b].node
    BY <2>3, Zenon DEF Unpassed
  <2>6. Unpassed(ht, h, c) = From(ht.buckets[c], h.node)
    BY Zenon DEF Unpassed
  <2> HIDE DEF c
  <2>7. ASSUME NEW x
        PROVE  x \in KVsLeft(ht, h) <=>
                 \/ \E n \in From(ht.buckets[c], h.node) : x = Payload(ht.buckets[c], n)
                 \/ \E b \in c + 1 .. nb - 1 : Holds(ht.buckets[b], x)
    <3>1. \A b \in c + 1 .. nb - 1 : Holds(ht.buckets[b], x) <=>
            x \in {Payload(ht.buckets[b], n) : n \in Unpassed(ht, h, b)}
      BY <2>5, Zenon DEF Holds
    <3>2. x \in {Payload(ht.buckets[c], n) : n \in Unpassed(ht, h, c)} <=>
            \E n \in From(ht.buckets[c], h.node) : x = Payload(ht.buckets[c], n)
      BY <2>6, Zenon
    <3> QED BY ONLY <2>2, <2>4, <3>1, <3>2, Zenon
  <2> QED BY <2>1, <2>7, Zenon DEF c
<1> QED BY <1>1, <1>2, Zenon

\* h is at the first node of the first bucket from c on that holds something, or
\* past the end if there is none.
IsFirst(ht, c, h) ==
    \/ Filled(ht, c) = {} /\ h = Invalid
    \/ \E m \in Filled(ht, c) : (\A d \in Filled(ht, c) : m <= d) /\ h = AtBucket(ht, m)

\* There is a first bucket if there is one.
LEMMA FilledLeast ==
    ASSUME NEW ht, NEW c \in Nat, Filled(ht, c) # {}
    PROVE  \E m \in Filled(ht, c) : \A d \in Filled(ht, c) : m <= d
<1>1. Filled(ht, c) \in SUBSET Nat
  BY DEF Filled
<1> QED BY <1>1, Least, Zenon

\* What such an iterator has not passed is what the buckets from c on hold.
LEMMA NextFilled ==
    ASSUME NEW ht, IsHash(ht), NEW c \in Nat, NEW h, IsFirst(ht, c, h)
    PROVE  /\ IsIter(ht, h)
           /\ \A x : x \in KVsLeft(ht, h) <=> \E b \in c .. ht.num_buckets - 1 : Holds(ht.buckets[b], x)
           /\ h.is_valid => h.bucket_num >= c
<1> DEFINE F == Filled(ht, c)
           nb == ht.num_buckets
<1>0. nb \in Nat /\ c .. nb - 1 \subseteq 0 .. nb - 1
  BY DEF IsHash
<1>1. \A b \in 0 .. nb - 1 : IsList(ht.buckets[b]) /\ WellFormed(ht.buckets[b])
  BY Zenon DEF IsHash, IsChain
<1>2. \A b \in 0 .. nb - 1 : /\ ht.buckets[b].num_elements \in Nat
                             /\ ht.buckets[b].num_elements = 0 <=> DOMAIN ht.buckets[b].node = {}
                             /\ ht.buckets[b].num_elements > 0 =>
                                  /\ ht.buckets[b].head \in DOMAIN ht.buckets[b].node
                                  /\ From(ht.buckets[b], ht.buckets[b].head) = DOMAIN ht.buckets[b].node
  BY <1>1, FromHead, Zenon
<1>3. \A b : b \in F <=> b \in c .. nb - 1 /\ ht.buckets[b].num_elements > 0
  BY Zenon DEF Filled
<1>4. \A b \in 0 .. nb - 1 : ht.buckets[b].num_elements > 0 \/ ht.buckets[b].num_elements = 0
  BY <1>2
<1>5. \A b \in c .. nb - 1 : b \notin F => \A x : ~Holds(ht.buckets[b], x)
  <2> SUFFICES ASSUME NEW b \in c .. nb - 1, b \notin F PROVE \A x : ~Holds(ht.buckets[b], x)
    BY Zenon
  <2>1. DOMAIN ht.buckets[b].node = {}
    BY <1>0, <1>2, <1>3, <1>4, Zenon
  <2> QED BY <2>1, Zenon DEF Holds
<1> HIDE DEF F
<1>6. CASE F = {}
  <2>1. h = Invalid
    BY <1>6, Zenon DEF IsFirst, F
  <2>2. IsIter(ht, h) /\ ~h.is_valid
    <3>1. Invalid.is_valid = FALSE
      BY Zenon DEF Invalid
    <3> QED BY <2>1, <3>1, Zenon DEF IsIter
  <2>3. \A x : x \notin KVsLeft(ht, h)
    BY <2>2, Zenon DEF KVsLeft, HTIteratorPastEnd
  <2> QED BY <1>5, <1>6, <2>2, <2>3, Zenon
<1>7. CASE F # {}
  <2>3. PICK m \in F : (\A d \in F : m <= d) /\ h = AtBucket(ht, m)
    BY <1>7, Zenon DEF IsFirst, F
  <2>5. /\ h = [is_valid |-> TRUE, bucket_num |-> m, node |-> ht.buckets[m].head]
        /\ h.is_valid /\ h.bucket_num = m /\ h.node = ht.buckets[m].head
    <3>1. h = [is_valid |-> TRUE, bucket_num |-> m, node |-> ht.buckets[m].head]
      BY <2>3, Zenon DEF AtBucket, LLMakeIterator
    <3>2. h.is_valid = TRUE /\ h.bucket_num = m /\ h.node = ht.buckets[m].head
      BY ONLY <3>1, Zenon
    <3> QED BY <3>1, <3>2, Zenon
  <2>6. m \in c .. nb - 1 /\ m \in 0 .. nb - 1 /\ ht.buckets[m].num_elements > 0
    BY <1>0, <1>3, <2>3, Zenon
  <2>7. IsIter(ht, h)
    BY <1>2, <2>5, <2>6, Zenon DEF IsIter
  <2>8. From(ht.buckets[m], h.node) = DOMAIN ht.buckets[m].node
    BY <1>2, <2>5, <2>6, Zenon
  <2>9. \A x : x \in KVsLeft(ht, h) <=>
          \/ \E n \in From(ht.buckets[m], h.node) : x = Payload(ht.buckets[m], n)
          \/ \E b \in m + 1 .. nb - 1 : Holds(ht.buckets[b], x)
    <3> DEFINE d == h.bucket_num
    <3>1. d = m
      BY <2>5, Zenon
    <3>2. \A x : x \in KVsLeft(ht, h) <=>
            \/ \E n \in From(ht.buckets[d], h.node) : x = Payload(ht.buckets[d], n)
            \/ \E b \in d + 1 .. nb - 1 : Holds(ht.buckets[b], x)
      <4>1. IsHash(ht) /\ IsIter(ht, h) /\ h.is_valid
        BY <2>5, <2>7, Zenon
      <4> QED BY ONLY <4>1, LeftOf, Zenon
    <3> HIDE DEF d
    <3> QED BY ONLY <3>1, <3>2, Zenon
  <2>10. \A x : x \in KVsLeft(ht, h) <=>
           Holds(ht.buckets[m], x) \/ \E b \in m + 1 .. nb - 1 : Holds(ht.buckets[b], x)
    BY <2>8, <2>9, Zenon DEF Holds
  <2>11. \A b \in c .. nb - 1 : b = m \/ b \in m + 1 .. nb - 1 \/ b \notin F
    <3>1. \A b \in c .. nb - 1 : m <= b => b = m \/ b \in m + 1 .. nb - 1
      BY <1>0, <2>6
    <3> QED BY <2>3, <3>1, Zenon
  <2>12. m + 1 .. nb - 1 \subseteq c .. nb - 1
    BY <1>0, <2>6
  <2>13. \A x : x \in KVsLeft(ht, h) <=> \E b \in c .. nb - 1 : Holds(ht.buckets[b], x)
    BY ONLY <1>5, <2>6, <2>10, <2>11, <2>12, Zenon
  <2>14. h.bucket_num >= c
    BY <2>5, <2>6
  <2> QED BY <2>7, <2>13, <2>14, Zenon
<1> QED BY <1>6, <1>7, Zenon

\* A new iterator has all elements before it.
LEMMA IteratorMade ==
    ASSUME NEW ht, IsTable(ht)
    PROVE  LET h == HashTableMakeIterator(ht)
           IN  IsIter(ht, h) /\ \A x : x \in KVsLeft(ht, h) <=> x \in KVs(ht)
<1> DEFINE h == HashTableMakeIterator(ht)
           nb == ht.num_buckets
<1>0. /\ IsHash(ht) /\ IsFiniteSet(Keys(ht)) /\ Cardinality(Keys(ht)) = ht.num_elements
      /\ ht.num_elements \in Nat
  BY Zenon DEF IsTable, IsHash
<1>1. \A x : x \in KVs(ht) <=> \E b \in 0 .. nb - 1 : Holds(ht.buckets[b], x)
  BY <1>0, Elements, Zenon
<1>2. ht.num_elements = 0 <=> Keys(ht) = {}
  BY <1>0, FS_EmptySet, Zenon
<1>3. CASE ht.num_elements = 0
  <2>1. h = Invalid
    BY <1>3, Zenon DEF HashTableMakeIterator
  <2>2. Invalid.is_valid = FALSE
    BY Zenon DEF Invalid
  <2>3. \A x : x \notin KVs(ht)
    BY <1>2, <1>3, Zenon DEF Keys
  <2>4. \A x : x \notin KVsLeft(ht, h)
    BY <2>1, <2>2, Zenon DEF KVsLeft, HTIteratorPastEnd
  <2> QED BY <2>1, <2>3, <2>4, Zenon DEF IsIter
<1>4. CASE ht.num_elements # 0
  <2>1. h = AtBucket(ht, CHOOSE b \in Filled(ht, 0) : \A d \in Filled(ht, 0) : b <= d)
    BY <1>4, Zenon DEF HashTableMakeIterator
  <2>2. Filled(ht, 0) # {}
    <3>1. PICK x : x \in KVs(ht)
      BY <1>2, <1>4, Zenon DEF Keys
    <3>2. PICK b \in 0 .. nb - 1 : Holds(ht.buckets[b], x)
      BY <1>1, <3>1, Zenon
    <3>3. IsList(ht.buckets[b]) /\ WellFormed(ht.buckets[b])
      BY <1>0, Zenon DEF IsHash, IsChain
    <3>4. ht.buckets[b].num_elements \in Nat /\ ht.buckets[b].num_elements # 0
      BY <3>2, <3>3, FromHead, Zenon DEF Holds
    <3>5. ht.buckets[b].num_elements > 0
      BY <3>4
    <3> QED BY <3>5, Zenon DEF Filled
  <2>3. PICK z \in Nat : z = 0
    BY Zenon
  <2>4. IsFirst(ht, z, h)
    <3> DEFINE F == Filled(ht, 0)
               m == CHOOSE b \in F : \A d \in F : b <= d
    <3>1. \E b \in F : \A d \in F : b <= d
      BY <2>2, <2>3, FilledLeast, Zenon
    <3>2. m \in F /\ (\A d \in F : m <= d) /\ h = AtBucket(ht, m)
      BY <2>1, <3>1, Zenon
    <3>3. F = Filled(ht, z)
      BY <2>3, Zenon
    <3> HIDE DEF F, m, h
    <3> QED BY <3>2, <3>3, Zenon DEF IsFirst
  <2> HIDE DEF h
  <2>5. IsIter(ht, h) /\ \A x : x \in KVsLeft(ht, h) <=> \E b \in z .. nb - 1 : Holds(ht.buckets[b], x)
    BY <1>0, <2>4, NextFilled, Zenon
  <2> QED BY <1>1, <2>3, <2>5, Zenon DEF h
<1> QED BY <1>3, <1>4, Zenon

\* Where the iterator is that comes from h: at the next node, or in a bucket
\* behind.
NextPlace(ht, h, g) ==
    LET next == ht.buckets[h.bucket_num].node[h.node].next
    IN  \/ next # NULL /\ g.bucket_num = h.bucket_num /\ g.node = next
        \/ g.bucket_num \in h.bucket_num + 1 .. ht.num_buckets - 1

\* HTIteratorNext passes one element, the one the iterator is at.
LEMMA IteratorMoved ==
    ASSUME NEW ht, IsHash(ht), NEW h, IsIter(ht, h), h.is_valid
    PROVE  LET g == HTIteratorNext(ht, h)
               x == HTIteratorGet(ht, h)
           IN  /\ IsIter(ht, g) /\ x \in KVs(ht) /\ x \in KVsLeft(ht, h)
               /\ x.key % ht.num_buckets = h.bucket_num
               /\ \A y : y \in KVsLeft(ht, g) <=> y \in KVsLeft(ht, h) /\ y # x
               /\ \A y \in KVsLeft(ht, h) : y \in KVs(ht)
               /\ g.is_valid => NextPlace(ht, h, g)
<1> DEFINE g == HTIteratorNext(ht, h)
           x == HTIteratorGet(ht, h)
           nb == ht.num_buckets
           c == h.bucket_num
           L == ht.buckets[c]
           m == h.node
           next == L.node[m].next
<1>0. nb \in Nat /\ \A b \in 0 .. nb - 1 : IsChain(ht.buckets[b], b, nb)
  BY Zenon DEF IsHash
<1>1. /\ h = [is_valid |-> TRUE, bucket_num |-> c, node |-> m]
      /\ c \in 0 .. nb - 1 /\ m \in DOMAIN L.node
      /\ \A y : y \in KVsLeft(ht, h) <=>
           \/ \E n \in From(L, m) : y = Payload(L, n)
           \/ \E b \in c + 1 .. nb - 1 : Holds(ht.buckets[b], y)
  BY LeftOf, Zenon
<1>2. IsChain(L, c, nb) /\ IsList(L) /\ WellFormed(L)
  BY <1>0, <1>1, Zenon DEF IsChain
<1>3. /\ m \in From(L, m) /\ From(L, m) \subseteq DOMAIN L.node
      /\ next = NULL => From(L, m) = {m}
      /\ next # NULL => next \in DOMAIN L.node /\ From(L, next) = From(L, m) \ {m}
  BY <1>1, <1>2, FromNode, Zenon
<1>4. \A b \in 0 .. nb - 1 : \A y : Holds(ht.buckets[b], y) <=> y \in KVs(ht) /\ y.key % nb = b
  BY Elements, Zenon
<1>5. x = Payload(L, m)
  BY Zenon DEF HTIteratorGet
<1>6. \A b \in c + 1 .. nb - 1 : b \in 0 .. nb - 1 /\ b # c
  BY <1>0, <1>1
<1> HIDE DEF x, g
<1>7. Holds(L, x) /\ x \in KVs(ht) /\ x \in KVsLeft(ht, h) /\ x.key % nb = c
  BY <1>1, <1>3, <1>4, <1>5, Zenon DEF Holds
<1>8. \A y \in KVsLeft(ht, h) : y \in KVs(ht)
  BY <1>1, <1>3, <1>4, <1>6, Zenon DEF Holds
<1>9. \A b \in c + 1 .. nb - 1 : \A y : Holds(ht.buckets[b], y) => y # x
  BY <1>4, <1>6, <1>7, Zenon
<1>10. \A n \in From(L, m) : n # m => Payload(L, n) # x
  BY <1>1, <1>2, <1>3, <1>5, Zenon DEF IsChain
<1>11. CASE next # NULL
  <2>1. g = [h EXCEPT !.node = LLIteratorNext(L, @)]
    BY <1>11, Zenon DEF HTIteratorNext, g
  <2>2. LLIteratorNext(L, m) = next
    BY <1>11, Zenon DEF LLIteratorNext
  <2>3. g = [is_valid |-> TRUE, bucket_num |-> c, node |-> next]
    BY <1>1, <2>1, <2>2, Zenon
  <2>4. g.is_valid = TRUE /\ g.bucket_num = c /\ g.node = next
    BY ONLY <2>3, Zenon
  <2>5. IsIter(ht, g)
    BY <1>1, <1>3, <1>11, <2>3, <2>4, ZenonT(30) DEF IsIter
  <2>6. \A y : y \in KVsLeft(ht, g) <=>
          \/ \E n \in From(L, next) : y = Payload(L, n)
          \/ \E b \in c + 1 .. nb - 1 : Holds(ht.buckets[b], y)
    BY <2>4, <2>5, LeftOf, Zenon
  <2>7. \A n : n \in From(L, next) <=> n \in From(L, m) /\ n # m
    BY <1>3, <1>11, Zenon
  <2>8. \A y : y \in KVsLeft(ht, g) <=> y \in KVsLeft(ht, h) /\ y # x
    BY <1>1, <1>5, <1>9, <1>10, <2>6, <2>7, Zenon
  <2>9. NextPlace(ht, h, g)
    BY <1>11, <2>4, Zenon DEF NextPlace
  <2> QED BY <1>7, <1>8, <2>5, <2>8, <2>9, Zenon DEF g, x
<1>12. CASE next = NULL
  <2>1. PICK d \in Nat : d = c + 1
    BY <1>1
  <2>2. IsFirst(ht, d, g)
    <3> DEFINE F == Filled(ht, c + 1)
               k == CHOOSE b \in F : \A e \in F : b <= e
    <3>1. g = IF F = {} THEN Invalid ELSE AtBucket(ht, k)
      BY <1>12, Zenon DEF HTIteratorNext, g
    <3>2. F = Filled(ht, d)
      BY <2>1, Zenon
    <3>3. CASE F = {}
      BY <3>1, <3>2, <3>3, Zenon DEF IsFirst
    <3>4. CASE F # {}
      <4>1. \E b \in F : \A e \in F : b <= e
        BY <2>1, <3>2, <3>4, FilledLeast, Zenon
      <4>2. k \in F /\ (\A e \in F : k <= e) /\ g = AtBucket(ht, k)
        BY <3>1, <3>4, <4>1, Zenon
      <4> HIDE DEF F, k
      <4> QED BY <3>2, <4>2, Zenon DEF IsFirst
    <3> QED BY <3>3, <3>4, Zenon
  <2>3. /\ IsIter(ht, g)
        /\ \A y : y \in KVsLeft(ht, g) <=> \E b \in c + 1 .. nb - 1 : Holds(ht.buckets[b], y)
    BY <2>1, <2>2, NextFilled, Zenon
  <2>4. \A n : n \in From(L, m) <=> n = m
    BY <1>3, <1>12, Zenon
  <2>5. \A y : y \in KVsLeft(ht, g) <=> y \in KVsLeft(ht, h) /\ y # x
    BY <1>1, <1>5, <1>9, <2>3, <2>4, Zenon
  <2>6. ASSUME g.is_valid PROVE NextPlace(ht, h, g)
    <3>1. g.bucket_num \in 0 .. nb - 1
      BY <2>3, <2>6, LeftOf, Zenon
    <3>2. g.bucket_num >= d
      BY <2>2, <2>6, NextFilled, Zenon
    <3>3. g.bucket_num \in c + 1 .. nb - 1
      BY <1>0, <1>1, <2>1, <3>1, <3>2
    <3> QED BY <3>3, Zenon DEF NextPlace
  <2> QED BY <1>7, <1>8, <2>3, <2>5, <2>6, Zenon DEF g, x
<1> QED BY <1>11, <1>12, Zenon

\* HTIteratorDelete removes the element the iterator was at and passes no other:
\* the place it has moved to before is not touched by the removal.
LEMMA IteratorDeleted ==
    ASSUME NEW ht, IsTable(ht), NEW h, IsIter(ht, h), h.is_valid
    PROVE  LET H == HTIteratorDelete(ht, h).table
               g == HTIteratorDelete(ht, h).iter
               x == HTIteratorGet(ht, h)
           IN  /\ IsTable(H) /\ IsIter(H, g) /\ x \in KVs(ht) /\ x \in KVsLeft(ht, h)
               /\ H.num_buckets = ht.num_buckets /\ H.num_elements <= ht.num_elements
               /\ \A y : y \in KVs(H) <=> y \in KVs(ht) /\ y.key # x.key
               /\ \A y : y \in KVsLeft(H, g) <=> y \in KVsLeft(ht, h) /\ y # x
<1> DEFINE x == HTIteratorGet(ht, h)
           key == x.key
           H == RemoveFromHashTable(ht, key)
           g == HTIteratorNext(ht, h)
           nb == ht.num_buckets
           c == h.bucket_num
           L == ht.buckets[c]
           M == H.buckets[c]
           m == h.node
           next == L.node[m].next
<1>0. HTIteratorDelete(ht, h).table = H /\ HTIteratorDelete(ht, h).iter = g
  BY Zenon DEF HTIteratorDelete
<1>1. IsHash(ht) /\ nb \in Nat /\ \A b \in 0 .. nb - 1 : IsList(ht.buckets[b]) /\ WellFormed(ht.buckets[b])
  BY Zenon DEF IsTable, IsHash, IsChain
<1>2. /\ c \in 0 .. nb - 1 /\ m \in DOMAIN L.node
      /\ h = [is_valid |-> TRUE, bucket_num |-> c, node |-> m]
  BY <1>1, LeftOf, Zenon
<1>3. x = Payload(L, m)
  BY Zenon DEF HTIteratorGet
<1>4. /\ IsIter(ht, g) /\ x \in KVs(ht) /\ x \in KVsLeft(ht, h) /\ key % nb = c
      /\ \A y : y \in KVsLeft(ht, g) <=> y \in KVsLeft(ht, h) /\ y # x
      /\ g.is_valid => NextPlace(ht, h, g)
  BY <1>1, IteratorMoved, Zenon
<1>5. key \in Nat
  BY <1>1, <1>4, Elements, Zenon
<1> HIDE DEF x, g
<1>6. /\ IsTable(H) /\ H.num_buckets = nb /\ H.num_elements <= ht.num_elements
      /\ \A y : y \in KVs(H) <=> y \in KVs(ht) /\ y.key # key
      /\ \A i \in 0 .. nb - 1 : i # c => H.buckets[i] = ht.buckets[i]
      /\ \A n \in DOMAIN L.node : Payload(L, n).key = key => Removed(L, n, M)
  <2> DEFINE k == key % nb
  <2>1. /\ IsTable(H) /\ H.num_buckets = nb /\ H.num_elements <= ht.num_elements
        /\ \A y : y \in KVs(H) <=> y \in KVs(ht) /\ y.key # key
        /\ \A i \in 0 .. nb - 1 : i # k => H.buckets[i] = ht.buckets[i]
        /\ \A n \in DOMAIN ht.buckets[k].node :
             Payload(ht.buckets[k], n).key = key => Removed(ht.buckets[k], n, H.buckets[k])
    BY ONLY IsTable(ht), <1>5, RemovedKey, Zenon
  <2>2. k = c
    BY <1>4, Zenon
  <2> HIDE DEF k, H
  <2> QED BY ONLY <2>1, <2>2, Zenon
<1> HIDE DEF H
<1>7. Removed(L, m, M) /\ IsHash(H)
  BY <1>2, <1>3, <1>6, Zenon DEF IsTable
<1>8. CASE ~g.is_valid
  <2>1. g = Invalid /\ \A y : y \notin KVsLeft(ht, g)
    BY <1>1, <1>4, <1>8, LeftOf, Zenon
  <2>2. IsIter(H, g)
    BY <2>1, Zenon DEF IsIter
  <2>3. \A y : y \notin KVsLeft(H, g)
    BY <1>7, <1>8, <2>2, LeftOf, Zenon
  <2> QED BY <1>0, <1>4, <1>6, <2>1, <2>2, <2>3, Zenon DEF x
<1>9. CASE g.is_valid
  <2> DEFINE d == g.bucket_num
             P == ht.buckets[d]
             Q == H.buckets[d]
  <2>1. /\ g = [is_valid |-> TRUE, bucket_num |-> d, node |-> g.node]
        /\ d \in 0 .. nb - 1 /\ g.node \in DOMAIN P.node
        /\ \A y : y \in KVsLeft(ht, g) <=>
             \/ \E n \in From(P, g.node) : y = Payload(P, n)
             \/ \E b \in d + 1 .. nb - 1 : Holds(ht.buckets[b], y)
    BY <1>1, <1>4, <1>9, LeftOf, Zenon
  <2>2. d \in c .. nb - 1 /\ \A b \in d + 1 .. nb - 1 : b # c /\ b \in 0 .. nb - 1
    <3>1. d = c \/ d \in c + 1 .. nb - 1
      BY <1>4, <1>9, Zenon DEF NextPlace
    <3> HIDE DEF d, c
    <3> QED BY ONLY <1>1, <1>2, <3>1
  <2>3. /\ g.node \in DOMAIN Q.node /\ From(Q, g.node) = From(P, g.node)
        /\ \A n \in From(P, g.node) : Payload(Q, n) = Payload(P, n)
    <3>1. CASE d = c
      <4>1. next # NULL /\ g.node = next
        <5>1. c \notin c + 1 .. nb - 1
          BY <1>1, <1>2
        <5> QED BY <1>4, <1>9, <3>1, <5>1, Zenon DEF NextPlace
      <4>2. next \in DOMAIN M.node /\ From(M, next) = From(L, next)
        BY <1>1, <1>2, <1>7, <4>1, FromRemoved, Zenon
      <4>3. From(M, next) \subseteq DOMAIN M.node
        <5>1. IsList(M) /\ WellFormed(M)
          BY <1>7, Zenon DEF Removed
        <5> HIDE DEF M, next
        <5> QED BY ONLY <4>2, <5>1, FromNode, Zenon
      <4>4. \A n \in DOMAIN M.node : Payload(M, n) = Payload(L, n)
        BY <1>7, Zenon DEF Removed
      <4> QED BY <3>1, <4>1, <4>2, <4>3, <4>4, Zenon
    <3>2. CASE d # c
      <4>1. Q = P
        BY <1>6, <2>1, <3>2, Zenon
      <4> QED BY <2>1, <4>1, Zenon
    <3> QED BY <3>1, <3>2, Zenon
  <2>4. IsIter(H, g)
    BY <1>6, <2>1, <2>3, Zenon DEF IsIter
  <2>5. \A y : y \in KVsLeft(H, g) <=>
          \/ \E n \in From(Q, g.node) : y = Payload(Q, n)
          \/ \E b \in d + 1 .. nb - 1 : Holds(H.buckets[b], y)
    <3>1. IsHash(H) /\ IsIter(H, g) /\ g.is_valid
      BY <1>7, <1>9, <2>4, Zenon
    <3>2. \A y : y \in KVsLeft(H, g) <=>
            \/ \E n \in From(Q, g.node) : y = Payload(Q, n)
            \/ \E b \in d + 1 .. H.num_buckets - 1 : Holds(H.buckets[b], y)
      BY ONLY <3>1, LeftOf, Zenon
    <3> QED BY ONLY <1>6, <3>2, Zenon
  <2>6. \A b \in d + 1 .. nb - 1 : H.buckets[b] = ht.buckets[b]
    BY <1>6, <2>2, Zenon
  <2>7. \A y : y \in KVsLeft(H, g) <=> y \in KVsLeft(ht, g)
    BY ONLY <2>1, <2>3, <2>5, <2>6, Zenon
  <2> QED BY <1>0, <1>4, <1>6, <2>4, <2>7, Zenon DEF x
<1> QED BY <1>8, <1>9, Zenon

-----------------------------------------------------------------------------
(* ResizeHashtable *)

\* A new table is empty.
LEMMA NewTable ==
    ASSUME NEW nb \in Nat \ {0}
    PROVE  LET H == AllocateHashTable(nb)
           IN  IsTable(H) /\ H.num_buckets = nb /\ H.num_elements = 0 /\ \A x : x \notin KVs(H)
<1> DEFINE H == AllocateHashTable(nb)
           B == [i \in 0 .. nb - 1 |-> AllocateLinkedList]
<1>1. H = [num_buckets |-> nb, num_elements |-> 0, buckets |-> B]
  BY Zenon DEF AllocateHashTable
<1> HIDE DEF H, B
<1>2. H.num_buckets = nb /\ H.num_elements = 0 /\ H.buckets = B
  BY ONLY <1>1, Zenon
<1>3. /\ H = [num_buckets |-> H.num_buckets, num_elements |-> H.num_elements, buckets |-> H.buckets]
  BY ONLY <1>1, <1>2, Zenon
<1>4. /\ H.buckets = [b \in 0 .. nb - 1 |-> H.buckets[b]]
      /\ \A b \in 0 .. nb - 1 : H.buckets[b] = AllocateLinkedList
  BY <1>2, Zenon DEF B
<1>5. \A b \in 0 .. nb - 1 : DOMAIN H.buckets[b].node = {}
  BY <1>4, Allocated, Zenon
<1>6. \A b \in 0 .. nb - 1 : IsChain(H.buckets[b], b, nb)
  <2> SUFFICES ASSUME NEW b \in 0 .. nb - 1 PROVE IsChain(H.buckets[b], b, nb)
    BY Zenon
  <2>1. IsList(H.buckets[b]) /\ WellFormed(H.buckets[b]) /\ \A n : n \notin DOMAIN H.buckets[b].node
    BY <1>4, <1>5, Allocated, Zenon
  <2> QED BY <2>1, Zenon DEF IsChain
<1>7. IsHash(H)
  <2>1. nb \in Nat \ {0} /\ 0 \in Nat
    BY Zenon
  <2> QED BY <1>2, <1>3, <1>4, <1>6, <2>1, Zenon DEF IsHash
<1>8. \A x : x \notin KVs(H)
  <2>1. \A x : x \in KVs(H) <=> \E b \in 0 .. nb - 1 : Holds(H.buckets[b], x)
    BY <1>2, <1>7, Elements, Zenon
  <2> QED BY <1>5, <2>1, Zenon DEF Holds
<1>9. Keys(H) = {}
  BY <1>8, Zenon DEF Keys
<1>10. IsFiniteSet(Keys(H)) /\ Cardinality(Keys(H)) = 0
  BY <1>9, FS_EmptySet, Zenon
<1> QED BY <1>2, <1>7, <1>8, <1>10, Zenon DEF H, IsTable

\* The table and the iterator that ResizeHashtable begins with.
Start(ht) == [it |-> HashTableMakeIterator(ht), newht |-> AllocateHashTable(9 * ht.num_buckets)]

\* f holds what is there behind each of the first m rounds.
Rounds(ht, f, m) == f = [k \in 0 .. m |-> IF k = 0 THEN Start(ht) ELSE CopyItem(ht, f[k - 1])]

\* There is such an f.
LEMMA RoundsExist ==
    ASSUME NEW ht, NEW n \in Nat
    PROVE  \E f : Rounds(ht, f, n)
<1> DEFINE bad == {m \in Nat : ~\E f : Rounds(ht, f, m)}
<1> SUFFICES ASSUME bad # {} PROVE FALSE
  BY Zenon
<1>1. PICK m \in bad : \A j \in bad : m <= j
  <2>1. bad \in SUBSET Nat
    BY Zenon
  <2> HIDE DEF bad
  <2> QED BY <2>1, Least, Zenon
<1>2. m \in Nat /\ ~\E f : Rounds(ht, f, m)
  BY <1>1, Zenon
<1>3. CASE m = 0
  <2> DEFINE f == [k \in 0 .. 0 |-> Start(ht)]
  <2>1. \A k \in 0 .. 0 : k = 0
    OBVIOUS
  <2>2. f = [k \in 0 .. 0 |-> IF k = 0 THEN Start(ht) ELSE CopyItem(ht, f[k - 1])]
    BY <2>1, Zenon
  <2> HIDE DEF f
  <2> QED BY <1>2, <1>3, <2>2, Zenon DEF Rounds
<1>4. CASE m # 0
  <2>1. PICK p \in Nat : p = m - 1 /\ p + 1 = m /\ ~(m <= p)
    BY <1>2, <1>4
  <2>2. PICK f : Rounds(ht, f, p)
    BY <1>1, <2>1, Zenon
  <2> DEFINE g == [k \in 0 .. m |-> IF k = m THEN CopyItem(ht, f[p]) ELSE f[k]]
  <2>3. \A k \in 0 .. p : f[k] = IF k = 0 THEN Start(ht) ELSE CopyItem(ht, f[k - 1])
    BY <2>2, Zenon DEF Rounds
  <2>4. \A k \in 0 .. m : g[k] = IF k = m THEN CopyItem(ht, f[p]) ELSE f[k]
    BY Zenon
  <2>5. g = [k \in 0 .. m |-> g[k]]
    BY Zenon
  <2> HIDE DEF g
  <2>6. ASSUME NEW k \in 0 .. m PROVE g[k] = IF k = 0 THEN Start(ht) ELSE CopyItem(ht, g[k - 1])
    <3>1. CASE k = m
      <4>1. k - 1 = p /\ p \in 0 .. m /\ p # m /\ k # 0
        BY <1>2, <1>4, <2>1, <3>1
      <4>2. g[p] = f[p]
        BY <2>4, <4>1, Zenon
      <4> QED BY <2>4, <3>1, <4>1, <4>2, Zenon
    <3>2. CASE k # m
      <4>1. k \in 0 .. p /\ (k # 0 => k - 1 \in 0 .. m /\ k - 1 # m)
        BY <1>2, <2>1, <3>2
      <4>2. g[k] = f[k] /\ (k # 0 => g[k - 1] = f[k - 1])
        BY <2>4, <3>2, <4>1, Zenon
      <4> QED BY <2>3, <4>1, <4>2, Zenon
    <3> QED BY <3>1, <3>2, Zenon
  <2>7. g = [k \in 0 .. m |-> IF k = 0 THEN Start(ht) ELSE CopyItem(ht, g[k - 1])]
    BY ONLY <2>5, <2>6, Zenon
  <2> QED BY <1>2, <2>7, Zenon DEF Rounds
<1> QED BY <1>3, <1>4, Zenon

\* So Copies is what the loop computes, round by round.
LEMMA CopiesByRound ==
    ASSUME NEW ht, ht.num_elements \in Nat
    PROVE  /\ Copies(ht)[0] = Start(ht)
           /\ \A k \in 1 .. ht.num_elements : Copies(ht)[k] = CopyItem(ht, Copies(ht)[k - 1])
<1> DEFINE n == ht.num_elements
           C == Copies(ht)
<1>1. C = CHOOSE f : f = [k \in 0 .. n |-> IF k = 0 THEN Start(ht) ELSE CopyItem(ht, f[k - 1])]
  BY Zenon DEF Copies, Start
<1>2. \E f : f = [k \in 0 .. n |-> IF k = 0 THEN Start(ht) ELSE CopyItem(ht, f[k - 1])]
  BY RoundsExist, Zenon DEF Rounds
<1>3. C = [k \in 0 .. n |-> IF k = 0 THEN Start(ht) ELSE CopyItem(ht, C[k - 1])]
  BY ONLY <1>1, <1>2, Zenon
<1> HIDE DEF C
<1>4. \A k \in 0 .. n : C[k] = IF k = 0 THEN Start(ht) ELSE CopyItem(ht, C[k - 1])
  BY ONLY <1>3, Zenon
<1>5. 0 \in 0 .. n /\ \A k \in 1 .. n : k \in 0 .. n /\ k # 0
  OBVIOUS
<1> QED BY <1>4, <1>5, Zenon DEF C

\* Behind k rounds the new table holds k elements: those the iterator has passed.
CopyInv(ht, k, copy) ==
    /\ IsTable(copy.newht) /\ copy.newht.num_buckets = 9 * ht.num_buckets
    /\ copy.newht.num_elements = k
    /\ IsIter(ht, copy.it)
    /\ \A x : x \in KVs(copy.newht) <=> x \in KVs(ht) /\ x \notin KVsLeft(ht, copy.it)

\* A round copies an element while there are elements left.
LEMMA RoundCopies ==
    ASSUME NEW ht, IsTable(ht), NEW k \in Nat, k < ht.num_elements, NEW copy, CopyInv(ht, k, copy)
    PROVE  CopyInv(ht, k + 1, CopyItem(ht, copy))
<1> DEFINE h == copy.it
           N == copy.newht
           x == HTIteratorGet(ht, h)
           g == HTIteratorNext(ht, h)
           M == InsertInChain(N, x)
           next == CopyItem(ht, copy)
<1>0. /\ IsHash(ht) /\ Cardinality(Keys(ht)) = ht.num_elements /\ ht.num_elements \in Nat
  BY Zenon DEF IsTable, IsHash
<1>1. /\ IsTable(N) /\ N.num_buckets = 9 * ht.num_buckets /\ N.num_elements = k /\ IsIter(ht, h)
      /\ \A y : y \in KVs(N) <=> y \in KVs(ht) /\ y \notin KVsLeft(ht, h)
  BY Zenon DEF CopyInv
<1>2. h.is_valid
  <2> SUFFICES ASSUME ~h.is_valid PROVE FALSE
    BY Zenon
  <2>1. KVsLeft(ht, h) = {}
    BY <1>0, <1>1, LeftOf, Zenon
  <2>2. \A y : y \in KVs(N) <=> y \in KVs(ht)
    BY <1>1, <2>1, Zenon
  <2>3. KVs(N) = KVs(ht)
    BY ONLY <2>2, Zenon
  <2>4. Cardinality(Keys(N)) = k /\ Keys(N) = Keys(ht)
    BY <1>1, <2>3, Zenon DEF IsTable, Keys
  <2>5. k = ht.num_elements
    BY ONLY <1>0, <2>4, Zenon
  <2> QED BY <1>0, <2>5
<1>3. /\ IsIter(ht, g) /\ x \in KVs(ht) /\ x \in KVsLeft(ht, h)
      /\ \A y : y \in KVsLeft(ht, g) <=> y \in KVsLeft(ht, h) /\ y # x
  BY <1>0, <1>1, <1>2, IteratorMoved, Zenon
<1>4. x.key \in Nat /\ \A y \in KVs(ht) : y.key = x.key => y = x
  BY <1>0, <1>3, Elements, Zenon
<1>5. next = [it |-> g, newht |-> M]
  BY <1>2, Zenon DEF CopyItem, HTIteratorPastEnd
<1> HIDE DEF x, g, M, next
<1>6. next.it = g /\ next.newht = M
  BY ONLY <1>5, Zenon
<1>7. x.key \notin Keys(N)
  <2>1. \A y \in KVs(N) : y.key # x.key
    BY <1>1, <1>3, <1>4, Zenon
  <2> QED BY <2>1, Zenon DEF Keys
<1>8. /\ IsTable(M) /\ M.num_buckets = N.num_buckets
      /\ \A y : y \in KVs(M) <=> (y \in KVs(N) /\ y.key # x.key) \/ y = x
      /\ M.num_elements = N.num_elements + 1
  BY <1>1, <1>4, <1>7, Inserted, Zenon DEF M
<1>9. \A y \in KVs(N) : y.key # x.key
  BY <1>7, Zenon DEF Keys
<1>10. \A y : y \in KVs(M) <=> y \in KVs(ht) /\ y \notin KVsLeft(ht, g)
  BY ONLY <1>1, <1>3, <1>8, <1>9, Zenon
<1> QED BY <1>1, <1>3, <1>6, <1>8, <1>10, Zenon DEF CopyInv, next

\* So it is behind every round.
LEMMA CopyInvHolds ==
    ASSUME NEW ht, IsTable(ht)
    PROVE  \A k \in 0 .. ht.num_elements : CopyInv(ht, k, Copies(ht)[k])
<1> DEFINE n == ht.num_elements
           C == Copies(ht)
           bad == {k \in 0 .. n : ~CopyInv(ht, k, C[k])}
<1>0. n \in Nat /\ 9 * ht.num_buckets \in Nat \ {0}
  BY DEF IsTable, IsHash
<1>1. C[0] = Start(ht) /\ \A k \in 1 .. n : C[k] = CopyItem(ht, C[k - 1])
  BY <1>0, CopiesByRound, Zenon
<1> HIDE DEF C, n
<1> SUFFICES ASSUME bad # {} PROVE FALSE
  BY Zenon DEF C, n
<1>2. PICK k \in bad : \A j \in bad : k <= j
  <2>1. bad \in SUBSET Nat
    BY <1>0
  <2> HIDE DEF bad
  <2> QED BY <2>1, Least, Zenon
<1>3. k \in 0 .. n /\ k \in Nat /\ ~CopyInv(ht, k, C[k])
  BY <1>0, <1>2
<1>4. CASE k = 0
  <2> DEFINE h == HashTableMakeIterator(ht)
             H == AllocateHashTable(9 * ht.num_buckets)
  <2>1. IsIter(ht, h) /\ \A x : x \in KVsLeft(ht, h) <=> x \in KVs(ht)
    BY IteratorMade, Zenon
  <2>2. IsTable(H) /\ H.num_buckets = 9 * ht.num_buckets /\ H.num_elements = 0 /\ \A x : x \notin KVs(H)
    BY <1>0, NewTable, Zenon
  <2>3. C[k] = [it |-> h, newht |-> H]
    BY <1>1, <1>4, Zenon DEF Start
  <2> HIDE DEF h, H
  <2>4. C[k].it = h /\ C[k].newht = H
    BY ONLY <2>3
  <2>5. H.num_elements = k
    BY <1>4, <2>2, Zenon
  <2> QED BY <1>3, <2>1, <2>2, <2>4, <2>5, Zenon DEF CopyInv
<1>5. CASE k # 0
  <2>1. PICK j \in Nat : j = k - 1 /\ j + 1 = k /\ j < n /\ j \in 0 .. n /\ ~(k <= j) /\ k \in 1 .. n
    BY <1>0, <1>3, <1>5
  <2>2. CopyInv(ht, j, C[j])
    BY <1>2, <2>1, Zenon
  <2>3. CopyInv(ht, j + 1, CopyItem(ht, C[j]))
    BY <2>1, <2>2, RoundCopies, Zenon DEF n
  <2> QED BY <1>1, <1>3, <2>1, <2>3, Zenon
<1> QED BY <1>4, <1>5, Zenon

\* ResizeHashtable keeps all elements and adds none.
LEMMA Resized ==
    ASSUME NEW ht, IsTable(ht)
    PROVE  LET H == ResizeHashtable(ht)
           IN  /\ IsTable(H) /\ H.num_elements = ht.num_elements
               /\ H.num_buckets = IF MustResize(ht) THEN 9 * ht.num_buckets ELSE ht.num_buckets
               /\ \A x : x \in KVs(H) <=> x \in KVs(ht)
<1> DEFINE H == ResizeHashtable(ht)
           n == ht.num_elements
           N == Copies(ht)[n].newht
<1>0. IsHash(ht) /\ IsFiniteSet(Keys(ht)) /\ Cardinality(Keys(ht)) = n /\ n \in Nat
  BY Zenon DEF IsTable, IsHash
<1>1. CASE ~MustResize(ht)
  BY <1>1, Zenon DEF ResizeHashtable
<1>2. CASE MustResize(ht)
  <2>1. H = N
    BY <1>2, Zenon DEF ResizeHashtable
  <2>2. n \in 0 .. n
    BY <1>0
  <2>3. CopyInv(ht, n, Copies(ht)[n])
    BY <2>2, CopyInvHolds, Zenon
  <2>4. /\ IsTable(N) /\ N.num_buckets = 9 * ht.num_buckets /\ N.num_elements = n
        /\ \A x : x \in KVs(N) => x \in KVs(ht)
    BY <2>3, Zenon DEF CopyInv
  <2> HIDE DEF N
  <2>5. Keys(N) \in SUBSET Keys(ht) /\ Cardinality(Keys(N)) = n
    BY <2>4, Zenon DEF Keys, IsTable
  <2>6. Keys(ht) = Keys(N)
    BY <1>0, <2>5, FS_Subset, Zenon
  <2>7. ASSUME NEW x \in KVs(ht) PROVE x \in KVs(N)
    <3>1. x.key \in Keys(N)
      BY <2>6, Zenon DEF Keys
    <3>2. PICK y \in KVs(N) : y.key = x.key
      BY <3>1, Zenon DEF Keys
    <3> QED BY <1>0, <2>4, <3>2, Elements, Zenon
  <2> QED BY <1>2, <2>1, <2>4, <2>7, Zenon
<1> QED BY <1>1, <1>2, Zenon

\* While a table has no more than 27 elements for each bucket, the table they are
\* copied to is never itself resized: InsertHashTable adds to its chains at once.
LEMMA CopiesFit ==
    ASSUME NEW ht, IsTable(ht), ht.num_elements <= 27 * ht.num_buckets
    PROVE  \A k \in 0 .. ht.num_elements - 1 : ~MustResize(Copies(ht)[k].newht)
<1> SUFFICES ASSUME NEW k \in 0 .. ht.num_elements - 1 PROVE ~MustResize(Copies(ht)[k].newht)
  BY Zenon
<1> DEFINE N == Copies(ht)[k].newht
<1>0. ht.num_elements \in Nat /\ ht.num_buckets \in Nat
  BY Zenon DEF IsTable, IsHash
<1>1. k \in 0 .. ht.num_elements
  BY <1>0
<1>2. CopyInv(ht, k, Copies(ht)[k])
  BY <1>1, CopyInvHolds, Zenon
<1>3. N.num_elements = k /\ N.num_buckets = 9 * ht.num_buckets
  BY <1>2, Zenon DEF CopyInv
<1> HIDE DEF N
<1>4. ~(N.num_elements >= 3 * N.num_buckets)
  BY <1>0, <1>3
<1> QED BY <1>4, Zenon DEF MustResize, N

\* What InsertHashTable does.
LEMMA InsertedInTable ==
    ASSUME NEW ht, IsTable(ht), NEW kv, kv.key \in Nat, ht.num_elements <= 27 * ht.num_buckets
    PROVE  LET H == InsertHashTable(ht, kv)
           IN  /\ IsTable(H) /\ H.num_elements <= 27 * H.num_buckets
               /\ \A x : x \in KVs(H) <=> (x \in KVs(ht) /\ x.key # kv.key) \/ x = kv
<1> DEFINE R == ResizeHashtable(ht)
           H == InsertHashTable(ht, kv)
<1>1. /\ IsTable(R) /\ R.num_elements = ht.num_elements
      /\ R.num_buckets = IF MustResize(ht) THEN 9 * ht.num_buckets ELSE ht.num_buckets
      /\ \A x : x \in KVs(R) <=> x \in KVs(ht)
  BY Resized, Zenon
<1>2. H = InsertInChain(R, kv)
  BY Zenon DEF InsertHashTable
<1> HIDE DEF R, H
<1>3. /\ IsTable(H) /\ H.num_buckets = R.num_buckets
      /\ \A x : x \in KVs(H) <=> (x \in KVs(R) /\ x.key # kv.key) \/ x = kv
      /\ H.num_elements = IF kv.key \in Keys(R) THEN R.num_elements ELSE R.num_elements + 1
  <2> DEFINE I == InsertInChain(R, kv)
  <2>1. /\ IsTable(I) /\ I.num_buckets = R.num_buckets
        /\ \A x : x \in KVs(I) <=> (x \in KVs(R) /\ x.key # kv.key) \/ x = kv
        /\ I.num_elements = IF kv.key \in Keys(R) THEN R.num_elements ELSE R.num_elements + 1
    BY <1>1, Inserted, Zenon
  <2> HIDE DEF I
  <2>2. H = I
    BY <1>2, Zenon DEF I
  <2> QED BY ONLY <2>1, <2>2, Zenon
<1>4. H.num_elements <= 27 * H.num_buckets
  <2>1. ht.num_elements \in Nat /\ ht.num_buckets \in Nat \ {0}
    BY Zenon DEF IsTable, IsHash
  <2>2. H.num_elements = ht.num_elements \/ H.num_elements = ht.num_elements + 1
    BY <1>1, <1>3, Zenon
  <2>3. MustResize(ht) <=> ht.num_elements >= 3 * ht.num_buckets
    BY Zenon DEF MustResize
  <2>4. CASE MustResize(ht)
    <3>1. H.num_buckets = 9 * ht.num_buckets
      BY <1>1, <1>3, <2>4, Zenon
    <3> QED BY <2>1, <2>2, <3>1
  <2>5. CASE ~MustResize(ht)
    <3>1. H.num_buckets = ht.num_buckets
      BY <1>1, <1>3, <2>5, Zenon
    <3> QED BY <2>1, <2>2, <2>3, <2>5, <3>1
  <2> QED BY <2>4, <2>5, Zenon
<1> QED BY <1>1, <1>3, <1>4, Zenon DEF H
-----------------------------------------------------------------------------
(* The table as a map. *)

LEMMA MapOf ==
    ASSUME NEW ht, IsHash(ht)
    PROVE  /\ DOMAIN AsMap(ht) = Keys(ht)
           /\ AsMap(ht) = [k \in Keys(ht) |-> AsMap(ht)[k]]
           /\ \A x \in KVs(ht) : AsMap(ht)[x.key] = x.value
<1>1. AsMap(ht) = [k \in Keys(ht) |-> (CHOOSE kv \in KVs(ht) : kv.key = k).value]
  BY Zenon DEF AsMap
<1>2. \A k \in Keys(ht) : AsMap(ht)[k] = (CHOOSE kv \in KVs(ht) : kv.key = k).value
  BY <1>1, Zenon
<1>3. DOMAIN AsMap(ht) = Keys(ht)
  BY <1>1, Zenon
<1>4. ASSUME NEW x \in KVs(ht) PROVE AsMap(ht)[x.key] = x.value
  <2> DEFINE y == CHOOSE kv \in KVs(ht) : kv.key = x.key
  <2>1. y \in KVs(ht) /\ y.key = x.key
    BY Zenon
  <2>2. y = x
    <3> HIDE DEF y
    <3> QED BY <2>1, Elements, Zenon
  <2>3. x.key \in Keys(ht)
    BY Zenon DEF Keys
  <2> QED BY <1>2, <2>2, <2>3, Zenon
<1>5. AsMap(ht) = [k \in Keys(ht) |-> AsMap(ht)[k]]
  BY <1>1, <1>2, Zenon
<1> QED BY <1>3, <1>4, <1>5, Zenon

\* H is ht with the element kv, and ht without the key.
Gains(ht, kv, H) == \A x : x \in KVs(H) <=> (x \in KVs(ht) /\ x.key # kv.key) \/ x = kv
Loses(ht, key, H) == \A x : x \in KVs(H) <=> x \in KVs(ht) /\ x.key # key

\* The map f with a value for a key, and without a key.
MapWith(f, key, value) == [k \in DOMAIN f \cup {key} |-> IF k = key THEN value ELSE f[k]]
MapWithout(f, key) == [k \in DOMAIN f \ {key} |-> f[k]]

\* x is passed between the iterators h and g.
Passes(ht, h, x, H, g) ==
    /\ x \in KVsLeft(ht, h) /\ \A y \in KVsLeft(ht, h) : y \in KVs(ht)
    /\ \A y : y \in KVsLeft(H, g) <=> y \in KVsLeft(ht, h) /\ y # x

\* An insertion adds a key to the map or gives it a new value.
LEMMA MapInserted ==
    ASSUME NEW ht, IsHash(ht), NEW H, IsHash(H), NEW kv, Gains(ht, kv, H)
    PROVE  AsMap(H) = MapWith(AsMap(ht), kv.key, kv.value)
<1> DEFINE f == AsMap(ht)
           g == AsMap(H)
<1>1. /\ DOMAIN f = Keys(ht) /\ \A x \in KVs(ht) : f[x.key] = x.value
      /\ g = [k \in Keys(H) |-> g[k]] /\ \A x \in KVs(H) : g[x.key] = x.value
  BY MapOf, Zenon
<1> HIDE DEF f, g
<1>2. \A k : k \in Keys(H) <=> k \in Keys(ht) \/ k = kv.key
  <2>1. \A k : k \in Keys(H) <=> \E x \in KVs(H) : x.key = k
    BY Zenon DEF Keys
  <2>2. \A k : k \in Keys(ht) <=> \E x \in KVs(ht) : x.key = k
    BY Zenon DEF Keys
  <2> QED BY <2>1, <2>2, Zenon DEF Gains
<1>3. Keys(H) = DOMAIN f \cup {kv.key}
  BY ONLY <1>1, <1>2, Zenon
<1>4. g[kv.key] = kv.value
  BY <1>1, Zenon DEF Gains
<1>5. ASSUME NEW k \in Keys(ht), k # kv.key PROVE g[k] = f[k]
  <2>1. PICK x \in KVs(ht) : x.key = k
    BY Zenon DEF Keys
  <2>2. x \in KVs(H)
    BY <1>5, <2>1, Zenon DEF Gains
  <2> QED BY <1>1, <2>1, <2>2, Zenon
<1>6. \A k \in Keys(H) : g[k] = IF k = kv.key THEN kv.value ELSE f[k]
  BY <1>2, <1>4, <1>5, Zenon
<1>7. g = [k \in Keys(H) |-> IF k = kv.key THEN kv.value ELSE f[k]]
  BY ONLY <1>1, <1>6, Zenon
<1> QED BY ONLY <1>3, <1>7, Zenon DEF MapWith, f, g

\* A removal takes a key from the map.
LEMMA MapRemoved ==
    ASSUME NEW ht, IsHash(ht), NEW H, IsHash(H), NEW key, Loses(ht, key, H)
    PROVE  AsMap(H) = MapWithout(AsMap(ht), key)
<1> DEFINE f == AsMap(ht)
           g == AsMap(H)
<1>1. /\ DOMAIN f = Keys(ht) /\ \A x \in KVs(ht) : f[x.key] = x.value
      /\ g = [k \in Keys(H) |-> g[k]] /\ \A x \in KVs(H) : g[x.key] = x.value
  BY MapOf, Zenon
<1> HIDE DEF f, g
<1>2. \A k : k \in Keys(H) <=> k \in Keys(ht) /\ k # key
  <2>1. \A k : k \in Keys(H) <=> \E x \in KVs(H) : x.key = k
    BY Zenon DEF Keys
  <2>2. \A k : k \in Keys(ht) <=> \E x \in KVs(ht) : x.key = k
    BY Zenon DEF Keys
  <2> QED BY <2>1, <2>2, Zenon DEF Loses
<1>3. Keys(H) = DOMAIN f \ {key}
  BY ONLY <1>1, <1>2, Zenon
<1>4. ASSUME NEW k \in Keys(H) PROVE g[k] = f[k]
  <2>1. PICK x \in KVs(H) : x.key = k
    BY Zenon DEF Keys
  <2> QED BY <1>1, <2>1, Zenon DEF Loses
<1>5. g = [k \in Keys(H) |-> f[k]]
  BY ONLY <1>1, <1>4, Zenon
<1> QED BY ONLY <1>3, <1>5, Zenon DEF MapWithout, f, g

\* An iterator that passes the element x has its key no longer before it.
LEMMA KeyPassed ==
    ASSUME NEW ht, IsHash(ht), NEW h, NEW x, NEW H, NEW g, Passes(ht, h, x, H, g)
    PROVE  x.key \in KeysLeft(ht, h) /\ KeysLeft(H, g) = KeysLeft(ht, h) \ {x.key}
<1>1. \A k : k \in KeysLeft(ht, h) <=> \E y \in KVsLeft(ht, h) : y.key = k
  BY Zenon DEF KeysLeft
<1>2. \A k : k \in KeysLeft(H, g) <=> \E y \in KVsLeft(H, g) : y.key = k
  BY Zenon DEF KeysLeft
<1>3. \A y \in KVsLeft(ht, h) : y.key = x.key <=> y = x
  BY Elements, Zenon DEF Passes
<1>4. \A k : k \in KeysLeft(H, g) <=> k \in KeysLeft(ht, h) /\ k # x.key
  BY <1>1, <1>2, <1>3, Zenon DEF Passes
<1>5. x.key \in KeysLeft(ht, h)
  BY <1>1, Zenon DEF Passes
<1> QED BY ONLY <1>4, <1>5, Zenon

\* Past the end nothing is left.
LEMMA NothingLeft ==
    ASSUME NEW h, ~h.is_valid
    PROVE  \A ht : KeysLeft(ht, h) = {}
<1>1. \A ht : KVsLeft(ht, h) = {}
  BY Zenon DEF KVsLeft, HTIteratorPastEnd
<1> QED BY <1>1, Zenon DEF KeysLeft
-----------------------------------------------------------------------------
(* The inductive invariant, and the steps of the client. *)

TableInv ==
    /\ IsTable(table) /\ IsIter(table, iter)
    /\ table.num_elements <= 27 * table.num_buckets

\* At first the table is empty.
LEMMA TableBegins == Init => TableInv /\ D!Init
<1> SUFFICES ASSUME Init PROVE TableInv /\ D!Init
  BY Zenon
<1>1. table = AllocateHashTable(NumBuckets) /\ iter = HashTableMakeIterator(table)
  BY Zenon DEF Init
<1>2. NumBuckets \in Nat \ {0}
  BY ContainersAssumption, Zenon
<1>3. /\ IsTable(table) /\ table.num_buckets = NumBuckets /\ table.num_elements = 0
      /\ \A x : x \notin KVs(table)
  BY <1>1, <1>2, NewTable, Zenon
<1>4. IsIter(table, iter) /\ \A x : x \in KVsLeft(table, iter) <=> x \in KVs(table)
  BY <1>1, <1>3, IteratorMade, Zenon
<1>5. table.num_elements <= 27 * table.num_buckets
  BY <1>2, <1>3
<1>6. KeysLeft(table, iter) = {} /\ Keys(table) = {}
  BY <1>3, <1>4, Zenon DEF KeysLeft, Keys
<1>7. AsMap(table) = <<>>
  <2>1. AsMap(table) = [k \in {} |-> AsMap(table)[k]]
    BY <1>3, <1>6, MapOf, Zenon DEF IsTable
  <2> QED BY ONLY <2>1
<1> QED BY <1>3, <1>4, <1>5, <1>6, <1>7, Zenon DEF TableInv, D!Init

\* Insert and InsertUnresized put a pair in the map.
LEMMA TableInserts ==
    ASSUME TableInv, NEW kv \in Pairs, Insert(kv) \/ InsertUnresized(kv)
    PROVE  TableInv' /\ D!Insert
<1>0. IsTable(table) /\ table.num_elements \in Nat /\ table.num_buckets \in Nat \ {0}
  BY Zenon DEF TableInv, IsTable, IsHash
<1>1. kv.key \in Nat
  BY ContainersAssumption, Zenon
<1>2. iter = Invalid /\ ~iter.is_valid /\ iter' = iter
  <2>1. ~iter.is_valid /\ iter' = iter
    BY Zenon DEF Insert, InsertUnresized, HTIteratorPastEnd
  <2> QED BY <1>0, <2>1, LeftOf, Zenon DEF TableInv, IsTable
<1>3. /\ IsTable(table') /\ table'.num_elements <= 27 * table'.num_buckets
      /\ \A x : x \in KVs(table') <=> (x \in KVs(table) /\ x.key # kv.key) \/ x = kv
  <2>1. CASE Insert(kv)
    <3>1. table' = InsertHashTable(table, kv)
      BY <2>1, Zenon DEF Insert
    <3> QED BY <1>1, <3>1, InsertedInTable, Zenon DEF TableInv
  <2>2. CASE InsertUnresized(kv)
    <3> DEFINE H == InsertInChain(table, kv)
    <3>1. table' = H /\ table.num_elements < 27 * table.num_buckets
      BY <2>2, Zenon DEF InsertUnresized
    <3>2. /\ IsTable(H) /\ H.num_buckets = table.num_buckets
          /\ \A x : x \in KVs(H) <=> (x \in KVs(table) /\ x.key # kv.key) \/ x = kv
          /\ H.num_elements = IF kv.key \in Keys(table) THEN table.num_elements ELSE table.num_elements + 1
      BY <1>0, <1>1, Inserted, Zenon
    <3> HIDE DEF H
    <3>3. H.num_elements <= 27 * H.num_buckets
      <4>1. H.num_elements = table.num_elements \/ H.num_elements = table.num_elements + 1
        BY <3>2, Zenon
      <4> QED BY <1>0, <3>1, <3>2, <4>1
    <3> QED BY ONLY <3>1, <3>2, <3>3, Zenon
  <2> QED BY <2>1, <2>2, Zenon
<1>4. TableInv'
  <2>1. IsIter(table', iter')
    BY <1>2, Zenon DEF IsIter
  <2> QED BY <1>3, <2>1, Zenon DEF TableInv
<1>5. AsMap(table') = MapWith(AsMap(table), kv.key, kv.value)
  <2>1. IsHash(table) /\ IsHash(table')
    BY <1>0, <1>3, Zenon DEF IsTable
  <2>2. Gains(table, kv, table')
    BY <1>3, Zenon DEF Gains
  <2> QED BY ONLY <2>1, <2>2, MapInserted, Zenon
<1>6. KeysLeft(table, iter) = {} /\ KeysLeft(table', iter') = {}
  BY <1>2, NothingLeft, Zenon
<1>7. kv.key \in {p.key : p \in Pairs} /\ kv.value \in {p.value : p \in Pairs}
  BY Zenon
<1> QED BY ONLY <1>4, <1>5, <1>6, <1>7, Zenon DEF D!Insert, D!With, MapWith

\* Remove takes a key from the map.
LEMMA TableRemoves ==
    ASSUME TableInv, NEW kv \in Pairs, Remove(kv.key)
    PROVE  TableInv' /\ D!Remove
<1> DEFINE key == kv.key
<1>0. IsTable(table) /\ table.num_elements \in Nat /\ table.num_buckets \in Nat \ {0}
  BY Zenon DEF TableInv, IsTable, IsHash
<1>1. key \in Nat
  BY ContainersAssumption, Zenon
<1>2. iter = Invalid /\ ~iter.is_valid /\ iter' = iter /\ table' = RemoveFromHashTable(table, key)
  <2>1. ~iter.is_valid /\ iter' = iter /\ table' = RemoveFromHashTable(table, key)
    BY Zenon DEF Remove, HTIteratorPastEnd
  <2> QED BY <1>0, <2>1, LeftOf, Zenon DEF TableInv, IsTable
<1>3. /\ IsTable(table') /\ table'.num_buckets = table.num_buckets
      /\ table'.num_elements <= table.num_elements
      /\ \A x : x \in KVs(table') <=> x \in KVs(table) /\ x.key # key
  <2> DEFINE H == RemoveFromHashTable(table, key)
  <2>1. /\ IsTable(H) /\ H.num_buckets = table.num_buckets /\ H.num_elements <= table.num_elements
        /\ \A x : x \in KVs(H) <=> x \in KVs(table) /\ x.key # key
    BY ONLY <1>0, <1>1, RemovedKey, Zenon
  <2>2. table' = H
    BY <1>2, Zenon
  <2> HIDE DEF H
  <2> QED BY ONLY <2>1, <2>2, Zenon
<1>4. TableInv'
  <2>1. IsIter(table', iter')
    BY <1>2, Zenon DEF IsIter
  <2>2. table'.num_elements \in Nat /\ table.num_elements <= 27 * table.num_buckets
    BY <1>3, Zenon DEF TableInv, IsTable, IsHash
  <2>3. table'.num_elements <= 27 * table'.num_buckets
    BY <1>0, <1>3, <2>2
  <2> QED BY <1>3, <2>1, <2>3, Zenon DEF TableInv
<1>5. AsMap(table') = MapWithout(AsMap(table), key)
  <2>1. IsHash(table) /\ IsHash(table')
    BY <1>0, <1>3, Zenon DEF IsTable
  <2>2. Loses(table, key, table')
    BY <1>3, Zenon DEF Loses
  <2> QED BY ONLY <2>1, <2>2, MapRemoved, Zenon
<1>6. KeysLeft(table, iter) = {} /\ KeysLeft(table', iter') = {}
  BY <1>2, NothingLeft, Zenon
<1>7. key \in {p.key : p \in Pairs}
  BY Zenon
<1> QED BY ONLY <1>4, <1>5, <1>6, <1>7, Zenon DEF D!Remove, D!Without, MapWithout

\* A new iteration has all keys before it.
LEMMA TableIterates ==
    ASSUME TableInv, Iterate
    PROVE  TableInv' /\ D!MakeIterator
<1>0. IsTable(table) /\ IsHash(table)
  BY Zenon DEF TableInv, IsTable
<1>1. iter' = HashTableMakeIterator(table) /\ table' = table
  BY Zenon DEF Iterate
<1>2. IsIter(table, iter') /\ \A x : x \in KVsLeft(table, iter') <=> x \in KVs(table)
  BY <1>0, <1>1, IteratorMade, Zenon
<1>3. TableInv'
  BY <1>1, <1>2, Zenon DEF TableInv
<1>4. \A k : k \in KeysLeft(table, iter') <=> k \in Keys(table)
  BY <1>2, Zenon DEF KeysLeft, Keys
<1>5. KeysLeft(table, iter') = Keys(table)
  BY ONLY <1>4, Zenon
<1>6. KeysLeft(table', iter') = DOMAIN AsMap(table) /\ AsMap(table') = AsMap(table)
  BY <1>0, <1>1, <1>5, MapOf, Zenon
<1> QED BY ONLY <1>3, <1>6, Zenon DEF D!MakeIterator

\* Advance passes one key.
LEMMA TableAdvances ==
    ASSUME TableInv, Advance
    PROVE  TableInv' /\ D!Visit
<1> DEFINE x == HTIteratorGet(table, iter)
           g == HTIteratorNext(table, iter)
<1>0. IsTable(table) /\ IsHash(table) /\ IsIter(table, iter)
  BY Zenon DEF TableInv, IsTable
<1>1. iter' = g /\ table' = table /\ iter.is_valid
  BY Zenon DEF Advance, HTIteratorPastEnd
<1>2. /\ IsIter(table, g) /\ x \in KVsLeft(table, iter)
      /\ \A y : y \in KVsLeft(table, g) <=> y \in KVsLeft(table, iter) /\ y # x
      /\ \A y \in KVsLeft(table, iter) : y \in KVs(table)
  BY <1>0, <1>1, IteratorMoved, Zenon
<1> HIDE DEF x, g
<1>3. TableInv'
  BY <1>1, <1>2, Zenon DEF TableInv
<1>4. Passes(table, iter, x, table, g)
  BY <1>2, Zenon DEF Passes
<1>5. x.key \in KeysLeft(table, iter) /\ KeysLeft(table, g) = KeysLeft(table, iter) \ {x.key}
  BY ONLY <1>0, <1>4, KeyPassed
<1>6. KeysLeft(table', iter') = KeysLeft(table, iter) \ {x.key} /\ AsMap(table') = AsMap(table)
  BY <1>1, <1>5, Zenon
<1> QED BY ONLY <1>3, <1>5, <1>6, Zenon DEF D!Visit

\* DeleteAndAdvance passes one key and removes it.
LEMMA TableDeletes ==
    ASSUME TableInv, DeleteAndAdvance
    PROVE  TableInv' /\ D!VisitAndDelete
<1> DEFINE x == HTIteratorGet(table, iter)
           H == HTIteratorDelete(table, iter).table
           g == HTIteratorDelete(table, iter).iter
<1>0. /\ IsTable(table) /\ IsHash(table) /\ IsIter(table, iter)
      /\ table.num_elements \in Nat /\ table.num_buckets \in Nat
      /\ table.num_elements <= 27 * table.num_buckets
  BY Zenon DEF TableInv, IsTable, IsHash
<1>1. table' = H /\ iter' = g /\ iter.is_valid
  BY Zenon DEF DeleteAndAdvance, HTIteratorPastEnd
<1>2. /\ IsTable(H) /\ IsIter(H, g) /\ x \in KVs(table) /\ x \in KVsLeft(table, iter)
      /\ H.num_buckets = table.num_buckets /\ H.num_elements <= table.num_elements
      /\ \A y : y \in KVs(H) <=> y \in KVs(table) /\ y.key # x.key
      /\ \A y : y \in KVsLeft(H, g) <=> y \in KVsLeft(table, iter) /\ y # x
  BY <1>0, <1>1, IteratorDeleted, ZenonT(40)
<1>3. \A y \in KVsLeft(table, iter) : y \in KVs(table)
  BY <1>0, <1>1, IteratorMoved, Zenon
<1> HIDE DEF x, H, g
<1>4. TableInv'
  <2>1. H.num_elements \in Nat
    BY <1>2, Zenon DEF IsTable, IsHash
  <2>2. H.num_elements <= 27 * H.num_buckets
    BY <1>0, <1>2, <2>1
  <2> QED BY <1>1, <1>2, <2>2, Zenon DEF TableInv
<1>5. Passes(table, iter, x, H, g) /\ Loses(table, x.key, H) /\ IsHash(H)
  BY <1>2, <1>3, Zenon DEF Passes, Loses, IsTable
<1>6. x.key \in KeysLeft(table, iter) /\ KeysLeft(H, g) = KeysLeft(table, iter) \ {x.key}
  BY ONLY <1>0, <1>5, KeyPassed
<1>7. AsMap(H) = MapWithout(AsMap(table), x.key)
  BY ONLY <1>0, <1>5, MapRemoved, Zenon
<1>8. /\ KeysLeft(table', iter') = KeysLeft(table, iter) \ {x.key}
      /\ AsMap(table') = MapWithout(AsMap(table), x.key)
  BY <1>1, <1>6, <1>7, Zenon
<1> QED BY ONLY <1>4, <1>6, <1>8, Zenon DEF D!VisitAndDelete, D!Without, MapWithout

\* Every step of a client is a step of the dictionary, or does not show.
LEMMA TableStep == TableInv /\ [Next]_vars => TableInv' /\ [D!Next]_(D!vars)
<1> SUFFICES ASSUME TableInv, [Next]_vars PROVE TableInv' /\ [D!Next]_(D!vars)
  BY Zenon
<1>1. CASE TableNext
  <2>1. CASE \E kv \in Pairs : Insert(kv) \/ InsertUnresized(kv)
    BY <2>1, TableInserts, Zenon DEF D!Next
  <2>2. CASE \E kv \in Pairs : Remove(kv.key)
    BY <2>2, TableRemoves, Zenon DEF D!Next
  <2>3. CASE Iterate
    BY <2>3, TableIterates, Zenon DEF D!Next
  <2>4. CASE Advance
    BY <2>4, TableAdvances, Zenon DEF D!Next
  <2>5. CASE DeleteAndAdvance
    BY <2>5, TableDeletes, Zenon DEF D!Next
  <2> QED BY <1>1, <2>1, <2>2, <2>3, <2>4, <2>5, Zenon DEF TableNext
<1>2. CASE table' = table /\ iter' = iter
  BY <1>2, Zenon DEF TableInv, D!vars
<1> QED BY <1>1, <1>2, Zenon DEF Next, vars, tableVars

\* ResizeHashtable, insertion, removal and deletion through an iterator keep every
\* key once and in the bucket where it is looked for, keep num_elements exact, and
\* leave a valid iterator at a node of its bucket (BucketsWellFormed), for keys and
\* values of any number and any number of buckets.
THEOREM TableStaysWellFormed == Spec => []BucketsWellFormed
<1>1. TableInv => BucketsWellFormed
  <2> SUFFICES ASSUME TableInv PROVE BucketsWellFormed
    BY Zenon
  <2> DEFINE nb == table.num_buckets
  <2>1. IsTable(table) /\ IsHash(table) /\ IsIter(table, iter)
    BY Zenon DEF TableInv, IsTable
  <2>2. DOMAIN table.buckets = 0 .. nb - 1
    BY <2>1, Zenon DEF IsHash
  <2>3. \A b \in 0 .. nb - 1 : IsChain(table.buckets[b], b, nb)
    BY <2>1, Zenon DEF IsHash
  <2>4. TableWellFormed(table)
    BY <2>1, <2>2, <2>3, Zenon DEF TableWellFormed, IsTable, IsChain, HashKeyToBucketNum
  <2>5. iter.is_valid => iter.node \in DOMAIN table.buckets[iter.bucket_num].node
    BY <2>1, LeftOf, Zenon
  <2> QED BY <2>4, <2>5, Zenon DEF BucketsWellFormed
<1> QED BY <1>1, TableBegins, TableStep, PTL DEF Spec

\* The hash table implements the map that HashTable.h promises: insertions that
\* resize and insertions that could not show the same, and an iteration visits
\* each key exactly once, also when it deletes on its way (ImplementsDictionary).
THEOREM TableIsDictionary == Spec => ImplementsDictionary
BY TableBegins, TableStep, PTL DEF Spec, ImplementsDictionary, D!Spec

\* The InsertHashTable that ResizeHashtable calls on the larger table never
\* resizes that one: the recursion of the two functions is one call deep.
THEOREM ResizeDoesNotNest ==
    Spec => [](\A k \in 0 .. table.num_elements - 1 : ~MustResize(Copies(table)[k].newht))
<1>1. TableInv => \A k \in 0 .. table.num_elements - 1 : ~MustResize(Copies(table)[k].newht)
  BY CopiesFit, Zenon DEF TableInv
<1> QED BY <1>1, TableBegins, TableStep, PTL DEF Spec

\* A client of the containers keeps its list well formed too.
THEOREM ContainersKeepList == Spec => []ListWellFormed
<1>1. Init => ListInit
  BY Zenon DEF Init
<1>2. [Next]_vars => [ListNext]_listVars
  BY Zenon DEF Next, vars, listVars
<1> QED BY <1>1, <1>2, ListStaysWellFormed, PTL DEF Spec, ListSpec
=============================================================================
