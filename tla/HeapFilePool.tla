---------------------------- MODULE HeapFilePool ----------------------------
(***************************************************************************)
(* Proofs about the pool of HeapFile when transactions run one after       *)
(* another, whatever they do: the queue of the pages is exact, and what    *)
(* was committed is what the next transaction finds.                       *)
(***************************************************************************)
EXTENDS HeapFileTypes

-----------------------------------------------------------------------------
(* Invariants *)

\* What PoolIsExact needs of the transaction that runs: a page it is about to
\* add is not cached, and there is room for it; and pages it will put back
\* are still cached.
RoomIsKept ==
    \A t \in Tid :
        /\ pc[t] \in {"room", "read", "put"} => pid[t] \notin Cached
        /\ pc[t] \in {"read", "put"} => Len(pageids) < MaxPages
        /\ pc[t] = "undo" => todo[t] \subseteq Cached

\* A thread does not abort or die, and no lock outlives its transaction.
OrderlyThread(t) ==
    /\ pc[t] \notin {"dead", "aborted", "undo", "aborting", "rolledback"}
    /\ stale[t] = FALSE
    /\ \A p \in Page :
        /\ held[t][p] >= 0
        /\ pc[t] \notin Releasing /\ Locks!Holds(t, p) => held[t][p] > 0
        /\ pc[t] \in Releasing /\ Locks!Holds(t, p) => p \in todo[t]
        /\ calls[t] = 0 \/ pc[t] = "committed" => ~Locks!Holds(t, p)
    /\ pc[t] \in Asking => pid[t] < fileLen
    /\ pc[t] = "get" => pid[t] \in Cached
    /\ pc[t] \in {"use", "mark", "unlockAdded", "unlockFull"} => shared[t]

Orderly == \A t \in Tid : OrderlyThread(t)

\* The file grows by one page at a time, and pages beyond its end are nowhere.
GrowthThread(t) ==
    /\ pc[t] \in {"increment", "writeNew"} => pid[t] = fileLen
    /\ pc[t] \in {"newPageId", "writeNew"} => numPages = fileLen + 1
    /\ iter[t].more => iter[t].count <= fileLen
    /\ pc[t] \in Asking \cup {"use"} /\ op[t] = "scan" => iter[t].count <= fileLen
    /\ \A p \in Page, x \in Tuple : <<p, x>> \in view[t] => p < fileLen

Growth ==
    /\ fileLen > 0
    /\ \A t \in Tid : GrowthThread(t)
    /\ (\A t \in Tid : pc[t] \notin {"newPageId", "writeNew"}) => numPages = fileLen
    /\ \A p \in Page : p >= fileLen => p \notin Cached /\ disk[p] = {}

\* What a scan of page p finds, and what it is to be once t has committed.
Visible(p) == IF p \in Cached THEN pages[p].data ELSE disk[p]

After(t, p) ==
    (committed[p] \ {x \in Tuple : <<p, x>> \in work[t].del}) \cup {x \in Tuple : <<p, x>> \in work[t].add}

\* The changes of the transaction that runs are visible, and no others that
\* are not committed.
VisibleWork ==
    /\ \A t \in Tid :
        /\ calls[t] = 0 => work[t] = [del |-> {}, add |-> {}]
        /\ Running(t) /\ pc[t] \notin Releasing => \A p \in Page : Visible(p) = After(t, p)
        /\ pc[t] \in Releasing => \A p \in Page : Visible(p) = committed[p]
        /\ pc[t] = "put" => copy[t] = disk[pid[t]]
    /\ (\A t \in Tid : ~Running(t)) => \A p \in Page : Visible(p) = committed[p]

\* A page that is not dirty is what the file holds, unless it is being changed.
CleanIsDisk ==
    \A p \in Cached :
        pages[p].dirty = NoTid /\ (\A t \in Tid : ~(pc[t] \in {"unlockAdded", "mark"} /\ pid[t] = p))
            => pages[p].data = disk[p]

-----------------------------------------------------------------------------
(* The queue of the cached pages *)

\* The queue of evictPage, once the pages before the k-th have gone to its end
\* and the k-th has been taken.
Rotated(s, k) == SubSeq(s, k + 1, Len(s)) \o SubSeq(s, 1, k - 1)

Distinct(s) == \A i, j \in DOMAIN s : s[i] = s[j] => i = j

\* The part of a queue from its m-th to its n-th page.
LEMMA PartOf ==
    ASSUME NEW S, NEW s \in Seq(S), NEW m \in 1..(Len(s) + 1), NEW n \in 0..Len(s), m <= n + 1
    PROVE  /\ SubSeq(s, m, n) \in Seq(S)
           /\ Len(SubSeq(s, m, n)) = n - m + 1
           /\ \A i \in 1..(n - m + 1) : SubSeq(s, m, n)[i] = s[m + i - 1]
<1>1. Len(SubSeq(s, m, n)) = n - m + 1
  OBVIOUS
<1>2. \A i \in 1..(n - m + 1) : SubSeq(s, m, n)[i] = s[m + i - 1]
  OBVIOUS
<1>3. SubSeq(s, m, n) \in Seq(S)
  OBVIOUS
<1> QED BY <1>1, <1>2, <1>3, Zenon

\* A queue with another one behind it.
LEMMA Joined ==
    ASSUME NEW S, NEW a \in Seq(S), NEW b \in Seq(S)
    PROVE  /\ a \o b \in Seq(S)
           /\ Len(a \o b) = Len(a) + Len(b)
           /\ \A i \in 1..(Len(a) + Len(b)) : (a \o b)[i] = IF i <= Len(a) THEN a[i] ELSE b[i - Len(a)]
<1>1. a \o b \in Seq(S)
  OBVIOUS
<1>2. Len(a \o b) = Len(a) + Len(b)
  OBVIOUS
<1>3. \A i \in 1..(Len(a) + Len(b)) : (a \o b)[i] = IF i <= Len(a) THEN a[i] ELSE b[i - Len(a)]
  OBVIOUS
<1> QED BY <1>1, <1>2, <1>3, Zenon

\* The queue after evictPage took its k-th page: the pages before it have gone
\* to the end, and only that page is missing.
LEMMA Rotation ==
    ASSUME NEW S, NEW s \in Seq(S), NEW k \in 1..Len(s), Distinct(s)
    PROVE  /\ Len(Rotated(s, k)) = Len(s) - 1
           /\ Distinct(Rotated(s, k))
           /\ {Rotated(s, k)[i] : i \in DOMAIN Rotated(s, k)} = {s[i] : i \in DOMAIN s} \ {s[k]}
<1> DEFINE r == Rotated(s, k)
           n == Len(s)
           a == SubSeq(s, k + 1, n)
           b == SubSeq(s, 1, k - 1)
           f(i) == IF i <= n - k THEN k + i ELSE i - (n - k)
<1>0. \A i, j \in DOMAIN s : s[i] = s[j] => i = j
  BY Zenon DEF Distinct
<1>1. n \in Nat /\ k \in 1..n /\ DOMAIN s = 1..n /\ \A i \in 1..n : s[i] \in S
  OBVIOUS
<1>2. a \in Seq(S) /\ Len(a) = n - k /\ \A i \in 1..(n - k) : a[i] = s[k + i]
  <2>1. k + 1 \in 1..(n + 1) /\ n \in 0..n /\ k + 1 <= n + 1
    BY <1>1
  <2>2. /\ a \in Seq(S) /\ Len(a) = n - (k + 1) + 1
        /\ \A i \in 1..(n - (k + 1) + 1) : a[i] = s[k + 1 + i - 1]
    BY <2>1, PartOf, Zenon
  <2> HIDE DEF n, a
  <2>3. n - (k + 1) + 1 = n - k /\ \A i \in Int : k + 1 + i - 1 = k + i
    BY <1>1
  <2>4. Len(a) = n - k
    BY <1>1, <2>2
  <2>5. ASSUME NEW i \in 1..(n - k) PROVE a[i] = s[k + i]
    <3>1. i \in 1..(n - (k + 1) + 1) /\ k + 1 + i - 1 = k + i
      BY ONLY <2>3, <2>5
    <3>2. a[i] = s[k + 1 + i - 1]
      BY ONLY <2>2, <3>1, Zenon
    <3> QED BY ONLY <3>1, <3>2, Zenon
  <2> QED BY ONLY <2>2, <2>4, <2>5, Zenon
<1>3. b \in Seq(S) /\ Len(b) = k - 1 /\ \A i \in 1..(k - 1) : b[i] = s[i]
  <2>1. 1 \in 1..(n + 1) /\ k - 1 \in 0..n /\ 1 <= k - 1 + 1
    BY <1>1
  <2>2. /\ b \in Seq(S) /\ Len(b) = k - 1 - 1 + 1
        /\ \A i \in 1..(k - 1 - 1 + 1) : b[i] = s[1 + i - 1]
    BY <2>1, PartOf, Zenon
  <2> HIDE DEF n, b
  <2> QED BY <1>1, <2>2
<1>4. r = a \o b
  BY Zenon DEF Rotated
<1>5. Len(s) = n
  BY Zenon
<1> HIDE DEF a, b, n, r
<1>6. r \in Seq(S) /\ Len(r) = n - 1 /\ DOMAIN r = 1..(n - 1)
  <2>1. r \in Seq(S) /\ Len(r) = Len(a) + Len(b)
    BY ONLY <1>2, <1>3, <1>4, Joined, Zenon
  <2>2. Len(r) = n - 1
    BY ONLY <1>1, <1>2, <1>3, <2>1
  <2> QED BY ONLY <2>1, <2>2
<1>7. ASSUME NEW i \in 1..(n - 1) PROVE r[i] = s[f(i)] /\ f(i) \in 1..n /\ f(i) # k
  <2>1. r[i] = IF i <= n - k THEN a[i] ELSE b[i - (n - k)]
    <3>1. i \in 1..(Len(a) + Len(b))
      BY <1>1, <1>2, <1>3
    <3>2. r[i] = IF i <= Len(a) THEN a[i] ELSE b[i - Len(a)]
      BY ONLY <1>2, <1>3, <1>4, <3>1, Joined, Zenon
    <3>3. Len(a) = n - k
      BY <1>2, Zenon
    <3> QED BY ONLY <3>2, <3>3, Zenon
  <2>2. CASE i <= n - k
    <3>1. i \in 1..(n - k) /\ f(i) = k + i
      BY ONLY <1>1, <1>7, <2>2
    <3>2. r[i] = a[i] /\ a[i] = s[k + i]
      BY ONLY <1>2, <2>1, <2>2, <3>1, Zenon
    <3>3. k + i \in 1..n /\ k + i # k
      BY ONLY <1>1, <3>1
    <3> QED BY ONLY <3>1, <3>2, <3>3, Zenon
  <2>3. CASE ~(i <= n - k)
    <3>1. i - (n - k) \in 1..(k - 1)
      BY ONLY <1>1, <1>7, <2>3
    <3>2. f(i) = i - (n - k)
      BY ONLY <2>3, Zenon
    <3>3. r[i] = b[i - (n - k)] /\ b[i - (n - k)] = s[i - (n - k)]
      BY ONLY <1>3, <2>1, <2>3, <3>1, Zenon
    <3>4. i - (n - k) \in 1..n /\ i - (n - k) # k
      BY ONLY <1>1, <3>1
    <3> QED BY ONLY <3>2, <3>3, <3>4, Zenon
  <2> QED BY <2>2, <2>3, Zenon
<1>8. ASSUME NEW i \in 1..(n - 1), NEW j \in 1..(n - 1), f(i) = f(j) PROVE i = j
  BY <1>1, <1>8
<1>9. ASSUME NEW m \in 1..n, m # k PROVE \E i \in 1..(n - 1) : f(i) = m
  <2>1. CASE m > k
    <3>1. m - k \in 1..(n - 1) /\ f(m - k) = m
      BY <1>1, <2>1
    <3> QED BY <3>1, Zenon
  <2>2. CASE ~(m > k)
    <3>1. m + (n - k) \in 1..(n - 1) /\ f(m + (n - k)) = m
      BY <1>1, <1>9, <2>2
    <3> QED BY <3>1, Zenon
  <2> QED BY <2>1, <2>2, Zenon
<1> HIDE DEF f
<1>10. \A i, j \in DOMAIN r : r[i] = r[j] => i = j
  BY ONLY <1>0, <1>1, <1>6, <1>7, <1>8
<1>11. {r[i] : i \in DOMAIN r} = {s[i] : i \in DOMAIN s} \ {s[k]}
  <2>1. ASSUME NEW i \in DOMAIN r PROVE r[i] \in {s[m] : m \in DOMAIN s} \ {s[k]}
    <3>1. i \in 1..(n - 1)
      BY ONLY <1>6, <2>1, Zenon
    <3>2. r[i] = s[f(i)] /\ f(i) \in DOMAIN s /\ k \in DOMAIN s /\ f(i) # k
      BY <1>1, <1>7, <3>1, Zenon
    <3>3. s[f(i)] # s[k]
      BY ONLY <1>0, <3>2, Zenon
    <3> QED BY ONLY <3>2, <3>3, Zenon
  <2>2. ASSUME NEW m \in DOMAIN s, s[m] # s[k] PROVE s[m] \in {r[i] : i \in DOMAIN r}
    <3>1. PICK i \in 1..(n - 1) : f(i) = m
      BY <1>1, <1>9, <2>2, Zenon
    <3> QED BY <1>6, <1>7, <3>1, Zenon
  <2> QED BY ONLY <2>1, <2>2, Zenon
<1> QED BY ONLY <1>5, <1>6, <1>10, <1>11, Zenon DEF Distinct, r

\* A page is appended that the queue does not have.
LEMMA Appending ==
    ASSUME NEW S, NEW s \in Seq(S), NEW x \in S, x \notin {s[i] : i \in DOMAIN s}, Distinct(s)
    PROVE  /\ Len(Append(s, x)) = Len(s) + 1
           /\ Distinct(Append(s, x))
           /\ {Append(s, x)[i] : i \in DOMAIN Append(s, x)} = {s[i] : i \in DOMAIN s} \cup {x}
<1> DEFINE r == Append(s, x)
<1>1. Len(r) = Len(s) + 1 /\ DOMAIN r = 1..(Len(s) + 1) /\ DOMAIN s = 1..Len(s) /\ Len(s) \in Nat
  OBVIOUS
<1>2. r[Len(s) + 1] = x /\ \A i \in 1..Len(s) : r[i] = s[i]
  OBVIOUS
<1> HIDE DEF r
<1>3. ASSUME NEW i \in 1..(Len(s) + 1) PROVE i \in 1..Len(s) \/ i = Len(s) + 1
  BY <1>1
<1>4. \A i \in 1..Len(s) : i \in 1..(Len(s) + 1)
  BY <1>1
<1>5. Len(s) + 1 \in 1..(Len(s) + 1)
  BY <1>1
<1>6. {r[i] : i \in DOMAIN r} = {s[i] : i \in DOMAIN s} \cup {x}
  BY <1>1, <1>2, <1>3, <1>4, <1>5, Zenon
<1>7. Distinct(r)
  BY <1>1, <1>2, <1>3, Zenon DEF Distinct
<1> QED BY ONLY <1>1, <1>6, <1>7, Zenon DEF r

\* Serial transactions keep the queue of page ids exact.
LEMMA PoolIsExactStep ==
    ASSUME Serial, Types, OneRuns, PoolIsExact, RoomIsKept, [Next]_vars
    PROVE  PoolIsExact' /\ RoomIsKept'
<1>0. PoolTypes /\ ThreadTypes /\ MaxPages \in Nat /\ Len(pageids) \in Nat /\ Len(pageids) <= MaxPages
  BY SizeAssumption DEF Types, PoolTypes, PoolIsExact
<1>1. ASSUME NEW t \in Tid, ThreadStep(t),
             pc'[t] \in {"room", "read", "put"} => pid'[t] \notin Cached',
             pc'[t] \in {"read", "put"} => Len(pageids') < MaxPages,
             pc'[t] = "undo" => todo'[t] \subseteq Cached'
      PROVE RoomIsKept'
  BY <1>1, Alone, Zenon DEF RoomIsKept, Over
<1>2. ASSUME NEW t \in Tid, ThreadStep(t), makeRoom(t) PROVE PoolIsExact' /\ RoomIsKept'
  <2>0. pc[t] = "room" /\ UNCHANGED pid /\ pid[t] \notin Cached
    BY <1>2, Zenon DEF makeRoom, RoomIsKept
  <2>1. CASE UNCHANGED poolVars
    <3>1. Cached' = Cached /\ pageids' = pageids
      BY <2>1, Zenon DEF poolVars, Cached
    <3>2. pc'[t] = "idle" \/ (pc'[t] = "read" /\ Len(pageids) # MaxPages) \/ pc'[t] = "dead"
      <4>1. \/ pc' = [pc EXCEPT ![t] = "read"] /\ Len(pageids) # MaxPages
            \/ pc' = [pc EXCEPT ![t] = "idle"]
            \/ \E k \in 1..Len(pageids) : pageids' = SubSeq(pageids, k + 1, Len(pageids)) \o SubSeq(pageids, 1, k - 1)
        BY <1>2, RoomCases, Zenon
      <4>2. ASSUME NEW k \in 1..Len(pageids),
                   pageids' = SubSeq(pageids, k + 1, Len(pageids)) \o SubSeq(pageids, 1, k - 1)
            PROVE  FALSE
        <5>1. Len(pageids') = Len(pageids) - 1
          <6>1. pageids \in Seq(Page) /\ Distinct(pageids) /\ pageids' = Rotated(pageids, k)
            BY <1>0, <4>2, Zenon DEF PoolTypes, PoolIsExact, Distinct, Rotated
          <6> QED BY <6>1, Rotation, Zenon
        <5> QED BY <1>0, <3>1, <5>1
      <4> QED BY <1>0, <4>1, <4>2, Zenon DEF ThreadTypes
    <3>3. PoolIsExact'
      BY <3>1, Zenon DEF PoolIsExact
    <3>4. Len(pageids) # MaxPages => Len(pageids) < MaxPages
      BY <1>0
    <3> QED BY <1>1, <1>2, <2>0, <3>1, <3>2, <3>3, <3>4, Zenon
  <2>2. CASE ~UNCHANGED poolVars
    <3>1. PICK k \in 1..Len(pageids) :
            /\ pageids[k] \in Page
            /\ pageids' = SubSeq(pageids, k + 1, Len(pageids)) \o SubSeq(pageids, 1, k - 1)
            /\ pages' = [pages EXCEPT ![pageids[k]] = Absent]
            /\ pc' = [pc EXCEPT ![t] = IF pageids[k] \in Cached THEN "read" ELSE "dead"]
      BY <1>2, <2>2, RoomCases, Zenon
    <3>2. /\ Len(pageids') = Len(pageids) - 1
          /\ Distinct(pageids')
          /\ {pageids'[i] : i \in DOMAIN pageids'} = {pageids[i] : i \in DOMAIN pageids} \ {pageids[k]}
      <4>1. pageids \in Seq(Page) /\ Distinct(pageids) /\ pageids' = Rotated(pageids, k)
        BY <1>0, <3>1, Zenon DEF PoolTypes, PoolIsExact, Distinct, Rotated
      <4> DEFINE r == Rotated(pageids, k)
      <4>2. /\ Len(r) = Len(pageids) - 1 /\ Distinct(r)
            /\ {r[i] : i \in DOMAIN r} = {pageids[i] : i \in DOMAIN pageids} \ {pageids[k]}
        BY <4>1, Rotation, Zenon
      <4> HIDE DEF r
      <4>3. pageids' = r
        BY <4>1, Zenon DEF r
      <4> QED BY ONLY <4>2, <4>3, Zenon
    <3>3. Cached' = Cached \ {pageids[k]}
      BY <1>0, <3>1, CachedAfter, Zenon
    <3>4. Len(pageids') < MaxPages /\ Len(pageids') <= MaxPages
      BY <1>0, <3>2
    <3>5. PoolIsExact'
      BY <3>2, <3>3, <3>4, Zenon DEF PoolIsExact, Distinct
    <3>6. pc'[t] # "undo"
      BY <1>0, <3>1, Zenon DEF ThreadTypes
    <3> QED BY <1>1, <1>2, <2>0, <3>3, <3>4, <3>5, <3>6, Zenon
  <2> QED BY <2>1, <2>2, Zenon
<1>3. ASSUME NEW t \in Tid, ThreadStep(t), putPage(t) PROVE PoolIsExact' /\ RoomIsKept'
  <2>1. /\ pc[t] = "put" /\ pid[t] \in Page /\ copy[t] \in SUBSET Tuple /\ pc'[t] = "get"
        /\ pages' = [pages EXCEPT ![pid[t]] = Clean(copy[t])] /\ pageids' = Append(pageids, pid[t])
    BY <1>0, <1>3, Zenon DEF putPage, Goto, ThreadTypes
  <2>2. pid[t] \notin Cached /\ Len(pageids) < MaxPages
    BY <2>1, Zenon DEF RoomIsKept
  <2>3. Cached' = Cached \cup {pid[t]}
    BY <1>0, <2>1, CachedAfter, Zenon
  <2>4. /\ Len(pageids') = Len(pageids) + 1
        /\ Distinct(pageids')
        /\ {pageids'[i] : i \in DOMAIN pageids'} = {pageids[i] : i \in DOMAIN pageids} \cup {pid[t]}
    <3>1. /\ pageids \in Seq(Page) /\ Distinct(pageids)
          /\ pid[t] \notin {pageids[i] : i \in DOMAIN pageids}
      BY <1>0, <2>2, Zenon DEF PoolTypes, PoolIsExact, Distinct
    <3> DEFINE r == Append(pageids, pid[t])
    <3>2. /\ Len(r) = Len(pageids) + 1 /\ Distinct(r)
          /\ {r[i] : i \in DOMAIN r} = {pageids[i] : i \in DOMAIN pageids} \cup {pid[t]}
      BY <2>1, <3>1, Appending
    <3>3. pageids' = r
      BY <2>1, Zenon
    <3> HIDE DEF r
    <3> QED BY ONLY <3>2, <3>3, Zenon
  <2>5. Len(pageids') <= MaxPages
    BY <1>0, <2>2, <2>4
  <2> QED BY <1>1, <1>3, <2>1, <2>3, <2>4, <2>5, Zenon DEF PoolIsExact, Distinct
<1>4. ASSUME NEW t \in Tid, ThreadStep(t), NEW p \in Page, revertPage(t, p) PROVE PoolIsExact' /\ RoomIsKept'
  <2>1. /\ pc[t] = "undo" /\ p \in todo[t] /\ todo'[t] \subseteq todo[t] /\ UNCHANGED <<pc, pageids>>
        /\ pages' = pages \/ pages' = [pages EXCEPT ![p] = Clean(disk[p])]
    BY <1>0, <1>4, Zenon DEF revertPage, ThreadTypes
  <2>2. todo[t] \subseteq Cached
    BY <2>1, Zenon DEF RoomIsKept
  <2>3. Cached' = Cached
    <3>1. CASE pages' = pages
      BY <3>1, Zenon DEF Cached
    <3>2. CASE pages' = [pages EXCEPT ![p] = Clean(disk[p])]
      <4>1. disk[p] \in SUBSET Tuple
        BY <1>0, Zenon DEF PoolTypes
      <4>2. Cached' = Cached \cup {p}
        BY <1>0, <3>2, <4>1, CachedAfter, Zenon
      <4> QED BY <2>1, <2>2, <4>2, Zenon
    <3> QED BY <2>1, <3>1, <3>2, Zenon
  <2> QED BY <1>1, <1>4, <2>1, <2>2, <2>3 DEF PoolIsExact
<1>5. ASSUME NEW t \in Tid, ThreadStep(t), ~makeRoom(t), ~putPage(t), \A p \in Page : ~revertPage(t, p)
      PROVE PoolIsExact' /\ RoomIsKept'
  <2>1. Cached' = Cached /\ pageids' = pageids
    BY <1>5, SameCached, Zenon
  <2>2. pc'[t] \in {"room", "read", "put", "undo"} =>
            \/ containsKey(t) \/ readPage(t) \/ abortTransaction(t)
    BY <1>5, Moves, Zenon
  <2>3. CASE containsKey(t)
    <3>1. pid' = pid /\ (pc'[t] = "get" \/ (pc'[t] = "room" /\ pid[t] \notin Cached))
      BY <1>0, <2>3, Zenon DEF containsKey, Goto, ThreadTypes
    <3>2. pid'[t] = pid[t]
      BY <3>1, Zenon
    <3>3. /\ pc'[t] \in {"room", "read", "put"} => pid'[t] \notin Cached'
          /\ pc'[t] \notin {"read", "put", "undo"}
      BY ONLY <2>1, <3>1, <3>2, Zenon
    <3> QED BY <1>1, <1>5, <2>1, <3>3, Zenon DEF PoolIsExact
  <2>4. CASE readPage(t)
    <3>1. pid' = pid /\ pc[t] = "read" /\ pc'[t] \in {"put", "dead"}
      BY <1>0, <2>4, Zenon DEF readPage, Goto, ThreadTypes
    <3>2. pid'[t] \notin Cached' /\ Len(pageids') < MaxPages /\ pc'[t] # "undo"
      BY <2>1, <3>1, Zenon DEF RoomIsKept
    <3> QED BY <1>1, <1>5, <2>1, <3>2, Zenon DEF PoolIsExact
  <2>5. CASE abortTransaction(t)
    <3>1. pc'[t] = "undo" /\ todo'[t] = Cached
      BY <1>0, <2>5, Zenon DEF abortTransaction, transactionComplete, Goto, ThreadTypes
    <3>2. pc'[t] \notin {"room", "read", "put"} /\ todo'[t] \subseteq Cached'
      BY ONLY <2>1, <3>1, Zenon
    <3> QED BY <1>1, <1>5, <2>1, <3>2, Zenon DEF PoolIsExact
  <2>6. CASE pc'[t] \notin {"room", "read", "put", "undo"}
    <3>1. pc'[t] \notin {"room", "read", "put"} /\ pc'[t] \notin {"read", "put"} /\ pc'[t] # "undo"
      BY ONLY <2>6, Zenon
    <3> QED BY <1>1, <1>5, <2>1, <3>1, Zenon DEF PoolIsExact
  <2> QED BY <2>2, <2>3, <2>4, <2>5, <2>6, Zenon
<1>6. CASE flushAll
  <2>1. Cached' = Cached /\ UNCHANGED <<pageids, pc, pid, todo>>
    BY <1>0, <1>6, CachedAfter, Zenon DEF flushAll, flushAllPages, iterVars
  <2> QED BY <2>1, Zenon DEF PoolIsExact, RoomIsKept
<1>7. CASE UNCHANGED vars
  BY <1>7, SMTT(30) DEF vars, bpVars, poolVars, iterVars, PoolIsExact, RoomIsKept, Cached
<1> QED BY <1>2, <1>3, <1>4, <1>5, <1>6, <1>7, Steps, Zenon

\* When transactions run one after another, whatever they do and however they
\* end, the queue _pageids of BufferPool holds exactly the cached pages, each
\* once, and no more of them than fit: evictPage finds an object for every
\* page it looks at, and the pool never holds more than numPages pages.
THEOREM PoolIsExactHolds == ASSUME Serial PROVE Spec => []PoolIsExact
<1> DEFINE Inv == Types /\ OneRuns /\ PoolIsExact /\ RoomIsKept
<1>1. Init => Inv
  <2> SUFFICES ASSUME Init PROVE PoolIsExact /\ RoomIsKept
    BY TypesInit, OneRunsInit, Zenon
  <2>1. Cached = {} /\ pageids = <<>>
    BY Zenon DEF Init, InitPool, Cached
  <2>2. PoolIsExact
    BY <2>1, SizeAssumption DEF PoolIsExact
  <2> QED BY <2>2, Zenon DEF RoomIsKept, Init, InitPool
<1>2. Inv /\ [Next]_vars => Inv'
  BY TypesStep, OneRunsStep, PoolIsExactStep, Zenon
<1> QED BY <1>1, <1>2, PTL DEF Spec

-----------------------------------------------------------------------------
(* One transaction after another, and none aborts *)

VInv == OneRuns /\ PoolIsExact /\ RoomIsKept /\ Orderly /\ Growth /\ VisibleWork /\ CleanIsDisk

\* While t moves, nobody else has a lock or is in the middle of something.
LEMMA NobodyElse ==
    ASSUME Serial, Types, VInv, NEW t \in Tid, ThreadStep(t), NEW u \in Tid, u # t
    PROVE  /\ pc[u] \in {"idle", "committed"}
           /\ \A p \in Page : ~Locks!Holds(u, p)
<1>1. pc[u] \in {"idle"} \cup Over /\ ~Running(u)
  BY Alone, Zenon DEF VInv
<1>2. pc[u] \in {"idle", "committed"}
  BY <1>1, Zenon DEF VInv, Orderly, OrderlyThread, Over
<1>3. calls[u] = 0 \/ pc[u] = "committed"
  BY <1>1, <1>2 DEF Running, Ended, Types, FileTypes
<1> QED BY <1>2, <1>3, Zenon DEF VInv, Orderly, OrderlyThread

\* The file does not grow while t does not make it.
LEMMA NumPages ==
    ASSUME Serial, Types, VInv, NEW t \in Tid, ThreadStep(t), pc[t] \notin {"newPageId", "writeNew"}
    PROVE  numPages = fileLen /\ fileLen > 0 /\ fileLen \in 0..FilePages
<1>1. \A u \in Tid : pc[u] \notin {"newPageId", "writeNew"}
  BY NobodyElse, Zenon
<1> QED BY <1>1, Zenon DEF VInv, Growth, Types, PoolTypes

\* Locks that others have stay as they are.
LEMMA OthersLocks ==
    ASSUME Types, NEW t \in Tid, ThreadStep(t), NEW u \in Tid, u # t, NEW p \in Page
    PROVE  Locks!Holds(u, p)' <=> Locks!Holds(u, p)
<1>0. LockTypes /\ ThreadTypes
  BY Zenon DEF Types
<1>1. CASE Acquire(t)
  <2>1. pid[t] \in Page
    BY <1>0, <1>1, Zenon DEF Acquire, ThreadTypes
  <2>2. UNCHANGED <<owner, readers>> \/ Locks!Share(t, pid[t]) \/ Locks!Own(t, pid[t])
    BY ONLY <1>1, Zenon DEF Acquire
  <2>3. ASSUME NEW q \in Page, Locks!Share(t, q) PROVE Locks!Holds(u, p)' <=> Locks!Holds(u, p)
    BY <1>0, <2>3, Zenon DEF Locks!Share, Locks!Holds, LockTypes
  <2>4. ASSUME NEW q \in Page, Locks!Own(t, q) PROVE Locks!Holds(u, p)' <=> Locks!Holds(u, p)
    BY <1>0, <2>4, SizeAssumption DEF Locks!Own, Locks!Holds, LockTypes
  <2>5. CASE UNCHANGED <<owner, readers>>
    BY <2>5, Zenon DEF Locks!Holds
  <2> QED BY <2>1, <2>2, <2>3, <2>4, <2>5, Zenon
<1>2. ASSUME NEW q \in Page, releaseNext(t, q) PROVE Locks!Holds(u, p)' <=> Locks!Holds(u, p)
  BY <1>0, <1>2, SizeAssumption DEF releaseNext, Locks!Release, Locks!Holds, LockTypes
<1>3. CASE endOfTry(t)
  BY <1>0, <1>3, SizeAssumption, SMTT(30) DEF endOfTry, releasePage, Locks!Release, Locks!Holds, LockTypes,
     ThreadTypes
<1>4. CASE UNCHANGED <<owner, readers>>
  BY <1>4, Zenon DEF Locks!Holds
<1> QED BY <1>1, <1>2, <1>3, <1>4, Changes, Zenon

\* The iterator of another thread stays valid: the others iterate over nothing.
LEMMA OthersStale ==
    ASSUME Types, NEW t \in Tid, ThreadStep(t), NEW u \in Tid, u # t, pc[u] \notin {"flush", "undo"}
    PROVE  stale'[u] = stale[u]
<1>0. ThreadTypes
  BY Zenon DEF Types
<1>1. ASSUME NEW b, Invalidate(b) PROVE stale'[u] = stale[u]
  BY <1>0, <1>1, Zenon DEF Invalidate, ThreadTypes
<1>2. CASE makeRoom(t)
  BY <1>1, <1>2, RoomCases, Zenon
<1>3. CASE putPage(t)
  BY <1>1, <1>3, Zenon DEF putPage
<1>4. ASSUME NEW p \in Page, revertPage(t, p) PROVE stale'[u] = stale[u]
  BY <1>1, <1>4, Zenon DEF revertPage
<1>5. CASE commitTransaction(t) \/ abortTransaction(t)
  BY <1>0, <1>5, Zenon DEF commitTransaction, abortTransaction, transactionComplete, ThreadTypes
<1>6. CASE stale' = stale
  BY <1>6, Zenon
<1> QED BY <1>2, <1>3, <1>4, <1>5, <1>6, Changes, Zenon

\* While one transaction runs at a time, no lock request fails and no thread dies.
LEMMA OrderlyStep ==
    ASSUME Serial, "abort" \notin Outcomes, Types, VInv, [Next]_vars
    PROVE  Orderly'
<1>0. LockTypes /\ PoolTypes /\ ThreadTypes /\ FileTypes /\ RefTypes /\ Orderly /\ Growth
  BY Zenon DEF Types, VInv
<1>1. ASSUME NEW t \in Tid, ThreadStep(t), NEW u \in Tid, u # t PROVE OrderlyThread(u)'
  <2>1. pc[u] \in {"idle", "committed"} /\ OrderlyThread(u)
    BY <1>0, <1>1, NobodyElse, Zenon DEF Orderly
  <2>2. UNCHANGED <<pc[u], calls[u], held[u], todo[u], stale[u]>>
    BY <1>1, <2>1, OthersStay, OthersStale, Zenon
  <2>3. \A p \in Page : Locks!Holds(u, p)' <=> Locks!Holds(u, p)
    BY <1>1, OthersLocks, Zenon
  <2> QED BY <2>1, <2>2, <2>3, Zenon DEF OrderlyThread, Asking, Releasing
<1>2. ASSUME NEW t \in Tid, ThreadStep(t) PROVE OrderlyThread(t)'
  <2>0. OrderlyThread(t) /\ GrowthThread(t) /\ (calls[t] = 0 => pc[t] = "idle")
    BY <1>0, Zenon DEF Orderly, Growth, VInv, OneRuns
  <2>1. CASE Acquire(t)
    <3> DEFINE p == pid[t]
    <3>1. \A q \in Page : q # p => (Locks!Holds(t, q)' <=> Locks!Holds(t, q)) /\ held'[t][q] = held[t][q]
      BY <1>0, <2>1, Zenon DEF Acquire, Locks!Share, Locks!Own, Locks!Holds, LockTypes, ThreadTypes
    <3>2. held'[t][p] = held[t][p] + 1 /\ held[t][p] \in Int /\ p \in Page
      BY <1>0, <2>1, Zenon DEF Acquire, LockTypes, ThreadTypes
    <3>3. pc[t] = "lock" /\ pc'[t] = "lookup" /\ UNCHANGED <<pid, stale, fileLen>>
      BY <1>0, <2>1, Zenon DEF Acquire, Goto, iterVars, fileVars, ThreadTypes
    <3>4. calls'[t] > 0 /\ calls'[t] \in Nat
      BY <1>2, <3>3, MoverRuns, Zenon DEF VInv, Call, Running, Types, FileTypes
    <3> HIDE DEF p
    <3>5. calls'[t] # 0 /\ held'[t][p] > 0
      <4>1. held[t][p] >= 0
        BY <2>0, <3>2, Zenon DEF OrderlyThread
      <4> QED BY ONLY <3>2, <3>4, <4>1
    <3>6. ASSUME NEW q \in Page
          PROVE  held'[t][q] >= 0 /\ (Locks!Holds(t, q)' => held'[t][q] > 0)
      <4>1. CASE q = p
        BY ONLY <3>2, <3>5, <4>1
      <4>2. CASE q # p
        BY <2>0, <3>1, <3>3, <4>2, Zenon DEF OrderlyThread, Releasing
      <4> QED BY <4>1, <4>2, Zenon
    <3> QED BY <2>0, <3>3, <3>5, <3>6, Zenon DEF OrderlyThread, Asking, Releasing
  <2>2. CASE AbortedByLock(t)
    <3>1. PICK u \in Tid : u # t /\ Locks!Holds(u, pid[t])
      BY <1>0, <2>2 DEF AbortedByLock, Locks!MustWait, Locks!Holds, LockTypes, ThreadTypes
    <3> QED BY <1>0, <1>2, <3>1, NobodyElse, Zenon DEF ThreadTypes
  <2>3. CASE makeRoom(t)
    <3>1. ASSUME NEW k \in 1..Len(pageids) PROVE pageids[k] \in Cached
      BY <1>0, SMTT(30) DEF VInv, PoolIsExact, PoolTypes
    <3>2. pc' = [pc EXCEPT ![t] = "read"] \/ pc' = [pc EXCEPT ![t] = "idle"]
      BY <2>3, <3>1, RoomCases, Zenon
    <3>3. stale'[t] = stale[t]
      <4>1. ASSUME NEW b, Invalidate(b) PROVE stale'[t] = stale[t]
        BY <1>0, <2>3, <4>1, Zenon DEF Invalidate, makeRoom, ThreadTypes
      <4> QED BY <2>3, <4>1, RoomCases, Zenon
    <3>4. pc[t] = "room" /\ UNCHANGED <<owner, readers, held, todo, fileLen, pid>>
      BY <2>3, Zenon DEF makeRoom, lockVars, fileVars
    <3>5. calls'[t] > 0 /\ calls'[t] \in Nat /\ pc[t] # "idle"
      BY <1>2, <3>4, MoverRuns, Zenon DEF VInv, Call, Running, Types, FileTypes
    <3>6. pc'[t] \in {"read", "idle"} /\ calls'[t] # 0
      BY <1>0, <3>2, <3>5 DEF ThreadTypes
    <3> QED BY <2>0, <3>3, <3>4, <3>6, Zenon DEF OrderlyThread, Asking, Releasing, Locks!Holds
  <2>4. CASE putPage(t)
    <3>1. stale'[t] = stale[t]
      BY <1>0, <2>4, Zenon DEF putPage, Invalidate, ThreadTypes
    <3>2. /\ pc[t] = "put" /\ pc'[t] = "get" /\ UNCHANGED <<owner, readers, held, todo, fileLen, pid>>
          /\ pid[t] \in Page /\ copy[t] \in SUBSET Tuple /\ pages' = [pages EXCEPT ![pid[t]] = Clean(copy[t])]
      BY <1>0, <2>4, Zenon DEF putPage, Goto, lockVars, fileVars, ThreadTypes
    <3>3. pid[t] \in Cached'
      BY <1>0, <3>2, CachedAfter, ZenonT(30)
    <3>4. calls'[t] > 0 /\ calls'[t] \in Nat
      BY <1>2, <3>2, MoverRuns, Zenon DEF VInv, Call, Running, Types, FileTypes
    <3>5. calls'[t] # 0
      BY <3>4
    <3> QED BY <2>0, <3>1, <3>2, <3>3, <3>5, Zenon DEF OrderlyThread, Asking, Releasing, Locks!Holds
  <2>5. CASE /\ \/ containsKey(t) \/ readPage(t) \/ getReturns(t) \/ markDirty(t)
                \/ IteratorFails(t) \/ LoopEnds(t)
                \/ \E p \in Page : flushPage(t, p) \/ revertPage(t, p)
             /\ UNCHANGED hfVars
    <3> USE DEF OrderlyThread, Asking, Releasing, Locks!Holds, Goto, lockVars, iterVars, fileVars, poolVars, hfVars,
            ThreadTypes
    <3>1. CASE containsKey(t)
      BY <1>0, <2>0, <2>5, <3>1, Zenon DEF containsKey, Cached
    <3>6. CASE readPage(t)
      BY <1>0, <2>0, <2>5, <3>6, Zenon DEF readPage, Cached
    <3>2. CASE getReturns(t)
      BY <1>0, <2>0, <2>5, <3>2, Zenon DEF getReturns
    <3>7. CASE markDirty(t)
      BY <1>0, <2>0, <2>5, <3>7, Zenon DEF markDirty
    <3>3. CASE IteratorFails(t)
      BY <2>0, <3>3, Zenon DEF IteratorFails
    <3>4. CASE LoopEnds(t)
      BY <1>0, <2>0, <2>5, <3>4, ZenonT(30) DEF LoopEnds, holdsLock
    <3>5. CASE \E p \in Page : flushPage(t, p) \/ revertPage(t, p)
      BY <1>0, <2>0, <2>5, <3>5, Zenon DEF flushPage, revertPage
    <3> QED BY <2>5, <3>1, <3>2, <3>3, <3>4, <3>5, <3>6, <3>7, Zenon
  <2>6. ASSUME NEW p \in Page, releaseNext(t, p), UNCHANGED hfVars PROVE OrderlyThread(t)'
    <3>1. /\ \A q \in Page : Locks!Holds(t, q)' => Locks!Holds(t, q) /\ q # p
          /\ pc[t] \in Releasing
      BY <1>0, <2>6, SizeAssumption, SMTT(30) DEF releaseNext, Locks!Release, Locks!Holds, LockTypes, Releasing
    <3> QED BY <1>0, <2>0, <2>6, <3>1, Zenon DEF releaseNext, OrderlyThread, Asking, Releasing, hfVars,
          fileVars, ThreadTypes
  <2>7. CASE releaseEnds(t) /\ UNCHANGED hfVars
    BY <1>0, <2>0, <2>7, SMTT(30) DEF releaseEnds, OrderlyThread, Asking, Releasing, Locks!Holds, Goto,
       hfVars, fileVars, iterVars, LockTypes, ThreadTypes
  <2>8. CASE open(t) \/ hasNext(t) \/ \E p \in Page : deleteTuple(t, p)
    <3>1. fileLen > 0 /\ fileLen \in Nat
      BY <1>0 DEF Growth, PoolTypes
    <3>2. UNCHANGED <<owner, readers, held, todo, stale, fileLen>> /\ pc[t] = "idle" /\ pc'[t] = "lock" /\ calls'[t] # 0
      BY <1>0, <2>8, SMTT(30) DEF open, hasNext, nextPage, deleteTuple, Call, getPage, Goto, lockVars,
         fileVars, iterVars, ThreadTypes, FileTypes
    <3>3. pid'[t] < fileLen
      <4>1. CASE open(t)
        BY <1>0, <3>1, <4>1, Zenon DEF open, nextPage, getPage, ThreadTypes
      <4>2. CASE hasNext(t)
        <5>1. iter[t].more /\ iter[t].cur + 1 < iter[t].count /\ iter[t].count <= fileLen
              /\ iter[t].cur \in Int /\ iter[t].count \in Int /\ pid'[t] = iter[t].cur + 1
          BY <1>0, <2>0, <4>2, SMTT(30) DEF hasNext, nextPage, getPage, GrowthThread, FileTypes, ThreadTypes, Page
        <5> QED BY <3>1, <5>1
      <4>3. CASE \E p \in Page : deleteTuple(t, p)
        BY <1>0, <2>0, <4>3, SMTT(30) DEF deleteTuple, getPage, GrowthThread, ThreadTypes
      <4> QED BY <2>8, <4>1, <4>2, <4>3, Zenon
    <3> QED BY <2>0, <3>2, <3>3, Zenon DEF OrderlyThread, Asking, Releasing, Locks!Holds
  <2>9. CASE readTuples(t) \/ \E x \in Tuple : clearSlot(t, x)
    <3>1. /\ UNCHANGED <<owner, readers, held, todo, stale, fileLen, calls, pid>>
          /\ pc[t] = "use" /\ \E l \in {"idle", "mark"} : pc' = [pc EXCEPT ![t] = l]
      BY ONLY <2>9, Zenon DEF readTuples, clearSlot, Goto, lockVars, iterVars, fileVars
    <3>2. pc'[t] \in {"idle", "mark"}
      BY <1>0, <3>1, Zenon DEF ThreadTypes
    <3>3. pc'[t] = "mark" => shared' = shared
      BY <1>0, <2>9, Zenon DEF readTuples, clearSlot, Goto, ThreadTypes
    <3> QED BY <2>0, <3>1, <3>2, <3>3, Zenon DEF OrderlyThread, Asking, Releasing, Locks!Holds
  <2>10. CASE insertTuple(t) \/ tryLast(t)
    <3>1. numPages = fileLen /\ fileLen > 0 /\ fileLen \in Nat
      BY <1>2, <2>10, NumPages, SMTT(30) DEF insertTuple, Call, tryLast
    <3>2. UNCHANGED <<owner, readers, held, todo, stale, fileLen>> /\ pc[t] \in {"idle", "tryLast"} /\ calls'[t] # 0
      BY <1>0, <2>0, <2>10, SMTT(30) DEF insertTuple, tryLast, Call, lockVars, fileVars, iterVars, hfVars, FileTypes
    <3>3. pc'[t] = "grow" \/ (pc'[t] = "lock" /\ pid'[t] < fileLen)
      <4>1. CASE insertTuple(t)
        <5>1. tryPage(t, 0)
          BY <4>1, Zenon DEF insertTuple
        <5> QED BY <1>0, <3>1, <5>1, Zenon DEF tryPage, getPage, Goto, ThreadTypes
      <4>2. CASE tryLast(t)
        <5>1. /\ pc' = [pc EXCEPT ![t] = "lock"] /\ pid' = [pid EXCEPT ![t] = numPages - 1]
          BY <4>2, Zenon DEF tryLast, getPage, Goto
        <5> QED BY <1>0, <3>1, <5>1 DEF ThreadTypes
      <4> QED BY <2>10, <4>1, <4>2, Zenon
    <3> QED BY <2>0, <3>2, <3>3, Zenon DEF OrderlyThread, Asking, Releasing, Locks!Holds
  <2>11. CASE fillSlot(t) \/ GrowRead(t) \/ GrowWrite(t) \/ newPageId(t) \/ writePage(t)
    <3> DEFINE to == {"unlockAdded", "unlockFull", "increment", "newPageId", "writeNew", "tryLast"}
    <3>1. /\ UNCHANGED <<owner, readers, held, todo, stale, calls, shared>>
          /\ pc[t] \in {"use", "grow", "increment", "newPageId", "writeNew"}
          /\ \E l \in to : pc' = [pc EXCEPT ![t] = l]
      BY ONLY <2>11, Zenon DEF fillSlot, GrowRead, GrowWrite, newPageId, writePage, Goto, lockVars, iterVars, refVars,
         hfVars
    <3>2. pc'[t] \in to
      BY <1>0, <3>1, Zenon DEF ThreadTypes
    <3>3. pc'[t] \in {"unlockAdded", "unlockFull"} => pc[t] = "use"
      BY <1>0, <2>11, Zenon DEF fillSlot, GrowRead, GrowWrite, newPageId, writePage, Goto, ThreadTypes
    <3> QED BY <2>0, <3>1, <3>2, <3>3, Zenon DEF OrderlyThread, Asking, Releasing, Locks!Holds
  <2>12. CASE endOfTry(t)
    <3>0. PICK p \in Page : p = pid[t]
      BY <1>0, Zenon DEF ThreadTypes
    <3>1. /\ \A q \in Page : q # p => (Locks!Holds(t, q)' <=> Locks!Holds(t, q)) /\ held'[t][q] = held[t][q]
          /\ ~Locks!Holds(t, p)' /\ held'[t][p] = held[t][p] - 1 /\ held[t][p] \in Int /\ Locks!Holds(t, p)
      <4>1. Locks!Release(t, p) /\ held' = [held EXCEPT ![t][p] = @ - 1]
        BY <2>12, <3>0, Zenon DEF endOfTry, releasePage
      <4>2. /\ \A q \in Page : q # p => (Locks!Holds(t, q)' <=> Locks!Holds(t, q))
            /\ Locks!Holds(t, p)
        BY <1>0, <4>1, Zenon DEF Locks!Release, Locks!Holds, LockTypes
      <4>3. ~Locks!Holds(t, p)'
        BY <1>0, <4>1, SizeAssumption, Zenon DEF Locks!Release, Locks!Holds, LockTypes
      <4>4. /\ \A q \in Page : q # p => held'[t][q] = held[t][q]
            /\ held'[t][p] = held[t][p] - 1 /\ held[t][p] \in Int
        BY <1>0, <4>1, Zenon DEF LockTypes, ThreadTypes
      <4> QED BY <4>2, <4>3, <4>4, Zenon
    <3>2. numPages = fileLen /\ fileLen \in Nat /\ p \in Nat
      BY <1>0, <1>2, <2>12, <3>0, NumPages, SMTT(30) DEF endOfTry, ThreadTypes, Page
    <3>3. UNCHANGED <<todo, stale, fileLen, calls>> /\ pc[t] \in {"unlockAdded", "unlockFull"}
      BY <2>12, Zenon DEF endOfTry, fileVars, iterVars, hfVars
    <3>4. \/ pc'[t] = "mark" /\ shared' = shared
          \/ pc'[t] \in {"idle", "grow"}
          \/ pc'[t] = "lock" /\ pid'[t] < fileLen
      BY <1>0, <2>12, <3>0, <3>2, SMTT(30) DEF endOfTry, tryPage, getPage, Goto, refVars, ThreadTypes
    <3>5. held[t][p] > 0
      BY <2>0, <3>1, <3>3, Zenon DEF OrderlyThread, Releasing
    <3>6. held'[t][p] >= 0
      <4>1. held'[t][p] = held[t][p] - 1 /\ held[t][p] \in Int
        BY <3>1, Zenon
      <4> QED BY ONLY <3>5, <4>1
    <3>7. ASSUME NEW q \in Page
          PROVE  /\ held'[t][q] >= 0
                 /\ Locks!Holds(t, q)' => held'[t][q] > 0 /\ Locks!Holds(t, q)
      <4>1. CASE q = p
        BY <3>1, <3>6, <4>1, Zenon
      <4>2. CASE q # p
        BY <2>0, <3>1, <3>3, <4>2, Zenon DEF OrderlyThread, Releasing
      <4> QED BY <4>1, <4>2, Zenon
    <3> QED BY <2>0, <3>3, <3>4, <3>7, Zenon DEF OrderlyThread, Asking, Releasing
  <2>13. CASE commitTransaction(t)
    BY <1>0, <2>0, <2>13, Zenon DEF commitTransaction, transactionComplete, OrderlyThread, Asking, Releasing,
       Locks!Holds, Goto, lockVars, fileVars, hfVars, ThreadTypes
  <2>14. ~abortTransaction(t)
    BY <2>0, Zenon DEF abortTransaction, OrderlyThread
  <2> QED BY <1>2, <2>1, <2>2, <2>3, <2>4, <2>5, <2>6, <2>7, <2>8, <2>9, <2>10, <2>11, <2>12, <2>13, <2>14, Zenon
      DEF ThreadStep, PoolStep
<1>3. CASE \E t \in Tid : ThreadStep(t)
  BY <1>1, <1>2, <1>3, Zenon DEF Orderly
<1>4. CASE flushAll
  <2>1. /\ UNCHANGED <<owner, readers, held, todo, stale, fileLen, pc, pid, calls, shared>>
        /\ Cached' = Cached
    BY <1>0, <1>4, CachedAfter, Zenon DEF flushAll, flushAllPages, lockVars, iterVars, hfVars, refVars
  <2> QED BY <1>0, <2>1, Zenon DEF Orderly, OrderlyThread, Locks!Holds
<1>5. CASE UNCHANGED vars
  <2>1. /\ UNCHANGED <<owner, readers, held, todo, stale, fileLen, pc, pid, calls, shared>>
        /\ Cached' = Cached
    BY <1>5, Zenon DEF Cached, vars, bpVars, lockVars, poolVars, fileVars, iterVars, refVars, hfVars
  <2> QED BY <1>0, <2>1, ZenonT(30) DEF Orderly, OrderlyThread, Locks!Holds
<1> QED BY <1>3, <1>4, <1>5, Steps, Zenon

\* insertTuple adds the pages of the file one after another.
LEMMA GrowthStep ==
    ASSUME Serial, "abort" \notin Outcomes, Types, VInv, [Next]_vars
    PROVE  Growth'
<1>0. PoolTypes /\ ThreadTypes /\ FileTypes /\ RefTypes /\ Orderly /\ Growth /\ fileLen \in Nat /\ numPages \in Nat
  BY SMTT(30) DEF Types, VInv, PoolTypes, FileTypes
<1>1. ASSUME NEW t \in Tid, ThreadStep(t) PROVE fileLen' \in Nat /\ fileLen' >= fileLen
  <2>1. CASE writePage(t)
    BY <1>0, <2>1 DEF writePage, ThreadTypes, Page
  <2>2. CASE fileLen' = fileLen
    BY <1>0, <2>2
  <2> QED BY <1>1, <2>1, <2>2, Changes, Zenon
<1>2. ASSUME NEW t \in Tid, ThreadStep(t), NEW u \in Tid, u # t PROVE GrowthThread(u)'
  <2>1. pc[u] \in {"idle", "committed"} /\ GrowthThread(u)
    BY <1>0, <1>2, NobodyElse, Zenon DEF Growth
  <2>2. UNCHANGED <<pc[u], iter[u], view[u]>> /\ iter[u].count \in Nat
    BY <1>0, <1>2, OthersStay, SMTT(30) DEF FileTypes
  <2>3. fileLen' \in Nat /\ fileLen' >= fileLen
    BY <1>1, <1>2, Zenon
  <2>4. \A p \in Page : p \in Int
    BY DEF Page
  <2>5. \A n \in Int : n <= fileLen => n <= fileLen'
    BY <1>0, <2>3
  <2>6. \A p \in Page : p < fileLen => p < fileLen'
    BY <1>0, <2>3, <2>4
  <2>7. iter[u].count <= fileLen => iter[u].count <= fileLen'
    BY <2>2, <2>5
  <2> QED BY <2>1, <2>2, <2>6, <2>7, Zenon DEF GrowthThread, Asking
<1>3. ASSUME NEW t \in Tid, ThreadStep(t) PROVE GrowthThread(t)'
  <2>0. GrowthThread(t) /\ pc[t] # "aborted"
    BY <1>0, Zenon DEF Growth, Orderly, OrderlyThread
  <2>1. CASE open(t) \/ hasNext(t)
    <3>1. numPages = fileLen
      BY <1>3, <2>1, NumPages, Zenon DEF open, hasNext, Call
    <3>2. /\ pc'[t] = "lock" /\ UNCHANGED <<fileLen, view>> /\ iter'[t].more = FALSE
          /\ iter'[t].count = numPages \/ (iter[t].more /\ iter'[t].count = iter[t].count)
      BY <1>0, <2>1, SMTT(30) DEF open, hasNext, nextPage, getPage, Goto, fileVars, ThreadTypes, FileTypes
    <3> QED BY <1>0, <2>0, <3>1, <3>2, SMTT(30) DEF GrowthThread
  <2>2. CASE readTuples(t)
    <3> DEFINE b == iter[t].cur < iter[t].count - 1 /\ (iter[t].cur = 0 \/ Data(t) # {})
    <3>1. /\ pc[t] = "use" /\ op[t] = "scan" /\ pc'[t] = "idle" /\ fileLen' = fileLen
          /\ view'[t] = view[t] \cup {<<pid[t], x>> : x \in Data(t)}
          /\ iter'[t].count = iter[t].count
      BY <1>0, <2>2, Zenon DEF readTuples, Goto, fileVars, ThreadTypes, FileTypes
    <3>2. pid[t] \in Cached
      BY <1>0, <3>1, Zenon DEF RefTypes, Orderly, OrderlyThread
    <3>3. pid[t] < fileLen
      BY <1>0, <3>2, SMTT(30) DEF Growth, ThreadTypes, Page
    <3> QED BY <2>0, <3>1, <3>3, Zenon DEF GrowthThread, Asking
  <2>3. CASE GrowRead(t)
    <3>1. numPages = fileLen
      BY <1>3, <2>3, NumPages, Zenon DEF GrowRead
    <3> QED BY <1>0, <2>0, <2>3, <3>1, Zenon DEF GrowRead, GrowthThread, Asking, Goto, fileVars, hfVars, ThreadTypes
  <2>4. CASE GrowWrite(t)
    BY <1>0, <2>0, <2>4, Zenon DEF GrowWrite, GrowthThread, Asking, Goto, fileVars, ThreadTypes
  <2>5. CASE newPageId(t)
    BY <1>0, <2>0, <2>5, SMTT(30) DEF newPageId, GrowthThread, Asking, Goto, fileVars, hfVars, ThreadTypes
  <2>6. CASE writePage(t)
    <3>1. pc'[t] = "tryLast" /\ UNCHANGED <<iter, view>> /\ iter[t].count \in Nat
      BY <1>0, <2>6, SMTT(30) DEF writePage, Goto, ThreadTypes, FileTypes
    <3>2. fileLen' \in Nat /\ fileLen' >= fileLen
      BY <1>1, <1>3, Zenon
    <3>3. \A p \in Page : p \in Int
      BY DEF Page
    <3>4. \A p \in Page : p < fileLen => p < fileLen'
      BY <1>0, <3>2, <3>3
    <3>5. iter[t].count <= fileLen => iter[t].count <= fileLen'
      BY ONLY <1>0, <3>1, <3>2
    <3> QED BY <2>0, <3>1, <3>4, <3>5, Zenon DEF GrowthThread, Asking
  <2>7. CASE makeRoom(t) /\ UNCHANGED hfVars
    <3>1. /\ \E l \in {"read", "idle", "dead"} : pc' = [pc EXCEPT ![t] = l]
          /\ op' = op \/ op' = [op EXCEPT ![t] = "failed"]
      BY <2>7, RoomCases, Zenon
    <3> QED BY <1>0, <2>0, <2>7, <3>1, Zenon DEF makeRoom, GrowthThread, Asking, fileVars, hfVars, ThreadTypes
  <2>8. CASE PoolStep(t) /\ ~makeRoom(t)
    <3>1. UNCHANGED <<fileLen, numPages, iter, view>>
      <4>1. UNCHANGED <<numPages, iter, view>>
        BY <2>8, Zenon DEF PoolStep, hfVars
      <4>2. fileLen' = fileLen
        BY <1>3, <2>8, Changes, Zenon
      <4> QED BY <4>1, <4>2, Zenon
    <3>2. /\ pc'[t] \notin {"increment", "newPageId", "writeNew"}
          /\ pc'[t] \in Asking \cup {"use"} => pc[t] \in Asking \cup {"use"} /\ op'[t] = op[t]
      <4> USE DEF Asking, Goto, ThreadTypes
      <4>1. CASE Acquire(t) \/ containsKey(t) \/ readPage(t) \/ putPage(t) \/ getReturns(t)
        BY <1>0, <4>1, Zenon DEF Acquire, containsKey, readPage, putPage, getReturns
      <4>2. CASE AbortedByLock(t) \/ markDirty(t) \/ IteratorFails(t) \/ LoopEnds(t) \/ releaseEnds(t)
        <5> DEFINE to == {"aborted", "idle", "dead", "committing", "aborting", "committed", "rolledback"}
        <5>1. \E l \in to : pc' = [pc EXCEPT ![t] = l]
          BY ONLY <4>2, Zenon DEF AbortedByLock, markDirty, IteratorFails, LoopEnds, releaseEnds
        <5>2. pc'[t] \in to
          BY <1>0, <5>1, Zenon
        <5> QED BY ONLY <5>2, Zenon
      <4>3. ASSUME NEW p \in Page, flushPage(t, p) \/ revertPage(t, p) \/ releaseNext(t, p)
            PROVE  pc' = pc /\ pc[t] \in {"flush", "undo", "committing", "aborting"}
        BY <4>3, Zenon DEF flushPage, revertPage, releaseNext
      <4> QED BY <2>8, <4>1, <4>2, <4>3, Zenon DEF PoolStep
    <3> QED BY <2>0, <3>1, <3>2, Zenon DEF GrowthThread
  <2>9. CASE insertTuple(t) \/ tryLast(t) \/ fillSlot(t) \/ endOfTry(t)
    <3>1. UNCHANGED <<fileLen, iter, view>>
      BY ONLY <2>9, Zenon DEF insertTuple, tryLast, fillSlot, endOfTry, fileVars, hfVars
    <3>2. \/ \E l \in {"unlockAdded", "unlockFull", "mark", "idle"} : pc' = [pc EXCEPT ![t] = l]
          \/ /\ \E l \in {"lock", "grow"} : pc' = [pc EXCEPT ![t] = l]
             /\ op' = [op EXCEPT ![t] = "insert"]
      BY ONLY <2>9, Zenon DEF insertTuple, tryLast, fillSlot, endOfTry, tryPage, getPage, Goto
    <3>3. pc'[t] \in {"unlockAdded", "unlockFull", "mark", "idle"} \/ (pc'[t] \in {"lock", "grow"} /\ op'[t] = "insert")
      BY <1>0, <3>2, Zenon DEF ThreadTypes
    <3> QED BY <2>0, <3>1, <3>3, Zenon DEF GrowthThread, Asking
  <2>10. CASE (\E p \in Page : deleteTuple(t, p)) \/ commitTransaction(t) \/ abortTransaction(t)
    <3>1. /\ UNCHANGED <<fileLen, iter, view>>
          /\ \/ pc'[t] = "lock" /\ op'[t] = "delete"
             \/ pc'[t] \in {"flush", "undo"}
      BY <1>0, <2>10, Zenon DEF deleteTuple, commitTransaction, abortTransaction, transactionComplete, getPage,
         Goto, fileVars, hfVars, ThreadTypes
    <3> QED BY <2>0, <3>1, Zenon DEF GrowthThread, Asking
  <2>11. ASSUME NEW x \in Tuple, clearSlot(t, x) PROVE GrowthThread(t)'
    BY <1>0, <2>0, <2>11, Zenon DEF clearSlot, GrowthThread, Asking, Goto, fileVars, ThreadTypes, FileTypes
  <2> QED BY <1>3, <2>1, <2>2, <2>3, <2>4, <2>5, <2>6, <2>7, <2>8, <2>9, <2>10, <2>11, Zenon DEF ThreadStep, PoolStep
<1>4. ASSUME NEW t \in Tid, ThreadStep(t), \A u \in Tid : pc'[u] \notin {"newPageId", "writeNew"}
      PROVE  numPages' = fileLen'
  <2>1. CASE writePage(t)
    <3>1. pid[t] = fileLen /\ numPages = fileLen + 1
      BY <1>0, <2>1, Zenon DEF writePage, Growth, GrowthThread
    <3>2. numPages' = numPages /\ fileLen' = IF fileLen > pid[t] THEN fileLen ELSE pid[t] + 1
      BY <2>1, Zenon DEF writePage
    <3> QED BY <1>0, <3>1, <3>2
  <2>2. CASE newPageId(t)
    BY <1>0, <1>4, <2>2, Zenon DEF newPageId, Goto, ThreadTypes
  <2>3. CASE GrowWrite(t)
    BY <1>0, <1>4, <2>3, Zenon DEF GrowWrite, Goto, ThreadTypes
  <2>4. CASE pc[t] \notin {"newPageId", "writeNew"} /\ UNCHANGED <<numPages, fileLen>>
    BY <1>4, <2>4, NumPages, Zenon
  <2>5. (pc[t] \in {"newPageId", "writeNew"} => newPageId(t) \/ writePage(t))
        /\ (fileLen' = fileLen \/ writePage(t)) /\ (numPages' = numPages \/ GrowWrite(t))
    BY <1>4, Moves, Changes, Zenon
  <2> QED BY <2>1, <2>2, <2>3, <2>4, <2>5, Zenon
<1>5. ASSUME NEW t \in Tid, ThreadStep(t), NEW p \in Page, p >= fileLen'
      PROVE  p \notin Cached' /\ disk'[p] = {}
  <2>0. p \notin Cached /\ disk[p] = {}
    <3>1. p >= fileLen
      BY <1>0, <1>1, <1>5 DEF Page
    <3> QED BY <1>0, <3>1, Zenon DEF Growth
  <2>1. CASE makeRoom(t)
    <3>1. pages' = pages \/ \E q \in Page : pages' = [pages EXCEPT ![q] = Absent]
      BY <2>1, RoomCases, Zenon DEF poolVars
    <3>2. Cached' \subseteq Cached
      BY <1>0, <3>1, CachedAfter, Zenon DEF Cached
    <3> QED BY <2>0, <2>1, <3>2, Zenon DEF makeRoom, fileVars
  <2>2. CASE putPage(t)
    <3>1. /\ pc[t] = "put" /\ pid[t] \in Page /\ copy[t] \in SUBSET Tuple
          /\ pages' = [pages EXCEPT ![pid[t]] = Clean(copy[t])] /\ UNCHANGED <<disk, fileLen>>
      BY <1>0, <2>2, Zenon DEF putPage, fileVars, ThreadTypes
    <3>2. Cached' = Cached \cup {pid[t]} /\ pid[t] < fileLen
      BY <1>0, <3>1, CachedAfter, Zenon DEF Orderly, OrderlyThread, Asking
    <3>3. p # pid[t]
      <4>1. p \in Int /\ p >= fileLen /\ pid[t] < fileLen /\ fileLen \in Int
        BY <1>0, <1>5, <3>1, <3>2 DEF Page
      <4> QED BY ONLY <4>1
    <3> QED BY <2>0, <3>1, <3>2, <3>3, Zenon
  <2>3. ASSUME NEW q \in Page, revertPage(t, q) PROVE FALSE
    BY <1>0, <2>3, Zenon DEF revertPage, Orderly, OrderlyThread
  <2>4. CASE writePage(t)
    <3>1. disk'[p] = {}
      BY <1>0, <2>0, <2>4, Zenon DEF writePage, PoolTypes
    <3> QED BY <2>0, <2>4, <3>1, Zenon DEF writePage, poolVars, Cached
  <2>5. ASSUME NEW q \in Page, flushPage(t, q) PROVE disk'[p] = {}
    BY <1>0, <2>0, <2>5, Zenon DEF flushPage, written
  <2>6. CASE ~makeRoom(t) /\ ~putPage(t)
    <3>1. Cached' = Cached
      BY <1>5, <2>3, <2>6, SameCached, Zenon
    <3>2. CASE UNCHANGED disk
      BY <2>0, <3>1, <3>2, Zenon
    <3> QED BY <1>5, <2>0, <2>4, <2>5, <3>1, <3>2, Changes, Zenon
  <2> QED BY <2>1, <2>2, <2>6, Zenon
<1>6. ASSUME NEW t \in Tid, ThreadStep(t) PROVE Growth'
  <2>1. fileLen' > 0
    <3>1. fileLen > 0 /\ fileLen \in Nat /\ fileLen' \in Nat /\ fileLen' >= fileLen
      BY <1>0, <1>1, <1>6, Zenon DEF Growth
    <3> QED BY ONLY <3>1
  <2> QED BY <1>2, <1>3, <1>4, <1>5, <1>6, <2>1, Zenon DEF Growth
<1>7. CASE flushAll
  <2>1. /\ UNCHANGED <<pc, pid, op, fileLen, numPages, iter, view>> /\ Cached' = Cached
    BY <1>0, <1>7, CachedAfter, Zenon DEF flushAll, flushAllPages, hfVars
  <2>2. \A p \in Page : p \notin Cached => disk'[p] = disk[p]
    BY <1>7, Zenon DEF flushAll, flushAllPages, written
  <2> QED BY <1>0, <2>1, <2>2, Zenon DEF Growth, GrowthThread
<1>8. CASE UNCHANGED vars
  BY <1>0, <1>8, Zenon DEF Growth, GrowthThread, Cached, vars, bpVars, poolVars, fileVars, hfVars
<1> QED BY <1>6, <1>7, <1>8, Steps, Zenon

\* Steps that leave the objects in the cache and the file as they are.
LEMMA SamePages ==
    ASSUME NEW t \in Tid, ThreadStep(t), ~makeRoom(t), ~putPage(t), ~markDirty(t), ~fillSlot(t), ~writePage(t),
           \A p \in Page : ~flushPage(t, p) /\ ~revertPage(t, p), \A x \in Tuple : ~clearSlot(t, x)
    PROVE  UNCHANGED <<pages, disk>>
<1>1. ASSUME Acquire(t) \/ AbortedByLock(t) \/ containsKey(t) \/ readPage(t) \/ getReturns(t)
      PROVE  UNCHANGED pages
  BY ONLY <1>1, Zenon DEF Acquire, AbortedByLock, containsKey, readPage, getReturns, poolVars
<1>2. ASSUME IteratorFails(t) \/ LoopEnds(t) \/ releaseEnds(t) \/ \E p \in Page : releaseNext(t, p)
      PROVE  UNCHANGED pages
  BY ONLY <1>2, Zenon DEF IteratorFails, LoopEnds, releaseEnds, releaseNext, poolVars
<1>3. ASSUME open(t) \/ hasNext(t) \/ readTuples(t) \/ \E p \in Page : deleteTuple(t, p)
      PROVE  UNCHANGED pages
  BY ONLY <1>3, Zenon DEF open, hasNext, nextPage, readTuples, deleteTuple, poolVars
<1>4. ASSUME insertTuple(t) \/ endOfTry(t) \/ GrowRead(t) \/ GrowWrite(t) \/ newPageId(t) \/ tryLast(t)
      PROVE  UNCHANGED pages
  BY ONLY <1>4, Zenon DEF insertTuple, endOfTry, GrowRead, GrowWrite, newPageId, tryLast, poolVars
<1>5. ASSUME commitTransaction(t) \/ abortTransaction(t) PROVE UNCHANGED pages
  BY ONLY <1>5, Zenon DEF commitTransaction, abortTransaction, transactionComplete, poolVars
<1>6. UNCHANGED disk
  BY Changes, Zenon
<1> QED BY <1>1, <1>2, <1>3, <1>4, <1>5, <1>6, Zenon DEF ThreadStep, PoolStep

\* What CleanIsDisk says of page p, when only t may be changing it.
SettledClean(t, p) ==
    p \in Cached /\ pages[p].dirty = NoTid /\ ~(pc[t] \in {"unlockAdded", "mark"} /\ pid[t] = p)
        => pages[p].data = disk[p]

\* Neither eviction nor flushing, nor anything else but a change of its tuples,
\* changes what a scan of a page finds, or makes a page that is not dirty
\* differ from the file.
LEMMA VisibleSame ==
    ASSUME Serial, Types, VInv, NEW t \in Tid, ThreadStep(t), ~fillSlot(t), \A x \in Tuple : ~clearSlot(t, x),
           NEW p \in Page
    PROVE  /\ Visible(p)' = Visible(p)
           /\ SettledClean(t, p)'
<1>0. PoolTypes /\ ThreadTypes /\ RefTypes /\ Orderly /\ Growth /\ VisibleWork /\ CleanIsDisk
  BY Zenon DEF Types, VInv
<1>1. SettledClean(t, p)
  <2>1. SUFFICES ASSUME ~(pc[t] \in {"unlockAdded", "mark"} /\ pid[t] = p)
                 PROVE  p \in Cached /\ pages[p].dirty = NoTid => pages[p].data = disk[p]
    BY Zenon DEF SettledClean
  <2>2. \A u \in Tid : ~(pc[u] \in {"unlockAdded", "mark"} /\ pid[u] = p)
    BY <2>1, NobodyElse, Zenon
  <2> QED BY <1>0, <2>2, Zenon DEF CleanIsDisk
<1>2. CASE makeRoom(t)
  <2>1. pc[t] = "room" /\ UNCHANGED disk
    BY <1>2, Zenon DEF makeRoom, fileVars
  <2>2. CASE pages' = pages
    BY <1>1, <2>1, <2>2, Zenon DEF Visible, Cached, SettledClean
  <2>3. CASE pages' # pages
    <3>1. PICK k \in 1..Len(pageids) :
            /\ pageids[k] \in Page
            /\ pageids[k] \in Cached => ~isDirty(pageids[k])
            /\ pages' = [pages EXCEPT ![pageids[k]] = Absent]
      BY <1>2, <2>3, RoomCases, Zenon DEF poolVars
    <3>2. CASE p # pageids[k]
      BY <1>0, <1>1, <2>1, <3>1, <3>2, Zenon DEF Visible, Cached, SettledClean, PoolTypes
    <3>3. CASE p = pageids[k]
      BY <1>0, <1>1, <2>1, <3>1, <3>3, Zenon DEF Visible, Cached, SettledClean, PoolTypes, isDirty
    <3> QED BY <3>2, <3>3, Zenon
  <2> QED BY <2>2, <2>3, Zenon
<1>3. CASE putPage(t)
  <2>1. /\ pc[t] = "put" /\ pid[t] \in Page /\ UNCHANGED disk
        /\ pages' = [pages EXCEPT ![pid[t]] = Clean(copy[t])]
    BY <1>0, <1>3, Zenon DEF putPage, fileVars, ThreadTypes
  <2>2. pid[t] \notin Cached /\ copy[t] = disk[pid[t]]
    BY <1>0, <2>1, Zenon DEF VInv, RoomIsKept, VisibleWork
  <2>3. CASE p # pid[t]
    BY <1>0, <1>1, <2>1, <2>3, Zenon DEF Visible, Cached, SettledClean, PoolTypes
  <2>4. CASE p = pid[t]
    <3>1. pages'[p] = Clean(disk[p])
      BY <1>0, <2>1, <2>2, <2>4, Zenon DEF PoolTypes
    <3> QED BY <2>1, <2>2, <2>4, <3>1, CleanIsCached, Zenon DEF Visible, Cached, SettledClean
  <2> QED BY <2>3, <2>4, Zenon
<1>4. CASE markDirty(t)
  <2>1. pc[t] = "mark" /\ shared[t] /\ UNCHANGED disk
    BY <1>0, <1>4, Zenon DEF markDirty, fileVars, Orderly, OrderlyThread
  <2>2. pages' = [pages EXCEPT ![pid[t]] = [data |-> pages[pid[t]].data, dirty |-> t]] /\ Cached' = Cached
    BY <1>4, <2>1, ChangeObject, Zenon DEF markDirty
  <2>3. CASE p # pid[t]
    <3>1. pages'[p] = pages[p]
      BY <1>0, <2>2, <2>3, Zenon DEF PoolTypes
    <3>2. p \in Cached /\ pages[p].dirty = NoTid => pages[p].data = disk[p]
      <4>1. \A u \in Tid : ~(pc[u] \in {"unlockAdded", "mark"} /\ pid[u] = p)
        BY <2>3, NobodyElse, Zenon
      <4> QED BY <1>0, <4>1, Zenon DEF CleanIsDisk
    <3> QED BY <2>1, <2>2, <3>1, <3>2 DEF Visible, SettledClean
  <2>4. CASE p = pid[t]
    <3>1. pages'[p].data = pages[p].data /\ pages'[p].dirty = t
      BY <1>0, <2>2, <2>4, Zenon DEF PoolTypes
    <3> QED BY <2>1, <2>2, <3>1, SizeAssumption, Zenon DEF Visible, SettledClean
  <2> QED BY <2>3, <2>4, Zenon
<1>5. CASE writePage(t)
  <2>1. pc[t] = "writeNew" /\ pid[t] = fileLen /\ pid[t] \in Page /\ UNCHANGED pages
    BY <1>0, <1>5, Zenon DEF writePage, Growth, GrowthThread, ThreadTypes, poolVars
  <2>2. disk[pid[t]] = {} /\ disk' = [disk EXCEPT ![pid[t]] = {}]
    <3>1. pid[t] >= fileLen
      BY ONLY <2>1 DEF Page
    <3>2. disk[pid[t]] = {}
      BY <1>0, <2>1, <3>1, Zenon DEF Growth
    <3>3. disk' = [disk EXCEPT ![pid[t]] = {}]
      BY <1>5, Zenon DEF writePage
    <3> QED BY <3>2, <3>3, Zenon
  <2>3. disk' = disk
    BY <1>0, <2>1, <2>2, Zenon DEF PoolTypes
  <2> QED BY <1>1, <2>1, <2>3, Zenon DEF Visible, Cached, SettledClean
<1>6. ASSUME NEW q \in Page, flushPage(t, q)
      PROVE  /\ Visible(p)' = Visible(p)
             /\ SettledClean(t, p)'
  <2>1. pc[t] = "flush" /\ Cached' = Cached
    BY <1>0, <1>6, CachedAfter, Zenon DEF flushPage
  <2>2. CASE p = q /\ holdsLock(t, q) /\ p \in Cached
    <3>1. pages'[p] = Clean(pages[p].data) /\ disk'[p] = IF isDirty(p) THEN pages[p].data ELSE disk[p]
      BY <1>6, <2>2, Zenon DEF flushPage, flushed, written
    <3>2. disk'[p] = pages[p].data
      BY <1>1, <2>1, <2>2, <3>1, Zenon DEF isDirty, SettledClean
    <3> QED BY <2>1, <2>2, <3>1, <3>2, CleanIsCached, Zenon DEF Visible, SettledClean
  <2>3. CASE ~(p = q /\ holdsLock(t, q) /\ p \in Cached)
    <3>1. pages'[p] = pages[p] /\ disk'[p] = disk[p]
      BY <1>6, <2>3, Zenon DEF flushPage, flushed, written
    <3> QED BY <1>1, <2>1, <3>1, Zenon DEF Visible, SettledClean
  <2> QED BY <2>2, <2>3, Zenon
<1>7. ASSUME NEW q \in Page, revertPage(t, q) PROVE FALSE
  BY <1>0, <1>7, Zenon DEF revertPage, Orderly, OrderlyThread
<1>8. CASE UNCHANGED <<pages, disk>> /\ ~markDirty(t)
  <2>1. Visible(p)' = Visible(p)
    BY <1>8, Zenon DEF Visible, Cached, SettledClean
  <2>2. pc[t] # "mark"
    BY <1>8, Moves, Zenon
  <2>3. CASE pc[t] = "unlockAdded"
    <3>1. endOfTry(t)
      BY <2>3, Moves, Zenon
    <3>2. pc'[t] = "mark" /\ pid' = pid
      BY <1>0, <2>3, <3>1, Zenon DEF endOfTry, Goto, ThreadTypes
    <3> QED BY <1>1, <1>8, <2>1, <2>3, <3>2, Zenon DEF Cached, SettledClean
  <2>4. CASE pc[t] # "unlockAdded"
    BY <1>1, <1>8, <2>1, <2>2, <2>4, Zenon DEF Cached, SettledClean
  <2> QED BY <2>1, <2>3, <2>4, Zenon
<1> QED BY <1>2, <1>3, <1>4, <1>5, <1>6, <1>7, <1>8, SamePages, Zenon

\* A change of the tuples of a page is a change of the page that scans find.
LEMMA VisibleChange ==
    ASSUME Serial, Types, VInv, NEW t \in Tid, NEW d \in SUBSET Tuple, shared[t], pid[t] \in Cached, SetData(t, d)
    PROVE  /\ Data(t) = Visible(pid[t]) /\ Cached' = Cached
           /\ \A p \in Page : /\ (IF p \in Cached' THEN pages'[p].data ELSE disk[p])
                                    = IF p = pid[t] THEN d ELSE Visible(p)
                              /\ p # pid[t] => pages'[p] = pages[p]
<1>1. /\ pages' = [pages EXCEPT ![pid[t]] = [data |-> d, dirty |-> pages[pid[t]].dirty]]
      /\ Cached' = Cached
  BY ChangeObject, Zenon DEF SetData
<1> QED BY <1>1, Zenon DEF Data, Visible, Cached, Types, PoolTypes

\* Deleting and inserting tuples does what VisibleWork says, and leaves the
\* page marked, or about to be.
LEMMA VisibleClear ==
    ASSUME Serial, Types, VInv, NEW t \in Tid, NEW x \in Tuple, clearSlot(t, x), NEW p \in Page
    PROVE  Visible(p)' = After(t, p)' /\ SettledClean(t, p)' /\ pc'[t] \notin Releasing
<1>0. PoolTypes /\ ThreadTypes /\ RefTypes /\ FileTypes /\ Orderly /\ VisibleWork /\ CleanIsDisk
  BY Zenon DEF Types, VInv
<1>1. /\ pc[t] = "use" /\ shared[t] /\ pid[t] \in Cached /\ pid[t] \in Page
      /\ UNCHANGED <<disk, committed, pid>>
  BY <1>0, Zenon DEF clearSlot, Orderly, OrderlyThread, RefTypes, Cached, fileVars
<1>2. ThreadStep(t)
  BY Zenon DEF ThreadStep
<1>3. Visible(p) = After(t, p)
  BY <1>0, <1>1, <1>2, MoverRuns, Zenon DEF VisibleWork, VInv, Call, Releasing
<1>4. SettledClean(t, p)
  <2>1. \A u \in Tid : ~(pc[u] \in {"unlockAdded", "mark"})
    BY <1>1, <1>2, NobodyElse, Zenon
  <2> QED BY <1>0, <2>1, Zenon DEF CleanIsDisk, SettledClean
<1>5. CASE x \in Data(t)
  <2>1. /\ SetData(t, Data(t) \ {x}) /\ pc'[t] = "mark"
        /\ work'[t].del = work[t].del \cup {<<pid[t], x>>}
        /\ work'[t].add = work[t].add \ {<<pid[t], x>>}
    BY <1>0, <1>5 DEF clearSlot, Goto, ThreadTypes, FileTypes
  <2>2. /\ Data(t) = Visible(pid[t]) /\ Cached' = Cached
        /\ Visible(p)' = IF p = pid[t] THEN Data(t) \ {x} ELSE Visible(p)
        /\ p # pid[t] => pages'[p] = pages[p]
    <3>1. Data(t) \in SUBSET Tuple /\ t \in Tuple
      BY <1>0, <1>1, Zenon DEF Data, PoolTypes, Objects, Tuple
    <3> DEFINE d == Data(t) \ {x}
    <3>2. d \in SUBSET Tuple /\ SetData(t, d)
      BY <2>1, <3>1, Zenon
    <3> HIDE DEF d
    <3>3. /\ Data(t) = Visible(pid[t]) /\ Cached' = Cached
          /\ (IF p \in Cached' THEN pages'[p].data ELSE disk[p]) = IF p = pid[t] THEN d ELSE Visible(p)
          /\ p # pid[t] => pages'[p] = pages[p]
      BY <1>1, <3>2, VisibleChange, ZenonT(30)
    <3>4. Visible(p)' = IF p \in Cached' THEN pages'[p].data ELSE disk[p]
      BY <1>1, Zenon DEF Visible
    <3> QED BY ONLY <3>3, <3>4, Zenon DEF d
  <2>3. Visible(p)' = After(t, p)'
    <3>1. \A y : /\ <<p, y>> \in work'[t].del <=> <<p, y>> \in work[t].del \/ (p = pid[t] /\ y = x)
                 /\ <<p, y>> \in work'[t].add <=> <<p, y>> \in work[t].add /\ ~(p = pid[t] /\ y = x)
      BY ONLY <2>1, Zenon
    <3>2. ASSUME NEW y PROVE y \in After(t, p)' <=> y \in After(t, p) /\ ~(p = pid[t] /\ y = x)
      <4>1. y \in After(t, p) <=> \/ y \in committed[p] /\ ~(y \in Tuple /\ <<p, y>> \in work[t].del)
                                  \/ y \in Tuple /\ <<p, y>> \in work[t].add
        BY Zenon DEF After
      <4>2. y \in After(t, p)' <=> \/ y \in committed[p] /\ ~(y \in Tuple /\ <<p, y>> \in work'[t].del)
                                   \/ y \in Tuple /\ <<p, y>> \in work'[t].add
        BY <1>1, Zenon DEF After
      <4> QED BY ONLY x \in Tuple, <3>1, <4>1, <4>2, Zenon
    <3>3. \A y : y \in Visible(p)' <=> y \in Visible(p) /\ ~(p = pid[t] /\ y = x)
      BY <2>2, Zenon
    <3> QED BY ONLY <1>3, <3>2, <3>3, Zenon
  <2> QED BY <1>1, <1>4, <2>1, <2>2, <2>3, Zenon DEF SettledClean, Releasing
<1>6. CASE x \notin Data(t)
  <2>1. UNCHANGED <<pages, work>> /\ pc'[t] = "idle"
    BY <1>0, <1>6, Zenon DEF clearSlot, Goto, ThreadTypes
  <2> QED BY <1>1, <1>3, <1>4, <2>1, Zenon DEF Visible, After, Cached, SettledClean, Releasing
<1> QED BY <1>5, <1>6, Zenon

\* addTuple puts the tuple into the page that a scan would find, and into the
\* work of the transaction.
LEMMA VisibleFill ==
    ASSUME Serial, Types, VInv, NEW t \in Tid, fillSlot(t), NEW p \in Page
    PROVE  Visible(p)' = After(t, p)' /\ SettledClean(t, p)' /\ pc'[t] \notin Releasing
<1>0. PoolTypes /\ ThreadTypes /\ RefTypes /\ FileTypes /\ Orderly /\ VisibleWork /\ CleanIsDisk
  BY Zenon DEF Types, VInv
<1>1. /\ pc[t] = "use" /\ shared[t] /\ pid[t] \in Cached /\ pid[t] \in Page
      /\ UNCHANGED <<disk, committed, pid>>
  BY <1>0, Zenon DEF fillSlot, Orderly, OrderlyThread, RefTypes, Cached, fileVars
<1>2. ThreadStep(t)
  BY Zenon DEF ThreadStep
<1>3. Visible(p) = After(t, p)
  BY <1>0, <1>1, <1>2, MoverRuns, Zenon DEF VisibleWork, VInv, Call, Releasing
<1>4. SettledClean(t, p)
  <2>1. \A u \in Tid : ~(pc[u] \in {"unlockAdded", "mark"})
    BY <1>1, <1>2, NobodyElse, Zenon
  <2> QED BY <1>0, <2>1, Zenon DEF CleanIsDisk, SettledClean
<1>5. CASE Cardinality(Data(t)) < Slots
  <2>1. /\ SetData(t, Data(t) \cup {t}) /\ pc'[t] = "unlockAdded"
        /\ work'[t].del = work[t].del
        /\ work'[t].add = work[t].add \cup {<<pid[t], t>>}
    BY <1>0, <1>5 DEF fillSlot, Goto, ThreadTypes, FileTypes
  <2>2. /\ Data(t) = Visible(pid[t]) /\ Cached' = Cached
        /\ Visible(p)' = IF p = pid[t] THEN Data(t) \cup {t} ELSE Visible(p)
        /\ p # pid[t] => pages'[p] = pages[p]
    <3>1. Data(t) \in SUBSET Tuple /\ t \in Tuple
      BY <1>0, <1>1, Zenon DEF Data, PoolTypes, Objects, Tuple
    <3> DEFINE d == Data(t) \cup {t}
    <3>2. d \in SUBSET Tuple /\ SetData(t, d)
      BY <2>1, <3>1, Zenon
    <3> HIDE DEF d
    <3>3. /\ Data(t) = Visible(pid[t]) /\ Cached' = Cached
          /\ (IF p \in Cached' THEN pages'[p].data ELSE disk[p]) = IF p = pid[t] THEN d ELSE Visible(p)
          /\ p # pid[t] => pages'[p] = pages[p]
      BY <1>1, <3>2, VisibleChange, Zenon
    <3>4. Visible(p)' = IF p \in Cached' THEN pages'[p].data ELSE disk[p]
      BY <1>1, Zenon DEF Visible
    <3> QED BY ONLY <3>3, <3>4, Zenon DEF d
  <2>3. Visible(p)' = After(t, p)'
    <3>1. \A y : /\ <<p, y>> \in work'[t].del <=> <<p, y>> \in work[t].del
                 /\ <<p, y>> \in work'[t].add <=> <<p, y>> \in work[t].add \/ (p = pid[t] /\ y = t)
      BY ONLY <2>1, Zenon
    <3>0. t \in Tuple
      BY Zenon DEF Tuple
    <3>2. ASSUME NEW y PROVE y \in After(t, p)' <=> y \in After(t, p) \/ (p = pid[t] /\ y = t)
      <4>1. y \in After(t, p) <=> \/ y \in committed[p] /\ ~(y \in Tuple /\ <<p, y>> \in work[t].del)
                                  \/ y \in Tuple /\ <<p, y>> \in work[t].add
        BY Zenon DEF After
      <4>2. y \in After(t, p)' <=> \/ y \in committed[p] /\ ~(y \in Tuple /\ <<p, y>> \in work'[t].del)
                                   \/ y \in Tuple /\ <<p, y>> \in work'[t].add
        BY <1>1, Zenon DEF After
      <4> QED BY ONLY <3>0, <3>1, <4>1, <4>2, Zenon
    <3>3. \A y : y \in Visible(p)' <=> y \in Visible(p) \/ (p = pid[t] /\ y = t)
      BY <2>2, Zenon
    <3> QED BY ONLY <1>3, <3>2, <3>3, Zenon
  <2> QED BY <1>1, <1>4, <2>1, <2>2, <2>3, Zenon DEF SettledClean, Releasing
<1>6. CASE ~(Cardinality(Data(t)) < Slots)
  <2>1. UNCHANGED <<pages, work>> /\ pc'[t] = "unlockFull"
    BY <1>0, <1>6, Zenon DEF fillSlot, Goto, ThreadTypes
  <2> QED BY <1>1, <1>3, <1>4, <2>1, Zenon DEF Visible, After, Cached, SettledClean, Releasing
<1> QED BY <1>5, <1>6, Zenon

\* A cached page that is not dirty has what the file has.
LEMMA CleanIsDiskStep ==
    ASSUME Serial, Types, VInv, [Next]_vars
    PROVE  CleanIsDisk'
<1>1. ASSUME NEW t \in Tid, ThreadStep(t) PROVE CleanIsDisk'
  <2>1. \A p \in Page : SettledClean(t, p)'
    BY <1>1, VisibleSame, VisibleFill, VisibleClear, Zenon
  <2>2. Cached' \subseteq Page
    BY Zenon DEF Cached
  <2> QED BY <2>1, <2>2, Zenon DEF CleanIsDisk, SettledClean
<1>2. CASE flushAll
  <2>1. \A p \in Page : p \in Cached /\ pages[p].dirty = NoTid => pages[p].data = disk[p]
    <3>1. \A t \in Tid : pc[t] \notin {"unlockAdded", "mark"}
      BY <1>2, SMTT(30) DEF flushAll, Running, Ended, VInv, OneRuns, Types, FileTypes
    <3> QED BY <3>1, Zenon DEF VInv, CleanIsDisk
  <2>2. \A p \in Page : /\ pages'[p] = IF p \in Cached THEN Clean(pages[p].data) ELSE pages[p]
                        /\ disk'[p] = IF p \in Cached /\ isDirty(p) THEN pages[p].data ELSE disk[p]
    BY <1>2, Zenon DEF flushAll, flushAllPages, flushed, written
  <2>3. ASSUME NEW p \in Page, p \in Cached' PROVE pages'[p].data = disk'[p]
    <3>1. p \in Cached
      BY <2>2, <2>3, Zenon DEF Cached
    <3> QED BY <2>1, <2>2, <3>1, CleanIsCached, Zenon DEF isDirty
  <2>4. Cached' \subseteq Page
    BY Zenon DEF Cached
  <2> QED BY <2>3, <2>4, Zenon DEF CleanIsDisk
<1>3. CASE UNCHANGED vars
  BY <1>3, Zenon DEF vars, bpVars, poolVars, fileVars, VInv, CleanIsDisk, Cached
<1> QED BY <1>1, <1>2, <1>3, Steps, Zenon

\* No step but a change of tuples and the end of a commit touches the history.
LEMMA SameHistory ==
    ASSUME NEW t \in Tid, ThreadStep(t), ~fillSlot(t), \A x \in Tuple : ~clearSlot(t, x)
    PROVE  work' = work /\ (~LoopEnds(t) => committed' = committed)
<1>1. ASSUME \/ Acquire(t) \/ AbortedByLock(t) \/ containsKey(t) \/ makeRoom(t) \/ readPage(t) \/ putPage(t)
             \/ getReturns(t) \/ markDirty(t) \/ IteratorFails(t) \/ releaseEnds(t)
      PROVE  UNCHANGED <<work, committed>>
  BY ONLY <1>1, Zenon DEF Acquire, AbortedByLock, containsKey, makeRoom, readPage, putPage, getReturns, markDirty,
     IteratorFails, releaseEnds, histVars
<1>2. ASSUME NEW p \in Page, flushPage(t, p) \/ revertPage(t, p) \/ releaseNext(t, p)
      PROVE  UNCHANGED <<work, committed>>
  BY ONLY <1>2, Zenon DEF flushPage, revertPage, releaseNext, histVars
<1>3. ASSUME LoopEnds(t) PROVE UNCHANGED work
  BY ONLY <1>3, Zenon DEF LoopEnds
<1>4. ASSUME open(t) \/ hasNext(t) \/ readTuples(t) \/ insertTuple(t) \/ \E p \in Page : deleteTuple(t, p)
      PROVE  UNCHANGED <<work, committed>>
  BY ONLY <1>4, Zenon DEF open, hasNext, nextPage, readTuples, deleteTuple, insertTuple, histVars
<1>5. ASSUME endOfTry(t) \/ GrowRead(t) \/ GrowWrite(t) \/ newPageId(t) \/ writePage(t) \/ tryLast(t)
      PROVE  UNCHANGED <<work, committed>>
  BY ONLY <1>5, Zenon DEF endOfTry, GrowRead, GrowWrite, newPageId, writePage, tryLast, histVars
<1>6. ASSUME commitTransaction(t) \/ abortTransaction(t) PROVE UNCHANGED <<work, committed>>
  BY ONLY <1>6, Zenon DEF commitTransaction, abortTransaction, transactionComplete, histVars
<1> QED BY <1>1, <1>2, <1>3, <1>4, <1>5, <1>6, Zenon DEF ThreadStep, PoolStep

\* VisibleWork for the thread that moves.
LEMMA VisibleOwn ==
    ASSUME Serial, Types, VInv, NEW t \in Tid, ThreadStep(t), Orderly'
    PROVE  /\ Running(t)' /\ pc'[t] \notin Releasing => \A p \in Page : Visible(p)' = After(t, p)'
           /\ pc'[t] \in Releasing => \A p \in Page : Visible(p)' = committed'[p]
           /\ ~Running(t)' => \A p \in Page : Visible(p)' = committed'[p]
<1>0. ThreadTypes /\ FileTypes /\ PoolTypes /\ OneRuns /\ Orderly /\ VisibleWork
  BY Zenon DEF Types, VInv
<1>1. /\ ~Ended(t)
      /\ Call(t) \/ (Running(t) /\ calls'[t] = calls[t])
  BY <1>0, MoverRuns, Zenon
<1>2. pc[t] \notin Releasing => \A p \in Page : Visible(p) = After(t, p)
  <2>1. CASE Running(t)
    BY <1>0, <2>1, Zenon DEF VisibleWork
  <2>2. CASE ~Running(t)
    <3>0. calls[t] = 0
      <4>1. calls[t] \in Nat
        BY <1>0, Zenon DEF FileTypes
      <4>2. ~(calls[t] > 0)
        BY <1>1, <2>2, Zenon DEF Running
      <4> QED BY ONLY <4>1, <4>2
    <3>1. work[t] = [del |-> {}, add |-> {}]
      BY <1>0, <3>0, Zenon DEF VisibleWork
    <3>2. \A u \in Tid : ~Running(u)
      BY <1>0, <2>2, Alone, Zenon
    <3>3. \A p \in Page : Visible(p) = committed[p]
      BY <1>0, <3>2, Zenon DEF VisibleWork
    <3>4. work[t].del = {} /\ work[t].add = {}
      BY ONLY <3>1
    <3>5. \A p : After(t, p) = committed[p]
      BY ONLY <3>4, Zenon DEF After
    <3> QED BY <3>3, <3>5, Zenon
  <2> QED BY <2>1, <2>2, Zenon
<1>3. ~Ended(t)' => Running(t)'
  <2>1. CASE Call(t)
    <3>1. calls' = [calls EXCEPT ![t] = calls[t] + 1]
      BY <2>1, Zenon DEF Call
    <3>2. calls \in [Tid -> Nat]
      BY <1>0, Zenon DEF FileTypes
    <3>3. calls'[t] > 0
      BY ONLY <3>1, <3>2, t \in Tid
    <3> QED BY <3>3, Zenon DEF Running
  <2>2. CASE Running(t) /\ calls'[t] = calls[t]
    BY <2>2, Zenon DEF Running
  <2> QED BY <1>1, <2>1, <2>2, Zenon
<1>4. CASE fillSlot(t)
  <2>1. pc'[t] \in {"unlockAdded", "unlockFull"}
    BY <1>0, <1>4, Zenon DEF fillSlot, Goto, ThreadTypes
  <2>2. Running(t)' /\ pc'[t] \notin Releasing
    BY <1>3, <2>1, Zenon DEF Ended, Releasing
  <2> QED BY <1>4, <2>2, VisibleFill, Zenon
<1>5. ASSUME NEW x \in Tuple, clearSlot(t, x)
      PROVE  Running(t)' /\ pc'[t] \notin Releasing /\ \A p \in Page : Visible(p)' = After(t, p)'
  <2>1. pc'[t] \in {"mark", "idle"}
    BY <1>0, <1>5, Zenon DEF clearSlot, Goto, ThreadTypes
  <2>2. Running(t)' /\ pc'[t] \notin Releasing
    BY <1>3, <2>1, Zenon DEF Ended, Releasing
  <2> QED BY <1>5, <2>2, VisibleClear, Zenon
<1>6. CASE ~fillSlot(t) /\ \A x \in Tuple : ~clearSlot(t, x)
  <2>1. work' = work /\ \A p \in Page : Visible(p)' = Visible(p)
    BY <1>6, SameHistory, VisibleSame, Zenon
  <2>2. CASE LoopEnds(t)
    <3>1. pc[t] = "flush" /\ pc'[t] = "committing" /\ committed' = [p \in Page |-> After(t, p)]
      BY <1>0, <2>2, Zenon DEF LoopEnds, Goto, Orderly, OrderlyThread, ThreadTypes, After
    <3>2. \A p \in Page : Visible(p)' = committed'[p]
      BY <1>2, <2>1, <3>1, Zenon DEF Releasing
    <3>3. Running(t)'
      BY <1>3, <3>1, Zenon DEF Ended
    <3> QED BY <3>1, <3>2, <3>3, Zenon DEF Releasing
  <2>3. CASE ~LoopEnds(t)
    <3>1. committed' = committed /\ \A p \in Page : After(t, p)' = After(t, p)
      BY <1>6, <2>1, <2>3, SameHistory, Zenon DEF After
    <3>2. CASE pc[t] \in Releasing
      <4>1. \A p \in Page : Visible(p)' = committed'[p]
        BY <1>0, <2>1, <3>1, <3>2, Zenon DEF VisibleWork
      <4>2. pc'[t] \in Releasing \/ Ended(t)'
        <5>1. releaseEnds(t) \/ \E p \in Page : releaseNext(t, p)
          BY <3>2, Moves, Zenon
        <5> QED BY <1>0, <3>2, <5>1, Zenon DEF releaseEnds, releaseNext, Goto, Ended, ThreadTypes
      <4> QED BY <4>1, <4>2, Zenon DEF Running
    <3>3. CASE pc[t] \notin Releasing
      <4>1. pc'[t] \notin Releasing /\ ~Ended(t)'
        <5>1. ~releaseEnds(t) /\ \A p \in Page : ~releaseNext(t, p)
          BY <3>3, Zenon DEF releaseEnds, releaseNext, Releasing
        <5>2. pc'[t] \notin Releasing \cup {"committed"}
          BY <2>3, <5>1, Moves, Zenon
        <5> QED BY <5>2, Zenon DEF Orderly, OrderlyThread, Ended
      <4>2. Running(t)'
        BY <1>3, <4>1, Zenon
      <4> QED BY <1>2, <2>1, <3>1, <3>3, <4>1, <4>2, Zenon
    <3> QED BY <3>2, <3>3, Zenon
  <2> QED BY <2>2, <2>3, Zenon
<1> QED BY <1>4, <1>5, <1>6, Zenon

\* What a scan would find follows the work of the one transaction that runs.
LEMMA VisibleStep ==
    ASSUME Serial, Types, VInv, [Next]_vars, Orderly'
    PROVE  VisibleWork'
<1>0. ThreadTypes /\ FileTypes /\ PoolTypes /\ OneRuns /\ VisibleWork
  BY Zenon DEF Types, VInv
<1>1. ASSUME NEW t \in Tid, ThreadStep(t) PROVE VisibleWork'
  <2>1. ASSUME NEW u \in Tid, u # t
        PROVE  /\ ~Running(u)' /\ pc'[u] \in {"idle", "committed"}
               /\ calls'[u] = 0 => work'[u] = [del |-> {}, add |-> {}]
    <3>1. UNCHANGED <<calls[u], work[u], pc[u]>> /\ ~Running(u)'
      BY <1>0, <1>1, <2>1, Alone, Zenon
    <3>2. pc[u] \in {"idle", "committed"}
      BY <1>1, <2>1, NobodyElse, Zenon
    <3> QED BY <1>0, <3>1, <3>2, Zenon DEF VisibleWork
  <2>2. calls'[t] # 0
    BY <1>0, <1>1, MoverRuns, SMTT(30) DEF Call, Running, FileTypes
  <2>3. pc'[t] = "put" => copy'[t] = disk'[pid'[t]]
    <3>1. SUFFICES ASSUME pc'[t] = "put" PROVE copy'[t] = disk'[pid'[t]]
      BY Zenon
    <3>3. readPage(t)
      BY <1>1, <3>1, Moves, Zenon
    <3> QED BY <1>0, <3>3, Zenon DEF readPage, fileVars, ThreadTypes
  <2>4. /\ Running(t)' /\ pc'[t] \notin Releasing => \A p \in Page : Visible(p)' = After(t, p)'
        /\ pc'[t] \in Releasing => \A p \in Page : Visible(p)' = committed'[p]
        /\ ~Running(t)' => \A p \in Page : Visible(p)' = committed'[p]
    BY <1>1, VisibleOwn, Zenon
  <2>5. ASSUME NEW u \in Tid
        PROVE  /\ calls'[u] = 0 => work'[u] = [del |-> {}, add |-> {}]
               /\ Running(u)' /\ pc'[u] \notin Releasing => \A p \in Page : Visible(p)' = After(u, p)'
               /\ pc'[u] \in Releasing => \A p \in Page : Visible(p)' = committed'[p]
               /\ pc'[u] = "put" => copy'[u] = disk'[pid'[u]]
    BY <2>1, <2>2, <2>3, <2>4, Zenon DEF Releasing
  <2> QED BY <2>4, <2>5, Zenon DEF VisibleWork
<1>2. CASE flushAll
  <2>1. \A t \in Tid : ~Running(t) /\ pc[t] \notin Releasing \cup {"put"}
    BY <1>0, <1>2, SMTT(30) DEF flushAll, Running, Ended, OneRuns, FileTypes, Releasing
  <2>2. \A p \in Page : Visible(p) = committed[p]
    BY <1>0, <2>1, Zenon DEF VisibleWork
  <2>3. UNCHANGED <<committed, work, pc, calls>>
    BY <1>2, Zenon DEF flushAll, flushAllPages, histVars, hfVars
  <2>4. ASSUME NEW p \in Page PROVE Visible(p)' = Visible(p)
    <3>1. /\ pages'[p] = IF p \in Cached THEN Clean(pages[p].data) ELSE pages[p]
          /\ disk'[p] = IF p \in Cached /\ isDirty(p) THEN pages[p].data ELSE disk[p]
      BY <1>2, Zenon DEF flushAll, flushAllPages, flushed, written
    <3> QED BY <3>1, CleanIsCached, Zenon DEF Visible, Cached
  <2>5. \A t \in Tid : Running(t)' = Running(t)
    BY <2>3, Zenon DEF Running, Ended
  <2>6. \A p \in Page : Visible(p)' = committed'[p]
    BY <2>2, <2>3, <2>4, Zenon
  <2> QED BY <1>0, <2>1, <2>3, <2>5, <2>6, Zenon DEF VisibleWork
<1>3. CASE UNCHANGED vars
  <2>1. UNCHANGED <<pages, disk, committed, work, pc, pid, calls, copy>>
    BY <1>3, Zenon DEF vars, bpVars, poolVars, fileVars, histVars, hfVars, refVars
  <2>2. /\ \A p \in Page : Visible(p)' = Visible(p)
        /\ \A t \in Tid, p \in Page : After(t, p)' = After(t, p)
    BY <2>1, Zenon DEF Visible, After, Cached
  <2>3. \A t \in Tid : Running(t)' <=> Running(t)
    BY <2>1, Zenon DEF Running, Ended
  <2> QED BY <1>0, <2>1, <2>2, <2>3, Zenon DEF VisibleWork
<1> QED BY <1>1, <1>2, <1>3, Steps, Zenon

\* The invariant holds of an empty pool over a file that has a page.
LEMMA VInvInit ==
    ASSUME InitPages > 0
    PROVE  Init => VInv
<1> SUFFICES ASSUME Init PROVE VInv
  BY Zenon
<1>1. Cached = {} /\ pageids = <<>>
  BY Zenon DEF Init, InitPool, Cached
<1>2. OneRuns
  BY OneRunsInit, Zenon
<1>3. PoolIsExact /\ RoomIsKept /\ CleanIsDisk
  <2>1. pc = [t \in Tid |-> "idle"]
    BY Zenon DEF Init, InitPool
  <2>2. CleanIsDisk
    BY <1>1, Zenon DEF CleanIsDisk
  <2>3. RoomIsKept
    BY <1>1, <2>1, SizeAssumption, Zenon DEF RoomIsKept
  <2>4. PoolIsExact
    BY <1>1, <2>1, SizeAssumption DEF PoolIsExact
  <2> QED BY <2>2, <2>3, <2>4, Zenon
<1>4. Orderly
  <2>1. ASSUME NEW t \in Tid PROVE OrderlyThread(t)
    <3>1. pc[t] = "idle" /\ stale[t] = FALSE
      BY Zenon DEF Init, InitPool
    <3>2. ASSUME NEW p \in Page PROVE held[t][p] = 0 /\ ~Locks!Holds(t, p)
      BY SizeAssumption, Zenon DEF Init, InitPool, Locks!Holds
    <3>3. 0 >= 0
      OBVIOUS
    <3> QED BY <3>1, <3>2, <3>3, Zenon DEF OrderlyThread, Releasing, Asking
  <2> QED BY <2>1, Zenon DEF Orderly
<1>5. Growth
  <2>1. ASSUME NEW t \in Tid PROVE GrowthThread(t)
    <3>1. pc[t] = "idle" /\ view[t] = {} /\ iter[t] = [cur |-> 0, count |-> 0, more |-> FALSE]
      BY Zenon DEF Init, InitPool
    <3>2. ~iter[t].more
      BY ONLY <3>1
    <3> QED BY <3>1, <3>2, Zenon DEF GrowthThread, Asking
  <2>2. fileLen = InitPages /\ numPages = fileLen
    BY Zenon DEF Init, InitPool
  <2>3. ASSUME NEW p \in Page, p >= fileLen PROVE disk[p] = {}
    <3>0. InitPages \in Nat /\ p \in Int
      BY ONLY SizeAssumption, p \in Page DEF Page
    <3>1. ~(p < InitPages)
      BY ONLY <2>2, <2>3, <3>0
    <3> QED BY <3>1, Zenon DEF Init, InitPool
  <2> QED BY <1>1, <2>1, <2>2, <2>3, Zenon DEF Growth
<1>6. VisibleWork
  BY <1>1, Zenon DEF Init, InitPool, VisibleWork, Visible, After, Running, Releasing
<1> QED BY <1>2, <1>3, <1>4, <1>5, <1>6, Zenon DEF VInv

\* Of transactions that run one after another, whatever they scan, delete and
\* insert, and that all commit: between them, what a scan finds on a page is
\* what was committed, although pages that insertTuple has changed may still
\* be dirty in the pool, their lock given up before commit could flush them
\* (CommittedVisible).  The file has a page at first: a scan of an empty file
\* ends in an exception (readPage) with a lock held.
THEOREM CommittedVisibleHolds ==
    ASSUME Serial, "abort" \notin Outcomes, InitPages > 0
    PROVE  Spec => []CommittedVisible
<1>1. Init => Types /\ VInv
  BY TypesInit, VInvInit, Zenon
<1>2. Types /\ VInv /\ [Next]_vars => (Types /\ VInv)'
  <2> SUFFICES ASSUME Types, VInv, [Next]_vars PROVE Types' /\ VInv'
    BY Zenon
  <2>1. Types'
    BY TypesStep, Zenon
  <2>2. OneRuns'
    BY OneRunsStep, Zenon DEF VInv
  <2>3. PoolIsExact' /\ RoomIsKept'
    BY PoolIsExactStep, Zenon DEF VInv
  <2>4. Orderly' /\ Growth'
    BY OrderlyStep, GrowthStep, Zenon
  <2>5. VisibleWork' /\ CleanIsDisk'
    BY <2>4, VisibleStep, CleanIsDiskStep, Zenon
  <2> QED BY <2>1, <2>2, <2>3, <2>4, <2>5, Zenon DEF VInv
<1>3. VInv => CommittedVisible
  BY Zenon DEF VInv, VisibleWork, Visible, CommittedVisible
<1> QED BY <1>1, <1>2, <1>3, PTL DEF Spec
=============================================================================
