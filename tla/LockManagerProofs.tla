------------------------- MODULE LockManagerProofs -------------------------
(***************************************************************************)
(* Proofs about LockManager, for any finite set of transactions, any set   *)
(* of pages and any number of requests.                                    *)
(***************************************************************************)
EXTENDS LockManager, FiniteSetTheorems, WellFoundedInduction, TLAPS

-----------------------------------------------------------------------------
(* The waits-for graph *)

\* A set of transactions that the edges of E do not leave.
Closed(E, S) == \A e \in E : e[1] \in S => e[2] \in S

\* What is reachable from a contains a and is left by no edge.
LEMMA DescendantsClosed ==
    ASSUME NEW E \in SUBSET (Tid \X Tid), NEW a \in Tid
    PROVE  /\ Descendants(E, a) \subseteq Tid
           /\ a \in Descendants(E, a)
           /\ Closed(E, Descendants(E, a))
BY Zenon DEF Descendants, Closed

\* What is reachable from a is in every closed set that contains a.
LEMMA DescendantsLeast ==
    ASSUME NEW E, NEW a, NEW S \in SUBSET Tid, a \in S, Closed(E, S)
    PROVE  Descendants(E, a) \subseteq S
BY Zenon DEF Descendants, Closed

\* Reachability is transitive along one edge.
LEMMA DescendantsStep ==
    ASSUME NEW E \in SUBSET (Tid \X Tid), NEW a \in Tid, NEW b \in Tid,
           NEW c \in Tid, <<b, c>> \in E, b \in Descendants(E, a)
    PROVE  Descendants(E, c) \subseteq Descendants(E, a)
<1>1. c \in Descendants(E, a) /\ Closed(E, Descendants(E, a))
  <2>1. Closed(E, Descendants(E, a))
    BY DescendantsClosed, Zenon
  <2> QED
    BY <2>1, Zenon DEF Closed
<1>2. Descendants(E, a) \in SUBSET Tid
  BY Zenon DEF Descendants
<1> QED
  BY <1>1, <1>2, DescendantsLeast, Zenon

\* Removing edges (removeDeps, removeVertex) keeps the graph acyclic.
LEMMA AcyclicSubset ==
    ASSUME NEW E \in SUBSET (Tid \X Tid), NEW F \in SUBSET E, Acyclic(E)
    PROVE  Acyclic(F)
<1> SUFFICES ASSUME NEW e \in F PROVE e[1] \notin Descendants(F, e[2])
  BY Zenon DEF Acyclic
<1>1. e[2] \in Tid /\ e[1] \notin Descendants(E, e[2])
  BY Zenon DEF Acyclic
<1>2. Closed(F, Descendants(E, e[2])) /\ e[2] \in Descendants(E, e[2])
  BY <1>1, DescendantsClosed, Zenon DEF Closed
<1>3. Descendants(E, e[2]) \in SUBSET Tid
  BY Zenon DEF Descendants
<1>4. Descendants(F, e[2]) \subseteq Descendants(E, e[2])
  BY <1>2, <1>3, DescendantsLeast
<1> QED
  BY <1>1, <1>4, Zenon

\* A set that t is not in stays closed when edges from t are added.
LEMMA UnreachedStaysClosed ==
    ASSUME NEW E \in SUBSET (Tid \X Tid), NEW t \in Tid, NEW D \in SUBSET Tid,
           NEW b \in Tid, t \notin Descendants(E, b)
    PROVE  Descendants(addDeps(E, t, D), b) \subseteq Descendants(E, b)
<1>1. Closed(E, Descendants(E, b)) /\ b \in Descendants(E, b)
  BY DescendantsClosed, Zenon
<1>2. Closed(addDeps(E, t, D), Descendants(E, b))
  BY <1>1 DEF Closed, addDeps
<1>3. Descendants(E, b) \in SUBSET Tid
  BY Zenon DEF Descendants
<1> QED
  BY <1>1, <1>2, <1>3, DescendantsLeast, Zenon

\* addDagEdge keeps the graph acyclic when it finds no cycle.
LEMMA AcyclicAddDeps ==
    ASSUME NEW E \in SUBSET (Tid \X Tid), NEW t \in Tid, NEW D \in SUBSET Tid,
           Acyclic(E), ~CycleFound(E, t, D)
    PROVE  Acyclic(addDeps(E, t, D))
<1> DEFINE F == addDeps(E, t, D)
           N == D \ {t}
<1>1. \A d \in N : t \notin Descendants(E, d)
  BY Zenon DEF Acyclic, CycleFound
<1> SUFFICES ASSUME NEW e \in F PROVE e[1] \notin Descendants(F, e[2])
  BY Zenon DEF Acyclic
<1>2. e[1] \in Tid /\ e[2] \in Tid /\ e = <<e[1], e[2]>>
  BY DEF addDeps
<1>3. CASE t \notin Descendants(E, e[2])
  <2>1. Descendants(F, e[2]) \subseteq Descendants(E, e[2])
    BY <1>2, <1>3, UnreachedStaysClosed, Zenon
  <2>2. CASE e \in E
    BY <2>1, <2>2, Zenon DEF Acyclic
  <2>3. CASE e \notin E
    <3>1. e[1] = t
      BY <2>3 DEF addDeps
    <3> QED
      BY <3>1, <2>1, <1>3, Zenon
  <2> QED
    BY <2>2, <2>3, Zenon
<1>4. CASE t \in Descendants(E, e[2])
  <2> DEFINE S == Descendants(E, e[2]) \cup UNION {Descendants(E, d) : d \in N}
  <2>1. e \in E
    <3>1. ASSUME e \notin E PROVE FALSE
      <4>1. e[2] \in N
        BY <3>1 DEF addDeps
      <4> QED
        BY <4>1, <1>1, <1>4, Zenon
    <3> QED
      BY <3>1, Zenon
  <2>2. S \in SUBSET Tid
    BY Zenon DEF Descendants
  <2>3. e[2] \in S
    BY <1>2, DescendantsClosed, Zenon
  <2>4. Closed(F, S)
    <3> SUFFICES ASSUME NEW f \in F, f[1] \in S PROVE f[2] \in S
      BY Zenon DEF Closed
    <3>1. CASE f \in E
      <4>1. CASE f[1] \in Descendants(E, e[2])
        BY <3>1, <4>1, <1>2, DescendantsClosed, Zenon DEF Closed
      <4>2. CASE \E d \in N : f[1] \in Descendants(E, d)
        <5>1. PICK d \in N : f[1] \in Descendants(E, d)
          BY <4>2, Zenon
        <5>2. f[2] \in Descendants(E, d)
          BY <5>1, <3>1, DescendantsClosed, Zenon DEF Closed
        <5> QED
          BY <5>2, Zenon
      <4> QED
        BY <4>1, <4>2, Zenon
    <3>2. CASE f \notin E
      <4>1. f[2] \in N
        BY <3>2 DEF addDeps
      <4>2. f[2] \in Descendants(E, f[2])
        BY <4>1, DescendantsClosed, Zenon
      <4> QED
        BY <4>1, <4>2, Zenon
    <3> QED
      BY <3>1, <3>2, Zenon
  <2>5. Descendants(F, e[2]) \subseteq S
    BY <2>2, <2>3, <2>4, DescendantsLeast
  <2>6. e[1] \notin Descendants(E, e[2])
    BY <2>1, Zenon DEF Acyclic
  <2>7. \A d \in N : e[1] \notin Descendants(E, d)
    <3> SUFFICES ASSUME NEW d \in N, e[1] \in Descendants(E, d) PROVE FALSE
      BY Zenon
    <3>1. Descendants(E, e[2]) \subseteq Descendants(E, d)
      BY <1>2, <2>1, DescendantsStep
    <3> QED
      BY <3>1, <1>4, <1>1, Zenon
  <2> QED
    BY <2>5, <2>6, <2>7, Zenon
<1> QED
  BY <1>3, <1>4, Zenon

\* Every non-empty set of numbers has a least element.
LEMMA LeastNumber ==
    ASSUME NEW T \in SUBSET Nat, T # {}
    PROVE  \E k \in T : \A n \in T : k <= n
<1>1. PICK k \in T : \A n \in T : ~(<<n, k>> \in OpToRel(<, Nat))
  BY NatLessThanWellFounded, WFMin, Zenon
<1>2. \A n \in T : ~(n < k)
  BY <1>1, Zenon DEF OpToRel
<1> QED
  BY <1>2

\* Among finitely many waiters of an acyclic graph, one has no edge to
\* another: the one from which the fewest transactions can be reached.
LEMMA AcyclicHasSink ==
    ASSUME NEW E \in SUBSET (Tid \X Tid), Acyclic(E),
           NEW W \in SUBSET Tid, W # {}
    PROVE  \E t \in W : \A u \in W : <<t, u>> \notin E
<1> DEFINE m(x) == Cardinality(Descendants(E, x))
           T == {m(x) : x \in W}
<1>1. \A x \in W : IsFiniteSet(Descendants(E, x)) /\ m(x) \in Nat
  BY TidAssumption, DescendantsClosed, FS_Subset, FS_CardinalityType, Zenon
<1>2. T \in SUBSET Nat /\ T # {}
  BY <1>1, Zenon
<1> HIDE DEF T
<1>3. PICK k \in T : \A n \in T : k <= n
  BY <1>2, LeastNumber, Zenon
<1>4. PICK t \in W : k = m(t)
  BY <1>3, Zenon DEF T
<1>5. ASSUME NEW u \in W, <<t, u>> \in E PROVE FALSE
  <2>1. Descendants(E, u) \subseteq Descendants(E, t)
    BY <1>5, DescendantsClosed, DescendantsStep, Zenon
  <2>2. t \in Descendants(E, t) /\ t \notin Descendants(E, u)
    BY <1>5, DescendantsClosed, Zenon DEF Acyclic
  <2>3. m(u) <= m(t) /\ m(u) # m(t)
    BY <1>1, <2>1, <2>2, FS_Subset, Zenon
  <2>4. m(t) <= m(u)
    BY <1>3, <1>4, Zenon DEF T
  <2> QED
    BY <1>1, <2>3, <2>4
<1> QED
  BY <1>5, Zenon

-----------------------------------------------------------------------------
(* The inductive invariant, action by action *)

\* A new LockManager satisfies the invariant.
LEMMA InitIInv == Init => IInv
<1> SUFFICES ASSUME Init PROVE IInv
  BY Zenon
<1> USE TidAssumption, PageAssumption DEF Init
<1>1. TypeOK
  BY Zenon DEF TypeOK, PCs, Request, NoRequest, Permissions
<1>2. CallsNamePages /\ WriterExcludesReaders /\ CompletedHoldsNothing
  BY Zenon DEF CallsNamePages, WriterExcludesReaders, CompletedHoldsNothing
<1>3. LocksAreRecorded
  BY Zenon DEF LocksAreRecorded, Holds, hasReadPermissions
<1>4. Acyclic(dependency) /\ WaiterKnowsABlocker
  BY Zenon DEF Acyclic, WaiterKnowsABlocker
<1> QED
  BY <1>1, <1>2, <1>3, <1>4, Zenon DEF IInv

\* Calling acquireLock preserves the invariant.
LEMMA AcquireKeepsIInv ==
    ASSUME IInv, NEW t \in Tid, NEW p \in PageId, NEW perm \in Permissions,
           acquireLock(t, p, perm)
    PROVE  IInv'
<1> USE DEF IInv, acquireLock
<1>1. TypeOK'
  BY DEF TypeOK, PCs, Request
<1>2. CallsNamePages' /\ WriterExcludesReaders' /\ Acyclic(dependency)'
  BY Zenon DEF TypeOK, CallsNamePages, WriterExcludesReaders, Acyclic, Descendants
<1>3. LocksAreRecorded' /\ CompletedHoldsNothing'
  BY DEF TypeOK, LocksAreRecorded, CompletedHoldsNothing, Holds,
         hasReadPermissions, holdsLock
<1>4. WaiterKnowsABlocker'
  BY Zenon DEF TypeOK, WaiterKnowsABlocker, Holds, hasReadPermissions
<1> QED
  BY <1>1, <1>2, <1>3, <1>4, Zenon

\* Returning from wait() without a notification preserves the invariant.
LEMMA WakeupKeepsIInv ==
    ASSUME IInv, NEW t \in Tid, SpuriousWakeup(t)
    PROVE  IInv'
<1> USE DEF IInv, SpuriousWakeup
<1>1. TypeOK'
  BY Zenon DEF TypeOK, PCs
<1>2. CallsNamePages' /\ WriterExcludesReaders' /\ Acyclic(dependency)'
  BY Zenon DEF TypeOK, CallsNamePages, WriterExcludesReaders, Acyclic, Descendants
<1>3. LocksAreRecorded' /\ CompletedHoldsNothing'
  BY DEF TypeOK, LocksAreRecorded, CompletedHoldsNothing, Holds,
         hasReadPermissions, holdsLock
<1>4. WaiterKnowsABlocker'
  BY Zenon DEF TypeOK, WaiterKnowsABlocker, Holds, hasReadPermissions
<1> QED
  BY <1>1, <1>2, <1>3, <1>4, Zenon

\* The last lines of acquireLock preserve the invariant.
LEMMA AddHeldPageKeepsIInv ==
    ASSUME IInv, NEW t \in Tid, AddHeldPage(t)
    PROVE  IInv'
<1> USE DEF IInv, AddHeldPage
<1>0. req[t].pid \in PageId
  BY Zenon DEF TypeOK, CallsNamePages
<1>1. TypeOK'
  BY <1>0, PageAssumption DEF TypeOK, PCs, Request, NoRequest, Permissions
<1>2. CallsNamePages' /\ WriterExcludesReaders' /\ Acyclic(dependency)'
  BY Zenon DEF TypeOK, CallsNamePages, WriterExcludesReaders, Acyclic, Descendants
<1>3. LocksAreRecorded' /\ CompletedHoldsNothing'
  BY <1>0 DEF TypeOK, LocksAreRecorded, CompletedHoldsNothing, Holds,
         hasReadPermissions, holdsLock
<1>4. WaiterKnowsABlocker'
  BY Zenon DEF TypeOK, WaiterKnowsABlocker, Holds, hasReadPermissions
<1> QED
  BY <1>1, <1>2, <1>3, <1>4, Zenon

\* Taking the page out of the queue, in releasePage, preserves the invariant.
LEMMA RemoveHeldPageKeepsIInv ==
    ASSUME IInv, NEW t \in Tid, RemoveHeldPage(t)
    PROVE  IInv'
<1> USE DEF IInv, RemoveHeldPage
<1>0. req[t].pid \in PageId
  BY Zenon DEF TypeOK, CallsNamePages
<1>1. TypeOK'
  BY <1>0, PageAssumption DEF TypeOK, PCs, Request, NoRequest, Permissions
<1>2. CallsNamePages' /\ WriterExcludesReaders' /\ Acyclic(dependency)'
  BY Zenon DEF TypeOK, CallsNamePages, WriterExcludesReaders, Acyclic, Descendants
<1>3. LocksAreRecorded' /\ CompletedHoldsNothing'
  BY <1>0 DEF TypeOK, LocksAreRecorded, CompletedHoldsNothing, Holds,
         hasReadPermissions, holdsLock
<1>4. WaiterKnowsABlocker'
  BY Zenon DEF TypeOK, WaiterKnowsABlocker, Holds, hasReadPermissions
<1> QED
  BY <1>1, <1>2, <1>3, <1>4, Zenon

\* Beginning the loop of releasePages preserves the invariant.
LEMMA releasePagesKeepsIInv ==
    ASSUME IInv, NEW t \in Tid, releasePages(t)
    PROVE  IInv'
<1> USE DEF IInv, releasePages
<1>1. TypeOK'
  BY Zenon DEF TypeOK, PCs
<1>2. CallsNamePages' /\ WriterExcludesReaders' /\ Acyclic(dependency)'
  BY Zenon DEF TypeOK, CallsNamePages, WriterExcludesReaders, Acyclic, Descendants
<1>3. LocksAreRecorded' /\ CompletedHoldsNothing'
  BY DEF TypeOK, LocksAreRecorded, CompletedHoldsNothing, Holds,
         hasReadPermissions, holdsLock
<1>4. WaiterKnowsABlocker'
  BY Zenon DEF TypeOK, WaiterKnowsABlocker, Holds, hasReadPermissions
<1> QED
  BY <1>1, <1>2, <1>3, <1>4, Zenon

\* The loop of releasePages has visited every lock of t, so t stands in no
\* waiter's way any more.
LEMMA ClearHeldPagesKeepsIInv ==
    ASSUME IInv, NEW t \in Tid, ClearHeldPages(t)
    PROVE  IInv'
<1> USE DEF IInv, ClearHeldPages
<1>0. \A p \in PageId : ~Holds(t, p)
  BY Zenon DEF LocksAreRecorded
<1>1. TypeOK'
  BY Zenon DEF TypeOK, PCs
<1>2. CallsNamePages' /\ WriterExcludesReaders' /\ Acyclic(dependency)'
  BY Zenon DEF TypeOK, CallsNamePages, WriterExcludesReaders, Acyclic, Descendants
<1>3. LocksAreRecorded' /\ CompletedHoldsNothing'
  BY <1>0 DEF TypeOK, LocksAreRecorded, CompletedHoldsNothing, Holds,
         hasReadPermissions, holdsLock
<1>4. WaiterKnowsABlocker'
  <2> SUFFICES ASSUME NEW w \in Tid, pc'[w] = "waiting"
               PROVE  \E h \in Tid \ {w} :
                          /\ Holds(h, req[w].pid)'
                          /\ \/ <<w, h>> \in dependency'
                             \/ pc'[h] \in {"aborted", "releasing"}
    BY Zenon DEF WaiterKnowsABlocker
  <2>1. pc[w] = "waiting" /\ req[w].pid \in PageId
    BY Zenon DEF TypeOK, CallsNamePages
  <2>2. PICK h \in Tid \ {w} :
            /\ Holds(h, req[w].pid)
            /\ <<w, h>> \in dependency \/ pc[h] \in {"aborted", "releasing"}
    BY <2>1, Zenon DEF WaiterKnowsABlocker
  <2>3. h # t /\ pc'[h] = pc[h]
    BY <1>0, <2>1, <2>2, Zenon DEF TypeOK
  <2> QED
    BY <2>2, <2>3, Zenon DEF Holds, hasReadPermissions
<1> QED
  BY <1>1, <1>2, <1>3, <1>4, Zenon

\* What releaseLock does, whoever calls it: t loses its lock on p, no other
\* lock changes, and those who go on waiting wait for another page.
LEMMA releaseLockEffect ==
    ASSUME IInv, NEW t \in Tid, NEW p \in PageId, NEW next \in PCs,
           next # "waiting", pc[t] # "waiting", releaseLock(t, p, next)
    PROVE  /\ ownerTrans' \in [PageId -> Tid \cup {NoTid}]
           /\ sharedTrans' \in [PageId -> SUBSET Tid]
           /\ pc' \in [Tid -> PCs]
           /\ WriterExcludesReaders'
           /\ \A u \in Tid, q \in PageId :
                  Holds(u, q)' <=> Holds(u, q) /\ ~(u = t /\ q = p)
           /\ pc'[t] = next
           /\ \A u \in Tid \ {t} :
                  \/ pc'[u] = pc[u] /\ ~(pc[u] = "waiting" /\ req[u].pid = p)
                  \/ pc[u] = "waiting" /\ pc'[u] = "trying"
<1> USE DEF IInv, releaseLock
<1>1. /\ ownerTrans' \in [PageId -> Tid \cup {NoTid}]
      /\ sharedTrans' \in [PageId -> SUBSET Tid]
  BY Zenon DEF TypeOK
<1>2. WriterExcludesReaders'
  BY Zenon DEF TypeOK, WriterExcludesReaders
<1>3. \A u \in Tid, q \in PageId :
          Holds(u, q)' <=> Holds(u, q) /\ ~(u = t /\ q = p)
  BY TidAssumption, Zenon DEF TypeOK, Holds, hasReadPermissions
<1>4. pc' \in [Tid -> PCs] /\ pc'[t] = next
  BY Zenon DEF TypeOK, NotifyAll, PCs
<1>5. \A u \in Tid \ {t} :
          \/ pc'[u] = pc[u] /\ ~(pc[u] = "waiting" /\ req[u].pid = p)
          \/ pc[u] = "waiting" /\ pc'[u] = "trying"
  BY Zenon DEF TypeOK, NotifyAll
<1> QED
  BY <1>1, <1>2, <1>3, <1>4, <1>5, Zenon

\* releaseLock, called by releasePage, preserves the invariant.
LEMMA releasePageKeepsIInv ==
    ASSUME IInv, NEW t \in Tid, NEW p \in PageId, releasePage(t, p)
    PROVE  IInv'
<1> USE DEF IInv, releasePage
<1>0. /\ ownerTrans' \in [PageId -> Tid \cup {NoTid}]
      /\ sharedTrans' \in [PageId -> SUBSET Tid]
      /\ pc' \in [Tid -> PCs]
      /\ WriterExcludesReaders'
      /\ \A u \in Tid, q \in PageId :
             Holds(u, q)' <=> Holds(u, q) /\ ~(u = t /\ q = p)
      /\ pc'[t] = "unlocked"
      /\ \A u \in Tid \ {t} :
             \/ pc'[u] = pc[u] /\ ~(pc[u] = "waiting" /\ req[u].pid = p)
             \/ pc[u] = "waiting" /\ pc'[u] = "trying"
  BY releaseLockEffect, Zenon DEF PCs
<1>1. TypeOK'
  BY <1>0, Zenon DEF TypeOK, Request, Permissions
<1>2. CallsNamePages' /\ Acyclic(dependency)'
  BY <1>0, Zenon DEF TypeOK, CallsNamePages, Acyclic, Descendants
<1>3. LocksAreRecorded' /\ CompletedHoldsNothing'
  <2> SUFFICES ASSUME NEW u \in Tid, NEW q \in PageId, Holds(u, q)'
               PROVE  /\ holdsLock(u, q)' \/ (pc'[u] = "granted" /\ req'[u].pid = q)
                      /\ ~(pc'[u] = "unlocked" /\ req'[u].pid = q)
                      /\ pc'[u] = "releasing" => q \in toRelease'[u]
                      /\ pc'[u] # "done"
    BY Zenon DEF LocksAreRecorded, CompletedHoldsNothing
  <2>1. Holds(u, q) /\ ~(u = t /\ q = p)
    BY <1>0, Zenon
  <2>2. CASE u = t
    BY <1>0, <2>1, <2>2 DEF TypeOK, LocksAreRecorded, holdsLock
  <2>3. CASE u # t
    BY <1>0, <2>1, <2>3
       DEF TypeOK, LocksAreRecorded, CompletedHoldsNothing, holdsLock
  <2> QED
    BY <2>2, <2>3, Zenon
<1>4. WaiterKnowsABlocker'
  BY <1>0, Zenon DEF TypeOK, CallsNamePages, WaiterKnowsABlocker
<1> QED
  BY <1>0, <1>1, <1>2, <1>3, <1>4, Zenon

\* One round of the loop of releasePages preserves the invariant.
LEMMA ReleaseNextKeepsIInv ==
    ASSUME IInv, NEW t \in Tid, NEW p \in PageId, ReleaseNext(t, p)
    PROVE  IInv'
<1> USE DEF IInv, ReleaseNext
<1>0. /\ ownerTrans' \in [PageId -> Tid \cup {NoTid}]
      /\ sharedTrans' \in [PageId -> SUBSET Tid]
      /\ pc' \in [Tid -> PCs]
      /\ WriterExcludesReaders'
      /\ \A u \in Tid, q \in PageId :
             Holds(u, q)' <=> Holds(u, q) /\ ~(u = t /\ q = p)
      /\ pc'[t] = "releasing"
      /\ \A u \in Tid \ {t} :
             \/ pc'[u] = pc[u] /\ ~(pc[u] = "waiting" /\ req[u].pid = p)
             \/ pc[u] = "waiting" /\ pc'[u] = "trying"
  BY releaseLockEffect, Zenon DEF PCs
<1>1. TypeOK'
  BY <1>0, Zenon DEF TypeOK
<1>2. CallsNamePages' /\ Acyclic(dependency)'
  BY <1>0, Zenon DEF TypeOK, CallsNamePages, Acyclic, Descendants
<1>3. LocksAreRecorded' /\ CompletedHoldsNothing'
  <2> SUFFICES ASSUME NEW u \in Tid, NEW q \in PageId, Holds(u, q)'
               PROVE  /\ holdsLock(u, q)' \/ (pc'[u] = "granted" /\ req'[u].pid = q)
                      /\ ~(pc'[u] = "unlocked" /\ req'[u].pid = q)
                      /\ pc'[u] = "releasing" => q \in toRelease'[u]
                      /\ pc'[u] # "done"
    BY Zenon DEF LocksAreRecorded, CompletedHoldsNothing
  <2>1. Holds(u, q) /\ ~(u = t /\ q = p)
    BY <1>0, Zenon
  <2>2. CASE u = t
    BY <1>0, <2>1, <2>2, Zenon DEF TypeOK, LocksAreRecorded, holdsLock
  <2>3. CASE u # t
    BY <1>0, <2>1, <2>3
       DEF TypeOK, LocksAreRecorded, CompletedHoldsNothing, holdsLock
  <2> QED
    BY <2>2, <2>3, Zenon
<1>4. WaiterKnowsABlocker'
  BY <1>0, Zenon DEF TypeOK, CallsNamePages, WaiterKnowsABlocker
<1> QED
  BY <1>0, <1>1, <1>2, <1>3, <1>4, Zenon

\* The request of t is granted, by whichever branch of tryAquire...: t holds
\* the page, no other lock changes, and at most edges of t go.
LEMMA GrantKeepsIInv ==
    ASSUME IInv, NEW t \in Tid, pc[t] = "trying", Granted(t),
           ownerTrans' \in [PageId -> Tid \cup {NoTid}],
           sharedTrans' \in [PageId -> SUBSET Tid],
           WriterExcludesReaders',
           \A u \in Tid, q \in PageId :
               Holds(u, q)' <=> Holds(u, q) \/ (u = t /\ q = req[t].pid),
           dependency' \subseteq dependency,
           \A e \in dependency : e[1] # t => e \in dependency'
    PROVE  IInv'
<1> USE DEF IInv, Granted
<1>1. TypeOK'
  BY Zenon DEF TypeOK, PCs
<1>2. CallsNamePages'
  BY Zenon DEF TypeOK, CallsNamePages
<1>3. Acyclic(dependency')
  BY AcyclicSubset, Zenon DEF TypeOK
<1>4. LocksAreRecorded' /\ CompletedHoldsNothing'
  <2> SUFFICES ASSUME NEW u \in Tid, NEW q \in PageId, Holds(u, q)'
               PROVE  /\ holdsLock(u, q)' \/ (pc'[u] = "granted" /\ req'[u].pid = q)
                      /\ ~(pc'[u] = "unlocked" /\ req'[u].pid = q)
                      /\ pc'[u] = "releasing" => q \in toRelease'[u]
                      /\ pc'[u] # "done"
    BY Zenon DEF LocksAreRecorded, CompletedHoldsNothing
  <2>1. CASE u = t
    BY <2>1, Zenon DEF TypeOK, LocksAreRecorded, holdsLock
  <2>2. CASE u # t
    BY <2>2 DEF TypeOK, LocksAreRecorded, CompletedHoldsNothing, holdsLock
  <2> QED
    BY <2>1, <2>2, Zenon
<1>5. WaiterKnowsABlocker'
  <2> SUFFICES ASSUME NEW w \in Tid, pc'[w] = "waiting"
               PROVE  \E h \in Tid \ {w} :
                          /\ Holds(h, req[w].pid)'
                          /\ \/ <<w, h>> \in dependency'
                             \/ pc'[h] \in {"aborted", "releasing"}
    BY Zenon DEF WaiterKnowsABlocker
  <2>1. pc[w] = "waiting" /\ w # t /\ req[w].pid \in PageId
    BY Zenon DEF TypeOK, CallsNamePages
  <2>2. PICK h \in Tid \ {w} :
            /\ Holds(h, req[w].pid)
            /\ <<w, h>> \in dependency \/ pc[h] \in {"aborted", "releasing"}
    BY <2>1, Zenon DEF WaiterKnowsABlocker
  <2>3. Holds(h, req[w].pid)'
    BY <2>1, <2>2, Zenon
  <2>4. <<w, h>> \in dependency' \/ pc'[h] \in {"aborted", "releasing"}
    BY <2>1, <2>2, Zenon DEF TypeOK
  <2> QED
    BY <2>3, <2>4, Zenon
<1> QED
  BY <1>1, <1>2, <1>3, <1>4, <1>5, Zenon

\* The request of t is not granted: t waits for holders of the page, or
\* leaves because one of the new edges closes a cycle.
LEMMA BlockedKeepsIInv ==
    ASSUME IInv, NEW t \in Tid, pc[t] = "trying", NEW D \in SUBSET Tid,
           \E d \in D : d # t /\ Holds(d, req[t].pid), Blocked(t, D)
    PROVE  IInv'
<1> USE DEF IInv, Blocked
<1>1. /\ \A u \in Tid, q \in PageId : Holds(u, q)' <=> Holds(u, q)
      /\ WriterExcludesReaders'
  BY Zenon DEF Holds, hasReadPermissions, WriterExcludesReaders
<1>2. req[t].pid \in PageId
  BY Zenon DEF CallsNamePages
<1>3. CASE CycleFound(dependency, t, D)
  <2>0. /\ dependency' = removeVertex(dependency, t)
        /\ deps' = [deps EXCEPT ![t] = {}]
        /\ req' = [req EXCEPT ![t] = NoRequest]
        /\ pc' = [pc EXCEPT ![t] = "aborted"]
        /\ UNCHANGED <<ownerTrans, sharedTrans, pagesHoldsByTrans, toRelease,
                       acquires>>
    BY <1>3, Zenon
  <2> HIDE DEF Blocked
  <2> USE <2>0
  <2>1. TypeOK'
    <3>1. dependency' \subseteq Tid \X Tid
      BY Zenon DEF TypeOK, removeVertex
    <3>2. "aborted" \in PCs /\ NoRequest \in Request
      BY Zenon DEF PCs, Request, NoRequest, Permissions
    <3> QED
      BY <3>1, <3>2, Zenon DEF TypeOK
  <2>2. CallsNamePages'
    BY Zenon DEF TypeOK, CallsNamePages
  <2>3. Acyclic(dependency')
    BY AcyclicSubset, Zenon DEF TypeOK, removeVertex
  <2>4. LocksAreRecorded' /\ CompletedHoldsNothing'
    BY DEF TypeOK, LocksAreRecorded, CompletedHoldsNothing, Holds,
           hasReadPermissions, holdsLock
  <2>5. WaiterKnowsABlocker'
    <3> SUFFICES ASSUME NEW w \in Tid, pc'[w] = "waiting"
                 PROVE  \E h \in Tid \ {w} :
                            /\ Holds(h, req[w].pid)'
                            /\ \/ <<w, h>> \in dependency'
                               \/ pc'[h] \in {"aborted", "releasing"}
      BY Zenon DEF WaiterKnowsABlocker
    <3>1. pc[w] = "waiting" /\ w # t /\ req[w].pid \in PageId
                            /\ req'[w] = req[w]
      BY Zenon DEF TypeOK, CallsNamePages
    <3>2. PICK h \in Tid \ {w} :
              /\ Holds(h, req[w].pid)
              /\ <<w, h>> \in dependency \/ pc[h] \in {"aborted", "releasing"}
      BY <3>1, Zenon DEF WaiterKnowsABlocker
    <3>3. <<w, h>> \in dependency' \/ pc'[h] \in {"aborted", "releasing"}
      BY <3>1, <3>2, Zenon DEF TypeOK, removeVertex
    <3> QED
      BY <3>1, <3>2, <3>3, Zenon DEF Holds, hasReadPermissions
  <2> QED
    BY <1>1, <2>1, <2>2, <2>3, <2>4, <2>5, Zenon
<1>4. CASE ~CycleFound(dependency, t, D)
  <2>0. /\ dependency' = addDeps(dependency, t, D)
        /\ deps' = [deps EXCEPT ![t] = D]
        /\ pc' = [pc EXCEPT ![t] = "waiting"]
        /\ UNCHANGED <<req, ownerTrans, sharedTrans, pagesHoldsByTrans,
                       toRelease, acquires>>
    BY <1>4, Zenon
  <2> HIDE DEF Blocked
  <2> USE <2>0
  <2>1. TypeOK'
    <3>1. dependency' \subseteq Tid \X Tid
      BY DEF TypeOK, addDeps
    <3>2. "waiting" \in PCs
      BY Zenon DEF PCs
    <3> QED
      BY <3>1, <3>2, Zenon DEF TypeOK
  <2>2. CallsNamePages'
    BY Zenon DEF TypeOK, CallsNamePages
  <2>3. Acyclic(dependency')
    BY <1>4, AcyclicAddDeps, Zenon DEF TypeOK
  <2>4. LocksAreRecorded' /\ CompletedHoldsNothing'
    BY DEF TypeOK, LocksAreRecorded, CompletedHoldsNothing, Holds,
           hasReadPermissions, holdsLock
  <2>5. WaiterKnowsABlocker'
    <3> SUFFICES ASSUME NEW w \in Tid, pc'[w] = "waiting"
                 PROVE  \E h \in Tid \ {w} :
                            /\ Holds(h, req[w].pid)'
                            /\ \/ <<w, h>> \in dependency'
                               \/ pc'[h] \in {"aborted", "releasing"}
      BY Zenon DEF WaiterKnowsABlocker
    <3>1. CASE w = t
      BY <1>1, <1>2, <3>1, Zenon DEF addDeps
    <3>2. CASE w # t
      <4>1. pc[w] = "waiting" /\ req[w].pid \in PageId
        BY <3>2, Zenon DEF TypeOK, CallsNamePages
      <4>2. PICK h \in Tid \ {w} :
                /\ Holds(h, req[w].pid)
                /\ \/ <<w, h>> \in dependency
                   \/ pc[h] \in {"aborted", "releasing"}
        BY <4>1, Zenon DEF WaiterKnowsABlocker
      <4>3. <<w, h>> \in dependency' \/ pc'[h] \in {"aborted", "releasing"}
        BY <4>2, Zenon DEF TypeOK, addDeps
      <4> QED
        BY <1>1, <4>1, <4>2, <4>3, Zenon
    <3> QED
      BY <3>1, <3>2, Zenon
  <2> QED
    BY <1>1, <2>1, <2>2, <2>3, <2>4, <2>5, Zenon
<1> QED
  BY <1>3, <1>4, Zenon

\* A passage through tryAquireROLockOrWait preserves the invariant.
LEMMA tryAquireROKeepsIInv ==
    ASSUME IInv, NEW t \in Tid, tryAquireROLockOrWait(t)
    PROVE  IInv'
<1> DEFINE p == req[t].pid
<1>0. pc[t] = "trying" /\ p \in PageId
  BY Zenon DEF IInv, CallsNamePages, tryAquireROLockOrWait
<1>1. CASE hasReadPermissions(t, p) /\ AlreadyPermitted(t, p)
  <2> USE <1>1 DEF AlreadyPermitted
  <2>1. \A u \in Tid, q \in PageId :
            Holds(u, q)' <=> Holds(u, q) \/ (u = t /\ q = p)
    BY Zenon DEF Holds, hasReadPermissions
  <2> QED
    BY <1>0, <2>1, GrantKeepsIInv, Zenon DEF IInv, TypeOK, WriterExcludesReaders
<1>2. CASE ~hasReadPermissions(t, p) /\ GrantRO(t, p)
  <2> USE <1>0, <1>2 DEF GrantRO
  <2>1. \A u \in Tid, q \in PageId :
            Holds(u, q)' <=> Holds(u, q) \/ (u = t /\ q = p)
    BY Zenon DEF IInv, TypeOK, Holds, hasReadPermissions
  <2>2. /\ ownerTrans' \in [PageId -> Tid \cup {NoTid}]
        /\ sharedTrans' \in [PageId -> SUBSET Tid]
        /\ WriterExcludesReaders'
    BY Zenon DEF IInv, TypeOK, WriterExcludesReaders
  <2>3. /\ dependency' \subseteq dependency
        /\ \A e \in dependency : e[1] # t => e \in dependency'
    BY DEF removeDeps
  <2> QED
    BY <2>1, <2>2, <2>3, GrantKeepsIInv, Zenon
<1>3. CASE ~hasReadPermissions(t, p) /\ WaitRO(t, p)
  <2> USE <1>0, <1>3 DEF WaitRO
  <2>1. /\ ownerTrans[p] \in Tid \ {t}
        /\ Holds(ownerTrans[p], p)
    BY Zenon DEF IInv, TypeOK, Holds, hasReadPermissions
  <2> QED
    BY <2>1, BlockedKeepsIInv, Zenon
<1> QED
  BY <1>1, <1>2, <1>3, Zenon DEF tryAquireROLockOrWait

\* A passage through tryAquireRWLockOrWait preserves the invariant.
LEMMA tryAquireRWKeepsIInv ==
    ASSUME IInv, NEW t \in Tid, tryAquireRWLockOrWait(t)
    PROVE  IInv'
<1> DEFINE p == req[t].pid
<1>0. pc[t] = "trying" /\ p \in PageId
  BY Zenon DEF IInv, CallsNamePages, tryAquireRWLockOrWait
<1>1. CASE hasWritePermissions(t, p) /\ AlreadyPermitted(t, p)
  <2> USE <1>1 DEF AlreadyPermitted
  <2>1. \A u \in Tid, q \in PageId :
            Holds(u, q)' <=> Holds(u, q) \/ (u = t /\ q = p)
    BY Zenon DEF Holds, hasReadPermissions, hasWritePermissions
  <2> QED
    BY <1>0, <2>1, GrantKeepsIInv, Zenon DEF IInv, TypeOK, WriterExcludesReaders
<1>2. CASE ~hasWritePermissions(t, p) /\ GrantRW(t, p)
  <2> USE <1>0, <1>2 DEF GrantRW
  <2>1. \A u \in Tid, q \in PageId :
            Holds(u, q)' <=> Holds(u, q) \/ (u = t /\ q = p)
    BY TidAssumption, Zenon DEF IInv, TypeOK, Holds, hasReadPermissions
  <2>2. /\ ownerTrans' \in [PageId -> Tid \cup {NoTid}]
        /\ sharedTrans' \in [PageId -> SUBSET Tid]
        /\ WriterExcludesReaders'
    BY Zenon DEF IInv, TypeOK, WriterExcludesReaders
  <2>3. /\ dependency' \subseteq dependency
        /\ \A e \in dependency : e[1] # t => e \in dependency'
    BY DEF removeDeps
  <2> QED
    BY <2>1, <2>2, <2>3, GrantKeepsIInv, Zenon
<1>3. CASE ~hasWritePermissions(t, p) /\ Upgrade(t, p)
  <2> USE <1>0, <1>3 DEF Upgrade
  <2>1. ownerTrans[p] = NoTid
    BY Zenon DEF IInv, TypeOK, WriterExcludesReaders
  <2>2. \A u \in Tid, q \in PageId :
            Holds(u, q)' <=> Holds(u, q) \/ (u = t /\ q = p)
    BY <2>1, TidAssumption, Zenon DEF IInv, TypeOK, Holds, hasReadPermissions
  <2>3. /\ ownerTrans' \in [PageId -> Tid \cup {NoTid}]
        /\ sharedTrans' \in [PageId -> SUBSET Tid]
        /\ WriterExcludesReaders'
    BY Zenon DEF IInv, TypeOK, WriterExcludesReaders
  <2>4. /\ dependency' \subseteq dependency
        /\ \A e \in dependency : e[1] # t => e \in dependency'
    <3>1. dependency' = removeDeps(dependency, t, deps[t])
      BY Zenon
    <3> QED  BY ONLY <3>1 DEF removeDeps
  <2> QED
    BY <2>2, <2>3, <2>4, GrantKeepsIInv, Zenon
<1>4. CASE ~hasWritePermissions(t, p) /\ WaitRW(t, p)
  <2> USE <1>0, <1>4
  <2>1. CASE /\ sharedTrans[p] = {} /\ ownerTrans[p] \notin {NoTid, t}
             /\ Blocked(t, {ownerTrans[p]})
    <3>1. /\ ownerTrans[p] \in Tid \ {t}
          /\ Holds(ownerTrans[p], p)
      BY <2>1, Zenon DEF IInv, TypeOK, Holds, hasReadPermissions
    <3> QED
      BY <2>1, <3>1, BlockedKeepsIInv, Zenon
  <2>2. CASE /\ sharedTrans[p] \notin {{}, {t}}
             /\ Blocked(t, sharedTrans[p])
    <3>1. /\ sharedTrans[p] \in SUBSET Tid
          /\ \E d \in sharedTrans[p] : d # t /\ Holds(d, p)
      BY <2>2, Zenon DEF IInv, TypeOK, Holds, hasReadPermissions
    <3> QED
      BY <2>2, <3>1, BlockedKeepsIInv, Zenon
  <2> QED
    BY <2>1, <2>2, Zenon DEF WaitRW
<1> QED
  BY <1>1, <1>2, <1>3, <1>4, Zenon DEF tryAquireRWLockOrWait

\* A step that changes nothing preserves the invariant.
LEMMA StutterKeepsIInv ==
    ASSUME IInv, UNCHANGED vars
    PROVE  IInv'
<1> USE DEF IInv, vars
<1>1. TypeOK' /\ CallsNamePages' /\ WriterExcludesReaders'
  BY Zenon DEF TypeOK, CallsNamePages, WriterExcludesReaders
<1>2. LocksAreRecorded' /\ CompletedHoldsNothing'
  BY Zenon DEF LocksAreRecorded, CompletedHoldsNothing, Holds, hasReadPermissions,
         holdsLock
<1>3. Acyclic(dependency)' /\ WaiterKnowsABlocker'
  BY Zenon DEF Acyclic, Descendants, WaiterKnowsABlocker, Holds, hasReadPermissions
<1> QED
  BY <1>1, <1>2, <1>3, Zenon

\* Every step preserves the invariant.
LEMMA NextKeepsIInv == IInv /\ [Next]_vars => IInv'
<1> SUFFICES ASSUME IInv, [Next]_vars PROVE IInv'
  BY Zenon
<1>1. ASSUME NEW t \in Tid, Progress(t) PROVE IInv'
  BY <1>1, tryAquireROKeepsIInv, tryAquireRWKeepsIInv, AddHeldPageKeepsIInv,
     RemoveHeldPageKeepsIInv, releasePagesKeepsIInv, ReleaseNextKeepsIInv,
     ClearHeldPagesKeepsIInv, Zenon DEF Progress
<1>2. ASSUME NEW t \in Tid, NEW p \in PageId, NEW perm \in Permissions,
             acquireLock(t, p, perm)
      PROVE  IInv'
  BY <1>2, AcquireKeepsIInv, Zenon
<1>3. ASSUME NEW t \in Tid, NEW p \in PageId, releasePage(t, p) PROVE IInv'
  BY <1>3, releasePageKeepsIInv, Zenon
<1>4. ASSUME NEW t \in Tid, SpuriousWakeup(t) PROVE IInv'
  BY <1>4, WakeupKeepsIInv, Zenon
<1>5. CASE UNCHANGED vars
  BY <1>5, StutterKeepsIInv, Zenon
<1> QED
  BY <1>1, <1>2, <1>3, <1>4, <1>5, Zenon DEF Next, Terminated

-----------------------------------------------------------------------------
(* Safety *)

\* Every reachable state satisfies the inductive invariant.
THEOREM Invariance == Spec => []IInv
<1>1. Init => IInv
  BY InitIInv, Zenon
<1>2. IInv /\ [Next]_vars => IInv'
  BY NextKeepsIInv, Zenon
<1> QED
  BY <1>1, <1>2, PTL DEF Spec

\* The fields of LockManager and the locals of its methods keep their types.
THEOREM TypeCorrect == Spec => []TypeOK
<1>1. IInv => TypeOK
  BY Zenon DEF IInv
<1> QED
  BY <1>1, Invariance, PTL

\* tryAquireROLockOrWait and tryAquireRWLockOrWait never leave a page with an
\* owner and a reader.
THEOREM Exclusion == Spec => []WriterExcludesReaders
<1>1. IInv => WriterExcludesReaders
  BY Zenon DEF IInv
<1> QED
  BY <1>1, Invariance, PTL

\* releasePages leaves no lock behind.
THEOREM NoLeak == Spec => []CompletedHoldsNothing
<1>1. IInv => CompletedHoldsNothing
  BY Zenon DEF IInv
<1> QED
  BY <1>1, Invariance, PTL

\* In every state some blocker of a waiter is in the graph or being aborted.
THEOREM BlockerKnown == Spec => []WaiterKnowsABlocker
<1>1. IInv => WaiterKnowsABlocker
  BY Zenon DEF IInv
<1> QED
  BY <1>1, Invariance, PTL

\* If every transaction that is not done waited, each would have an edge to
\* another that waits (a holder is not done, and one that is being aborted
\* does not wait); an acyclic graph has no such set of waiters.
LEMMA IInvNoDeadlock == IInv => NoDeadlock
<1> SUFFICES ASSUME IInv, NEW t \in Tid, pc[t] = "waiting",
                    \A u \in Tid : pc[u] \in {"waiting", "done"}
             PROVE  FALSE
  BY Zenon DEF NoDeadlock
<1> DEFINE W == {u \in Tid : pc[u] = "waiting"}
<1>1. \A w \in W : \E h \in W : <<w, h>> \in dependency
  <2> SUFFICES ASSUME NEW w \in W PROVE \E h \in W : <<w, h>> \in dependency
    BY Zenon
  <2>1. PICK h \in Tid \ {w} :
            /\ Holds(h, req[w].pid)
            /\ <<w, h>> \in dependency \/ pc[h] \in {"aborted", "releasing"}
    BY Zenon DEF IInv, WaiterKnowsABlocker
  <2>2. req[w].pid \in PageId
    BY Zenon DEF IInv, CallsNamePages
  <2>3. pc[h] # "done"
    BY <2>1, <2>2, Zenon DEF IInv, CompletedHoldsNothing
  <2> QED
    BY <2>1, <2>3, Zenon
<1>2. W \in SUBSET Tid /\ W # {}
  BY Zenon
<1>3. dependency \in SUBSET (Tid \X Tid) /\ Acyclic(dependency)
  BY Zenon DEF IInv, TypeOK
<1>4. \E w \in W : \A h \in W : <<w, h>> \notin dependency
  <2> HIDE DEF W
  <2> QED
    BY <1>2, <1>3, AcyclicHasSink, Zenon
<1> QED
  BY <1>1, <1>4, Zenon

\* Aborting the transaction whose edge closes a cycle is enough: never do all
\* the transactions that are left wait in tryAquireROLockOrWait or
\* tryAquireRWLockOrWait.
THEOREM DeadlockFree == Spec => []NoDeadlock
BY Invariance, IInvNoDeadlock, PTL

-----------------------------------------------------------------------------
(* No lost wakeup *)

\* A waiting reader waits for an owner: only releaseLock takes an owner away,
\* and it notifies the waiters of the page.
ReaderWaitsForOwner ==
    \A t \in Tid : pc[t] = "waiting" /\ req[t].perm = "READ_ONLY" =>
        ownerTrans[req[t].pid] # NoTid

\* releaseLock leaves no waiting reader on a page without an owner: it
\* wakes all that wait for the page.
LEMMA ReleaseKeepsReaderWaits ==
    ASSUME IInv, ReaderWaitsForOwner, NEW t \in Tid, NEW p \in PageId,
           NEW next \in {"unlocked", "releasing"}, releaseLock(t, p, next),
           \A u \in Tid \ {t} : req'[u] = req[u]
    PROVE  ReaderWaitsForOwner'
<1> SUFFICES ASSUME NEW w \in Tid, pc'[w] = "waiting",
                    req'[w].perm = "READ_ONLY"
             PROVE  ownerTrans'[req'[w].pid] # NoTid
  BY Zenon DEF ReaderWaitsForOwner
<1>1. w # t /\ pc[w] = "waiting" /\ req[w].pid # p /\ req'[w] = req[w]
  BY Zenon DEF releaseLock, NotifyAll, IInv, TypeOK
<1>2. ownerTrans'[req[w].pid] = ownerTrans[req[w].pid]
  BY <1>1, Zenon DEF releaseLock, IInv, TypeOK, CallsNamePages
<1> QED
  BY <1>1, <1>2, Zenon DEF ReaderWaitsForOwner

\* A passage through a monitor lets a reader wait only for an owner.
LEMMA TryKeepsReaderWaits ==
    ASSUME IInv, ReaderWaitsForOwner, NEW t \in Tid,
           tryAquireROLockOrWait(t) \/ tryAquireRWLockOrWait(t)
    PROVE  ReaderWaitsForOwner'
<1> DEFINE p == req[t].pid
<1>0. p \in PageId
  BY Zenon DEF IInv, CallsNamePages, tryAquireROLockOrWait, tryAquireRWLockOrWait
<1>1. \A q \in PageId : ownerTrans[q] # NoTid => ownerTrans'[q] # NoTid
  BY <1>0, TidAssumption, Zenon
     DEF IInv, TypeOK, tryAquireROLockOrWait, tryAquireRWLockOrWait,
         AlreadyPermitted, GrantRO, WaitRO, GrantRW, Upgrade, WaitRW, Blocked
<1>2. /\ \A u \in Tid \ {t} : pc'[u] = pc[u] /\ req'[u] = req[u]
      /\ pc'[t] = "waiting" => req'[t] = req[t]
  BY Zenon DEF IInv, TypeOK, tryAquireROLockOrWait, tryAquireRWLockOrWait,
         AlreadyPermitted, GrantRO, WaitRO, GrantRW, Upgrade, WaitRW, Blocked,
         Granted
<1>3. pc'[t] = "waiting" /\ req[t].perm = "READ_ONLY" => ownerTrans[p] # NoTid
  BY Zenon DEF IInv, TypeOK, tryAquireROLockOrWait, tryAquireRWLockOrWait,
         AlreadyPermitted, GrantRO, WaitRO, Granted
<1> SUFFICES ASSUME NEW w \in Tid, pc'[w] = "waiting",
                    req'[w].perm = "READ_ONLY"
             PROVE  ownerTrans'[req'[w].pid] # NoTid
  BY Zenon DEF ReaderWaitsForOwner
<1>4. CASE w = t
  BY <1>0, <1>1, <1>2, <1>3, <1>4, Zenon
<1>5. CASE w # t
  BY <1>1, <1>2, <1>5, Zenon DEF ReaderWaitsForOwner, IInv, CallsNamePages
<1> QED
  BY <1>4, <1>5, Zenon

\* Every step keeps readers waiting only for an owner.
LEMMA NextKeepsReaderWaits ==
    IInv /\ ReaderWaitsForOwner /\ [Next]_vars => ReaderWaitsForOwner'
<1> SUFFICES ASSUME IInv, ReaderWaitsForOwner, [Next]_vars
             PROVE  ReaderWaitsForOwner'
  BY Zenon
<1>1. ASSUME NEW t \in Tid, Progress(t) PROVE ReaderWaitsForOwner'
  <2>1. CASE tryAquireROLockOrWait(t) \/ tryAquireRWLockOrWait(t)
    BY <2>1, TryKeepsReaderWaits, Zenon
  <2>2. CASE \/ AddHeldPage(t) \/ RemoveHeldPage(t) \/ releasePages(t)
             \/ ClearHeldPages(t)
    BY <2>2, Zenon DEF IInv, TypeOK, ReaderWaitsForOwner, AddHeldPage,
                RemoveHeldPage, releasePages, ClearHeldPages
  <2>3. ASSUME NEW p \in PageId, ReleaseNext(t, p) PROVE ReaderWaitsForOwner'
    BY <2>3, ReleaseKeepsReaderWaits, Zenon DEF ReleaseNext
  <2> QED
    BY <1>1, <2>1, <2>2, <2>3, Zenon DEF Progress
<1>2. ASSUME NEW t \in Tid, NEW p \in PageId, NEW perm \in Permissions,
             acquireLock(t, p, perm)
      PROVE  ReaderWaitsForOwner'
  BY <1>2, Zenon DEF IInv, TypeOK, ReaderWaitsForOwner, acquireLock
<1>3. ASSUME NEW t \in Tid, NEW p \in PageId, releasePage(t, p)
      PROVE  ReaderWaitsForOwner'
  <2>1. \A u \in Tid \ {t} : req'[u] = req[u]
    BY <1>3, Zenon DEF IInv, TypeOK, releasePage
  <2> QED
    BY <1>3, <2>1, ReleaseKeepsReaderWaits, Zenon DEF releasePage
<1>4. ASSUME NEW t \in Tid, SpuriousWakeup(t) PROVE ReaderWaitsForOwner'
  BY <1>4, Zenon DEF IInv, TypeOK, ReaderWaitsForOwner, SpuriousWakeup
<1>5. CASE UNCHANGED vars
  BY <1>5, Zenon DEF ReaderWaitsForOwner, vars
<1> QED
  BY <1>1, <1>2, <1>3, <1>4, <1>5, Zenon DEF Next, Terminated

\* No thread is left in wait() once the permission it asks for is free:
\* releaseLock notifies all the waiters of the page, and nothing else frees
\* a permission.
THEOREM WakeupsArrive == Spec => []NoLostWakeup
<1>1. Init => ReaderWaitsForOwner
  BY Zenon DEF Init, ReaderWaitsForOwner
<1>2. IInv /\ ReaderWaitsForOwner /\ [Next]_vars => ReaderWaitsForOwner'
  BY NextKeepsReaderWaits, Zenon
<1>3. IInv /\ ReaderWaitsForOwner => NoLostWakeup
  <2> SUFFICES ASSUME IInv, ReaderWaitsForOwner, NEW t \in Tid,
                      pc[t] = "waiting"
               PROVE  LET p == req[t].pid IN
                      /\ ~(req[t].perm = "READ_ONLY" /\ ownerTrans[p] = NoTid)
                      /\ ~(ownerTrans[p] = NoTid /\ sharedTrans[p] \subseteq {t})
    BY Zenon DEF NoLostWakeup
  <2>1. \E h \in Tid \ {t} : Holds(h, req[t].pid)
    BY Zenon DEF IInv, WaiterKnowsABlocker
  <2> QED
    BY <2>1, TidAssumption, Zenon DEF ReaderWaitsForOwner, Holds, hasReadPermissions
<1> QED
  BY <1>1, <1>2, <1>3, Invariance, PTL DEF Spec

-----------------------------------------------------------------------------
(* LockManager implements PageLocks *)

\* In a new LockManager no page is locked.
LEMMA InitRefines == Init => PL!Init
BY Zenon DEF Init, PL!Init

\* releaseLock is a Release of PageLocks, or changes no lock.
LEMMA ReleaseRefines ==
    ASSUME IInv, NEW t \in Tid, NEW p \in PageId, NEW next,
           releaseLock(t, p, next)
    PROVE  PL!Next \/ UNCHANGED <<ownerTrans, sharedTrans>>
<1>1. CASE Holds(t, p)
  <2>1. PL!Release(t, p)
    BY <1>1, Zenon DEF releaseLock, Holds, hasReadPermissions, PL!Release, PL!Holds
  <2> QED
    BY <2>1, Zenon DEF PL!Next
<1>2. CASE ~Holds(t, p)
  <2>1. ownerTrans' = ownerTrans /\ sharedTrans' = sharedTrans
    BY <1>2 DEF releaseLock, Holds, hasReadPermissions, IInv, TypeOK
  <2> QED
    BY <2>1, Zenon
<1> QED
  BY <1>1, <1>2, Zenon

\* A passage through a monitor is a Share or an Own, or changes no lock.
LEMMA GrantRefines ==
    ASSUME IInv, NEW t \in Tid,
           tryAquireROLockOrWait(t) \/ tryAquireRWLockOrWait(t)
    PROVE  PL!Next \/ UNCHANGED <<ownerTrans, sharedTrans>>
<1> DEFINE p == req[t].pid
<1>0. p \in PageId
  BY Zenon DEF IInv, CallsNamePages, tryAquireROLockOrWait, tryAquireRWLockOrWait
<1>1. CASE GrantRO(t, p)
  <2>1. PL!Share(t, p)
    BY <1>1, Zenon DEF GrantRO, PL!Share
  <2> QED
    BY <1>0, <2>1, Zenon DEF PL!Next
<1>2. CASE ~hasWritePermissions(t, p) /\ GrantRW(t, p)
  <2>1. PL!Own(t, p)
    BY <1>0, <1>2, Zenon DEF GrantRW, hasWritePermissions, PL!Own, IInv, TypeOK
  <2> QED
    BY <1>0, <2>1, Zenon DEF PL!Next
<1>3. CASE Upgrade(t, p)
  <2>1. PL!Own(t, p)
    BY <1>0, <1>3, Zenon
       DEF Upgrade, PL!Own, IInv, TypeOK, WriterExcludesReaders
  <2> QED
    BY <1>0, <2>1, Zenon DEF PL!Next
<1>4. CASE AlreadyPermitted(t, p) \/ WaitRO(t, p) \/ WaitRW(t, p)
  BY <1>4, Zenon DEF AlreadyPermitted, WaitRO, WaitRW, Blocked
<1> QED
  BY <1>1, <1>2, <1>3, <1>4, Zenon
     DEF tryAquireROLockOrWait, tryAquireRWLockOrWait

\* Every step of LockManager is a step of PageLocks or changes no lock.
LEMMA NextRefines == IInv /\ [Next]_vars => [PL!Next]_(PL!lockVars)
<1> SUFFICES ASSUME IInv, [Next]_vars
             PROVE  PL!Next \/ UNCHANGED <<ownerTrans, sharedTrans>>
  BY Zenon DEF PL!lockVars
<1>1. ASSUME NEW t \in Tid, Progress(t)
      PROVE  PL!Next \/ UNCHANGED <<ownerTrans, sharedTrans>>
  BY <1>1, GrantRefines, ReleaseRefines, Zenon
     DEF Progress, AddHeldPage, RemoveHeldPage, releasePages, ReleaseNext,
         ClearHeldPages
<1>2. ASSUME NEW t \in Tid, NEW p \in PageId, releasePage(t, p)
      PROVE  PL!Next \/ UNCHANGED <<ownerTrans, sharedTrans>>
  BY <1>2, ReleaseRefines, Zenon DEF releasePage
<1> QED
  BY <1>1, <1>2, Zenon DEF Next, acquireLock, SpuriousWakeup, Terminated, vars

\* The monitors, the queues and the graph behave, to the callers of
\* LockManager, like one shared/exclusive lock per page.
THEOREM Refinement == Spec => ImplementsPageLocks
<1>1. Init => PL!Init
  BY InitRefines, Zenon
<1>2. IInv /\ [Next]_vars => [PL!Next]_(PL!lockVars)
  BY NextRefines, Zenon
<1> QED
  BY <1>1, <1>2, Invariance, PTL DEF Spec, ImplementsPageLocks, PL!Spec
=============================================================================
