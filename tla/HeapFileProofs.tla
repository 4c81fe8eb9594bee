--------------------------- MODULE HeapFileProofs ---------------------------
(***************************************************************************)
(* Proofs about HeapFile: what the page locks, the loops of                *)
(* transactionComplete and the rule that dirty pages are not evicted give  *)
(* transactions that scan and delete, one after another or concurrently,   *)
(* and how large a pool never evicts.                                      *)
(***************************************************************************)
EXTENDS HeapFileTypes, FiniteSetTheorems

-----------------------------------------------------------------------------
(* Transactions that only scan and delete *)

\* No thread is between getPage and markDirty of a deletion while another
\* evicts a page.
DeletesUndisturbed ==
    \A t, u \in Tid :
        pc[t] = "room" /\ Len(pageids) = MaxPages /\ pc[u] \in {"use", "mark"}
            => op[u] # "delete"

\* Two-phase locking: where a transaction is with its locks, and what they cover.
ThreadLocking(t) ==
    /\ calls[t] = 0 => pc[t] = "idle" /\ \A p \in Page : held[t][p] = 0
    /\ pc[t] \notin Inserting /\ op[t] # "insert" /\ work[t].add = {}
    /\ pc[t] \in Asking \cup {"use"} => op[t] \in {"scan", "delete"}
    /\ pc[t] = "mark" => op[t] = "delete"
    /\ \A p \in Page :
        /\ held[t][p] >= 0
        /\ pc[t] \in Active \cup Completing \cup {"dead"} => (Locks!Holds(t, p) <=> held[t][p] > 0)
        /\ pc[t] \in Releasing /\ Locks!Holds(t, p) => p \in todo[t]
        /\ pc[t] \in {"committed", "rolledback"} => ~Locks!Holds(t, p)
    /\ pc[t] \in (Asking \ {"lock"}) \cup {"use", "mark"} =>
        /\ Locks!Holds(t, pid[t])
        /\ op[t] = "delete" => owner[pid[t]] = t
    /\ pc[t] \in Active \cup Completing => \A p \in Page, x \in Tuple :
        /\ <<p, x>> \in work[t].del => owner[p] = t
        /\ <<p, x>> \in view[t] => Locks!Holds(t, p)

Locking ==
    /\ \A p \in Page : owner[p] # NoTid => readers[p] = {}
    /\ \A t \in Tid : ThreadLocking(t)

\* The contents of page p after the changes of t.
Changed(t, p) == committed[p] \ {x \in Tuple : <<p, x>> \in work[t].del}

Settled(p) ==
    /\ disk[p] = committed[p]
    /\ p \in Cached => pages[p] = Clean(disk[p])

\* What a page is while t, which has locked it for writing, runs.
OwnedActive(t, p) ==
    /\ disk[p] = committed[p]
    /\ p \in Cached =>
        /\ pages[p].data = Changed(t, p)
        /\ pages[p].dirty \in {t, NoTid}
        /\ pages[p].dirty = NoTid /\ ~(pc[t] = "mark" /\ pid[t] = p)
            => pages[p].data = disk[p]
    /\ p \notin Cached => Changed(t, p) = disk[p]

OwnedFlush(t, p) ==
    /\ p \in Cached =>
        /\ pages[p].data = Changed(t, p)
        /\ pages[p].dirty = NoTid => pages[p].data = disk[p]
        /\ pages[p].dirty # NoTid => p \in todo[t]
    /\ p \notin Cached => Changed(t, p) = disk[p]

OwnedUndo(t, p) ==
    /\ disk[p] = committed[p]
    /\ p \in Cached => pages[p] = Clean(disk[p]) \/ p \in todo[t]

Owned(t, p) ==
    /\ pc[t] \in Active => OwnedActive(t, p)
    /\ pc[t] = "flush" => OwnedFlush(t, p)
    /\ pc[t] = "undo" => OwnedUndo(t, p)
    /\ pc[t] \in Releasing => Settled(p)

PageContents(p) ==
    /\ owner[p] = NoTid => Settled(p)
    /\ \A t \in Tid : owner[p] = t => Owned(t, p)

Contents == \A p \in Page : PageContents(p)

\* The HeapPage object that a thread has in its hands.
Reference(t) ==
    /\ pc[t] \in {"use", "mark"} /\ ~shared[t] =>
        pc[t] = "use" /\ op[t] = "scan" /\ copy[t] = disk[pid[t]]
    /\ pc[t] = "put" => copy[t] = disk[pid[t]]
    /\ pc[t] \in {"room", "read", "put"} /\ owner[pid[t]] = t => pid[t] \notin Cached

References == \A t \in Tid : Reference(t)

View(t) ==
    pc[t] \in Active \cup Completing =>
        \A p \in Page, x \in Tuple : <<p, x>> \in view[t] => x \in committed[p]

Views == \A t \in Tid : View(t)

IInv == Types /\ Locking /\ Contents /\ References /\ Views

-----------------------------------------------------------------------------
(* Locking is inductive. *)

\* The steps of a transaction that does not insert.
ScanStep(t) ==
    \/ PoolStep(t)
    \/ open(t) \/ hasNext(t) \/ readTuples(t)
    \/ \E p \in Page : deleteTuple(t, p)
    \/ \E x \in Tuple : clearSlot(t, x)
    \/ commitTransaction(t) \/ abortTransaction(t)

\* Without insertTuple, the steps of the system are these.
LEMMA ScanSteps ==
    ASSUME Locking, "insert" \notin Ops, [Next]_vars
    PROVE  (\E t \in Tid : ScanStep(t)) \/ flushAll \/ UNCHANGED vars
<1>1. ASSUME NEW t \in Tid
      PROVE  ~(\/ insertTuple(t) \/ fillSlot(t) \/ endOfTry(t) \/ GrowRead(t) \/ GrowWrite(t)
               \/ newPageId(t) \/ writePage(t) \/ tryLast(t))
  BY Zenon DEF Locking, ThreadLocking, Inserting, insertTuple, fillSlot, endOfTry, GrowRead, GrowWrite,
     newPageId, writePage, tryLast
<1> QED BY <1>1, Zenon DEF Next, ScanStep, AllEnded

\* What a step of t leaves alone of another transaction.
Apart(u) ==
    /\ pc'[u] = pc[u] /\ pid'[u] = pid[u] /\ op'[u] = op[u]
    /\ held'[u] = held[u] /\ todo'[u] = todo[u] /\ work'[u] = work[u]
    /\ view'[u] = view[u] /\ calls'[u] = calls[u]
    /\ \A p \in Page : (owner'[p] = u <=> owner[p] = u) /\ (u \in readers'[p] <=> u \in readers[p])

\* What is known of the locks of a thread survives a step of another.
LEMMA LockingApart ==
    ASSUME NEW u \in Tid, ThreadLocking(u), Apart(u), pid[u] \in Page
    PROVE  ThreadLocking(u)'
BY Zenon DEF ThreadLocking, Apart, Locks!Holds

\* A step of one thread leaves alone the locals and the locks of every other.
LEMMA ScanStepsApart ==
    ASSUME Types, Locking, NEW t \in Tid, ScanStep(t), NEW u \in Tid, u # t
    PROVE  Apart(u)
<1> USE DEF Goto, getPage, lockVars, hfVars, histVars
<1>0. LockTypes /\ ThreadTypes /\ FileTypes
  BY Zenon DEF Types
<1>1. CASE Acquire(t) /\ UNCHANGED hfVars
  <2>1. \A p \in Page : (owner'[p] = u <=> owner[p] = u) /\ (u \in readers'[p] <=> u \in readers[p])
    BY <1>0, <1>1, SizeAssumption, SMTT(30) DEF Acquire, Locks!Share, Locks!Own, LockTypes, ThreadTypes
  <2>2. held'[u] = held[u]
    BY <1>0, <1>1, Zenon DEF Acquire, LockTypes
  <2> QED BY <1>0, <1>1, <2>1, <2>2, Zenon DEF Acquire, Apart, ThreadTypes, iterVars
<1>2. CASE makeRoom(t) /\ UNCHANGED hfVars
  <2>1. /\ \E l : pc' = [pc EXCEPT ![t] = l]
        /\ op' = op \/ op' = [op EXCEPT ![t] = "failed"]
    BY <1>2, RoomCases, Zenon
  <2> QED BY <1>0, <1>2, <2>1, Zenon DEF makeRoom, Apart, ThreadTypes
<1>3. ASSUME NEW p \in Page, releaseNext(t, p), UNCHANGED hfVars PROVE Apart(u)
  BY <1>0, <1>3, SizeAssumption, SMTT(30) DEF releaseNext, Locks!Release, Apart, LockTypes, ThreadTypes
<1>4. CASE PoolStep(t) /\ ~Acquire(t) /\ ~makeRoom(t) /\ ~\E p \in Page : releaseNext(t, p)
  BY <1>0, <1>4, Zenon DEF PoolStep, AbortedByLock, containsKey, readPage, putPage, getReturns, markDirty,
     IteratorFails, LoopEnds, releaseEnds, flushPage, revertPage, Apart, LockTypes, ThreadTypes, iterVars
<1>5. CASE open(t) \/ hasNext(t) \/ readTuples(t) \/ \E p \in Page : deleteTuple(t, p)
  BY <1>0, <1>5, SMTT(30) DEF open, hasNext, nextPage, readTuples, deleteTuple, Call, Apart, ThreadTypes,
     FileTypes, iterVars
<1>6. ASSUME NEW x \in Tuple, clearSlot(t, x) PROVE Apart(u)
  BY <1>0, <1>6 DEF clearSlot, Apart, ThreadTypes, FileTypes, iterVars
<1>7. CASE commitTransaction(t) \/ abortTransaction(t)
  BY <1>0, <1>7, Zenon DEF commitTransaction, abortTransaction, transactionComplete, Apart, ThreadTypes
<1> QED BY <1>1, <1>2, <1>3, <1>4, <1>5, <1>6, <1>7, Zenon DEF ScanStep, PoolStep

\* Scanning and deleting keep to strict two-phase locking.
LEMMA LockingStep ==
    ASSUME Types, Locking, "insert" \notin Ops, [Next]_vars
    PROVE  Locking'
<1>0. LockTypes /\ ThreadTypes /\ FileTypes
  BY Zenon DEF Types
<1>1. CASE UNCHANGED <<lockVars, pc, pid, op, todo, work, view, calls>>
  BY <1>1 DEF Locking, ThreadLocking, Locks!Holds, lockVars
<1>2. ASSUME NEW t \in Tid, ScanStep(t) PROVE \A p \in Page : owner'[p] # NoTid => readers'[p] = {}
  <2>1. CASE Acquire(t)
    BY <1>0, <2>1, Zenon DEF Acquire, Locks!Share, Locks!Own, Locking, LockTypes, ThreadTypes
  <2>2. ASSUME NEW p \in Page, releaseNext(t, p) PROVE \A q \in Page : owner'[q] # NoTid => readers'[q] = {}
    BY <1>0, <2>2 DEF releaseNext, Locks!Release, Locking, LockTypes
  <2>3. UNCHANGED <<owner, readers>> => \A p \in Page : owner'[p] # NoTid => readers'[p] = {}
    BY Zenon DEF Locking
  <2> QED BY <1>2, <2>1, <2>2, <2>3, Zenon DEF ScanStep, PoolStep, lockVars, AbortedByLock, containsKey,
     makeRoom, readPage, putPage, getReturns, markDirty, IteratorFails, LoopEnds, releaseEnds,
     flushPage, revertPage, open, hasNext, nextPage, readTuples, deleteTuple, clearSlot,
     commitTransaction, abortTransaction, transactionComplete
<1>3. ASSUME NEW t \in Tid, ScanStep(t) PROVE ThreadLocking(t)'
  <2>0. ThreadLocking(t) /\ pid[t] \in Page
    BY <1>0, Zenon DEF Locking, ThreadTypes
  <2> USE DEF ThreadLocking, Locks!Holds, Active, Asking, Inserting, Completing, Releasing, Goto, hfVars,
              lockVars, iterVars, histVars
  <2>1. CASE Acquire(t) /\ UNCHANGED hfVars
    <3> DEFINE p == pid[t]
    <3>1. /\ owner'[p] = t \/ t \in readers'[p]
          /\ op[t] # "scan" => owner'[p] = t
          /\ owner[p] = t => owner'[p] = t
      BY <1>0, <2>0, <2>1, SizeAssumption DEF Acquire, Locks!Share, Locks!Own, perm, LockTypes
    <3>2. \A q \in Page : q # p => owner'[q] = owner[q] /\ readers'[q] = readers[q]
      BY <1>0, <2>0, <2>1, Zenon DEF Acquire, Locks!Share, Locks!Own, LockTypes
    <3>3. held'[t][p] = held[t][p] + 1 /\ \A q \in Page : q # p => held'[t][q] = held[t][q]
      BY <1>0, <2>0, <2>1, Zenon DEF Acquire, LockTypes
    <3>4. /\ pc[t] = "lock" /\ pc'[t] = "lookup" /\ UNCHANGED <<pid, op, todo, work, view, calls>>
          /\ \A q \in Page : held[t][q] \in Int
      BY <1>0, <2>1, Zenon DEF Acquire, LockTypes, ThreadTypes
    <3> HIDE DEF p
    <3> QED BY <2>0, <3>1, <3>2, <3>3, <3>4, SMTT(30) DEF p
  <2>2. CASE makeRoom(t) /\ UNCHANGED hfVars
    <3>1. \/ pc' = [pc EXCEPT ![t] = "read"] /\ op' = op
          \/ pc' = [pc EXCEPT ![t] = "dead"] /\ op' = op
          \/ pc' = [pc EXCEPT ![t] = "idle"] /\ op' = [op EXCEPT ![t] = "failed"]
      BY <2>2, RoomCases, Zenon
    <3> QED BY <1>0, <2>0, <2>2, <3>1, SMTT(30) DEF makeRoom, ThreadTypes
  <2>3. ASSUME NEW p \in Page, releaseNext(t, p), UNCHANGED hfVars PROVE ThreadLocking(t)'
    BY <1>0, <2>0, <2>3, SizeAssumption, SMTT(30) DEF releaseNext, Locks!Release, LockTypes, ThreadTypes
  <2>4. CASE releaseEnds(t) /\ UNCHANGED hfVars
    BY <1>0, <2>0, <2>4, SMTT(30) DEF releaseEnds, LockTypes, ThreadTypes
  <2>5. CASE LoopEnds(t) /\ UNCHANGED hfVars
    BY <1>0, <2>0, <2>5, SMTT(30) DEF LoopEnds, holdsLock, ThreadTypes
  <2>6. CASE (\E p \in Page : flushPage(t, p) \/ revertPage(t, p)) /\ UNCHANGED hfVars
    BY <1>0, <2>0, <2>6, Zenon DEF flushPage, revertPage, ThreadTypes
  <2>7. CASE /\ \/ AbortedByLock(t) \/ containsKey(t) \/ readPage(t) \/ putPage(t) \/ getReturns(t)
                \/ markDirty(t) \/ IteratorFails(t)
             /\ UNCHANGED hfVars
    BY <1>0, <2>0, <2>7, SMTT(30) DEF AbortedByLock, containsKey, readPage, putPage, getReturns, markDirty,
       IteratorFails, ThreadTypes
  <2>8. CASE open(t) \/ hasNext(t) \/ \E p \in Page : deleteTuple(t, p)
    BY <1>0, <2>0, <2>8, SMTT(30) DEF open, hasNext, nextPage, deleteTuple, Call, getPage, ThreadTypes, FileTypes
  <2>9. CASE readTuples(t)
    BY <1>0, <2>0, <2>9, Zenon DEF readTuples, ThreadTypes, FileTypes
  <2>10. ASSUME NEW x \in Tuple, clearSlot(t, x) PROVE ThreadLocking(t)'
    BY <1>0, <2>0, <2>10 DEF clearSlot, ThreadTypes, FileTypes
  <2>11. CASE commitTransaction(t) \/ abortTransaction(t)
    BY <1>0, <2>0, <2>11, SMTT(30) DEF commitTransaction, abortTransaction, transactionComplete, ThreadTypes
  <2> QED BY <1>3, <2>1, <2>2, <2>3, <2>4, <2>5, <2>6, <2>7, <2>8, <2>9, <2>10, <2>11, Zenon DEF ScanStep, PoolStep
<1>4. ASSUME NEW t \in Tid, ScanStep(t), NEW u \in Tid, u # t PROVE ThreadLocking(u)'
  BY <1>0, <1>4, ScanStepsApart, LockingApart, Zenon DEF Locking, ThreadTypes
<1>5. CASE \E t \in Tid : ScanStep(t)
  BY <1>2, <1>3, <1>4, <1>5, Zenon DEF Locking
<1>6. CASE flushAll
  BY <1>1, <1>6, Zenon DEF flushAll, flushAllPages, hfVars, iterVars, histVars
<1> QED BY <1>1, <1>5, <1>6, ScanSteps, Zenon DEF vars, bpVars, hfVars, iterVars, histVars

-----------------------------------------------------------------------------
(* The contents of the pages are as the locks on them say. *)

\* What is known of a page survives a step that does not touch the page or its owner.
LEMMA ContentsApart ==
    ASSUME NEW p \in Page, PageContents(p), UNCHANGED <<disk[p], committed[p], pages[p], owner[p]>>,
           \A u \in Tid : owner[p] = u => Apart(u)
    PROVE  PageContents(p)'
BY SMTT(30) DEF PageContents, Owned, Settled, OwnedActive, OwnedFlush, OwnedUndo, Changed, Apart, Cached

\* Nobody else owns a page that t has locked.
LEMMA HoldsExcludes ==
    ASSUME Types, Locking, NEW t \in Tid, NEW p \in Page, Locks!Holds(t, p)
    PROVE  owner[p] \in {t, NoTid}
BY SizeAssumption, Zenon DEF Types, LockTypes, Locking, Locks!Holds

\* Steps that concern no page's contents: t goes on, or its thread dies.
LEMMA ContentsQuiet ==
    ASSUME Types, Locking, Contents, NEW t \in Tid, ScanStep(t),
           UNCHANGED <<owner, pages, disk, committed>>, work'[t] = work[t],
           \/ pc[t] \in Active \ {"mark"} /\ pc'[t] \in Active \ {"mark"}
           \/ pc'[t] = "dead"
    PROVE  Contents'
<1> SUFFICES ASSUME NEW p \in Page PROVE PageContents(p)'
  BY Zenon DEF Contents
<1>1. CASE owner[p] # t
  BY <1>1, ScanStepsApart, ContentsApart, Zenon DEF Contents
<1>2. CASE owner[p] = t
  <2>1. owner[p] # NoTid
    BY <1>2, SizeAssumption, Zenon
  <2>2. Owned(t, p)'
    BY <1>2, Zenon DEF Contents, PageContents, Owned, OwnedActive, Changed, Cached, Active, Asking,
       Completing, Releasing
  <2> QED BY <1>2, <2>1, <2>2, Zenon DEF PageContents
<1> QED BY <1>1, <1>2, Zenon

\* A page nobody owns is as committed, in the pool and on disk; a page that is
\* owned differs by the deletes of its owner at most.
LEMMA ContentsStep ==
    ASSUME Types, Locking, Contents, References, DeletesUndisturbed, "insert" \notin Ops, [Next]_vars
    PROVE  Contents'
<1>0. LockTypes /\ PoolTypes /\ ThreadTypes /\ FileTypes
  BY Zenon DEF Types
<1>1. ASSUME NEW t \in Tid, Acquire(t), ScanStep(t) PROVE Contents'
  <2> SUFFICES ASSUME NEW p \in Page PROVE PageContents(p)'
    BY Zenon DEF Contents
  <2>1. UNCHANGED <<disk, committed, pages>> /\ pc[t] = "lock" /\ pc'[t] = "lookup" /\ work' = work
    BY <1>0, <1>1, Zenon DEF Acquire, Goto, ThreadTypes, fileVars, poolVars, histVars
  <2>2. CASE owner[p] # t /\ owner'[p] = owner[p]
    BY <1>1, <2>1, <2>2, ScanStepsApart, ContentsApart, Zenon DEF Contents
  <2>3. CASE owner[p] = t
    <3>1. owner'[p] = t
      BY <1>0, <1>1, <2>3, Zenon DEF Acquire, Locks!Share, Locks!Own, LockTypes, ThreadTypes
    <3> QED BY <2>1, <2>3, <3>1, SizeAssumption, SMTT(30) DEF Contents, PageContents, Owned, OwnedActive,
          Changed, Cached, Active, Asking, Releasing
  <2>4. CASE owner[p] # t /\ owner'[p] # owner[p]
    <3>1. owner[p] = NoTid /\ owner'[p] = t
      BY <1>0, <1>1, <2>4, Zenon DEF Acquire, Locks!Share, Locks!Own, LockTypes, ThreadTypes
    <3>2. Changed(t, p) = committed[p] /\ committed[p] \in SUBSET Tuple
      <4>1. \A x \in Tuple : <<p, x>> \notin work[t].del
        BY <2>1, <3>1, SizeAssumption DEF Locking, ThreadLocking, Active, Asking
      <4> QED BY <1>0, <4>1, Zenon DEF Changed, PoolTypes
    <3>3. Settled(p)
      BY <3>1, Zenon DEF Contents, PageContents
    <3>4. OwnedActive(t, p)
      BY <3>2, <3>3, CleanIsCached, Zenon DEF Settled, OwnedActive
    <3>5. OwnedActive(t, p)'
      BY <2>1, <3>4, Zenon DEF OwnedActive, Changed, Cached
    <3> QED BY <2>1, <3>1, <3>5, SizeAssumption, Zenon DEF PageContents, Owned, Active, Asking, Releasing
  <2> QED BY <2>2, <2>3, <2>4, Zenon
<1>2. ASSUME NEW t \in Tid, ScanStep(t),
             \/ AbortedByLock(t) \/ containsKey(t) \/ readPage(t) \/ getReturns(t) \/ IteratorFails(t)
             \/ open(t) \/ hasNext(t) \/ readTuples(t) \/ \E p \in Page : deleteTuple(t, p)
      PROVE  Contents'
  <2>1. UNCHANGED <<owner, pages, disk, committed, work>>
    BY <1>2, Zenon DEF AbortedByLock, containsKey, readPage, getReturns, IteratorFails, open, hasNext, nextPage,
       readTuples, deleteTuple, lockVars, poolVars, fileVars, histVars
  <2>2. \/ pc[t] \in Active \ {"mark"} /\ pc'[t] \in Active \ {"mark"}
        \/ pc'[t] = "dead"
    BY <1>0, <1>2, Zenon DEF AbortedByLock, containsKey, readPage, getReturns, IteratorFails, open, hasNext, nextPage,
       readTuples, deleteTuple, getPage, Call, Goto, ThreadTypes, Active, Asking
  <2> QED BY <1>2, <2>1, <2>2, ContentsQuiet, Zenon
<1>3. ASSUME NEW t \in Tid, ScanStep(t), makeRoom(t) PROVE Contents'
  <2>1. /\ UNCHANGED <<owner, disk, committed, work>>
        /\ pc[t] \in Active \ {"mark"}
    BY <1>3, Zenon DEF makeRoom, lockVars, fileVars, histVars, Active, Asking
  <2>2. pc'[t] \in (Active \ {"mark"}) \cup {"dead"}
    <3>1. \E l \in {"read", "idle", "dead"} : pc' = [pc EXCEPT ![t] = l]
      BY <1>3, RoomCases, Zenon
    <3> QED BY <1>0, <3>1, Zenon DEF ThreadTypes, Active, Asking
  <2>3. CASE pages' = pages
    BY <1>3, <2>1, <2>2, <2>3, ContentsQuiet, Zenon
  <2>4. CASE pages' # pages
    <3>1. PICK k \in 1..Len(pageids) :
            /\ pageids[k] \in Page
            /\ pageids[k] \in Cached => ~isDirty(pageids[k])
            /\ pages' = [pages EXCEPT ![pageids[k]] = Absent]
      BY <1>3, <2>4, RoomCases, Zenon DEF poolVars
    <3> DEFINE q == pageids[k]
    <3>2. \A p \in Page : p # q => pages'[p] = pages[p]
      BY <1>0, <3>1, Zenon DEF PoolTypes
    <3>3. pages[q] # Absent /\ pages'[q] = Absent
      BY <1>0, <2>4, <3>1, Zenon DEF PoolTypes
    <3>4. q \in Page /\ q \in Cached /\ q \notin Cached' /\ pages[q].dirty = NoTid
      BY <3>1, <3>3, Zenon DEF Cached, isDirty
    <3> HIDE DEF q
    <3>5. \A u \in Tid : ~(pc[u] = "mark" /\ pid[u] = q)
      <4>1. Len(pageids) = MaxPages /\ pc[t] = "room"
        BY <1>3, <2>4, RoomCases, Zenon DEF makeRoom, poolVars
      <4> QED BY <4>1 DEF DeletesUndisturbed, Locking, ThreadLocking
    <3>6. ASSUME NEW p \in Page, NEW u \in Tid, owner[p] = u PROVE Owned(u, p)'
      <4>1. Owned(u, p)
        BY <3>6, Zenon DEF Contents, PageContents
      <4>2. \/ UNCHANGED <<pc[u], pid[u], todo[u]>>
            \/ u = t /\ pc[u] \in Active \ {"mark"} /\ pc'[u] \in (Active \ {"mark"}) \cup {"dead"}
        BY <1>3, <2>1, <2>2, ScanStepsApart, SMTT(30) DEF Apart
      <4>3. CASE p # q
        <5>1. pages'[p] = pages[p]
          BY <3>2, <4>3, Zenon
        <5> QED BY <2>1, <4>1, <4>2, <5>1, Zenon DEF Owned, Settled, OwnedActive, OwnedFlush, OwnedUndo,
              Changed, Cached, Active, Asking, Releasing
      <4>4. CASE p = q
        BY <2>1, <3>4, <3>5, <4>1, <4>2, <4>4, Zenon DEF Owned, Settled, OwnedActive, OwnedFlush, OwnedUndo, Changed,
           Active, Asking, Releasing
      <4> QED BY <4>3, <4>4, Zenon
    <3>7. ASSUME NEW p \in Page, owner[p] = NoTid PROVE Settled(p)'
      <4>1. Settled(p)
        BY <3>7, Zenon DEF Contents, PageContents
      <4>2. p \in Cached' => p \in Cached /\ pages'[p] = pages[p]
        BY <3>2, <3>4, Zenon DEF Cached
      <4> QED BY <2>1, <4>1, <4>2, Zenon DEF Settled, Clean
    <3> QED BY <2>1, <3>6, <3>7, Zenon DEF Contents, PageContents
  <2> QED BY <2>3, <2>4, Zenon
<1>4. ASSUME NEW t \in Tid, ScanStep(t), putPage(t) PROVE Contents'
  <2> DEFINE q == pid[t]
  <2>1. /\ UNCHANGED <<owner, disk, committed, work, pid>> /\ q \in Page /\ pc[t] = "put" /\ pc'[t] = "get"
        /\ pages' = [pages EXCEPT ![q] = Clean(copy[t])]
    BY <1>0, <1>4, Zenon DEF putPage, lockVars, fileVars, histVars, Goto, ThreadTypes
  <2>2. Locks!Holds(t, q) /\ copy[t] = disk[q] /\ (owner[q] = t => q \notin Cached)
    BY <2>1, Zenon DEF Locking, ThreadLocking, References, Reference, Asking
  <2>3. owner[q] \in {t, NoTid}
    BY <2>1, <2>2, HoldsExcludes, Zenon
  <2>4. /\ pages'[q] = Clean(disk[q]) /\ q \in Cached'
        /\ \A p \in Page : p # q => pages'[p] = pages[p]
    BY <1>0, <2>1, <2>2, CleanIsCached, Zenon DEF PoolTypes, Cached
  <2> SUFFICES ASSUME NEW p \in Page PROVE PageContents(p)'
    BY Zenon DEF Contents
  <2>5. CASE owner[p] \notin {t, NoTid}
    <3>1. pages'[p] = pages[p]
      BY <2>3, <2>4, <2>5, Zenon
    <3> QED BY <1>4, <2>1, <2>5, <3>1, ScanStepsApart, ContentsApart, Zenon DEF Contents
  <2>6. CASE owner[p] = NoTid
    <3>1. Settled(p)
      BY <2>6, Zenon DEF Contents, PageContents
    <3>2. Settled(p)'
      BY <2>1, <2>4, <3>1, Zenon DEF Settled, Cached, Clean
    <3> QED BY <2>1, <2>6, <3>2, SizeAssumption, Zenon DEF PageContents
  <2>7. CASE owner[p] = t
    <3>1. OwnedActive(t, p)
      BY <2>1, <2>7, Zenon DEF Contents, PageContents, Owned, Active, Asking
    <3>2. OwnedActive(t, p)'
      <4>1. CASE p = q
        BY <2>1, <2>2, <2>4, <2>7, <3>1, <4>1, CleanIsCached, SMTT(30) DEF OwnedActive, Changed
      <4>2. CASE p # q
        BY <2>1, <2>4, <3>1, <4>2, Zenon DEF OwnedActive, Changed, Cached
      <4> QED BY <4>1, <4>2, Zenon
    <3> QED BY <2>1, <2>7, <3>2, SizeAssumption, Zenon DEF PageContents, Owned, Releasing
  <2> QED BY <2>5, <2>6, <2>7, Zenon
<1>5. ASSUME NEW t \in Tid, ScanStep(t), markDirty(t) PROVE Contents'
  <2> DEFINE q == pid[t]
  <2>1. /\ UNCHANGED <<owner, disk, committed, work, pid>> /\ q \in Page /\ pc[t] = "mark" /\ pc'[t] = "idle"
    BY <1>0, <1>5, Zenon DEF markDirty, lockVars, fileVars, histVars, Goto, ThreadTypes
  <2>2. owner[q] = t /\ shared[t]
    BY <2>1, Zenon DEF Locking, ThreadLocking, References, Reference
  <2>3. /\ pages' = [pages EXCEPT ![q] = [data |-> pages[q].data, dirty |-> t]] /\ Cached' = Cached
    BY <1>5, <2>2, ChangeObject, Zenon DEF markDirty
  <2>4. /\ pages'[q].data = pages[q].data /\ pages'[q].dirty = t
        /\ \A p \in Page : p # q => pages'[p] = pages[p]
    BY <1>0, <2>1, <2>3, Zenon DEF PoolTypes
  <2> SUFFICES ASSUME NEW p \in Page PROVE PageContents(p)'
    BY Zenon DEF Contents
  <2>5. CASE owner[p] # t
    <3>1. pages'[p] = pages[p]
      BY <2>2, <2>4, <2>5, Zenon
    <3> QED BY <1>5, <2>1, <2>5, <3>1, ScanStepsApart, ContentsApart, Zenon DEF Contents
  <2>6. CASE owner[p] = t
    <3>1. OwnedActive(t, p)
      BY <2>1, <2>6, Zenon DEF Contents, PageContents, Owned, Active
    <3>2. OwnedActive(t, p)'
      BY <2>1, <2>3, <2>4, <3>1, SizeAssumption, SMTT(30) DEF OwnedActive, Changed
    <3> QED BY <2>1, <2>6, <3>2, SizeAssumption, Zenon DEF PageContents, Owned, Releasing
  <2> QED BY <2>5, <2>6, Zenon
<1>6. ASSUME NEW t \in Tid, NEW x \in Tuple, ScanStep(t), clearSlot(t, x) PROVE Contents'
  <2> DEFINE q == pid[t]
  <2>1. /\ UNCHANGED <<owner, disk, committed, pid>> /\ q \in Page /\ pc[t] = "use" /\ op[t] = "delete"
    BY <1>0, <1>6, Zenon DEF clearSlot, lockVars, fileVars, Goto, ThreadTypes
  <2>2. owner[q] = t /\ shared[t]
    BY <2>1, Zenon DEF Locking, ThreadLocking, References, Reference
  <2>3. CASE x \notin Data(t)
    <3>1. UNCHANGED <<pages, work>> /\ pc'[t] = "idle"
      BY <1>0, <1>6, <2>3, Zenon DEF clearSlot, Goto, ThreadTypes
    <3> QED BY <1>6, <2>1, <3>1, ContentsQuiet, Zenon DEF Active
  <2>4. CASE x \in Data(t)
    <3> DEFINE d == pages[q].data \ {x}
    <3>1. /\ pages' = [pages EXCEPT ![q].data = d] /\ pc'[t] = "mark"
          /\ work' = [work EXCEPT ![t].del = @ \cup {<<q, x>>}, ![t].add = @ \ {<<q, x>>}]
      <4>1. Data(t) = pages[q].data
        BY <2>2, Zenon DEF Data
      <4>2. SetData(t, Data(t) \ {x}) /\ Goto(t, "mark")
            /\ work' = [work EXCEPT ![t].del = @ \cup {<<q, x>>}, ![t].add = @ \ {<<q, x>>}]
        BY <1>6, <2>4, Zenon DEF clearSlot
      <4> QED BY <1>0, <2>2, <4>1, <4>2, Zenon DEF SetData, Goto, ThreadTypes
    <3>2. d \in SUBSET Tuple
      BY <1>0, <2>1, Zenon DEF PoolTypes, Objects
    <3>3. pages' = [pages EXCEPT ![q] = [data |-> d, dirty |-> pages[q].dirty]] /\ Cached' = Cached
      BY <2>2, <3>1, <3>2, ChangeObject, Zenon
    <3>4. /\ pages'[q].data = d /\ pages'[q].dirty = pages[q].dirty /\ q \in Cached
          /\ \A p \in Page : p # q => pages'[p] = pages[p]
      BY <1>0, <2>1, <2>2, <3>3, Zenon DEF PoolTypes, Types, RefTypes
    <3>5. work'[t].del = work[t].del \cup {<<q, x>>}
      BY <1>0, <3>1, Zenon DEF FileTypes
    <3>6. Changed(t, q)' = Changed(t, q) \ {x} /\ \A p \in Page : p # q => Changed(t, p)' = Changed(t, p)
      BY <2>1, <3>5, Zenon DEF Changed
    <3> HIDE DEF d
    <3> SUFFICES ASSUME NEW p \in Page PROVE PageContents(p)'
      BY Zenon DEF Contents
    <3>7. CASE owner[p] # t
      <4>1. pages'[p] = pages[p]
        BY <2>2, <3>4, <3>7, Zenon
      <4> QED BY <1>6, <2>1, <3>7, <4>1, ScanStepsApart, ContentsApart, Zenon DEF Contents
    <3>8. CASE owner[p] = t
      <4>1. OwnedActive(t, p)
        BY <2>1, <3>8, Zenon DEF Contents, PageContents, Owned, Active
      <4>2. OwnedActive(t, p)'
        <5>1. CASE p = q
          BY <2>1, <3>1, <3>3, <3>4, <3>6, <4>1, <5>1, Zenon DEF OwnedActive, d
        <5>2. CASE p # q
          BY <2>1, <3>3, <3>4, <3>6, <4>1, <5>2, Zenon DEF OwnedActive
        <5> QED BY <5>1, <5>2, Zenon
      <4> QED BY <2>1, <3>1, <3>8, <4>2, SizeAssumption, Zenon DEF PageContents, Owned, Active, Releasing
    <3> QED BY <3>7, <3>8, Zenon
  <2> QED BY <2>3, <2>4, Zenon
<1>7. ASSUME NEW t \in Tid, ScanStep(t), commitTransaction(t) \/ abortTransaction(t) PROVE Contents'
  <2>1. /\ UNCHANGED <<owner, pages, disk, committed, work>> /\ todo'[t] = Cached
        /\ pc[t] \in {"idle", "aborted"} /\ pc'[t] \in Completing
    BY <1>0, <1>7, Zenon DEF commitTransaction, abortTransaction, transactionComplete, lockVars, poolVars, fileVars,
       histVars, Goto, ThreadTypes, Completing
  <2> SUFFICES ASSUME NEW p \in Page PROVE PageContents(p)'
    BY Zenon DEF Contents
  <2>2. CASE owner[p] # t
    BY <1>7, <2>1, <2>2, ScanStepsApart, ContentsApart, Zenon DEF Contents
  <2>3. CASE owner[p] = t
    <3>1. OwnedActive(t, p)
      BY <2>1, <2>3, Zenon DEF Contents, PageContents, Owned, Active
    <3>2. OwnedFlush(t, p)' /\ OwnedUndo(t, p)'
      BY <2>1, <3>1, Zenon DEF OwnedActive, OwnedFlush, OwnedUndo, Changed, Cached
    <3> QED BY <2>1, <2>3, <3>2, SizeAssumption, Zenon DEF PageContents, Owned, Active, Asking, Completing, Releasing
  <2> QED BY <2>2, <2>3, Zenon
<1>8. ASSUME NEW t \in Tid, NEW q \in Page, ScanStep(t), flushPage(t, q) PROVE Contents'
  <2>1. /\ UNCHANGED <<owner, committed, work, pc>> /\ pc[t] = "flush" /\ todo'[t] = todo[t] \ {q}
    BY <1>0, <1>8, Zenon DEF flushPage, lockVars, histVars, ThreadTypes
  <2>2. holdsLock(t, q) <=> Locks!Holds(t, q)
    BY <2>1, Zenon DEF Locking, ThreadLocking, holdsLock, Completing
  <2>3. \A p \in Page : p # q \/ ~holdsLock(t, q) => pages'[p] = pages[p] /\ disk'[p] = disk[p]
    BY <1>0, <1>8, Zenon DEF flushPage, flushed, written, PoolTypes
  <2>4. holdsLock(t, q) => /\ pages'[q] = IF q \in Cached THEN Clean(pages[q].data) ELSE pages[q]
                           /\ disk'[q] = IF q \in Cached /\ isDirty(q) THEN pages[q].data ELSE disk[q]
    BY <1>0, <1>8, Zenon DEF flushPage, flushed, written
  <2>5. Cached' = Cached
    BY <1>0, <1>8, CachedAfter, Zenon DEF flushPage
  <2> SUFFICES ASSUME NEW p \in Page PROVE PageContents(p)'
    BY Zenon DEF Contents
  <2>6. CASE owner[p] \notin {t, NoTid}
    <3>1. p # q \/ ~holdsLock(t, q)
      BY <2>2, <2>6, HoldsExcludes, Zenon
    <3> QED BY <1>8, <2>1, <2>3, <2>6, <3>1, ScanStepsApart, ContentsApart, Zenon DEF Contents
  <2>7. CASE owner[p] = NoTid
    <3>1. Settled(p)
      BY <2>7, Zenon DEF Contents, PageContents
    <3>2. CASE p # q \/ ~holdsLock(t, q)
      BY <2>1, <2>3, <2>5, <2>7, <3>1, <3>2, SizeAssumption, Zenon DEF PageContents, Settled, Clean
    <3>3. CASE p = q /\ holdsLock(t, q)
      <4>1. p \in Cached => pages[p].dirty = NoTid /\ pages[p].data = disk[p]
        BY <3>1, CleanIsCached, Zenon DEF Settled
      <4>2. disk'[p] = disk[p] /\ (p \in Cached => pages'[p] = Clean(disk[p]))
        BY <2>4, <3>3, <4>1, Zenon DEF isDirty
      <4> QED BY <2>1, <2>5, <2>7, <3>1, <4>2, SizeAssumption, Zenon DEF PageContents, Settled, Clean
    <3> QED BY <3>2, <3>3, Zenon
  <2>8. CASE owner[p] = t
    <3>1. OwnedFlush(t, p) /\ holdsLock(t, p)
      BY <2>1, <2>8, Zenon DEF Contents, PageContents, Owned, Locking, ThreadLocking, holdsLock, Completing,
         Locks!Holds
    <3>2. OwnedFlush(t, p)'
      <4>1. CASE p = q
        BY <2>1, <2>4, <2>5, <3>1, <4>1, CleanIsCached, ZenonT(60) DEF OwnedFlush, Changed, isDirty
      <4>2. CASE p # q
        BY <2>1, <2>3, <2>5, <3>1, <4>2, Zenon DEF OwnedFlush, Changed
      <4> QED BY <4>1, <4>2, Zenon
    <3> QED BY <2>1, <2>8, <3>2, SizeAssumption, Zenon DEF PageContents, Owned, Active, Asking, Releasing
  <2> QED BY <2>6, <2>7, <2>8, Zenon
<1>9. ASSUME NEW t \in Tid, NEW q \in Page, ScanStep(t), revertPage(t, q) PROVE Contents'
  <2>1. /\ UNCHANGED <<owner, disk, committed, work, pc>> /\ pc[t] = "undo" /\ todo'[t] = todo[t] \ {q}
    BY <1>0, <1>9, Zenon DEF revertPage, lockVars, fileVars, histVars, ThreadTypes
  <2>2. holdsLock(t, q) <=> Locks!Holds(t, q)
    BY <2>1, Zenon DEF Locking, ThreadLocking, holdsLock, Completing
  <2>3. \A p \in Page : p # q \/ ~holdsLock(t, q) => pages'[p] = pages[p]
    BY <1>0, <1>9, Zenon DEF revertPage, PoolTypes
  <2>4. holdsLock(t, q) => pages'[q] = Clean(disk[q])
    BY <1>0, <1>9, Zenon DEF revertPage, PoolTypes
  <2> SUFFICES ASSUME NEW p \in Page PROVE PageContents(p)'
    BY Zenon DEF Contents
  <2>5. CASE owner[p] \notin {t, NoTid}
    <3>1. p # q \/ ~holdsLock(t, q)
      BY <2>2, <2>5, HoldsExcludes, Zenon
    <3> QED BY <1>9, <2>1, <2>3, <2>5, <3>1, ScanStepsApart, ContentsApart, Zenon DEF Contents
  <2>6. CASE owner[p] = NoTid
    <3>1. Settled(p)
      BY <2>6, Zenon DEF Contents, PageContents
    <3>2. Settled(p)'
      BY <2>1, <2>3, <2>4, <3>1, Zenon DEF Settled, Clean, Cached
    <3> QED BY <2>1, <2>6, <3>2, SizeAssumption, Zenon DEF PageContents
  <2>7. CASE owner[p] = t
    <3>1. OwnedUndo(t, p) /\ holdsLock(t, p)
      BY <2>1, <2>7, Zenon DEF Contents, PageContents, Owned, Locking, ThreadLocking, holdsLock, Completing,
         Locks!Holds
    <3>2. OwnedUndo(t, p)'
      BY <2>1, <2>3, <2>4, <3>1, Zenon DEF OwnedUndo, Clean, Cached
    <3> QED BY <2>1, <2>7, <3>2, SizeAssumption, Zenon DEF PageContents, Owned, Active, Asking, Releasing
  <2> QED BY <2>5, <2>6, <2>7, Zenon
<1>10. ASSUME NEW t \in Tid, ScanStep(t), LoopEnds(t) PROVE Contents'
  <2>1. /\ UNCHANGED <<owner, pages, disk, work>> /\ todo[t] = {} /\ pc'[t] \in Releasing
        /\ pc[t] = "flush" \/ (pc[t] = "undo" /\ committed' = committed)
    BY <1>0, <1>10, Zenon DEF LoopEnds, lockVars, poolVars, fileVars, Goto, ThreadTypes, Releasing
  <2>2. ASSUME NEW p \in Page, pc[t] = "flush" PROVE committed'[p] = Changed(t, p)
    <3>1. work[t].add = {}
      BY Zenon DEF Locking, ThreadLocking
    <3> QED BY <1>10, <2>2, <3>1, Zenon DEF LoopEnds, Changed
  <2>3. ASSUME NEW p \in Page, owner[p] # t PROVE committed'[p] = committed[p]
    <3>1. \A x \in Tuple : <<p, x>> \notin work[t].del
      BY <2>1, <2>3, ZenonT(60) DEF Locking, ThreadLocking, Completing
    <3>2. Changed(t, p) = committed[p]
      BY <1>0, <3>1, Zenon DEF Changed, PoolTypes
    <3> QED BY <2>1, <2>2, <3>2, Zenon
  <2> SUFFICES ASSUME NEW p \in Page PROVE PageContents(p)'
    BY Zenon DEF Contents
  <2>4. CASE owner[p] # t
    BY <1>10, <2>1, <2>3, <2>4, ScanStepsApart, ContentsApart, Zenon DEF Contents
  <2>5. CASE owner[p] = t
    <3>1. Settled(p)'
      <4>1. CASE pc[t] = "flush"
        <5>1. OwnedFlush(t, p)
          BY <2>5, <4>1, Zenon DEF Contents, PageContents, Owned
        <5>2. disk[p] = Changed(t, p)
          BY <2>1, <5>1, Zenon DEF OwnedFlush
        <5>3. p \in Cached => pages[p].dirty = NoTid /\ pages[p].data = disk[p]
          BY <2>1, <5>1, Zenon DEF OwnedFlush
        <5>4. p \in Cached => pages[p] = Clean(disk[p])
          BY <1>0, <5>3, Zenon DEF PoolTypes, Objects, Clean
        <5> QED BY <2>1, <2>2, <4>1, <5>2, <5>4, Zenon DEF Settled, Cached, Clean
      <4>2. CASE pc[t] = "undo"
        <5>1. OwnedUndo(t, p)
          BY <2>5, <4>2, Zenon DEF Contents, PageContents, Owned
        <5> QED BY <2>1, <4>2, <5>1, Zenon DEF OwnedUndo, Settled, Cached, Clean
      <4> QED BY <2>1, <4>1, <4>2, Zenon
    <3> QED BY <2>1, <2>5, <3>1, SizeAssumption, Zenon DEF PageContents, Owned, Active, Asking, Releasing
  <2> QED BY <2>4, <2>5, Zenon
<1>11. ASSUME NEW t \in Tid, NEW q \in Page, ScanStep(t), releaseNext(t, q) PROVE Contents'
  <2>1. UNCHANGED <<disk, committed, pages, work, pc>> /\ pc[t] \in Releasing
    BY <1>11, Zenon DEF releaseNext, fileVars, poolVars, histVars, Releasing
  <2>2. \A p \in Page : owner'[p] = owner[p] \/ (owner[p] = t /\ owner'[p] = NoTid)
    BY <1>0, <1>11, Zenon DEF releaseNext, Locks!Release, LockTypes
  <2> SUFFICES ASSUME NEW p \in Page PROVE PageContents(p)'
    BY Zenon DEF Contents
  <2>3. CASE owner[p] # t
    BY <1>11, <2>1, <2>2, <2>3, ScanStepsApart, ContentsApart, Zenon DEF Contents
  <2>4. CASE owner[p] = t
    <3>1. Settled(p)
      BY <2>1, <2>4, Zenon DEF Contents, PageContents, Owned
    <3>2. Settled(p)'
      BY <2>1, <3>1, Zenon DEF Settled, Cached, Clean
    <3> QED BY <2>1, <2>2, <2>4, <3>2, SizeAssumption, Zenon DEF PageContents, Owned, Active, Asking, Releasing
  <2> QED BY <2>3, <2>4, Zenon
<1>12. ASSUME NEW t \in Tid, ScanStep(t), releaseEnds(t) PROVE Contents'
  <2>1. UNCHANGED <<owner, disk, committed, pages, work>> /\ pc[t] \in Releasing /\ todo[t] = {}
    BY <1>12, Zenon DEF releaseEnds, fileVars, poolVars, histVars, Releasing
  <2> SUFFICES ASSUME NEW p \in Page PROVE PageContents(p)'
    BY Zenon DEF Contents
  <2>2. owner[p] # t
    BY <2>1, Zenon DEF Locking, ThreadLocking, Locks!Holds
  <2> QED BY <1>12, <2>1, <2>2, ScanStepsApart, ContentsApart, Zenon DEF Contents
<1>13. CASE flushAll
  <2>1. UNCHANGED <<owner, committed, pc, work, pid, todo>> /\ \A t \in Tid : ~Running(t)
    BY <1>13, Zenon DEF flushAll, flushAllPages, lockVars, histVars, iterVars
  <2>2. \A p \in Page : /\ pages'[p] = IF p \in Cached THEN Clean(pages[p].data) ELSE pages[p]
                        /\ disk'[p] = IF p \in Cached /\ isDirty(p) THEN pages[p].data ELSE disk[p]
    BY <1>13, Zenon DEF flushAll, flushAllPages, flushed, written
  <2>3. Cached' = Cached
    BY <1>0, <1>13, CachedAfter, Zenon DEF flushAll, flushAllPages
  <2> SUFFICES ASSUME NEW p \in Page PROVE PageContents(p)'
    BY Zenon DEF Contents
  <2>4. CASE owner[p] = NoTid
    <3>1. Settled(p)
      BY <2>4, Zenon DEF Contents, PageContents
    <3>2. p \in Cached => pages[p].dirty = NoTid /\ pages[p].data = disk[p]
      BY <3>1, CleanIsCached, Zenon DEF Settled
    <3>3. disk'[p] = disk[p] /\ (p \in Cached => pages'[p] = Clean(disk[p]))
      BY <2>2, <3>2, Zenon DEF isDirty
    <3> QED BY <2>1, <2>3, <2>4, <3>1, <3>3, SizeAssumption, Zenon DEF PageContents, Settled, Clean
  <2>5. ASSUME NEW t \in Tid, owner[p] = t PROVE Owned(t, p)' /\ owner[p] # NoTid
    <3>1. ThreadLocking(t) /\ Locks!Holds(t, p) /\ calls[t] \in Nat
      BY <1>0, <2>5, Zenon DEF Locking, Locks!Holds, FileTypes
    <3>2. pc[t] = "dead"
      <4>1. CASE calls[t] = 0
        BY <3>1, <4>1, SMTT(30) DEF ThreadLocking, Active
      <4>2. CASE calls[t] > 0
        BY <2>1, <3>1, <4>2, Zenon DEF ThreadLocking, Running, Ended
      <4> QED BY <3>1, <4>1, <4>2
    <3> QED BY <2>1, <2>5, <3>2, SizeAssumption, Zenon DEF Owned, Active, Asking, Releasing
  <2> QED BY <2>1, <2>4, <2>5, Zenon DEF PageContents
<1>14. CASE UNCHANGED vars
  <2>1. UNCHANGED <<pages, disk, committed, owner, pc, pid, todo, work>>
    BY <1>14, Zenon DEF vars, bpVars, lockVars, poolVars, fileVars, iterVars, histVars
  <2>2. Cached' = Cached
    BY <2>1, Zenon DEF Cached
  <2>3. ASSUME NEW t \in Tid, NEW p \in Page, Owned(t, p) PROVE Owned(t, p)'
    BY <2>1, <2>2, <2>3, Zenon DEF Owned, Settled, OwnedActive, OwnedFlush, OwnedUndo, Changed, Clean
  <2>4. ASSUME NEW p \in Page, Settled(p) PROVE Settled(p)'
    BY <2>1, <2>2, <2>4, Zenon DEF Settled, Clean
  <2> QED BY <2>1, <2>3, <2>4, Zenon DEF Contents, PageContents
<1>15. ASSUME NEW t \in Tid, ScanStep(t) PROVE Contents'
  BY <1>1, <1>2, <1>3, <1>4, <1>5, <1>6, <1>7, <1>8, <1>9, <1>10, <1>11, <1>12, <1>15, Zenon DEF ScanStep, PoolStep
<1> QED BY <1>13, <1>14, <1>15, ScanSteps, Zenon

-----------------------------------------------------------------------------
(* A thread that refers to a page that has left the cache is scanning it. *)

\* What a thread holds of a page object survives a step of another thread.
LEMMA ReferenceApart ==
    ASSUME NEW u \in Tid, Reference(u), Apart(u), pid[u] \in Page,
           UNCHANGED <<shared[u], copy[u]>>, disk'[pid[u]] = disk[pid[u]],
           pid[u] \in Cached' => pid[u] \in Cached
    PROVE  Reference(u)'
BY Zenon DEF Reference, Apart

\* A page that has an object in use is locked.
LEMMA UserHolds ==
    ASSUME Locking, NEW u \in Tid, pc[u] \in {"room", "read", "put", "use", "mark"}
    PROVE  Locks!Holds(u, pid[u])
BY Zenon DEF Locking, ThreadLocking, Asking

\* What two transactions have locked neither of them owns, and it is clean.
LEMMA SharedIsSettled ==
    ASSUME Types, Locking, Contents, NEW t \in Tid, NEW u \in Tid, u # t, NEW p \in Page,
           Locks!Holds(t, p), Locks!Holds(u, p)
    PROVE  owner[p] = NoTid /\ Settled(p)
<1>1. owner[p] \in {t, NoTid} /\ owner[p] \in {u, NoTid}
  BY HoldsExcludes, Zenon
<1>2. owner[p] = NoTid
  BY <1>1, Zenon
<1> QED BY <1>2, Zenon DEF Contents, PageContents

\* The object that leaves the cache while u scans its page.
LEMMA ReferenceDetached ==
    ASSUME Types, Locking, References, NEW u \in Tid, Apart(u), NEW p \in Page, Detach(p),
           UNCHANGED disk, \A q \in Page : q \in Cached' => q \in Cached \/ owner[q] # u,
           shared[u] /\ pid[u] = p => op[u] = "scan" /\ pages[p].data = disk[p]
    PROVE  Reference(u)'
<1>0. Reference(u) /\ pid[u] \in Page /\ shared[u] \in BOOLEAN
      /\ (shared[u] => pc[u] \notin {"room", "read", "put"})
  BY Zenon DEF References, Types, ThreadTypes, RefTypes
<1>1. CASE shared[u] /\ pid[u] = p
  <2>1. copy'[u] = disk[p]
    BY <1>1, Zenon DEF Detach
  <2>2. pc[u] # "mark"
    BY <1>1, Zenon DEF Locking, ThreadLocking
  <2> QED BY <1>0, <1>1, <2>1, <2>2, Zenon DEF Reference, Apart
<1>2. CASE ~(shared[u] /\ pid[u] = p)
  <2>1. shared'[u] = shared[u] /\ copy'[u] = copy[u]
    BY <1>0, <1>2, Zenon DEF Detach
  <2> QED BY <1>0, <2>1, Zenon DEF Reference, Apart
<1> QED BY <1>1, <1>2, Zenon

LEMMA ReferencesStep ==
    ASSUME Types, Locking, Contents, References, DeletesUndisturbed, "insert" \notin Ops, [Next]_vars
    PROVE  References'
<1>0. LockTypes /\ PoolTypes /\ ThreadTypes /\ FileTypes /\ RefTypes
  BY Zenon DEF Types
<1>1. ASSUME NEW t \in Tid, ScanStep(t) PROVE Reference(t)'
  <2>0. Reference(t)
    BY Zenon DEF References
  <2>1. CASE makeRoom(t)
    <3>1. \E l \in {"read", "idle", "dead"} : pc' = [pc EXCEPT ![t] = l]
      BY <2>1, RoomCases, Zenon
    <3>2. pages' = pages \/ \E q \in Page : pages' = [pages EXCEPT ![q] = Absent]
      BY <2>1, RoomCases, Zenon DEF poolVars
    <3>3. \A p \in Page : p \in Cached' => p \in Cached
      BY <1>0, <3>2, Zenon DEF PoolTypes, Cached
    <3>4. UNCHANGED <<pid, owner>> /\ pc[t] = "room" /\ pid[t] \in Page
      BY <1>0, <2>1, Zenon DEF makeRoom, lockVars, ThreadTypes
    <3> QED BY <1>0, <2>0, <3>1, <3>3, <3>4, Zenon DEF Reference, ThreadTypes
  <2>2. CASE containsKey(t) \/ readPage(t)
    BY <1>0, <2>0, <2>2, ZenonT(60) DEF containsKey, readPage, Reference, Goto, ThreadTypes, lockVars, poolVars,
       fileVars, Cached
  <2>3. CASE getReturns(t)
    BY <1>0, <2>3, Zenon DEF getReturns, Reference, Goto, ThreadTypes
  <2>4. ASSUME NEW x \in Tuple, clearSlot(t, x) PROVE Reference(t)'
    BY <1>0, <2>0, <2>4, Zenon DEF clearSlot, Reference, Goto, ThreadTypes
  <2>5. CASE pc'[t] \notin {"room", "read", "put", "use", "mark"}
    BY <2>5, Zenon DEF Reference
  <2> QED
    BY <1>0, <1>1, <2>1, <2>2, <2>3, <2>4, <2>5, ZenonT(60) DEF ScanStep, PoolStep, Acquire, AbortedByLock,
       putPage, markDirty, IteratorFails, LoopEnds, releaseEnds, flushPage, revertPage, releaseNext, open,
       hasNext, nextPage, getPage, readTuples, deleteTuple, commitTransaction, abortTransaction,
       transactionComplete, Goto, ThreadTypes
<1>2. ASSUME NEW t \in Tid, ScanStep(t), NEW u \in Tid, u # t PROVE Reference(u)'
  <2>0. Reference(u) /\ Apart(u) /\ pid[u] \in Page
    BY <1>0, <1>2, ScanStepsApart, Zenon DEF References, ThreadTypes
  <2>1. CASE pc[u] \notin {"room", "read", "put", "use", "mark"}
    BY <2>0, <2>1, Zenon DEF Reference, Apart
  <2>2. CASE pc[u] \in {"room", "read", "put", "use", "mark"}
    <3>0. Locks!Holds(u, pid[u])
      BY <2>2, UserHolds, Zenon
    <3>1. CASE makeRoom(t)
      <4>1. CASE UNCHANGED <<poolVars, refVars>>
        BY <2>0, <3>1, <4>1, ReferenceApart, Zenon DEF makeRoom, fileVars, poolVars, refVars, Cached
      <4>2. CASE ~UNCHANGED <<poolVars, refVars>>
        <5>1. PICK k \in 1..Len(pageids) :
                /\ pageids[k] \in Page
                /\ pageids[k] \in Cached => ~isDirty(pageids[k])
                /\ pages' = [pages EXCEPT ![pageids[k]] = Absent]
                /\ Detach(pageids[k])
          BY <3>1, <4>2, RoomCases, Zenon
        <5> DEFINE p == pageids[k]
        <5>2. Len(pageids) = MaxPages /\ pc[t] = "room" /\ UNCHANGED disk
          BY <3>1, <4>2, RoomCases, Zenon DEF makeRoom, fileVars
        <5>3. \A q \in Page : q \in Cached' => q \in Cached
          BY <1>0, <5>1, Zenon DEF PoolTypes, Cached
        <5>4. ASSUME shared[u], pid[u] = p PROVE op[u] = "scan" /\ pages[p].data = disk[p]
          <6>1. pc[u] \in {"use", "mark"} /\ p \in Cached
            BY <1>0, <2>2, <5>4, Zenon DEF RefTypes
          <6>2. op[u] = "scan" /\ pc[u] = "use"
            BY <5>2, <6>1, SMTT(30) DEF DeletesUndisturbed, Locking, ThreadLocking
          <6>3. pages[p].dirty = NoTid
            BY <5>1, <6>1, Zenon DEF isDirty
          <6>4. CASE owner[p] = NoTid
            BY <5>1, <6>1, <6>2, <6>4, CleanIsCached, Zenon DEF Contents, PageContents, Settled
          <6>5. CASE owner[p] = u
            BY <5>1, <6>1, <6>2, <6>3, <6>5, Zenon DEF Contents, PageContents, Owned, OwnedActive, Active
          <6> QED BY <3>0, <5>1, <5>4, <6>2, <6>4, <6>5, HoldsExcludes, Zenon
        <5> QED BY <2>0, <5>1, <5>2, <5>3, <5>4, ReferenceDetached, Zenon
      <4> QED BY <4>1, <4>2, Zenon
    <3>2. ASSUME NEW p \in Page, Detach(p), UNCHANGED disk, Locks!Holds(t, p), p \in Cached => owner[p] # t,
                 \A q \in Page : q \in Cached' => q \in Cached \/ q = p
          PROVE  Reference(u)'
      <4>1. \A q \in Page : q \in Cached' => q \in Cached \/ owner[q] # u
        BY <1>2, <3>2, HoldsExcludes, SizeAssumption, Zenon
      <4>2. ASSUME shared[u], pid[u] = p PROVE op[u] = "scan" /\ pages[p].data = disk[p]
        <5>1. p \in Cached /\ owner[p] = NoTid /\ Settled(p)
          BY <1>0, <1>2, <3>0, <3>2, <4>2, SharedIsSettled, Zenon DEF RefTypes
        <5>2. pages[p].data = disk[p]
          BY <5>1, CleanIsCached, Zenon DEF Settled
        <5>3. op[u] = "scan"
          BY <1>0, <2>2, <4>2, <5>1, SizeAssumption, SMTT(30) DEF Locking, ThreadLocking, RefTypes, Asking
        <5> QED BY <5>2, <5>3, Zenon
      <4> QED BY <2>0, <3>2, <4>1, <4>2, ReferenceDetached, Zenon
    <3>3. CASE putPage(t)
      <4>1. pc[t] = "put" /\ pid[t] \in Page /\ Detach(pid[t]) /\ UNCHANGED disk
            /\ pages' = [pages EXCEPT ![pid[t]] = Clean(copy[t])]
        BY <1>0, <3>3, Zenon DEF putPage, ThreadTypes, fileVars
      <4>2. \A q \in Page : q \in Cached' => q \in Cached \/ q = pid[t]
        BY <1>0, <4>1, Zenon DEF PoolTypes, Cached
      <4>3. Locks!Holds(t, pid[t]) /\ (pid[t] \in Cached => owner[pid[t]] # t)
        BY <4>1, UserHolds, Zenon DEF References, Reference
      <4> QED BY <3>2, <4>1, <4>2, <4>3, Zenon
    <3>4. ASSUME NEW p \in Page, revertPage(t, p) PROVE Reference(u)'
      <4>1. CASE holdsLock(t, p)
        <5>1. Detach(p) /\ UNCHANGED disk /\ pages' = [pages EXCEPT ![p] = Clean(disk[p])] /\ pc[t] = "undo"
          BY <3>4, <4>1, Zenon DEF revertPage, fileVars
        <5>2. \A q \in Page : q \in Cached' => q \in Cached \/ q = p
          BY <1>0, <5>1, Zenon DEF PoolTypes, Cached
        <5>3. Locks!Holds(t, p)
          BY <4>1, <5>1, Zenon DEF Locking, ThreadLocking, holdsLock, Completing
        <5>4. \A q \in Page : q \in Cached' => q \in Cached \/ owner[q] # u
          BY <1>2, <5>2, <5>3, HoldsExcludes, SizeAssumption, Zenon
        <5>5. ASSUME shared[u], pid[u] = p PROVE op[u] = "scan" /\ pages[p].data = disk[p]
          <6>1. p \in Cached /\ owner[p] = NoTid /\ Settled(p)
            BY <1>0, <1>2, <3>0, <5>3, <5>5, SharedIsSettled, Zenon DEF RefTypes
          <6>2. pages[p].data = disk[p]
            BY <6>1, CleanIsCached, Zenon DEF Settled
          <6>3. op[u] = "scan"
            BY <1>0, <2>2, <5>5, <6>1, SizeAssumption DEF Locking, ThreadLocking, RefTypes, Asking
          <6> QED BY <6>2, <6>3, Zenon
        <5> QED BY <2>0, <5>1, <5>4, <5>5, ReferenceDetached, Zenon
      <4>2. CASE ~holdsLock(t, p)
        BY <2>0, <3>4, <4>2, ReferenceApart, Zenon DEF revertPage, fileVars, refVars, Cached
      <4> QED BY <4>1, <4>2, Zenon
    <3>5. ASSUME NEW p \in Page, flushPage(t, p) PROVE Reference(u)'
      <4>1. pc[t] = "flush" /\ UNCHANGED refVars /\ Cached' = Cached
        BY <1>0, <3>5, CachedAfter, Zenon DEF flushPage
      <4>2. disk'[pid[u]] = disk[pid[u]]
        <5>1. CASE pid[u] # p \/ ~holdsLock(t, p)
          BY <1>0, <2>0, <3>5, <5>1, Zenon DEF flushPage, written, PoolTypes
        <5>2. CASE pid[u] = p /\ holdsLock(t, p)
          <6>1. Locks!Holds(t, p)
            BY <4>1, <5>2, Zenon DEF Locking, ThreadLocking, holdsLock, Completing
          <6>2. Settled(p)
            BY <1>2, <3>0, <5>2, <6>1, SharedIsSettled, Zenon
          <6>3. p \in Cached => ~isDirty(p)
            BY <6>2, CleanIsCached, Zenon DEF Settled, isDirty
          <6> QED BY <1>0, <2>0, <3>5, <5>2, <6>3, Zenon DEF flushPage, written, PoolTypes
        <5> QED BY <5>1, <5>2, Zenon
      <4> QED BY <2>0, <4>1, <4>2, ReferenceApart, Zenon DEF refVars
    <3>6. ASSUME NEW x \in Tuple, clearSlot(t, x) PROVE Reference(u)'
      <4>1. UNCHANGED <<fileVars, shared[u]>> /\ copy'[u] = copy[u]
        BY <1>0, <1>2, <3>6, Zenon DEF clearSlot, SetData, ThreadTypes
      <4>2. Cached' = Cached
        <5>1. CASE pages' = pages
          BY <5>1, Zenon DEF Cached
        <5>2. CASE pages' # pages
          <6>1. shared[t] /\ pages' = [pages EXCEPT ![pid[t]].data = Data(t) \ {x}]
            BY <3>6, <5>2, Zenon DEF clearSlot, SetData
          <6>2. Data(t) \ {x} \in SUBSET Tuple
            BY <1>0, <6>1, CachedObjects, Zenon DEF Data, ThreadTypes, Objects
          <6> QED BY <6>1, <6>2, ChangeObject, Zenon
        <5> QED BY <5>1, <5>2, Zenon
      <4> QED BY <2>0, <4>1, <4>2, ReferenceApart, Zenon DEF fileVars
    <3>7. CASE markDirty(t)
      <4>1. UNCHANGED <<fileVars, shared[u]>> /\ copy'[u] = copy[u]
        BY <1>0, <1>2, <3>7, Zenon DEF markDirty, ThreadTypes
      <4>2. Cached' = Cached
        <5>1. CASE shared[t]
          BY <3>7, <5>1, ChangeObject, Zenon DEF markDirty
        <5>2. CASE ~shared[t]
          BY <3>7, <5>2, Zenon DEF markDirty, Cached
        <5> QED BY <5>1, <5>2, Zenon
      <4> QED BY <2>0, <4>1, <4>2, ReferenceApart, Zenon DEF fileVars
    <3>8. CASE \/ Acquire(t) \/ AbortedByLock(t) \/ containsKey(t) \/ readPage(t) \/ getReturns(t)
               \/ IteratorFails(t) \/ LoopEnds(t) \/ releaseEnds(t) \/ \E p \in Page : releaseNext(t, p)
               \/ open(t) \/ hasNext(t) \/ readTuples(t) \/ (\E p \in Page : deleteTuple(t, p))
               \/ commitTransaction(t) \/ abortTransaction(t)
      <4>1. UNCHANGED <<fileVars, poolVars, shared[u]>> /\ copy'[u] = copy[u]
        BY <1>0, <1>2, <3>8, Zenon DEF Acquire, AbortedByLock, containsKey, readPage, getReturns,
           IteratorFails, LoopEnds, releaseEnds, releaseNext, open, hasNext, nextPage, readTuples,
           deleteTuple, commitTransaction, abortTransaction, transactionComplete, refVars, ThreadTypes
      <4> QED BY <2>0, <4>1, ReferenceApart, Zenon DEF fileVars, poolVars, Cached
    <3> QED BY <1>2, <3>1, <3>3, <3>4, <3>5, <3>6, <3>7, <3>8, Zenon DEF ScanStep, PoolStep
  <2> QED BY <2>1, <2>2, Zenon
<1>3. CASE \E t \in Tid : ScanStep(t)
  BY <1>1, <1>2, <1>3, Zenon DEF References
<1>4. CASE flushAll
  <2>1. UNCHANGED <<pc, calls>> /\ \A t \in Tid : ~Running(t)
    BY <1>4, Zenon DEF flushAll, flushAllPages, hfVars
  <2>2. \A t \in Tid : pc[t] \notin {"room", "read", "put", "use", "mark"}
    BY <1>0, <2>1, SMTT(30) DEF Running, Ended, Locking, ThreadLocking, FileTypes
  <2> QED BY <2>1, <2>2, Zenon DEF References, Reference
<1>5. CASE UNCHANGED vars
  BY <1>5, Zenon DEF References, Reference, vars, bpVars, lockVars, poolVars, fileVars, refVars, Cached
<1> QED BY <1>3, <1>4, <1>5, ScanSteps, Zenon

-----------------------------------------------------------------------------
(* What a transaction has read stays committed. *)

LEMMA ViewsStep ==
    ASSUME Types, Locking, Contents, References, Views, "insert" \notin Ops, [Next]_vars
    PROVE  Views'
<1>0. LockTypes /\ PoolTypes /\ ThreadTypes /\ FileTypes /\ RefTypes
  BY Zenon DEF Types
<1>1. ASSUME NEW t \in Tid, ScanStep(t), NEW u \in Tid, ~readTuples(t) \/ u # t PROVE View(u)'
  <2>0. view'[u] \subseteq view[u]
    <3>1. CASE u # t
      BY <1>1, <3>1, ScanStepsApart, Zenon DEF Apart
    <3>2. CASE u = t
      BY <1>0, <1>1, <3>2, ZenonT(90) DEF ScanStep, PoolStep, open, hasNext, nextPage, deleteTuple,
         clearSlot, commitTransaction, abortTransaction, hfVars, FileTypes
    <3> QED BY <3>1, <3>2, Zenon
  <2>1. CASE LoopEnds(t) /\ u = t
    BY <1>0, <2>1, ZenonT(60) DEF LoopEnds, View, Active, Asking, Completing, Goto, ThreadTypes
  <2>2. CASE LoopEnds(t) /\ u # t
    <3>1. Apart(u) /\ ThreadLocking(t) /\ ThreadLocking(u) /\ View(u)
      BY <1>1, <2>2, ScanStepsApart, Zenon DEF Locking, Views
    <3>2. ASSUME NEW p \in Page, NEW x \in Tuple, <<p, x>> \in view[u], pc[u] \in Active \cup Completing
          PROVE x \in committed'[p]
      <4>1. Locks!Holds(u, p) /\ x \in committed[p]
        BY <3>1, <3>2, Zenon DEF ThreadLocking, View
      <4>2. owner[p] # t
        BY <2>2, <4>1, HoldsExcludes, SizeAssumption, Zenon
      <4>3. <<p, x>> \notin work[t].del
        BY <2>2, <3>1, <4>2, Zenon DEF LoopEnds, ThreadLocking, Completing
      <4> QED BY <2>2, <4>1, <4>3, Zenon DEF LoopEnds
    <3> QED BY <2>0, <3>1, <3>2, Zenon DEF View, Apart
  <2>3. CASE ~LoopEnds(t)
    <3>1. UNCHANGED committed
      BY <1>1, <2>3, Zenon DEF ScanStep, PoolStep, Acquire, AbortedByLock, containsKey, makeRoom, readPage, putPage,
         getReturns, markDirty, IteratorFails, releaseEnds, flushPage, revertPage, releaseNext, open, hasNext,
         nextPage, readTuples, deleteTuple, clearSlot, commitTransaction, abortTransaction, transactionComplete,
         histVars
    <3>2. View(u) /\ (pc'[u] \in Active \cup Completing => pc[u] \in Active \cup Completing)
      <4>1. CASE u # t
        BY <1>1, <4>1, ScanStepsApart, ZenonT(60) DEF Views, Apart
      <4>2. CASE u = t /\ makeRoom(t)
        BY <4>2, Zenon DEF Views, makeRoom, Active, Asking
      <4>3. CASE u = t /\ ~makeRoom(t)
        BY <1>0, <1>1, <4>3, ZenonT(60) DEF Views, ScanStep, PoolStep, Acquire, AbortedByLock, containsKey,
           readPage, putPage, getReturns, markDirty, IteratorFails, LoopEnds, releaseEnds, flushPage,
           revertPage, releaseNext, open, hasNext, nextPage, getPage, Call, deleteTuple, clearSlot,
           commitTransaction, abortTransaction, transactionComplete, Goto, ThreadTypes, Active, Asking,
           Completing
      <4> QED BY <4>1, <4>2, <4>3, Zenon
    <3> QED BY <2>0, <3>1, <3>2, Zenon DEF View
  <2> QED BY <2>1, <2>2, <2>3, Zenon
<1>2. ASSUME NEW t \in Tid, ScanStep(t), readTuples(t) PROVE View(t)'
  <2> DEFINE q == pid[t]
  <2>1. /\ pc[t] = "use" /\ op[t] = "scan" /\ UNCHANGED committed /\ q \in Page
        /\ view'[t] = view[t] \cup {<<q, x>> : x \in Data(t)}
    BY <1>0, <1>2, Zenon DEF readTuples, ThreadTypes, FileTypes, histVars
  <2>2. Locks!Holds(t, q) /\ View(t) /\ Reference(t)
    BY <2>1, UserHolds, Zenon DEF Views, References
  <2>3. /\ disk[q] = committed[q]
        /\ q \in Cached => pages[q].data \subseteq committed[q]
    <3>1. CASE owner[q] = NoTid
      BY <2>1, <3>1, CleanIsCached, SMTT(30) DEF Contents, PageContents, Settled
    <3>2. CASE owner[q] = t
      <4>1. OwnedActive(t, q)
        BY <2>1, <3>2, Zenon DEF Contents, PageContents, Owned, Active
      <4> QED BY <4>1, Zenon DEF OwnedActive, Changed
    <3> QED BY <2>1, <2>2, <3>1, <3>2, HoldsExcludes, ZenonT(60)
  <2>4. Data(t) \subseteq committed[q]
    <3>1. CASE shared[t]
      BY <1>0, <2>3, <3>1, Zenon DEF Data, RefTypes
    <3>2. CASE ~shared[t]
      BY <2>1, <2>2, <2>3, <3>2, Zenon DEF Data, Reference
    <3> QED BY <3>1, <3>2, Zenon
  <2> HIDE DEF q
  <2> QED BY <2>1, <2>2, <2>4, Zenon DEF View, Active
<1>3. CASE \E t \in Tid : ScanStep(t)
  BY <1>1, <1>2, <1>3, Zenon DEF Views
<1>4. CASE flushAll \/ UNCHANGED vars
  BY <1>4, Zenon DEF flushAll, flushAllPages, hfVars, histVars, vars, bpVars, Views, View
<1> QED BY <1>3, <1>4, ScanSteps, Zenon

-----------------------------------------------------------------------------
(* The theorems about transactions that scan and delete *)

LEMMA InvInit == Init => IInv
<1> SUFFICES ASSUME Init PROVE IInv
  BY Zenon
<1> USE SizeAssumption DEF Init, InitPool
<1>1. Types
  BY TypesInit, Zenon
<1>2. Locking
  <2>1. ASSUME NEW t \in Tid PROVE ThreadLocking(t)
    <3>1. pc[t] = "idle" /\ op[t] = "none" /\ work[t] = [del |-> {}, add |-> {}] /\ view[t] = {}
      BY Zenon
    <3>2. ASSUME NEW p \in Page PROVE held[t][p] = 0 /\ ~Locks!Holds(t, p)
      BY Zenon DEF Locks!Holds
    <3>3. 0 >= 0 /\ ~(0 > 0)
      OBVIOUS
    <3>4. work[t].del = {} /\ work[t].add = {}
      BY ONLY <3>1
    <3> HIDE DEF Init, InitPool
    <3> QED BY <3>1, <3>2, <3>3, <3>4, Zenon DEF ThreadLocking, Inserting, Asking, Completing, Releasing
  <2> QED BY <2>1, Zenon DEF Locking
<1>3. Contents
  BY Zenon DEF Contents, PageContents, Settled, Cached
<1>4. References
  BY Zenon DEF References, Reference
<1>5. Views
  BY Zenon DEF Views, View
<1> QED BY <1>1, <1>2, <1>3, <1>4, <1>5, Zenon DEF IInv

LEMMA InvStep ==
    ASSUME "insert" \notin Ops, IInv, DeletesUndisturbed, [Next]_vars
    PROVE  IInv'
<1>1. Types'
  BY TypesStep, Zenon DEF IInv
<1>2. Locking'
  BY LockingStep, Zenon DEF IInv
<1>3. Contents'
  BY ContentsStep, Zenon DEF IInv
<1>4. References'
  BY ReferencesStep, Zenon DEF IInv
<1>5. Views'
  BY ViewsStep, Zenon DEF IInv
<1> QED BY <1>1, <1>2, <1>3, <1>4, <1>5, Zenon DEF IInv

LEMMA InvImplies == IInv => ForceNoSteal /\ CacheCoherent /\ ViewIsCommitted
<1> SUFFICES ASSUME IInv PROVE ForceNoSteal /\ CacheCoherent /\ ViewIsCommitted
  BY Zenon
<1>0. LockTypes /\ ThreadTypes /\ FileTypes /\ Locking /\ Contents /\ Views
  BY Zenon DEF IInv, Types
<1>1. ForceNoSteal
  <2> SUFFICES ASSUME NEW p \in Page, disk[p] # committed[p]
               PROVE  \E t \in Tid : owner[p] = t /\ pc[t] \in {"flush", "dead"}
    BY Zenon DEF ForceNoSteal
  <2>1. owner[p] \in Tid
    BY <1>0, Zenon DEF LockTypes, Contents, PageContents, Settled
  <2>2. Owned(owner[p], p)
    BY <1>0, <2>1, Zenon DEF Contents, PageContents
  <2>3. pc[owner[p]] \notin {"committed", "rolledback"} \cup Inserting
    BY <1>0, <2>1, ZenonT(60) DEF Locking, ThreadLocking, Locks!Holds
  <2>4. pc[owner[p]] \in Active \cup Inserting \cup Completing \cup Releasing \cup Over
    BY <1>0, <2>1, Zenon DEF ThreadTypes
  <2> QED BY <2>1, <2>2, <2>3, <2>4, Zenon DEF Owned, OwnedActive, OwnedUndo, Settled, Completing, Over
<1>2. CacheCoherent
  BY <1>0, Zenon DEF CacheCoherent, Contents, PageContents, Settled, Cached
<1>3. ViewIsCommitted
  <2> SUFFICES ASSUME NEW t \in Tid, Running(t), pc[t] \notin {"committing", "aborting"}, NEW r \in view[t]
               PROVE  r[2] \in committed[r[1]]
    BY Zenon DEF ViewIsCommitted
  <2>1. pc[t] \in Active \cup Completing
    BY <1>0, SMTT(30) DEF Running, Ended, ThreadTypes, Locking, ThreadLocking, Releasing, Over
  <2>2. r = <<r[1], r[2]>> /\ r[1] \in Page /\ r[2] \in Tuple
    BY <1>0 DEF FileTypes
  <2> QED BY <1>0, <2>1, <2>2, Zenon DEF Views, View
<1> QED BY <1>1, <1>2, <1>3, Zenon

\* One at a time, a transaction that evicts is the only one that runs.
LEMMA SerialDeletes ==
    ASSUME Types, OneRuns
    PROVE  DeletesUndisturbed
<1> SUFFICES ASSUME NEW t \in Tid, NEW u \in Tid, pc[t] = "room", pc[u] \in {"use", "mark"}
             PROVE  FALSE
  BY Zenon DEF DeletesUndisturbed
<1>1. Running(t) /\ Running(u) /\ t # u
  BY SMTT(30) DEF Running, Ended, OneRuns, Types, FileTypes
<1> QED BY <1>1, Zenon DEF OneRuns

\* Transactions that scan and delete, one after another and with any pool:
\* the file is what the committed transactions made it (FORCE, NO STEAL), a
\* page nobody has locked for writing is the same in the cache and in the
\* file, and a transaction reads committed tuples only.
THEOREM SerialScans ==
    ASSUME "insert" \notin Ops, Serial
    PROVE  Spec => [](ForceNoSteal /\ CacheCoherent /\ ViewIsCommitted)
<1> DEFINE Inv == IInv /\ OneRuns
<1>1. Init => Inv
  BY InvInit, OneRunsInit, Zenon
<1>2. Inv /\ [Next]_vars => Inv'
  BY InvStep, OneRunsStep, SerialDeletes, Zenon DEF IInv
<1>3. Inv => ForceNoSteal /\ CacheCoherent /\ ViewIsCommitted
  BY InvImplies, Zenon
<1> QED BY <1>1, <1>2, <1>3, PTL DEF Spec

\* The same for a pool that does evict, in the behaviours in which no page is
\* evicted while another thread is between getPage and markDirty of a deletion:
\* that is the one interleaving that loses an update.
THEOREM UndisturbedScans ==
    ASSUME "insert" \notin Ops
    PROVE  Spec /\ []DeletesUndisturbed => [](ForceNoSteal /\ CacheCoherent /\ ViewIsCommitted)
<1>1. IInv /\ DeletesUndisturbed /\ [Next]_vars => IInv'
  BY InvStep, Zenon
<1> QED BY InvInit, <1>1, InvImplies, PTL DEF Spec

-----------------------------------------------------------------------------
(* A pool that never evicts *)

\* A page enters the queue once for every thread that has missed it in the
\* cache, so a pool this large is never full when a thread asks for room.
NeverFull == IsFiniteSet(Tid) /\ MaxPages >= Cardinality(Tid) * FilePages

\* The threads that will add a page that is in the cache already.
Pending == {t \in Tid : pc[t] \in {"room", "read", "put"} /\ pid[t] \in Cached}

QueueIsBounded == Len(pageids) + Cardinality(Pending) <= Cardinality(Tid) * Cardinality(Cached)

\* The sets and sequences whose sizes are compared below are finite.
LEMMA Sizes ==
    ASSUME Types, IsFiniteSet(Tid)
    PROVE  /\ Cardinality(Tid) \in Nat /\ Cardinality(Cached) \in Nat /\ Cardinality(Pending) \in Nat
           /\ IsFiniteSet(Cached) /\ IsFiniteSet(Pending) /\ Cardinality(Pending) <= Cardinality(Tid)
           /\ IsFiniteSet(Page) /\ Cardinality(Page) = FilePages /\ Len(pageids) \in Nat
<1>1. IsFiniteSet(Page) /\ Cardinality(Page) = FilePages
  <2>1. 0 \in Int /\ FilePages - 1 \in Int /\ ~(0 > FilePages - 1) /\ FilePages - 1 - 0 + 1 = FilePages
    BY SizeAssumption
  <2>2. IsFiniteSet(0..(FilePages - 1))
    BY <2>1, FS_Interval, Zenon
  <2>3. Cardinality(0..(FilePages - 1)) = IF 0 > FilePages - 1 THEN 0 ELSE FilePages - 1 - 0 + 1
    BY <2>1, FS_Interval, Zenon
  <2> QED BY <2>1, <2>2, <2>3, Zenon DEF Page
<1>2. Cached \in SUBSET Page /\ Pending \in SUBSET Tid
  BY Zenon DEF Cached, Pending
<1>3. IsFiniteSet(Cached) /\ IsFiniteSet(Pending) /\ Cardinality(Pending) <= Cardinality(Tid)
  BY <1>1, <1>2, FS_Subset, Zenon
<1> QED BY <1>1, <1>3, FS_CardinalityType DEF Types, PoolTypes

\* A thread that asks for room finds the pool not full.
LEMMA NoEviction ==
    ASSUME Types, NeverFull, QueueIsBounded, NEW t \in Tid, pc[t] = "room"
    PROVE  Len(pageids) < MaxPages
<1> DEFINE n == Cardinality(Tid)
           c == Cardinality(Cached)
           d == Cardinality(Pending)
<1>1. n \in Nat /\ c \in Nat /\ d \in Nat /\ Len(pageids) \in Nat /\ FilePages \in Nat /\ MaxPages \in Nat
  BY Sizes, SizeAssumption, Zenon DEF NeverFull
<1>2. n > 0
  BY <1>1, FS_EmptySet DEF NeverFull
<1>3. CASE pid[t] \in Cached
  <2>1. t \in Pending /\ c <= FilePages
    BY <1>3, Sizes, FS_Subset, Zenon DEF Pending, NeverFull, Cached
  <2>2. d > 0
    BY <1>1, <2>1, Sizes, FS_EmptySet DEF NeverFull
  <2> HIDE DEF n, c, d
  <2>3. n * c <= n * FilePages
    BY <1>1, <2>1
  <2>4. Len(pageids) + d <= n * c /\ MaxPages >= n * FilePages /\ n * c \in Nat /\ n * FilePages \in Nat
    BY <1>1 DEF QueueIsBounded, NeverFull, n, c, d
  <2> QED BY ONLY <1>1, <2>2, <2>3, <2>4
<1>4. CASE pid[t] \notin Cached
  <2>1. pid[t] \in Page /\ Cached \in SUBSET (Page \ {pid[t]})
    BY <1>4, Zenon DEF Types, ThreadTypes, Cached
  <2>2. IsFiniteSet(Page \ {pid[t]}) /\ Cardinality(Page \ {pid[t]}) = FilePages - 1
    BY <2>1, Sizes, FS_RemoveElement DEF NeverFull
  <2>3. c <= FilePages - 1
    BY <2>1, <2>2, FS_Subset
  <2> HIDE DEF n, c, d
  <2>4. n * c <= n * (FilePages - 1) /\ n * (FilePages - 1) = n * FilePages - n
    BY <1>1, <2>3
  <2>5. Len(pageids) + d <= n * c /\ MaxPages >= n * FilePages /\ n * c \in Nat /\ n * FilePages \in Nat
    BY <1>1 DEF QueueIsBounded, NeverFull, n, c, d
  <2> QED BY ONLY <1>1, <1>2, <2>4, <2>5
<1> QED BY <1>3, <1>4, Zenon

\* In a pool with a place for every page and thread the queue never fills up.
LEMMA QueueIsBoundedStep ==
    ASSUME Types, NeverFull, QueueIsBounded, [Next]_vars
    PROVE  QueueIsBounded'
<1>0. PoolTypes /\ ThreadTypes /\ Types'
  BY TypesStep, Zenon DEF Types
<1>1. ASSUME Cached' = Cached, Len(pageids') = Len(pageids), Pending' \subseteq Pending PROVE QueueIsBounded'
  <2>1. Cardinality(Pending') <= Cardinality(Pending)
    BY <1>1, Sizes, FS_Subset, Zenon DEF NeverFull
  <2>2. Cardinality(Pending') \in Nat /\ Cardinality(Pending) \in Nat /\ Len(pageids) \in Nat
        /\ Cardinality(Tid) * Cardinality(Cached) \in Nat
    <3>1. IsFiniteSet(Pending')
      BY <1>1, Sizes, FS_Subset, Zenon DEF NeverFull
    <3>2. Cardinality(Tid) \in Nat /\ Cardinality(Cached) \in Nat
      BY Sizes, Zenon DEF NeverFull
    <3>3. Cardinality(Tid) * Cardinality(Cached) \in Nat
      BY <3>2
    <3> QED BY <3>1, <3>3, Sizes, FS_CardinalityType, Zenon DEF NeverFull
  <2> QED BY <1>1, <2>1, <2>2 DEF QueueIsBounded
<1>2. ASSUME NEW p \in Page, p \notin Cached, Cached' = Cached \cup {p},
             Len(pageids') + Cardinality(Pending') <= Len(pageids) + Cardinality(Tid)
      PROVE  QueueIsBounded'
  <2> DEFINE n == Cardinality(Tid)
             c == Cardinality(Cached)
             d == Cardinality(Pending)
  <2>1. n \in Nat /\ c \in Nat /\ d \in Nat /\ Len(pageids) \in Nat /\ Cardinality(Cached') = c + 1
    BY <1>2, Sizes, FS_AddElement, Zenon DEF NeverFull
  <2>2. Len(pageids) + d <= n * c
    BY Zenon DEF QueueIsBounded
  <2>3. Len(pageids') + Cardinality(Pending') <= Len(pageids) + n
    BY <1>2, Zenon
  <2>4. Len(pageids') \in Nat /\ Cardinality(Pending') \in Nat
    <3>1. pageids' \in Seq(Page)
      BY <1>0, Zenon DEF Types, PoolTypes
    <3>2. IsFiniteSet(Pending')
      <4>1. Pending' \in SUBSET Tid
        BY Zenon DEF Pending
      <4> QED BY <4>1, FS_Subset, Zenon DEF NeverFull
    <3> QED BY <3>1, <3>2, FS_CardinalityType
  <2> HIDE DEF n, c, d
  <2>5. n * (c + 1) = n * c + n /\ n * c \in Nat
    BY <2>1
  <2>6. Len(pageids') + Cardinality(Pending') <= n * (c + 1)
    BY ONLY <2>1, <2>2, <2>3, <2>4, <2>5
  <2> QED BY <2>1, <2>6, Zenon DEF QueueIsBounded, n, c
<1>3. ASSUME NEW t \in Tid, makeRoom(t), ThreadStep(t) PROVE QueueIsBounded'
  <2>1. pc[t] = "room" /\ UNCHANGED pid
    BY <1>3, Zenon DEF makeRoom
  <2>2. Len(pageids) # MaxPages
    BY <2>1, NoEviction, SizeAssumption DEF Types, PoolTypes
  <2>3. UNCHANGED poolVars /\ pc' = [pc EXCEPT ![t] = "read"]
    BY <1>3, <2>2, Zenon DEF makeRoom, Goto
  <2>4. Cached' = Cached
    BY <2>3, Zenon DEF poolVars, Cached
  <2>5. Pending' \subseteq Pending
    BY <1>0, <2>1, <2>3, <2>4, Zenon DEF Pending, ThreadTypes
  <2> QED BY <1>1, <2>3, <2>4, <2>5, Zenon DEF poolVars
<1>4. ASSUME NEW t \in Tid, putPage(t), ThreadStep(t) PROVE QueueIsBounded'
  <2>1. /\ pc[t] = "put" /\ pid[t] \in Page /\ copy[t] \in SUBSET Tuple /\ pc' = [pc EXCEPT ![t] = "get"]
        /\ pages' = [pages EXCEPT ![pid[t]] = Clean(copy[t])] /\ pageids' = Append(pageids, pid[t])
        /\ UNCHANGED pid
    BY <1>0, <1>4, Zenon DEF putPage, Goto, ThreadTypes
  <2>2. Cached' = Cached \cup {pid[t]}
    BY <1>0, <2>1, CachedAfter, Zenon
  <2>3. Len(pageids') = Len(pageids) + 1 /\ Len(pageids) \in Nat
    BY <1>0, <2>1, SMTT(30) DEF PoolTypes
  <2>4. t \notin Pending' /\ Pending' \subseteq Tid
    BY <1>0, <2>1, Zenon DEF Pending, ThreadTypes
  <2>5. CASE pid[t] \in Cached
    <3>1. Cached' = Cached /\ t \in Pending
      BY <2>1, <2>2, <2>5, Zenon DEF Pending
    <3>2. Pending' \in SUBSET (Pending \ {t})
      BY <1>0, <2>1, <2>4, <3>1, Zenon DEF Pending, ThreadTypes
    <3>3. IsFiniteSet(Pending \ {t}) /\ Cardinality(Pending \ {t}) = Cardinality(Pending) - 1
      BY <3>1, Sizes, FS_RemoveElement, Zenon DEF NeverFull
    <3>4. IsFiniteSet(Pending') /\ Cardinality(Pending') <= Cardinality(Pending) - 1
      BY <3>2, <3>3, FS_Subset, Zenon
    <3>5. /\ Cardinality(Pending') \in Nat /\ Cardinality(Pending) \in Nat /\ Cardinality(Tid) \in Nat
          /\ Cardinality(Cached) \in Nat
      BY <3>4, Sizes, FS_CardinalityType, Zenon DEF NeverFull
    <3>6. Cardinality(Tid) * Cardinality(Cached) \in Nat
      BY <3>5
    <3>7. Len(pageids) + Cardinality(Pending) <= Cardinality(Tid) * Cardinality(Cached)
      BY Zenon DEF QueueIsBounded
    <3>8. Len(pageids') + Cardinality(Pending') <= Cardinality(Tid) * Cardinality(Cached)
      BY ONLY <2>3, <3>4, <3>5, <3>6, <3>7
    <3> QED BY <3>1, <3>8, Zenon DEF QueueIsBounded
  <2>6. CASE pid[t] \notin Cached
    <3>1. IsFiniteSet(Tid \ {t}) /\ Cardinality(Tid \ {t}) = Cardinality(Tid) - 1 /\ Cardinality(Tid) \in Nat
      BY FS_RemoveElement, FS_CardinalityType, Zenon DEF NeverFull
    <3>2. Pending' \in SUBSET (Tid \ {t})
      BY <2>4, Zenon
    <3>3. IsFiniteSet(Pending') /\ Cardinality(Pending') <= Cardinality(Tid) - 1
      BY <3>1, <3>2, FS_Subset
    <3>4. Cardinality(Pending') \in Nat
      BY <3>3, FS_CardinalityType, Zenon
    <3>5. Len(pageids') + Cardinality(Pending') <= Len(pageids) + Cardinality(Tid)
      BY ONLY <2>3, <3>1, <3>3, <3>4
    <3> QED BY <1>2, <2>1, <2>2, <2>6, <3>5, Zenon
  <2> QED BY <2>5, <2>6, Zenon
<1>5. ASSUME NEW t \in Tid, NEW p \in Page, revertPage(t, p), ThreadStep(t) PROVE QueueIsBounded'
  <2>1. /\ UNCHANGED <<pc, pid, pageids>>
        /\ pages' = pages \/ pages' = [pages EXCEPT ![p] = Clean(disk[p])]
    BY <1>5, Zenon DEF revertPage
  <2>2. Cached' = Cached \/ (Cached' = Cached \cup {p} /\ p \notin Cached)
    <3>1. disk[p] \in SUBSET Tuple
      BY <1>0, Zenon DEF PoolTypes
    <3>2. pages' = pages => Cached' = Cached
      BY Zenon DEF Cached
    <3>3. pages' # pages => Cached' = Cached \cup {p}
      BY <1>0, <2>1, <3>1, CachedAfter, Zenon
    <3> QED BY <3>2, <3>3, Zenon
  <2>3. CASE Cached' = Cached
    BY <1>1, <2>1, <2>3, Zenon DEF Pending
  <2>4. CASE Cached' = Cached \cup {p} /\ p \notin Cached
    <3>1. Pending' \in SUBSET Tid
      BY Zenon DEF Pending
    <3>2. Cardinality(Pending') <= Cardinality(Tid) /\ IsFiniteSet(Pending')
      BY <3>1, FS_Subset, Zenon DEF NeverFull
    <3>3. Cardinality(Pending') \in Nat /\ Cardinality(Tid) \in Nat /\ Len(pageids) \in Nat /\ pageids' = pageids
      BY <1>0, <2>1, <3>2, FS_CardinalityType DEF NeverFull, PoolTypes
    <3>4. Len(pageids') + Cardinality(Pending') <= Len(pageids) + Cardinality(Tid)
      BY <3>2, <3>3
    <3> QED BY <1>2, <2>4, <3>4, Zenon
  <2> QED BY <2>2, <2>3, <2>4, Zenon
<1>6. ASSUME NEW t \in Tid, ThreadStep(t), ~makeRoom(t), ~putPage(t), \A p \in Page : ~revertPage(t, p)
      PROVE QueueIsBounded'
  <2>1. Cached' = Cached /\ pageids' = pageids
    BY <1>6, SameCached, Zenon
  <2>2. \A u \in Tid : u # t => pc'[u] = pc[u] /\ pid'[u] = pid[u]
    BY <1>6, OthersStay, Zenon
  <2>3. pc'[t] \in {"room", "read", "put"} => containsKey(t) \/ readPage(t)
    <3>1. pc'[t] \in {"room", "read", "put"} => containsKey(t) \/ readPage(t) \/ abortTransaction(t)
      BY <1>6, Moves, Zenon
    <3>2. abortTransaction(t) => pc'[t] = "undo"
      BY <1>0, Zenon DEF abortTransaction, transactionComplete, Goto, ThreadTypes
    <3> QED BY ONLY <3>1, <3>2, Zenon
  <2>4. t \in Pending' => t \in Pending
    BY <1>0, <2>1, <2>3, Zenon DEF containsKey, readPage, Goto, Pending, ThreadTypes
  <2>5. Pending' \subseteq Pending
    BY <2>1, <2>2, <2>4, Zenon DEF Pending
  <2> QED BY <1>1, <2>1, <2>5, Zenon
<1>7. CASE flushAll
  <2>1. Cached' = Cached /\ UNCHANGED <<pageids, pc, pid>>
    BY <1>0, <1>7, CachedAfter, Zenon DEF flushAll, flushAllPages
  <2> QED BY <1>1, <2>1, Zenon DEF Pending
<1>8. CASE UNCHANGED vars
  <2>1. Cached' = Cached /\ UNCHANGED <<pageids, pc, pid>>
    BY <1>8, Zenon DEF vars, bpVars, poolVars, Cached
  <2> QED BY <1>1, <2>1, Zenon DEF Pending
<1> QED BY <1>3, <1>4, <1>5, <1>6, <1>7, <1>8, Steps, Zenon

LEMMA QueueIsBoundedInit == Init /\ NeverFull => QueueIsBounded
<1> SUFFICES ASSUME Init, NeverFull PROVE QueueIsBounded
  BY Zenon
<1>1. Cached = {} /\ Pending = {} /\ Len(pageids) = 0
  BY Zenon DEF Init, InitPool, Cached, Pending
<1>2. Cardinality(Tid) \in Nat /\ Cardinality({}) = 0
  BY FS_CardinalityType, FS_EmptySet, Zenon DEF NeverFull
<1> QED BY <1>1, <1>2 DEF QueueIsBounded

-----------------------------------------------------------------------------
(* Transactions that only scan and delete, in such a pool *)

\* In a pool that never fills up no page leaves it while its tuple is deleted.
LEMMA NeverFullDeletes ==
    ASSUME Types, NeverFull, QueueIsBounded
    PROVE  DeletesUndisturbed
<1> SUFFICES ASSUME NEW t \in Tid, pc[t] = "room", Len(pageids) = MaxPages
             PROVE  FALSE
  BY Zenon DEF DeletesUndisturbed
<1>1. Len(pageids) < MaxPages
  BY NoEviction, Zenon
<1> QED BY <1>1, SizeAssumption

\* Any number of transactions that scan and delete and run concurrently, if the
\* pool is large enough never to evict: the file is what the committed
\* transactions made it (FORCE, NO STEAL), a page nobody has locked for writing
\* is the same in the cache and in the file, and a transaction reads committed
\* tuples only.
THEOREM ConcurrentScans ==
    ASSUME "insert" \notin Ops, NeverFull
    PROVE  Spec => [](ForceNoSteal /\ CacheCoherent /\ ViewIsCommitted)
<1> DEFINE Inv == IInv /\ QueueIsBounded
<1>1. Init => Inv
  BY InvInit, QueueIsBoundedInit, Zenon
<1>2. Inv /\ [Next]_vars => Inv'
  BY InvStep, QueueIsBoundedStep, NeverFullDeletes, Zenon DEF IInv
<1>3. Inv => ForceNoSteal /\ CacheCoherent /\ ViewIsCommitted
  BY InvImplies, Zenon
<1> QED BY <1>1, <1>2, <1>3, PTL DEF Spec
=============================================================================
