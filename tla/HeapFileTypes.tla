--------------------------- MODULE HeapFileTypes ----------------------------
(***************************************************************************)
(* Type correctness of HeapFile, for every workload, and the facts about   *)
(* its operators and steps that HeapFileProofs and HeapFilePool rest on:   *)
(* what evictPage does, what becomes of a HeapPage object, which pages are *)
(* cached after a step, and that transactions of a Serial workload run one *)
(* at a time.                                                              *)
(***************************************************************************)
EXTENDS HeapFile, TLAPS

Asking == {"lock", "lookup", "get", "room", "read", "put"}
Inserting == {"unlockAdded", "unlockFull", "grow", "increment", "newPageId",
              "writeNew", "tryLast"}
Active == Asking \cup {"idle", "aborted", "use", "mark"}
Completing == {"flush", "undo"}
Releasing == {"committing", "aborting"}
Over == {"committed", "rolledback", "dead"}

LockTypes ==
    /\ owner \in [Page -> Tid \cup {NoTid}]
    /\ readers \in [Page -> SUBSET Tid]
    /\ held \in [Tid -> [Page -> Int]]

Objects == [data : SUBSET Tuple, dirty : Tid \cup {NoTid, "absent"}]

PoolTypes ==
    /\ pages \in [Page -> Objects]
    /\ \A p \in Page : pages[p].dirty = "absent" => pages[p] = Absent
    /\ pageids \in Seq(Page)
    /\ disk \in [Page -> SUBSET Tuple] /\ fileLen \in 0..FilePages
    /\ committed \in [Page -> SUBSET Tuple]

ThreadTypes ==
    /\ pc \in [Tid -> Active \cup Inserting \cup Completing \cup Releasing \cup Over]
    /\ pid \in [Tid -> Page]
    /\ op \in [Tid -> {"none", "scan", "delete", "insert", "failed", "complete"}]
    /\ todo \in [Tid -> SUBSET Page] /\ stale \in [Tid -> BOOLEAN]
    /\ shared \in [Tid -> BOOLEAN] /\ copy \in [Tid -> SUBSET Tuple]

FileTypes ==
    /\ work \in [Tid -> [del : SUBSET (Page \X Tuple), add : SUBSET (Page \X Tuple)]]
    /\ numPages \in 0..FilePages
    /\ lastTry \in [Tid -> BOOLEAN]
    /\ iter \in [Tid -> [cur : Page, count : 0..FilePages, more : BOOLEAN]]
    /\ view \in [Tid -> SUBSET (Page \X Tuple)]
    /\ calls \in [Tid -> Nat]
    /\ \A t \in Tid :
        /\ iter[t].more => iter[t].cur + 1 < iter[t].count
        /\ pc[t] \in {"newPageId", "writeNew", "tryLast"} => numPages > 0

\* A thread refers to an object in the cache only while it uses it.
RefTypes ==
    \A t \in Tid : shared[t] =>
        pid[t] \in Cached /\ pc[t] \in {"use", "mark", "unlockAdded", "unlockFull"}

Types == LockTypes /\ PoolTypes /\ ThreadTypes /\ FileTypes /\ RefTypes

\* A page that was read is in the cache and not dirty.
LEMMA CleanIsCached == ASSUME NEW d PROVE Clean(d) # Absent /\ Clean(d).dirty = NoTid /\ Clean(d).data = d
BY SizeAssumption, Zenon DEF Clean, Absent

\* What evictPage does, the page it chooses named.
LEMMA EvictCases ==
    ASSUME Types, NEW t \in Tid, evictPage(t)
    PROVE  \/ /\ op' = [op EXCEPT ![t] = "failed"]
              /\ pc' = [pc EXCEPT ![t] = "idle"]
              /\ UNCHANGED <<poolVars, refVars, stale>>
           \/ \E k \in 1..Len(pageids) :
                /\ pageids[k] \in Page
                /\ pageids[k] \in Cached => ~isDirty(pageids[k])
                /\ \A j \in 1..(k - 1) : pageids[j] \in Cached /\ isDirty(pageids[j])
                /\ pageids' = SubSeq(pageids, k + 1, Len(pageids)) \o SubSeq(pageids, 1, k - 1)
                /\ pages' = [pages EXCEPT ![pageids[k]] = Absent]
                /\ Detach(pageids[k])
                /\ Invalidate(pageids[k] \in Cached)
                /\ pc' = [pc EXCEPT ![t] = IF pageids[k] \in Cached THEN "read" ELSE "dead"]
                /\ UNCHANGED op
<1> DEFINE n == Len(pageids)
           C == {i \in 1..n : pageids[i] \notin Cached \/ ~isDirty(pageids[i])}
<1>0. n \in Nat /\ \A i \in 1..n : pageids[i] \in Page
  BY DEF Types, PoolTypes
<1>1. CASE C = {}
  BY <1>1, Zenon DEF evictPage, Goto
<1>2. CASE C # {}
  <2>1. PICK k \in C :
          /\ \A j \in C : k <= j
          /\ pageids' = SubSeq(pageids, k + 1, n) \o SubSeq(pageids, 1, k - 1)
          /\ pages' = [pages EXCEPT ![pageids[k]] = Absent]
          /\ Detach(pageids[k])
          /\ Invalidate(pageids[k] \in Cached)
          /\ pc' = [pc EXCEPT ![t] = IF pageids[k] \in Cached THEN "read" ELSE "dead"]
          /\ UNCHANGED op
    BY <1>2, Zenon DEF evictPage, Goto
  <2>2. ASSUME NEW j \in 1..(k - 1) PROVE pageids[j] \in Cached /\ isDirty(pageids[j])
    <3>1. k \in 1..n /\ j \in 1..n /\ j < k
      BY <1>0, <2>1
    <3> QED BY <2>1, <3>1
  <2> QED BY <1>0, <2>1, <2>2, Zenon
<1> QED BY <1>1, <1>2, Zenon

\* getPage makes room: it has nothing to do or evictPage fails, or a page leaves
\* the cache, or the page chosen was not there.
LEMMA RoomCases ==
    ASSUME Types, NEW t \in Tid, makeRoom(t)
    PROVE  \/ /\ UNCHANGED <<poolVars, refVars, stale>>
              /\ \/ pc' = [pc EXCEPT ![t] = "read"] /\ op' = op /\ Len(pageids) # MaxPages
                 \/ pc' = [pc EXCEPT ![t] = "idle"] /\ op' = [op EXCEPT ![t] = "failed"]
           \/ /\ Len(pageids) = MaxPages
              /\ \E k \in 1..Len(pageids) :
                /\ pageids[k] \in Page
                /\ pageids[k] \in Cached => ~isDirty(pageids[k])
                /\ \A j \in 1..(k - 1) : pageids[j] \in Cached /\ isDirty(pageids[j])
                /\ pageids' = SubSeq(pageids, k + 1, Len(pageids)) \o SubSeq(pageids, 1, k - 1)
                /\ pages' = [pages EXCEPT ![pageids[k]] = Absent]
                /\ Detach(pageids[k])
                /\ Invalidate(pageids[k] \in Cached)
                /\ pc' = [pc EXCEPT ![t] = IF pageids[k] \in Cached THEN "read" ELSE "dead"]
                /\ op' = op
<1>1. CASE Len(pageids) # MaxPages
  BY <1>1, Zenon DEF makeRoom, Goto
<1>2. CASE Len(pageids) = MaxPages
  <2>1. evictPage(t)
    BY <1>2, Zenon DEF makeRoom
  <2> QED BY <1>2, <2>1, EvictCases, Zenon
<1> QED BY <1>1, <1>2, Zenon

\* A HeapPage object with other tuples, or another transaction that made it
\* dirty.
LEMMA ObjectUpdates ==
    ASSUME NEW o \in Objects, NEW d \in SUBSET Tuple, NEW u \in Tid \cup {NoTid}
    PROVE  /\ [o EXCEPT !.data = d] = [data |-> d, dirty |-> o.dirty]
           /\ [o EXCEPT !.dirty = u] = [data |-> o.data, dirty |-> u]
           /\ [data |-> d, dirty |-> o.dirty] \in Objects
           /\ [data |-> o.data, dirty |-> u] \in Objects
           /\ Clean(d) \in Objects
           /\ o.data \in SUBSET Tuple
<1>1. Clean(d) \in Objects
  BY Zenon DEF Objects, Clean
<1>2. /\ [data |-> d, dirty |-> o.dirty] \in Objects
      /\ [data |-> o.data, dirty |-> u] \in Objects
      /\ o.data \in SUBSET Tuple
  BY Zenon DEF Objects
<1>3. /\ [o EXCEPT !.data = d] = [data |-> d, dirty |-> o.dirty]
      /\ [o EXCEPT !.dirty = u] = [data |-> o.data, dirty |-> u]
  BY DEF Objects
<1> QED BY <1>1, <1>2, <1>3, Zenon

\* How a page that is in the cache is told from one that is not.
LEMMA CachedObjects ==
    ASSUME PoolTypes, NEW p \in Page
    PROVE  /\ pages[p] \in Objects
           /\ p \in Cached <=> pages[p].dirty # "absent"
           /\ p \in Cached => pages[p].dirty \in Tid \cup {NoTid}
BY DEF PoolTypes, Cached, Absent, Objects

\* One object of the cache is replaced.
LEMMA ReplaceObject ==
    ASSUME PoolTypes, NEW p \in Page, NEW o \in Objects, o.dirty = "absent" => o = Absent,
           pages' = [pages EXCEPT ![p] = o]
    PROVE  /\ (pages \in [Page -> Objects])'
           /\ (\A q \in Page : pages[q].dirty = "absent" => pages[q] = Absent)'
BY Zenon DEF PoolTypes

\* Init establishes the types, and every step keeps them.
LEMMA TypesInit == Init => Types
<1> SUFFICES ASSUME Init PROVE Types
  BY Zenon
<1> USE SizeAssumption DEF Init, InitPool
<1>1. LockTypes
  BY DEF LockTypes
<1>2. PoolTypes
  <2>1. pages \in [Page -> Objects]
    BY Zenon DEF Objects, Absent
  <2>2. disk \in [Page -> SUBSET Tuple] /\ fileLen \in 0..FilePages /\ pageids \in Seq(Page)
    BY DEF Tuple
  <2> QED BY <2>1, <2>2, Zenon DEF PoolTypes
<1>3. ThreadTypes
  BY DEF ThreadTypes, Active, Page
<1>4. FileTypes
  BY DEF FileTypes, Page
<1>5. RefTypes
  BY Zenon DEF RefTypes
<1> QED BY <1>1, <1>2, <1>3, <1>4, <1>5, Zenon DEF Types

LEMMA LockTypesStep == Types /\ [Next]_vars => LockTypes'
<1> SUFFICES ASSUME Types, [Next]_vars PROVE LockTypes'
  BY Zenon
<1>1. CASE UNCHANGED lockVars
  BY <1>1, Zenon DEF Types, LockTypes, lockVars
<1>2. ASSUME NEW t \in Tid, Acquire(t) PROVE LockTypes'
  <2>1. pid[t] \in Page
    BY Zenon DEF Types, ThreadTypes
  <2>2. (held \in [Tid -> [Page -> Int]])'
    BY <1>2, <2>1 DEF Acquire, Types, LockTypes
  <2>3. (owner \in [Page -> Tid \cup {NoTid}] /\ readers \in [Page -> SUBSET Tid])'
    <3>0. owner \in [Page -> Tid \cup {NoTid}] /\ readers \in [Page -> SUBSET Tid]
      BY Zenon DEF Types, LockTypes
    <3>1. CASE UNCHANGED <<owner, readers>>
      BY ONLY <3>0, <3>1, Zenon
    <3>2. CASE Locks!Share(t, pid[t])
      BY ONLY t \in Tid, <2>1, <3>0, <3>2, Zenon DEF Locks!Share
    <3>3. CASE Locks!Own(t, pid[t])
      BY ONLY t \in Tid, <2>1, <3>0, <3>3, Zenon DEF Locks!Own
    <3> QED BY <1>2, <3>1, <3>2, <3>3, Zenon DEF Acquire
  <2> QED BY <2>2, <2>3, Zenon DEF LockTypes
<1>3. ASSUME NEW t \in Tid, releaseEnds(t) PROVE LockTypes'
  BY <1>3 DEF releaseEnds, Types, LockTypes
<1>4. ASSUME NEW t \in Tid, NEW p \in Page, releaseNext(t, p) PROVE LockTypes'
  BY <1>4, SizeAssumption DEF releaseNext, Types, LockTypes, Locks!Release
<1>5. ASSUME NEW t \in Tid, endOfTry(t) PROVE LockTypes'
  BY <1>5 DEF endOfTry, releasePage, Types, LockTypes, ThreadTypes, Locks!Release
<1>6. ASSUME NEW t \in Tid, PoolStep(t),
             ~Acquire(t), ~releaseEnds(t), ~(\E p \in Page : releaseNext(t, p))
      PROVE  UNCHANGED lockVars
  BY <1>6, Zenon DEF PoolStep, AbortedByLock, containsKey, makeRoom, readPage, putPage, getReturns, markDirty,
     IteratorFails, LoopEnds, flushPage, revertPage
<1>7. ASSUME NEW t \in Tid, open(t) \/ hasNext(t) \/ readTuples(t) \/ \E p \in Page : deleteTuple(t, p)
      PROVE  UNCHANGED lockVars
  BY ONLY <1>7, Zenon DEF open, hasNext, nextPage, readTuples, deleteTuple
<1>8. ASSUME NEW t \in Tid, (\E x \in Tuple : clearSlot(t, x)) \/ insertTuple(t) \/ fillSlot(t)
      PROVE  UNCHANGED lockVars
  BY ONLY <1>8, Zenon DEF clearSlot, insertTuple, fillSlot
<1>9. ASSUME NEW t \in Tid, GrowRead(t) \/ GrowWrite(t) \/ newPageId(t) \/ writePage(t) \/ tryLast(t)
      PROVE  UNCHANGED lockVars
  BY ONLY <1>9, Zenon DEF GrowRead, GrowWrite, newPageId, writePage, tryLast
<1>10. ASSUME NEW t \in Tid, commitTransaction(t) \/ abortTransaction(t) PROVE UNCHANGED lockVars
  BY ONLY <1>10, Zenon DEF commitTransaction, abortTransaction, transactionComplete
<1>11. CASE flushAll
  BY <1>1, <1>11, Zenon DEF flushAll, flushAllPages
<1>12. ASSUME NEW t \in Tid, PoolStep(t) PROVE LockTypes'
  BY <1>1, <1>2, <1>3, <1>4, <1>6, <1>12, Zenon
<1> QED BY <1>1, <1>5, <1>7, <1>8, <1>9, <1>10, <1>11, <1>12, Zenon DEF Next, AllEnded, vars, bpVars

LEMMA PoolTypesStep == Types /\ [Next]_vars => PoolTypes'
<1> SUFFICES ASSUME Types, [Next]_vars PROVE PoolTypes'
  BY Zenon
<1>0. PoolTypes /\ ThreadTypes
  BY Zenon DEF Types
<1>1. CASE UNCHANGED <<poolVars, fileVars, committed>>
  BY <1>0, <1>1, Zenon DEF PoolTypes, poolVars, fileVars
<1>2. ASSUME NEW t \in Tid, makeRoom(t), Len(pageids) = MaxPages PROVE PoolTypes'
  <2>1. CASE UNCHANGED poolVars
    BY <1>1, <1>2, <2>1, Zenon DEF makeRoom, fileVars, histVars
  <2>2. CASE ~UNCHANGED poolVars
    <3>1. PICK k \in 1..Len(pageids) :
            /\ pageids' = SubSeq(pageids, k + 1, Len(pageids)) \o SubSeq(pageids, 1, k - 1)
            /\ pages' = [pages EXCEPT ![pageids[k]] = Absent]
      BY <1>2, <2>2, RoomCases, Zenon
    <3>2. pageids' \in Seq(Page) /\ pageids[k] \in Page
      BY <1>0, <3>1 DEF PoolTypes
    <3>3. Absent \in Objects
      BY Zenon DEF Absent, Objects
    <3>4. /\ (pages \in [Page -> Objects])'
          /\ (\A q \in Page : pages[q].dirty = "absent" => pages[q] = Absent)'
      BY <1>0, <3>1, <3>2, <3>3, ReplaceObject, Zenon
    <3> QED BY <1>0, <1>2, <3>2, <3>4, Zenon DEF PoolTypes, makeRoom, fileVars, histVars
  <2> QED BY <2>1, <2>2, Zenon
<1>3. ASSUME NEW t \in Tid, putPage(t) PROVE PoolTypes'
  <2>1. pid[t] \in Page /\ Clean(copy[t]) \in Objects
    BY <1>0, Zenon DEF ThreadTypes, Clean, Objects
  <2>2. /\ (pages \in [Page -> Objects])'
        /\ (\A q \in Page : pages[q].dirty = "absent" => pages[q] = Absent)'
    BY <1>0, <1>3, <2>1, CleanIsCached, SizeAssumption, ReplaceObject, Zenon DEF putPage
  <2>3. (pageids \in Seq(Page))'
    BY <1>0, <1>3, <2>1 DEF PoolTypes, putPage
  <2> QED BY <1>0, <1>3, <2>2, <2>3, Zenon DEF PoolTypes, putPage, fileVars, histVars
<1>4. ASSUME NEW t \in Tid, markDirty(t) PROVE PoolTypes'
  <2>1. pid[t] \in Page /\ pages[pid[t]] \in Objects
    BY <1>0, Zenon DEF PoolTypes, ThreadTypes
  <2>2. pages' = pages \/ pages' = [pages EXCEPT ![pid[t]] = [data |-> pages[pid[t]].data, dirty |-> t]]
    BY <1>4, <2>1, ObjectUpdates, Zenon DEF markDirty
  <2>3. /\ (pages \in [Page -> Objects])'
        /\ (\A q \in Page : pages[q].dirty = "absent" => pages[q] = Absent)'
    <3>1. CASE pages' = pages
      BY <1>0, <3>1, Zenon DEF PoolTypes
    <3>2. CASE pages' # pages
      <4> DEFINE o == [data |-> pages[pid[t]].data, dirty |-> t]
      <4>1. o \in Objects /\ o.dirty = t /\ t # "absent"
        BY <2>1, ObjectUpdates, SizeAssumption, Zenon
      <4>2. pages' = [pages EXCEPT ![pid[t]] = o]
        BY <2>2, <3>2, Zenon
      <4> HIDE DEF o
      <4> QED BY <1>0, <2>1, <4>1, <4>2, ReplaceObject, Zenon
    <3> QED BY <3>1, <3>2, Zenon
  <2> QED BY <1>0, <1>4, <2>3, Zenon DEF PoolTypes, markDirty, fileVars, histVars
<1>5. ASSUME NEW P \in SUBSET Page, pages' = flushed(P), disk' = written(P),
             UNCHANGED <<pageids, fileLen, committed>>
      PROVE PoolTypes'
  <2>1. ASSUME NEW p \in Page
        PROVE  /\ pages'[p] \in Objects /\ disk'[p] \in SUBSET Tuple
               /\ pages'[p].dirty = "absent" => pages'[p] = Absent
    <3>1. pages[p].data \in SUBSET Tuple
      BY <1>0, Zenon DEF PoolTypes, Objects
    <3>2. Clean(pages[p].data) \in Objects
      BY <3>1, Zenon DEF Clean, Objects
    <3> QED BY <1>0, <1>5, <3>1, <3>2, CleanIsCached, SizeAssumption, Zenon DEF PoolTypes, flushed, written
  <2>2. pages' = [p \in Page |-> pages'[p]] /\ disk' = [p \in Page |-> disk'[p]]
    BY <1>5, Zenon DEF flushed, written
  <2> QED BY <1>0, <1>5, <2>1, <2>2, Zenon DEF PoolTypes
<1>6. ASSUME NEW t \in Tid, NEW p \in Page, revertPage(t, p) PROVE PoolTypes'
  <2>1. Clean(disk[p]) \in Objects
    BY <1>0, Zenon DEF PoolTypes, Clean, Objects
  <2>2. /\ (pages \in [Page -> Objects])'
        /\ (\A q \in Page : pages[q].dirty = "absent" => pages[q] = Absent)'
    BY <1>0, <1>6, <2>1, CleanIsCached, SizeAssumption, ReplaceObject DEF revertPage, PoolTypes
  <2> QED BY <1>0, <1>6, <2>2, Zenon DEF PoolTypes, revertPage, fileVars, histVars
<1>7. ASSUME NEW t \in Tid, LoopEnds(t) PROVE PoolTypes'
  BY <1>0, <1>7, Zenon DEF LoopEnds, PoolTypes, poolVars, fileVars
<1>8. ASSUME NEW t \in Tid, NEW d \in SUBSET Tuple, SetData(t, d),
             UNCHANGED <<pageids, fileVars, committed>>
      PROVE PoolTypes'
  <2>1. pid[t] \in Page /\ pages[pid[t]] \in Objects
    BY <1>0, Zenon DEF PoolTypes, ThreadTypes
  <2>2. CASE pages' = pages
    BY <1>0, <1>8, <2>2, Zenon DEF PoolTypes, fileVars
  <2>3. CASE pages' # pages
    <3>1. pid[t] \in Cached /\ pages' = [pages EXCEPT ![pid[t]].data = d]
      BY <1>8, <2>3, Zenon DEF SetData, Types, RefTypes
    <3>2. pages' = [pages EXCEPT ![pid[t]] = [data |-> d, dirty |-> pages[pid[t]].dirty]]
      BY <2>1, <3>1, ObjectUpdates, Zenon
    <3>3. pages[pid[t]].dirty # "absent"
      BY <1>0, <2>1, <3>1, CachedObjects, Zenon
    <3>4. /\ (pages \in [Page -> Objects])'
          /\ (\A q \in Page : pages[q].dirty = "absent" => pages[q] = Absent)'
      BY <1>0, <2>1, <3>2, <3>3, ObjectUpdates, ReplaceObject, Zenon
    <3> QED BY <1>0, <1>8, <3>4, Zenon DEF PoolTypes, fileVars
  <2> QED BY <2>2, <2>3, Zenon
<1>9. ASSUME NEW t \in Tid PROVE Data(t) \in SUBSET Tuple /\ t \in Tuple
  BY <1>0, ObjectUpdates, Zenon DEF Data, PoolTypes, ThreadTypes, Tuple
<1>10. ASSUME NEW t \in Tid, NEW x \in Tuple, clearSlot(t, x) PROVE PoolTypes'
  BY <1>1, <1>8, <1>9, <1>10, Zenon DEF clearSlot, poolVars
<1>11. ASSUME NEW t \in Tid, fillSlot(t) PROVE PoolTypes'
  BY <1>1, <1>8, <1>9, <1>11, Zenon DEF fillSlot, poolVars
<1>12. ASSUME NEW t \in Tid, writePage(t) PROVE PoolTypes'
  BY <1>0, <1>12, SizeAssumption DEF writePage, PoolTypes, ThreadTypes, Page, poolVars, histVars
<1>13. ASSUME NEW t \in Tid, NEW p \in Page, flushPage(t, p) PROVE PoolTypes'
  BY <1>5, <1>13, Zenon DEF flushPage, histVars
<1>14. CASE flushAll
  BY <1>5, <1>14, Zenon DEF flushAll, flushAllPages, histVars
<1>15. ASSUME NEW t \in Tid, PoolStep(t),
              ~(makeRoom(t) /\ Len(pageids) = MaxPages), ~putPage(t), ~markDirty(t), ~LoopEnds(t),
              ~(\E p \in Page : flushPage(t, p) \/ revertPage(t, p))
       PROVE  UNCHANGED <<poolVars, fileVars, committed>>
  BY <1>15, SMTT(30) DEF PoolStep, Acquire, AbortedByLock, containsKey, makeRoom, readPage, getReturns,
     IteratorFails, releaseNext, releaseEnds, histVars
<1>16. ASSUME NEW t \in Tid, PoolStep(t) PROVE PoolTypes'
  BY <1>1, <1>2, <1>3, <1>4, <1>6, <1>7, <1>13, <1>15, <1>16, Zenon
<1>17. ASSUME NEW t \in Tid, open(t) \/ hasNext(t) \/ readTuples(t) \/ \E p \in Page : deleteTuple(t, p)
       PROVE  UNCHANGED <<poolVars, fileVars, committed>>
  BY ONLY <1>17, Zenon DEF open, hasNext, nextPage, readTuples, deleteTuple, histVars
<1>18. ASSUME NEW t \in Tid, insertTuple(t) \/ endOfTry(t) \/ GrowRead(t)
       PROVE  UNCHANGED <<poolVars, fileVars, committed>>
  BY ONLY <1>18, Zenon DEF insertTuple, endOfTry, GrowRead, histVars
<1>19. ASSUME NEW t \in Tid, GrowWrite(t) \/ newPageId(t) \/ tryLast(t)
       PROVE  UNCHANGED <<poolVars, fileVars, committed>>
  BY ONLY <1>19, Zenon DEF GrowWrite, newPageId, tryLast, histVars
<1>20. ASSUME NEW t \in Tid, commitTransaction(t) \/ abortTransaction(t)
       PROVE  UNCHANGED <<poolVars, fileVars, committed>>
  BY ONLY <1>20, Zenon DEF commitTransaction, abortTransaction, transactionComplete, histVars
<1> QED BY <1>1, <1>10, <1>11, <1>12, <1>14, <1>16, <1>17, <1>18, <1>19, <1>20, Zenon
     DEF Next, AllEnded, vars, bpVars, histVars

LEMMA ThreadTypesStep == Types /\ [Next]_vars => ThreadTypes'
<1> SUFFICES ASSUME Types, [Next]_vars PROVE ThreadTypes'
  BY Zenon
<1>0. PoolTypes /\ ThreadTypes /\ FileTypes
  BY Zenon DEF Types
<1>1. CASE UNCHANGED vars
  BY <1>0, <1>1, Zenon DEF ThreadTypes, vars, bpVars, refVars, iterVars
<1>2. ASSUME NEW t \in Tid, PoolStep(t) PROVE ThreadTypes'
  <2> USE <1>0 DEF refVars, iterVars, Goto
  <2>1. (pc \in [Tid -> Active \cup Inserting \cup Completing \cup Releasing \cup Over])'
    <3> DEFINE Next1 == {"lookup", "aborted", "get", "room", "read", "put", "dead", "use", "idle"}
               Next2 == {"dead", "committing", "aborting", "committed", "rolledback"}
    <3>1. CASE makeRoom(t)
      BY <3>1, RoomCases, Zenon DEF ThreadTypes, Active, Asking, Over
    <3>2. CASE \/ Acquire(t) \/ AbortedByLock(t) \/ containsKey(t) \/ readPage(t) \/ putPage(t) \/ getReturns(t)
               \/ markDirty(t)
      <4>1. \E l \in Next1 : pc' = [pc EXCEPT ![t] = l]
        BY <3>2, Zenon DEF Acquire, AbortedByLock, containsKey, readPage, putPage, getReturns, markDirty
      <4> QED BY <4>1, Zenon DEF ThreadTypes, Active, Asking, Over
    <3>3. CASE IteratorFails(t) \/ LoopEnds(t) \/ releaseEnds(t)
      <4>1. \E l \in Next2 : pc' = [pc EXCEPT ![t] = l]
        BY <3>3, Zenon DEF IteratorFails, LoopEnds, releaseEnds
      <4> QED BY <4>1, Zenon DEF ThreadTypes, Releasing, Over
    <3>4. CASE \E p \in Page : flushPage(t, p) \/ revertPage(t, p) \/ releaseNext(t, p)
      BY <3>4, Zenon DEF ThreadTypes, flushPage, revertPage, releaseNext
    <3> QED BY <1>2, <3>1, <3>2, <3>3, <3>4, Zenon DEF PoolStep
  <2>2. (pid \in [Tid -> Page])'
    BY <1>2, Zenon DEF ThreadTypes, PoolStep, Acquire, AbortedByLock, containsKey, makeRoom, readPage, putPage,
       getReturns, markDirty, IteratorFails, LoopEnds, flushPage, revertPage, releaseNext, releaseEnds
  <2>3. (op \in [Tid -> {"none", "scan", "delete", "insert", "failed", "complete"}])'
    BY <1>2, Zenon DEF ThreadTypes, PoolStep, Acquire, AbortedByLock, containsKey, makeRoom, evictPage,
       readPage, putPage, getReturns, markDirty, IteratorFails, LoopEnds, flushPage, revertPage,
       releaseNext, releaseEnds
  <2>4. (todo \in [Tid -> SUBSET Page])'
    <3>1. CASE LoopEnds(t)
      BY <3>1, Zenon DEF LoopEnds, ThreadTypes
    <3>2. CASE \E p \in Page : flushPage(t, p) \/ revertPage(t, p) \/ releaseNext(t, p)
      BY <3>2 DEF flushPage, revertPage, releaseNext, ThreadTypes
    <3>3. CASE \/ Acquire(t) \/ AbortedByLock(t) \/ containsKey(t) \/ makeRoom(t) \/ readPage(t) \/ putPage(t)
               \/ getReturns(t) \/ markDirty(t) \/ IteratorFails(t) \/ releaseEnds(t)
      <4>1. todo' = todo
        BY ONLY <3>3, Zenon DEF Acquire, AbortedByLock, containsKey, makeRoom, readPage, putPage, getReturns,
           markDirty, IteratorFails, releaseEnds, iterVars
      <4> QED BY <4>1, Zenon DEF ThreadTypes
    <3> QED BY <1>2, <3>1, <3>2, <3>3, Zenon DEF PoolStep
  <2>5. (stale \in [Tid -> BOOLEAN])'
    <3>1. ASSUME NEW b, Invalidate(b) PROVE (stale \in [Tid -> BOOLEAN])'
      BY <3>1, Zenon DEF Invalidate
    <3>2. CASE makeRoom(t)
      BY <3>1, <3>2, EvictCases, Zenon DEF makeRoom, ThreadTypes
    <3>3. CASE putPage(t) \/ \E p \in Page : revertPage(t, p)
      BY <3>1, <3>3, Zenon DEF putPage, revertPage, ThreadTypes
    <3> QED BY <1>2, <3>2, <3>3, Zenon DEF ThreadTypes, PoolStep, Acquire, AbortedByLock, containsKey,
       readPage, getReturns, markDirty, IteratorFails, LoopEnds, flushPage, releaseNext, releaseEnds
  <2>6. (shared \in [Tid -> BOOLEAN] /\ copy \in [Tid -> SUBSET Tuple])'
    <3>1. ASSUME NEW p \in Page, Detach(p)
          PROVE  (shared \in [Tid -> BOOLEAN] /\ copy \in [Tid -> SUBSET Tuple])'
      <4>1. pages[p].data \in SUBSET Tuple
        BY Zenon DEF PoolTypes, Objects
      <4> QED BY <3>1, <4>1, SMTT(30) DEF Detach, ThreadTypes
    <3>2. CASE makeRoom(t)
      BY <3>1, <3>2, EvictCases, Zenon DEF makeRoom, ThreadTypes
    <3>3. CASE putPage(t)
      <4>1. pid[t] \in Page /\ Detach(pid[t])
        BY <3>3, Zenon DEF putPage, ThreadTypes
      <4> QED BY <3>1, <4>1, Zenon
    <3>4. CASE readPage(t)
      BY <3>4, Zenon DEF readPage, ThreadTypes, PoolTypes
    <3>5. CASE \E p \in Page : revertPage(t, p)
      BY <3>1, <3>5, Zenon DEF revertPage, ThreadTypes
    <3>6. CASE getReturns(t)
      <4> DEFINE b == pid[t] \in Cached
      <4>1. b \in BOOLEAN /\ shared' = [shared EXCEPT ![t] = b]
        BY <3>6 DEF getReturns
      <4> HIDE DEF b
      <4> QED BY <3>6, <4>1, Zenon DEF getReturns, ThreadTypes
    <3>7. CASE markDirty(t)
      BY <3>7, Zenon DEF markDirty, ThreadTypes
    <3> QED BY <1>2, <3>2, <3>3, <3>4, <3>5, <3>6, <3>7, Zenon DEF ThreadTypes, PoolStep, Acquire,
       AbortedByLock, containsKey, IteratorFails, LoopEnds, flushPage, releaseNext, releaseEnds
  <2> QED BY <2>1, <2>2, <2>3, <2>4, <2>5, <2>6, Zenon DEF ThreadTypes
<1>3. ASSUME NEW t \in Tid, NEW l \in Active \cup Inserting \cup Completing, pc' = [pc EXCEPT ![t] = l],
             NEW p \in Page, pid' = [pid EXCEPT ![t] = p],
             NEW o \in {"none", "scan", "delete", "insert", "failed", "complete"},
             op' = [op EXCEPT ![t] = o],
             UNCHANGED <<refVars, iterVars>>
      PROVE  ThreadTypes'
  BY <1>0, <1>3, Zenon DEF ThreadTypes, refVars, iterVars
<1>4. ASSUME NEW t \in Tid, open(t) \/ hasNext(t) PROVE ThreadTypes'
  <2>1. 0 \in Page /\ (iter[t].more => iter[t].cur + 1 \in Page)
    BY <1>0, SizeAssumption DEF FileTypes, Page
  <2> QED BY <1>3, <1>4, <2>1, Zenon DEF open, hasNext, nextPage, getPage, Goto, Active, Asking
<1>5. ASSUME NEW t \in Tid, NEW p \in Page, deleteTuple(t, p) PROVE ThreadTypes'
  BY <1>3, <1>5, Zenon DEF deleteTuple, getPage, Goto, Active, Asking
<1>6. ASSUME NEW t \in Tid, insertTuple(t) \/ tryLast(t) \/ GrowRead(t) \/ GrowWrite(t) \/ newPageId(t)
                            \/ writePage(t)
      PROVE  ThreadTypes'
  <2>1. 0 \in Page /\ (0 < numPages => numPages - 1 \in Page) /\ (numPages < FilePages => numPages \in Page)
    BY <1>0, SizeAssumption DEF FileTypes, Page
  <2>2. pid[t] \in Page /\ pid = [pid EXCEPT ![t] = pid[t]]
        /\ op[t] \in {"none", "scan", "delete", "insert", "failed", "complete"} /\ op = [op EXCEPT ![t] = op[t]]
    BY <1>0, Zenon DEF ThreadTypes
  <2>3. CASE insertTuple(t)
    BY <1>3, <2>1, <2>2, <2>3, Zenon DEF insertTuple, tryPage, getPage, Goto, Active, Asking, Inserting
  <2>4. CASE tryLast(t)
    BY <1>0, <1>3, <2>1, <2>4, Zenon DEF tryLast, getPage, Goto, Active, Asking, FileTypes
  <2>5. CASE GrowRead(t)
    BY <1>3, <2>1, <2>2, <2>5, Zenon DEF GrowRead, Goto, Inserting
  <2>6. CASE newPageId(t)
    BY <1>0, <1>3, <2>1, <2>2, <2>6, Zenon DEF newPageId, Goto, Inserting, FileTypes
  <2>7. CASE GrowWrite(t) \/ writePage(t)
    BY <1>3, <2>2, <2>7, Zenon DEF GrowWrite, writePage, Goto, Inserting
  <2> QED BY <1>6, <2>3, <2>4, <2>5, <2>6, <2>7, Zenon
<1>7. ASSUME NEW t \in Tid, readTuples(t) PROVE ThreadTypes'
  BY <1>0, <1>7, Zenon DEF readTuples, ThreadTypes, Goto, Active, iterVars
<1>8. ASSUME NEW t \in Tid PROVE Data(t) \in SUBSET Tuple /\ t \in Tuple
  BY <1>0, ObjectUpdates, Zenon DEF Data, PoolTypes, ThreadTypes, Tuple
<1>9. ASSUME NEW t \in Tid, NEW x \in Tuple, clearSlot(t, x) PROVE ThreadTypes'
  <2>1. CASE x \in Data(t)
    BY <1>0, <1>8, <1>9, <2>1 DEF clearSlot, SetData, ThreadTypes, Goto, Active, iterVars
  <2>2. CASE x \notin Data(t)
    BY <1>0, <1>9, <2>2, Zenon DEF clearSlot, ThreadTypes, Goto, Active, iterVars
  <2> QED BY <2>1, <2>2, Zenon
<1>10. ASSUME NEW t \in Tid, fillSlot(t) PROVE ThreadTypes'
  BY <1>0, <1>8, <1>10 DEF fillSlot, SetData, ThreadTypes, Goto, Inserting, iterVars
<1>11. ASSUME NEW t \in Tid, endOfTry(t) PROVE ThreadTypes'
  <2>1. CASE pc[t] = "unlockAdded"
    BY <1>0, <1>11, <2>1, Zenon DEF endOfTry, ThreadTypes, Goto, Active, refVars, iterVars
  <2>2. CASE pc[t] = "unlockFull" /\ lastTry[t]
    BY <1>0, <1>11, <2>2, Zenon DEF endOfTry, ThreadTypes, Goto, Active, iterVars
  <2>3. CASE pc[t] = "unlockFull" /\ ~lastTry[t]
    <3>1. pid[t] + 1 < numPages => pid[t] + 1 \in Page
      BY <1>0, SizeAssumption DEF ThreadTypes, FileTypes, Page
    <3>2. tryPage(t, pid[t] + 1)
      BY <1>11, <2>3, Zenon DEF endOfTry
    <3>3. /\ pid' \in [Tid -> Page] /\ op' = [op EXCEPT ![t] = "insert"]
          /\ \E l \in {"lock", "grow"} : pc' = [pc EXCEPT ![t] = l]
      <4>1. CASE pid[t] + 1 < numPages
        BY <1>0, <3>1, <3>2, <4>1, Zenon DEF tryPage, getPage, Goto, ThreadTypes
      <4>2. CASE ~(pid[t] + 1 < numPages)
        BY <1>0, <3>2, <4>2, Zenon DEF tryPage, Goto, ThreadTypes
      <4> QED BY <4>1, <4>2, Zenon
    <3>4. pc' \in [Tid -> Active \cup Inserting \cup Completing \cup Releasing \cup Over]
      BY <1>0, <3>3, Zenon DEF ThreadTypes, Active, Asking, Inserting
    <3>5. shared' = [shared EXCEPT ![t] = FALSE] /\ copy' = [copy EXCEPT ![t] = {}] /\ UNCHANGED <<todo, stale>>
      BY <1>11, <2>3, Zenon DEF endOfTry, iterVars
    <3> QED BY <1>0, <3>3, <3>4, <3>5, Zenon DEF ThreadTypes
  <2> QED BY <1>11, <2>1, <2>2, <2>3, Zenon DEF endOfTry
<1>12. ASSUME NEW t \in Tid, commitTransaction(t) \/ abortTransaction(t) PROVE ThreadTypes'
  <2>1. \E b \in BOOLEAN : transactionComplete(t, b)
    BY <1>12, Zenon DEF commitTransaction, abortTransaction
  <2>2. \E l \in Completing : pc' = [pc EXCEPT ![t] = l]
    BY <2>1, Zenon DEF transactionComplete, Goto, Completing
  <2>3. Cached \in SUBSET Page
    BY Zenon DEF Cached
  <2> QED BY <1>0, <2>1, <2>2, <2>3 DEF transactionComplete, ThreadTypes, refVars
<1>13. CASE flushAll
  BY <1>0, <1>13, Zenon DEF flushAll, flushAllPages, ThreadTypes, refVars, iterVars
<1> QED BY <1>1, <1>2, <1>4, <1>5, <1>6, <1>7, <1>9, <1>10, <1>11, <1>12, <1>13, Zenon DEF Next, AllEnded

LEMMA FileTypesStep == Types /\ [Next]_vars => FileTypes'
<1> SUFFICES ASSUME Types, [Next]_vars PROVE FileTypes'
  BY Zenon
<1>0. PoolTypes /\ ThreadTypes /\ FileTypes
  BY Zenon DEF Types
<1> USE DEF FileTypes
<1>1. CASE UNCHANGED <<pc, hfVars, work>>
  BY <1>0, <1>1, Zenon DEF hfVars
<1>2. ASSUME NEW t \in Tid, PoolStep(t) PROVE FileTypes'
  <2>1. UNCHANGED <<hfVars, work>>
    BY <1>2, Zenon DEF PoolStep, Acquire, AbortedByLock, containsKey, makeRoom, readPage, putPage, getReturns,
       markDirty, IteratorFails, LoopEnds, flushPage, revertPage, releaseNext, releaseEnds, histVars
  <2>2. pc' = pc \/ \E l \in Active \cup Completing \cup Releasing \cup Over : pc' = [pc EXCEPT ![t] = l]
    <3>1. CASE makeRoom(t)
      BY <3>1, EvictCases, Zenon DEF makeRoom, Goto, Active, Asking, Over
    <3> QED BY <1>2, <3>1, Zenon DEF PoolStep, Acquire, AbortedByLock, containsKey, readPage, putPage, getReturns,
       markDirty, IteratorFails, LoopEnds, flushPage, revertPage, releaseNext, releaseEnds, Goto, Active,
       Asking, Releasing, Over
  <2>3. \A u \in Tid : pc'[u] \in {"newPageId", "writeNew", "tryLast"} => pc'[u] = pc[u]
    BY <1>0, <2>2, Zenon DEF ThreadTypes, Active, Asking, Completing, Releasing, Over
  <2> QED BY <1>0, <2>1, <2>3, Zenon DEF hfVars
<1>3. ASSUME NEW t \in Tid, open(t) PROVE FileTypes'
  BY <1>0, <1>3, SizeAssumption, SMTT(30) DEF open, nextPage, getPage, Call, Goto, histVars, Page, ThreadTypes
<1>4. ASSUME NEW t \in Tid, hasNext(t) PROVE FileTypes'
  BY <1>0, <1>4, SizeAssumption, SMTT(30) DEF hasNext, nextPage, getPage, Call, Goto, histVars, Page, ThreadTypes
<1>5. ASSUME NEW t \in Tid, NEW p \in Page, deleteTuple(t, p) PROVE FileTypes'
  BY <1>0, <1>5 DEF deleteTuple, getPage, Call, Goto, histVars, ThreadTypes
<1>6. ASSUME NEW t \in Tid PROVE Data(t) \in SUBSET Tuple /\ t \in Tuple /\ pid[t] \in Page
  BY <1>0, ObjectUpdates, Zenon DEF Data, PoolTypes, ThreadTypes, Tuple
<1>7. ASSUME NEW t \in Tid, readTuples(t) PROVE FileTypes'
  <2>1. iter[t].cur \in Nat /\ iter[t].count \in Nat
    BY <1>0, SizeAssumption DEF Page
  <2> DEFINE b == iter[t].cur < iter[t].count - 1 /\ (iter[t].cur = 0 \/ Data(t) # {})
  <2>2. /\ b \in BOOLEAN
        /\ iter' = [iter EXCEPT ![t].more = b]
        /\ b => iter[t].cur + 1 < iter[t].count
    <3>1. b => iter[t].cur + 1 < iter[t].count
      BY <2>1
    <3>2. iter' = [iter EXCEPT ![t].more = b]
      BY <1>7, Zenon DEF readTuples
    <3> QED BY <3>1, <3>2, Zenon
  <2> HIDE DEF b
  <2>3. (view \in [Tid -> SUBSET (Page \X Tuple)])'
    BY <1>0, <1>6, <1>7 DEF readTuples
  <2>4. iter' = [iter EXCEPT ![t] = [cur |-> iter[t].cur, count |-> iter[t].count, more |-> b]]
    <3>1. iter \in [Tid -> [cur : Page, count : 0..FilePages, more : BOOLEAN]]
      BY <1>0, Zenon
    <3>2. [iter[t] EXCEPT !.more = b] = [cur |-> iter[t].cur, count |-> iter[t].count, more |-> b]
      BY <3>1
    <3> QED BY <2>2, <3>1, <3>2, Zenon
  <2>5. (iter \in [Tid -> [cur : Page, count : 0..FilePages, more : BOOLEAN]])'
    <3>1. iter \in [Tid -> [cur : Page, count : 0..FilePages, more : BOOLEAN]]
      BY <1>0, Zenon
    <3>2. [cur |-> iter[t].cur, count |-> iter[t].count, more |-> b]
            \in [cur : Page, count : 0..FilePages, more : BOOLEAN]
      BY <2>2, <3>1, Zenon
    <3> QED BY ONLY <2>4, <3>1, <3>2, Zenon
  <2>6. \A u \in Tid : iter'[u].more => iter'[u].cur + 1 < iter'[u].count
    <3>1. iter \in [Tid -> [cur : Page, count : 0..FilePages, more : BOOLEAN]]
      BY <1>0, Zenon
    <3>2. \A u \in Tid \ {t} : iter'[u] = iter[u]
      BY ONLY <2>4, <3>1, Zenon
    <3>3. iter'[t] = [cur |-> iter[t].cur, count |-> iter[t].count, more |-> b]
      BY ONLY t \in Tid, <2>4, <3>1, Zenon
    <3>4. iter'[t].more => iter'[t].cur + 1 < iter'[t].count
      BY ONLY <2>2, <3>3
    <3> QED BY <1>0, <3>2, <3>4, Zenon
  <2>7. /\ UNCHANGED <<work, numPages, lastTry, calls>>
        /\ \A u \in Tid : pc'[u] = pc[u] \/ pc'[u] = "idle"
    BY <1>0, <1>7, Zenon DEF readTuples, Goto, histVars, ThreadTypes
  <2> QED BY <1>0, <2>3, <2>5, <2>6, <2>7, Zenon
<1>8. ASSUME NEW t \in Tid, NEW x \in Tuple, clearSlot(t, x) PROVE FileTypes'
  <2>1. (view \in [Tid -> SUBSET (Page \X Tuple)])'
    BY <1>0, <1>8, Zenon DEF clearSlot
  <2>2. (work \in [Tid -> [del : SUBSET (Page \X Tuple), add : SUBSET (Page \X Tuple)]])'
    <3>1. CASE x \in Data(t)
      <4>1. work' = [work EXCEPT ![t] = [del |-> work[t].del \cup {<<pid[t], x>>},
                                         add |-> work[t].add \ {<<pid[t], x>>}]]
        BY <1>0, <1>8, <3>1 DEF clearSlot
      <4> QED BY <1>0, <1>6, <4>1
    <3>2. CASE x \notin Data(t)
      BY <1>0, <1>8, <3>2, Zenon DEF clearSlot
    <3> QED BY <3>1, <3>2, Zenon
  <2> QED BY <1>0, <1>8, <2>1, <2>2 DEF clearSlot, Goto, ThreadTypes
<1>9. ASSUME NEW t \in Tid, insertTuple(t) PROVE FileTypes'
  BY <1>0, <1>9 DEF insertTuple, tryPage, getPage, Call, Goto, histVars, ThreadTypes
<1>10. ASSUME NEW t \in Tid, fillSlot(t) PROVE FileTypes'
  <2>1. (work \in [Tid -> [del : SUBSET (Page \X Tuple), add : SUBSET (Page \X Tuple)]])'
    <3>1. \/ work' = work
          \/ work' = [work EXCEPT ![t] = [del |-> work[t].del, add |-> work[t].add \cup {<<pid[t], t>>}]]
      BY <1>0, <1>10 DEF fillSlot
    <3>2. work \in [Tid -> [del : SUBSET (Page \X Tuple), add : SUBSET (Page \X Tuple)]]
      BY <1>0, Zenon
    <3>3. /\ work[t].del \in SUBSET (Page \X Tuple)
          /\ work[t].add \cup {<<pid[t], t>>} \in SUBSET (Page \X Tuple)
      BY <1>6, <3>2
    <3> QED BY ONLY <3>1, <3>2, <3>3
  <2> QED BY <1>0, <1>10, <2>1, Zenon DEF fillSlot, Goto, hfVars, ThreadTypes
\* A step that only moves a thread.
<1>15. ASSUME NEW t \in Tid, NEW l, pc' = [pc EXCEPT ![t] = l], UNCHANGED <<hfVars, work>>,
              l \in {"newPageId", "writeNew", "tryLast"} => numPages > 0
       PROVE  FileTypes'
  <2>1. pc \in [Tid -> Active \cup Inserting \cup Completing \cup Releasing \cup Over]
    BY <1>0, Zenon DEF ThreadTypes
  <2>2. \A u \in Tid : pc'[u] = pc[u] \/ pc'[u] = l
    BY ONLY <1>15, <2>1, Zenon
  <2>3. \A u \in Tid : pc'[u] \in {"newPageId", "writeNew", "tryLast"} => numPages > 0
    BY <1>0, <1>15, <2>2, Zenon
  <2> QED BY <1>0, <1>15, <2>3, Zenon DEF hfVars
<1>11. ASSUME NEW t \in Tid, endOfTry(t) \/ GrowRead(t) \/ newPageId(t) \/ tryLast(t) PROVE FileTypes'
  <2>1. UNCHANGED <<hfVars, work>>
    BY ONLY <1>11, Zenon DEF endOfTry, GrowRead, newPageId, tryLast, histVars
  <2>2. CASE endOfTry(t)
    <3>1. \E l \in {"mark", "idle", "lock", "grow"} : pc' = [pc EXCEPT ![t] = l]
      BY ONLY <2>2, Zenon DEF endOfTry, tryPage, getPage, Goto
    <3>2. \A l \in {"mark", "idle", "lock", "grow"} : l \notin {"newPageId", "writeNew", "tryLast"}
      BY Zenon
    <3> QED BY <1>15, <2>1, <3>1, <3>2, Zenon
  <2>3. CASE GrowRead(t) \/ tryLast(t)
    <3>1. \E l \in {"increment", "lock"} : pc' = [pc EXCEPT ![t] = l]
      BY ONLY <2>3, Zenon DEF GrowRead, tryLast, getPage, Goto
    <3>2. \A l \in {"increment", "lock"} : l \notin {"newPageId", "writeNew", "tryLast"}
      BY Zenon
    <3> QED BY <1>15, <2>1, <3>1, <3>2, Zenon
  <2>4. CASE newPageId(t)
    <3>1. pc' = [pc EXCEPT ![t] = "writeNew"] /\ numPages > 0
      BY <1>0, <2>4, Zenon DEF newPageId, Goto
    <3> QED BY <1>15, <2>1, <3>1, Zenon
  <2> QED BY <1>11, <2>2, <2>3, <2>4, Zenon
<1>12. ASSUME NEW t \in Tid, GrowWrite(t) \/ writePage(t) PROVE FileTypes'
  <2>1. pid[t] + 1 \in 0..FilePages /\ pid[t] + 1 > 0
    BY <1>0, SizeAssumption DEF ThreadTypes, Page
  <2>2. CASE GrowWrite(t)
    <3>1. /\ numPages' = pid[t] + 1 /\ UNCHANGED <<lastTry, iter, view, calls, work>>
      BY ONLY <2>2, Zenon DEF GrowWrite, histVars
    <3>2. numPages' \in 0..FilePages /\ numPages' > 0
      BY ONLY <2>1, <3>1, Zenon
    <3> QED BY <1>0, <3>1, <3>2, Zenon
  <2>3. CASE writePage(t)
    BY <1>0, <2>3, Zenon DEF writePage, Goto, histVars, ThreadTypes
  <2> QED BY <1>12, <2>2, <2>3, Zenon
<1>13. ASSUME NEW t \in Tid, commitTransaction(t) \/ abortTransaction(t) PROVE FileTypes'
  <2>1. UNCHANGED <<hfVars, work>> /\ \E l \in {"flush", "undo"} : pc' = [pc EXCEPT ![t] = l]
    BY ONLY <1>13, Zenon DEF commitTransaction, abortTransaction, transactionComplete, Goto, histVars
  <2>2. \A l \in {"flush", "undo"} : l \notin {"newPageId", "writeNew", "tryLast"}
    BY Zenon
  <2> QED BY <1>15, <2>1, <2>2, Zenon
<1>14. CASE flushAll
  BY <1>1, <1>14, Zenon DEF flushAll, flushAllPages, histVars
<1>16. CASE UNCHANGED vars
  BY <1>1, <1>16, Zenon DEF vars, bpVars, histVars
<1> HIDE DEF FileTypes
<1> QED BY <1>2, <1>3, <1>4, <1>5, <1>7, <1>8, <1>9, <1>10, <1>11, <1>12, <1>13, <1>14, <1>16, Zenon
     DEF Next, AllEnded

\* Which pages are cached after an object was replaced, changed or written.
LEMMA CachedAfter ==
    ASSUME PoolTypes
    PROVE  /\ \A p \in Page : pages' = [pages EXCEPT ![p] = Absent] => Cached' = Cached \ {p}
           /\ \A p \in Page, d \in SUBSET Tuple :
                pages' = [pages EXCEPT ![p] = Clean(d)] => Cached' = Cached \cup {p}
           /\ \A P \in SUBSET Page : pages' = flushed(P) => Cached' = Cached
<1>1. ASSUME NEW p \in Page, pages' = [pages EXCEPT ![p] = Absent] PROVE Cached' = Cached \ {p}
  BY <1>1, Zenon DEF PoolTypes, Cached
<1>2. ASSUME NEW p \in Page, NEW d \in SUBSET Tuple, pages' = [pages EXCEPT ![p] = Clean(d)]
      PROVE  Cached' = Cached \cup {p}
  BY <1>2, CleanIsCached, SMTT(30) DEF PoolTypes, Cached
<1>3. ASSUME NEW P \in SUBSET Page, pages' = flushed(P) PROVE Cached' = Cached
  BY <1>3, CleanIsCached, Zenon DEF flushed, Cached
<1> QED BY <1>1, <1>2, <1>3, Zenon

\* Changing the tuples of an object, or marking it dirty, changes that object
\* only and leaves the set of cached pages as it is.
LEMMA ChangeObject ==
    ASSUME Types, NEW t \in Tid, shared[t]
    PROVE  /\ \A d \in SUBSET Tuple : pages' = [pages EXCEPT ![pid[t]].data = d] =>
                /\ pages' = [pages EXCEPT ![pid[t]] = [data |-> d, dirty |-> pages[pid[t]].dirty]]
                /\ Cached' = Cached
           /\ pages' = [pages EXCEPT ![pid[t]].dirty = t] =>
                /\ pages' = [pages EXCEPT ![pid[t]] = [data |-> pages[pid[t]].data, dirty |-> t]]
                /\ Cached' = Cached
<1>1. PoolTypes /\ pid[t] \in Page /\ pages[pid[t]] \in Objects /\ pid[t] \in Cached
  BY Zenon DEF Types, PoolTypes, ThreadTypes, RefTypes
<1>2. ASSUME NEW d \in SUBSET Tuple, pages' = [pages EXCEPT ![pid[t]].data = d]
      PROVE  /\ pages' = [pages EXCEPT ![pid[t]] = [data |-> d, dirty |-> pages[pid[t]].dirty]]
             /\ Cached' = Cached
  <2>1. pages' = [pages EXCEPT ![pid[t]] = [data |-> d, dirty |-> pages[pid[t]].dirty]]
    BY <1>1, <1>2, ObjectUpdates, Zenon
  <2>2. pages[pid[t]].dirty # "absent"
    BY <1>1, CachedObjects, Zenon
  <2> QED BY <1>1, <2>1, <2>2, Zenon DEF Cached, Absent, PoolTypes
<1>3. ASSUME pages' = [pages EXCEPT ![pid[t]].dirty = t]
      PROVE  /\ pages' = [pages EXCEPT ![pid[t]] = [data |-> pages[pid[t]].data, dirty |-> t]]
             /\ Cached' = Cached
  <2>1. pages' = [pages EXCEPT ![pid[t]] = [data |-> pages[pid[t]].data, dirty |-> t]]
    BY <1>1, <1>3, ObjectUpdates, Zenon
  <2> QED BY <1>1, <2>1, SizeAssumption, Zenon DEF Cached, Absent, PoolTypes
<1> QED BY <1>2, <1>3, Zenon

\* A thread keeps its reference only from getPage to the end of the use.
LEMMA RefTypesStep == Types /\ [Next]_vars => RefTypes'
<1> SUFFICES ASSUME Types, [Next]_vars PROVE RefTypes'
  BY Zenon
<1>0. PoolTypes /\ ThreadTypes /\ RefTypes
  BY Zenon DEF Types
<1> USE DEF ThreadTypes, RefTypes
<1>1. CASE UNCHANGED <<pages, pc, pid, shared>>
  BY <1>0, <1>1, Zenon DEF Cached
\* A step of a thread that refers to no object and leaves the cache as it is.
<1>2. ASSUME NEW t \in Tid, UNCHANGED pages, \A u \in Tid \ {t} : pc'[u] = pc[u] /\ pid'[u] = pid[u],
             \A u \in Tid : shared'[u] => shared[u] /\ u # t
      PROVE  RefTypes'
  BY <1>0, <1>2, Zenon DEF Cached
\* The same when an object leaves the cache.
<1>3. ASSUME NEW t \in Tid, NEW p \in Page, Detach(p), \A q \in Page : q # p => pages'[q] = pages[q],
             \A u \in Tid \ {t} : pc'[u] = pc[u], UNCHANGED pid, ~shared[t]
      PROVE  RefTypes'
  BY <1>0, <1>3, SMTT(30) DEF Detach, Cached
<1>4. ASSUME NEW t \in Tid, PoolStep(t) PROVE RefTypes'
  <2>1. CASE makeRoom(t)
    <3>1. ~shared[t]
      BY <1>0, <2>1, Zenon DEF makeRoom
    <3>2. CASE UNCHANGED pages /\ UNCHANGED shared
      <4>1. \A u \in Tid \ {t} : pc'[u] = pc[u] /\ pid'[u] = pid[u]
        <5>1. \E l : pc' = [pc EXCEPT ![t] = l]
          BY <2>1, RoomCases, Zenon
        <5> QED BY <1>0, <2>1, <5>1, Zenon DEF makeRoom
      <4> QED BY <1>2, <3>1, <3>2, <4>1, Zenon
    <3>3. CASE ~(UNCHANGED pages /\ UNCHANGED shared)
      <4>1. PICK k \in 1..Len(pageids) : /\ pageids[k] \in Page
                                         /\ pages' = [pages EXCEPT ![pageids[k]] = Absent]
                                         /\ Detach(pageids[k])
                                         /\ \E l : pc' = [pc EXCEPT ![t] = l]
        BY <2>1, <3>3, RoomCases, Zenon DEF poolVars, refVars
      <4>2. \A q \in Page : q # pageids[k] => pages'[q] = pages[q]
        BY <1>0, <4>1, Zenon DEF PoolTypes
      <4>3. \A u \in Tid \ {t} : pc'[u] = pc[u]
        BY <1>0, <4>1, Zenon
      <4> QED BY <1>3, <2>1, <3>1, <4>1, <4>2, <4>3, Zenon DEF makeRoom
    <3> QED BY <3>2, <3>3, Zenon
  <2>2. CASE putPage(t)
    BY <1>0, <1>3, <2>2, Zenon DEF putPage, Goto, PoolTypes
  <2>3. CASE getReturns(t)
    BY <1>0, <2>3, Zenon DEF getReturns, Goto, poolVars, Cached
  <2>4. CASE markDirty(t)
    <3>1. Cached' = Cached
      BY <2>4, ChangeObject, Zenon DEF markDirty, Cached
    <3> QED BY <1>0, <2>4, <3>1, Zenon DEF markDirty, Goto
  <2>5. ASSUME NEW p \in Page, flushPage(t, p) PROVE RefTypes'
    <3>1. Cached' = Cached
      BY <1>0, <2>5, CachedAfter, Zenon DEF flushPage
    <3> QED BY <1>0, <2>5, <3>1, Zenon DEF flushPage, refVars
  <2>6. ASSUME NEW p \in Page, revertPage(t, p) PROVE RefTypes'
    <3>1. ~shared[t]
      BY <1>0, <2>6, Zenon DEF revertPage
    <3>2. CASE holdsLock(t, p)
      <4>1. Detach(p) /\ pages' = [pages EXCEPT ![p] = Clean(disk[p])] /\ UNCHANGED <<pc, pid>>
        BY <2>6, <3>2, Zenon DEF revertPage
      <4>2. \A q \in Page : q # p => pages'[q] = pages[q]
        BY <1>0, <4>1, Zenon DEF PoolTypes
      <4> QED BY <1>3, <3>1, <4>1, <4>2, Zenon
    <3>3. CASE ~holdsLock(t, p)
      BY <1>0, <1>1, <2>6, <3>1, <3>3, Zenon DEF revertPage, refVars
    <3> QED BY ONLY <3>2, <3>3, Zenon
  <2>7. CASE \/ Acquire(t) \/ AbortedByLock(t) \/ containsKey(t) \/ readPage(t) \/ IteratorFails(t)
             \/ LoopEnds(t) \/ releaseEnds(t) \/ \E p \in Page : releaseNext(t, p)
    <3>1. /\ UNCHANGED <<pages, pid, shared>>
          /\ pc' = pc \/ \E l : pc' = [pc EXCEPT ![t] = l]
          /\ pc[t] \in {"lock", "lookup", "read", "flush", "undo", "committing", "aborting"}
      BY ONLY <2>7, Zenon DEF Acquire, AbortedByLock, containsKey, readPage, IteratorFails, LoopEnds,
         releaseEnds, releaseNext, Goto, poolVars, refVars
    <3>2. ~shared[t]
      BY <1>0, <3>1, Zenon
    <3>3. \A u \in Tid \ {t} : pc'[u] = pc[u]
      BY <1>0, <3>1, Zenon
    <3> QED BY <1>2, <3>1, <3>2, <3>3, Zenon
  <2> HIDE DEF ThreadTypes, RefTypes
  <2> QED BY <1>4, <2>1, <2>2, <2>3, <2>4, <2>5, <2>6, <2>7, Zenon DEF PoolStep
<1>5. ASSUME NEW t \in Tid, open(t) \/ hasNext(t) \/ readTuples(t) \/ \E p \in Page : deleteTuple(t, p)
      PROVE  RefTypes'
  <2>1. /\ UNCHANGED pages /\ \E l : pc' = [pc EXCEPT ![t] = l]
        /\ pid' = pid \/ \E q : pid' = [pid EXCEPT ![t] = q]
        /\ \/ pc[t] = "idle" /\ shared' = shared
           \/ shared' = [shared EXCEPT ![t] = FALSE]
    BY ONLY <1>5, Zenon DEF open, hasNext, nextPage, readTuples, deleteTuple, getPage, Call, Goto, poolVars, refVars
  <2>2. \A u \in Tid \ {t} : pc'[u] = pc[u] /\ pid'[u] = pid[u]
    BY <1>0, <2>1, Zenon
  <2>3. \A u \in Tid : shared'[u] => shared[u] /\ u # t
    BY <1>0, <2>1, Zenon
  <2> QED BY <1>2, <2>1, <2>2, <2>3, Zenon
<1>6. ASSUME NEW t \in Tid PROVE Data(t) \in SUBSET Tuple /\ t \in Tuple
  BY <1>0, ObjectUpdates, Zenon DEF Data, PoolTypes, Tuple
<1>7. ASSUME NEW t \in Tid, NEW x \in Tuple, clearSlot(t, x) PROVE RefTypes'
  <2>1. Cached' = Cached
    <3>1. pages' = pages \/ \E d \in SUBSET Tuple : shared[t] /\ pages' = [pages EXCEPT ![pid[t]].data = d]
      BY <1>6, <1>7, Zenon DEF clearSlot, SetData
    <3> QED BY <3>1, ChangeObject, Zenon DEF Cached
  <2> QED BY <1>0, <1>7, <2>1, Zenon DEF clearSlot, Goto
<1>8. ASSUME NEW t \in Tid, fillSlot(t) PROVE RefTypes'
  <2>1. Cached' = Cached
    <3>1. pages' = pages \/ \E d \in SUBSET Tuple : shared[t] /\ pages' = [pages EXCEPT ![pid[t]].data = d]
      BY <1>6, <1>8, Zenon DEF fillSlot, SetData
    <3> QED BY <3>1, ChangeObject, Zenon DEF Cached
  <2> QED BY <1>0, <1>8, <2>1, Zenon DEF fillSlot, Goto
<1>9. ASSUME NEW t \in Tid, endOfTry(t) PROVE RefTypes'
  <2>1. CASE pc[t] = "unlockAdded"
    BY <1>0, <1>9, <2>1, Zenon DEF endOfTry, Goto, poolVars, refVars, Cached
  <2>2. CASE pc[t] = "unlockFull"
    <3>1. /\ UNCHANGED pages /\ shared' = [shared EXCEPT ![t] = FALSE]
          /\ \E l : pc' = [pc EXCEPT ![t] = l]
          /\ pid' = pid \/ \E q : pid' = [pid EXCEPT ![t] = q]
      BY ONLY <1>9, <2>2, Zenon DEF endOfTry, tryPage, getPage, Goto, poolVars
    <3>2. /\ \A u \in Tid \ {t} : pc'[u] = pc[u] /\ pid'[u] = pid[u]
          /\ \A u \in Tid : shared'[u] => shared[u] /\ u # t
      BY <1>0, <3>1, Zenon
    <3> QED BY <1>2, <3>1, <3>2, Zenon
  <2> QED BY <1>9, <2>1, <2>2, Zenon DEF endOfTry
<1>10. ASSUME NEW t \in Tid, \/ insertTuple(t) \/ GrowRead(t) \/ GrowWrite(t) \/ newPageId(t)
                             \/ writePage(t) \/ tryLast(t)
       PROVE  RefTypes'
  <2>1. UNCHANGED <<pages, shared>> /\ pc[t] \in {"idle"} \cup (Inserting \ {"unlockAdded", "unlockFull"})
    BY <1>10, Zenon DEF insertTuple, GrowRead, GrowWrite, newPageId, writePage, tryLast, Call, poolVars, refVars,
       Inserting
  <2>2. \A u \in Tid \ {t} : pc'[u] = pc[u] /\ pid'[u] = pid[u]
    <3>1. /\ \E l : pc' = [pc EXCEPT ![t] = l]
          /\ pid' = pid \/ \E q : pid' = [pid EXCEPT ![t] = q]
      BY ONLY <1>10, Zenon DEF insertTuple, tryPage, getPage, GrowRead, GrowWrite, newPageId, writePage, tryLast,
         Goto
    <3> QED BY <1>0, <3>1, Zenon
  <2>3. ~shared[t]
    BY <1>0, <2>1, Zenon DEF Inserting
  <2> QED BY <1>2, <2>1, <2>2, <2>3, Zenon
<1>11. ASSUME NEW t \in Tid, commitTransaction(t) \/ abortTransaction(t) PROVE RefTypes'
  <2>1. UNCHANGED <<pages, pid, shared>> /\ pc[t] \in {"idle", "aborted"} /\ \E l : pc' = [pc EXCEPT ![t] = l]
    BY <1>11, Zenon DEF commitTransaction, abortTransaction, transactionComplete, Goto, poolVars, refVars
  <2>2. ~shared[t] /\ \A u \in Tid \ {t} : pc'[u] = pc[u]
    BY <1>0, <2>1, Zenon
  <2> QED BY <1>2, <2>1, <2>2, Zenon
<1>12. CASE flushAll
  <2>1. Cached' = Cached
    BY <1>0, <1>12, CachedAfter, Zenon DEF flushAll, flushAllPages
  <2> QED BY <1>0, <1>12, <2>1, Zenon DEF flushAll, flushAllPages, refVars
<1>13. CASE UNCHANGED vars
  BY <1>1, <1>13, Zenon DEF vars, bpVars, poolVars, refVars
<1> HIDE DEF ThreadTypes, RefTypes
<1> QED BY <1>4, <1>5, <1>7, <1>8, <1>9, <1>10, <1>11, <1>12, <1>13, Zenon DEF Next, AllEnded

LEMMA TypesStep == Types /\ [Next]_vars => Types'
BY LockTypesStep, PoolTypesStep, ThreadTypesStep, FileTypesStep, RefTypesStep, Zenon DEF Types

\* The fields of the pool and of the file, and the locals of the threads, have
\* values of their types in every reachable state.
THEOREM TypesHold == Spec => []Types
BY TypesInit, TypesStep, PTL DEF Spec

-----------------------------------------------------------------------------
(* The steps of the threads *)

ThreadStep(t) ==
    \/ PoolStep(t)
    \/ open(t) \/ hasNext(t) \/ readTuples(t)
    \/ \E p \in Page : deleteTuple(t, p)
    \/ \E x \in Tuple : clearSlot(t, x)
    \/ insertTuple(t) \/ fillSlot(t) \/ endOfTry(t)
    \/ GrowRead(t) \/ GrowWrite(t) \/ newPageId(t) \/ writePage(t)
    \/ tryLast(t)
    \/ commitTransaction(t) \/ abortTransaction(t)

\* The pages that are cached after a step that neither evicts a page nor adds
\* one.
LEMMA SameCached ==
    ASSUME Types, NEW t \in Tid, ThreadStep(t), ~makeRoom(t), ~putPage(t),
           \A p \in Page : ~revertPage(t, p)
    PROVE  Cached' = Cached /\ pageids' = pageids
<1>0. PoolTypes /\ ThreadTypes
  BY Zenon DEF Types
<1>1. ASSUME NEW p \in Page, flushPage(t, p) PROVE Cached' = Cached /\ pageids' = pageids
  BY <1>0, <1>1, CachedAfter, Zenon DEF flushPage
<1>2. CASE markDirty(t)
  <2>1. CASE shared[t]
    BY <1>2, <2>1, ChangeObject, Zenon DEF markDirty
  <2>2. CASE ~shared[t]
    BY <1>2, <2>2, Zenon DEF markDirty, Cached
  <2> QED BY <2>1, <2>2, Zenon
<1>3. ASSUME NEW d \in SUBSET Tuple, SetData(t, d) PROVE Cached' = Cached
  <2>1. CASE shared[t]
    BY <1>3, <2>1, ChangeObject, Zenon DEF SetData
  <2>2. CASE ~shared[t]
    BY <1>3, <2>2, Zenon DEF SetData, Cached
  <2> QED BY <2>1, <2>2, Zenon
<1>4. Data(t) \in SUBSET Tuple /\ t \in Tuple
  BY <1>0, CachedObjects, Zenon DEF Data, ThreadTypes, Objects, Tuple
<1>5. ASSUME NEW x \in Tuple, clearSlot(t, x) PROVE Cached' = Cached /\ pageids' = pageids
  BY <1>3, <1>4, <1>5, Zenon DEF clearSlot, Cached
<1>6. CASE fillSlot(t)
  BY <1>3, <1>4, <1>6, Zenon DEF fillSlot, Cached
<1>7. CASE UNCHANGED poolVars
  BY <1>7, Zenon DEF poolVars, Cached
<1> QED BY <1>1, <1>2, <1>5, <1>6, <1>7, Zenon DEF ThreadStep, PoolStep, Acquire, AbortedByLock, containsKey,
      readPage, getReturns, IteratorFails, LoopEnds, releaseEnds, releaseNext, open, hasNext, nextPage,
      readTuples, deleteTuple, insertTuple, endOfTry, GrowRead, GrowWrite, newPageId, writePage, tryLast,
      commitTransaction, abortTransaction, transactionComplete

\* What a step of the whole system is.
LEMMA Steps ==
    ASSUME [Next]_vars
    PROVE  (\E t \in Tid : ThreadStep(t)) \/ flushAll \/ UNCHANGED vars
BY Zenon DEF Next, ThreadStep, AllEnded

\* A step of t does not move another thread.
LEMMA OthersStay ==
    ASSUME Types, NEW t \in Tid, ThreadStep(t), NEW u \in Tid, u # t
    PROVE  UNCHANGED <<pc[u], pid[u], op[u], calls[u], todo[u], held[u], work[u], iter[u], view[u]>>
<1>0. LockTypes /\ ThreadTypes /\ FileTypes
  BY Zenon DEF Types
<1>1. CASE makeRoom(t) /\ UNCHANGED hfVars
  <2>1. /\ \E l : pc' = [pc EXCEPT ![t] = l]
        /\ op' = op \/ op' = [op EXCEPT ![t] = "failed"]
    BY <1>1, RoomCases, Zenon
  <2> QED BY <1>0, <1>1, <2>1, Zenon DEF makeRoom, lockVars, histVars, hfVars, ThreadTypes
<1>2. CASE PoolStep(t) /\ ~makeRoom(t)
  <2>1. UNCHANGED <<calls, iter, view>>
    BY <1>2, Zenon DEF PoolStep, hfVars
  <2>2. ASSUME Acquire(t) \/ AbortedByLock(t) \/ containsKey(t) \/ readPage(t) \/ putPage(t)
        PROVE  UNCHANGED <<pc[u], pid[u], op[u], todo[u], held[u], work[u]>>
    BY <1>0, <2>2, Zenon DEF Acquire, AbortedByLock, containsKey, readPage, putPage, Goto, lockVars, iterVars,
       histVars, LockTypes, ThreadTypes
  <2>3. ASSUME getReturns(t) \/ markDirty(t) \/ IteratorFails(t) \/ LoopEnds(t) \/ releaseEnds(t)
        PROVE  UNCHANGED <<pc[u], pid[u], op[u], todo[u], held[u], work[u]>>
    BY <1>0, <2>3, Zenon DEF getReturns, markDirty, IteratorFails, LoopEnds, releaseEnds, Goto, lockVars, iterVars,
       histVars, LockTypes, ThreadTypes
  <2>4. ASSUME NEW p \in Page, flushPage(t, p) \/ revertPage(t, p) \/ releaseNext(t, p)
        PROVE  UNCHANGED <<pc[u], pid[u], op[u], todo[u], held[u], work[u]>>
    BY <1>0, <2>4, Zenon DEF flushPage, revertPage, releaseNext, lockVars, histVars, ThreadTypes
  <2>5. UNCHANGED <<pc[u], pid[u], op[u], todo[u], held[u], work[u]>>
    BY <1>2, <2>2, <2>3, <2>4, Zenon DEF PoolStep
  <2> QED BY ONLY <2>1, <2>5, Zenon
<1>3. CASE open(t) \/ hasNext(t) \/ readTuples(t) \/ \E p \in Page : deleteTuple(t, p)
  <2>1. CASE open(t) \/ hasNext(t)
    BY <1>0, <2>1 DEF open, hasNext, nextPage, Call, getPage, Goto, lockVars, iterVars, histVars, ThreadTypes,
       FileTypes
  <2>2. CASE readTuples(t)
    BY <1>0, <2>2, Zenon DEF readTuples, Goto, lockVars, iterVars, histVars, ThreadTypes, FileTypes
  <2>3. CASE \E p \in Page : deleteTuple(t, p)
    BY <1>0, <2>3, Zenon DEF deleteTuple, Call, getPage, Goto, lockVars, iterVars, histVars, ThreadTypes, FileTypes
  <2> QED BY <1>3, <2>1, <2>2, <2>3, Zenon
<1>4. ASSUME NEW x \in Tuple, clearSlot(t, x)
      PROVE  UNCHANGED <<pc[u], pid[u], op[u], calls[u], todo[u], held[u], work[u], iter[u], view[u]>>
  BY <1>0, <1>4 DEF clearSlot, Goto, lockVars, iterVars, ThreadTypes, FileTypes
<1>5. CASE \/ insertTuple(t) \/ fillSlot(t) \/ GrowRead(t) \/ GrowWrite(t) \/ newPageId(t) \/ writePage(t)
           \/ tryLast(t)
  <2>1. CASE insertTuple(t)
    BY <1>0, <2>1 DEF insertTuple, tryPage, Call, getPage, Goto, lockVars, iterVars, histVars, ThreadTypes,
       FileTypes
  <2>2. CASE fillSlot(t)
    BY <1>0, <2>2, Zenon DEF fillSlot, Goto, lockVars, iterVars, hfVars, ThreadTypes, FileTypes
  <2>3. CASE GrowRead(t) \/ newPageId(t)
    BY <1>0, <2>3, Zenon DEF GrowRead, newPageId, Goto, lockVars, iterVars, histVars, hfVars, ThreadTypes
  <2>4. CASE GrowWrite(t) \/ writePage(t)
    BY <1>0, <2>4, Zenon DEF GrowWrite, writePage, Goto, lockVars, iterVars, histVars, ThreadTypes
  <2>5. CASE tryLast(t)
    BY <1>0, <2>5, Zenon DEF tryLast, getPage, Goto, lockVars, iterVars, histVars, hfVars, ThreadTypes
  <2> QED BY <1>5, <2>1, <2>2, <2>3, <2>4, <2>5, Zenon
<1>6. CASE endOfTry(t)
  BY <1>0, <1>6 DEF endOfTry, releasePage, tryPage, getPage, Goto, iterVars, histVars, hfVars, LockTypes,
     ThreadTypes, FileTypes
<1>7. CASE commitTransaction(t) \/ abortTransaction(t)
  BY <1>0, <1>7, Zenon DEF commitTransaction, abortTransaction, transactionComplete, Goto, lockVars, histVars, hfVars,
     ThreadTypes
<1>8. CASE PoolStep(t)
  BY <1>1, <1>2, <1>8, Zenon DEF PoolStep
<1> QED BY <1>3, <1>4, <1>5, <1>6, <1>7, <1>8, Zenon DEF ThreadStep

\* Where the threads come from, and where they go: the steps that are worth
\* naming.
LEMMA Moves ==
    ASSUME Types, NEW t \in Tid, ThreadStep(t)
    PROVE  /\ pc'[t] \in {"room", "read", "undo"} =>
                \/ containsKey(t) \/ makeRoom(t) \/ abortTransaction(t)
                \/ \E p \in Page : revertPage(t, p)
           /\ pc'[t] = "put" => readPage(t)
           /\ pc'[t] \in Releasing \cup {"committed"} =>
                LoopEnds(t) \/ releaseEnds(t) \/ \E p \in Page : releaseNext(t, p)
           /\ pc[t] \in Releasing => releaseEnds(t) \/ \E p \in Page : releaseNext(t, p)
           /\ pc[t] \in {"newPageId", "writeNew"} => newPageId(t) \/ writePage(t)
           /\ pc[t] = "mark" => markDirty(t)
           /\ pc[t] = "unlockAdded" => endOfTry(t)
<1>0. pc \in [Tid -> Active \cup Inserting \cup Completing \cup Releasing \cup Over]
  BY Zenon DEF Types, ThreadTypes
<1>1. \A l : pc' = [pc EXCEPT ![t] = l] => pc'[t] = l
  BY ONLY t \in Tid, <1>0, Zenon
<1>2. CASE \/ Acquire(t) \/ AbortedByLock(t) \/ getReturns(t) \/ putPage(t) \/ markDirty(t) \/ IteratorFails(t)
  <2>1. /\ \E l \in {"lookup", "aborted", "use", "dead", "get", "idle"} : pc' = [pc EXCEPT ![t] = l]
        /\ pc[t] \in {"lock", "get", "put", "flush", "undo"} \/ (pc[t] = "mark" /\ markDirty(t))
    BY ONLY <1>2, Zenon DEF Acquire, AbortedByLock, getReturns, putPage, markDirty, IteratorFails, Goto
  <2>2. pc'[t] \in {"lookup", "aborted", "use", "dead", "get", "idle"}
    BY <1>1, <2>1, Zenon
  <2> QED BY ONLY <2>1, <2>2, Zenon DEF Releasing
<1>3. CASE LoopEnds(t) \/ releaseEnds(t)
  <2>1. /\ \E l \in Releasing \cup {"committed", "rolledback"} : pc' = [pc EXCEPT ![t] = l]
        /\ pc[t] \in {"flush", "undo"} \/ (pc[t] \in Releasing /\ releaseEnds(t))
    BY ONLY <1>3, Zenon DEF LoopEnds, releaseEnds, Goto, Releasing
  <2>2. pc'[t] \in Releasing \cup {"committed", "rolledback"}
    BY <1>1, <2>1, Zenon
  <2> QED BY ONLY <1>3, <2>1, <2>2, Zenon DEF Releasing
<1>4. ASSUME NEW p \in Page, flushPage(t, p) \/ revertPage(t, p) \/ releaseNext(t, p)
      PROVE  /\ pc'[t] = pc[t]
             /\ \/ pc[t] = "flush" \/ (pc[t] = "undo" /\ revertPage(t, p))
                \/ (pc[t] \in Releasing /\ releaseNext(t, p))
  BY ONLY <1>4, Zenon DEF flushPage, revertPage, releaseNext, Releasing
<1>5. CASE containsKey(t) \/ readPage(t)
  <2>1. \/ containsKey(t) /\ pc[t] = "lookup" /\ \E l \in {"get", "room"} : pc' = [pc EXCEPT ![t] = l]
        \/ readPage(t) /\ pc[t] = "read" /\ \E l \in {"put", "dead"} : pc' = [pc EXCEPT ![t] = l]
    BY ONLY <1>5, Zenon DEF containsKey, readPage, Goto
  <2>2. \/ containsKey(t) /\ pc[t] = "lookup" /\ pc'[t] \in {"get", "room"}
        \/ readPage(t) /\ pc[t] = "read" /\ pc'[t] \in {"put", "dead"}
    BY <1>1, <2>1, Zenon
  <2> QED BY ONLY <2>2, Zenon DEF Releasing
<1>6. CASE makeRoom(t)
  <2>1. (\E l \in {"read", "idle", "dead"} : pc' = [pc EXCEPT ![t] = l]) /\ pc[t] = "room"
    BY <1>6, RoomCases, Zenon DEF makeRoom
  <2>2. pc'[t] \in {"read", "idle", "dead"}
    BY <1>1, <2>1, Zenon
  <2> QED BY ONLY <1>6, <2>1, <2>2, Zenon DEF Releasing
<1>7. CASE \/ open(t) \/ hasNext(t) \/ readTuples(t) \/ \E p \in Page : deleteTuple(t, p)
           \/ \E x \in Tuple : clearSlot(t, x)
  <2>1. pc[t] \in {"idle", "use"} /\ \E l \in {"lock", "mark", "idle"} : pc' = [pc EXCEPT ![t] = l]
    BY ONLY <1>7, Zenon DEF open, hasNext, nextPage, getPage, readTuples, deleteTuple, clearSlot, Call, Goto
  <2>2. pc'[t] \in {"lock", "mark", "idle"}
    BY <1>1, <2>1, Zenon
  <2> QED BY ONLY <2>1, <2>2, Zenon DEF Releasing
<1>8. CASE insertTuple(t) \/ fillSlot(t) \/ endOfTry(t) \/ GrowRead(t) \/ GrowWrite(t) \/ tryLast(t)
  <2> DEFINE to == {"lock", "grow", "unlockAdded", "unlockFull", "mark", "idle", "increment", "newPageId"}
  <2>1. /\ \/ pc[t] \in {"idle", "use", "unlockFull", "grow", "increment", "tryLast"}
           \/ pc[t] = "unlockAdded" /\ endOfTry(t)
        /\ \E l \in to : pc' = [pc EXCEPT ![t] = l]
    BY ONLY <1>8, Zenon DEF insertTuple, tryPage, getPage, fillSlot, endOfTry, GrowRead, GrowWrite, tryLast, Call,
       Goto
  <2>2. pc'[t] \in to
    BY <1>1, <2>1, Zenon
  <2> QED BY ONLY <2>1, <2>2, Zenon DEF Releasing
<1>9. CASE newPageId(t) \/ writePage(t)
  <2>1. pc[t] \in {"newPageId", "writeNew"} /\ \E l \in {"writeNew", "tryLast"} : pc' = [pc EXCEPT ![t] = l]
    BY ONLY <1>9, Zenon DEF newPageId, writePage, Goto
  <2>2. pc'[t] \in {"writeNew", "tryLast"}
    BY <1>1, <2>1, Zenon
  <2> QED BY ONLY <1>9, <2>1, <2>2, Zenon DEF Releasing
<1>10. CASE commitTransaction(t) \/ abortTransaction(t)
  <2>1. /\ pc[t] \in {"idle", "aborted"}
        /\ \/ pc' = [pc EXCEPT ![t] = "flush"]
           \/ pc' = [pc EXCEPT ![t] = "undo"] /\ abortTransaction(t)
    BY ONLY <1>10, Zenon DEF commitTransaction, abortTransaction, transactionComplete, Goto
  <2>2. pc'[t] = "flush" \/ (pc'[t] = "undo" /\ abortTransaction(t))
    BY <1>1, <2>1, Zenon
  <2> QED BY ONLY <2>1, <2>2, Zenon DEF Releasing
<1>11. CASE \E p \in Page : flushPage(t, p) \/ revertPage(t, p) \/ releaseNext(t, p)
  <2>1. PICK p \in Page : flushPage(t, p) \/ revertPage(t, p) \/ releaseNext(t, p)
    BY <1>11, Zenon
  <2>2. /\ pc'[t] = pc[t]
        /\ \/ pc[t] = "flush" \/ (pc[t] = "undo" /\ revertPage(t, p))
           \/ (pc[t] \in Releasing /\ releaseNext(t, p))
    BY <1>4, <2>1, Zenon
  <2> QED BY ONLY p \in Page, <2>2, Zenon DEF Releasing
<1> QED BY <1>2, <1>3, <1>5, <1>6, <1>7, <1>8, <1>9, <1>10, <1>11, Zenon DEF ThreadStep, PoolStep

\* Which steps change the locks, the file, the number of its pages, and what
\* the iterators over _pages are worth.
LEMMA Changes ==
    ASSUME NEW t \in Tid, ThreadStep(t)
    PROVE  /\ \/ UNCHANGED <<owner, readers>>
              \/ Acquire(t) \/ endOfTry(t) \/ \E p \in Page : releaseNext(t, p)
           /\ disk' = disk \/ writePage(t) \/ \E p \in Page : flushPage(t, p)
           /\ fileLen' = fileLen \/ (writePage(t) /\ ~PoolStep(t))
           /\ numPages' = numPages \/ GrowWrite(t)
           /\ \/ stale' = stale
              \/ makeRoom(t) \/ putPage(t) \/ \E p \in Page : revertPage(t, p)
              \/ commitTransaction(t) \/ abortTransaction(t)
<1>1. ASSUME Acquire(t) \/ AbortedByLock(t) \/ containsKey(t) \/ readPage(t) \/ getReturns(t) \/ markDirty(t)
      PROVE  UNCHANGED <<disk, fileLen, stale>> /\ (UNCHANGED <<owner, readers>> \/ Acquire(t))
  BY ONLY <1>1, Zenon DEF AbortedByLock, containsKey, readPage, getReturns, markDirty, Acquire, lockVars, fileVars,
     iterVars
<1>2. ASSUME makeRoom(t) \/ putPage(t) PROVE UNCHANGED <<owner, readers, disk, fileLen>>
  BY ONLY <1>2, Zenon DEF makeRoom, putPage, lockVars, fileVars
<1>3. ASSUME IteratorFails(t) \/ LoopEnds(t) \/ releaseEnds(t)
      PROVE  UNCHANGED <<owner, readers, disk, fileLen, stale>>
  BY ONLY <1>3, Zenon DEF IteratorFails, LoopEnds, releaseEnds, lockVars, fileVars, iterVars
<1>4. ASSUME NEW p \in Page, flushPage(t, p) \/ revertPage(t, p) \/ releaseNext(t, p)
      PROVE  /\ fileLen' = fileLen
             /\ UNCHANGED <<owner, readers>> \/ releaseNext(t, p)
             /\ disk' = disk \/ flushPage(t, p)
             /\ stale' = stale \/ revertPage(t, p)
  BY ONLY <1>4, Zenon DEF flushPage, revertPage, releaseNext, lockVars, fileVars
<1>5. CASE PoolStep(t)
  <2>1. numPages' = numPages
    BY <1>5, Zenon DEF PoolStep, hfVars
  <2> QED BY <1>1, <1>2, <1>3, <1>4, <1>5, <2>1, Zenon DEF PoolStep
<1>6. ASSUME open(t) \/ hasNext(t) \/ readTuples(t) \/ \E p \in Page : deleteTuple(t, p)
      PROVE  UNCHANGED <<owner, readers, disk, fileLen, numPages, stale>>
  BY ONLY <1>6, Zenon DEF open, hasNext, nextPage, readTuples, deleteTuple, lockVars, fileVars, iterVars
<1>7. ASSUME (\E x \in Tuple : clearSlot(t, x)) \/ insertTuple(t) \/ fillSlot(t)
      PROVE  UNCHANGED <<owner, readers, disk, fileLen, numPages, stale>>
  BY ONLY <1>7, Zenon DEF clearSlot, insertTuple, fillSlot, lockVars, fileVars, iterVars, hfVars
<1>8. ASSUME GrowRead(t) \/ GrowWrite(t) \/ newPageId(t) \/ tryLast(t)
      PROVE  UNCHANGED <<owner, readers, disk, fileLen, stale>> /\ (numPages' = numPages \/ GrowWrite(t))
  BY ONLY <1>8, Zenon DEF GrowRead, GrowWrite, newPageId, tryLast, lockVars, fileVars, iterVars, hfVars
<1>9. ASSUME writePage(t) PROVE UNCHANGED <<owner, readers, numPages, stale>>
  BY ONLY <1>9, Zenon DEF writePage, lockVars, iterVars
<1>10. ASSUME endOfTry(t) PROVE UNCHANGED <<disk, fileLen, numPages, stale>>
  BY ONLY <1>10, Zenon DEF endOfTry, fileVars, iterVars, hfVars
<1>11. ASSUME commitTransaction(t) \/ abortTransaction(t)
       PROVE  UNCHANGED <<owner, readers, disk, fileLen, numPages>>
  BY ONLY <1>11, Zenon DEF commitTransaction, abortTransaction, transactionComplete, lockVars, fileVars, hfVars
<1>12. ~PoolStep(t) \/ fileLen' = fileLen
  BY <1>1, <1>2, <1>3, <1>4, Zenon DEF PoolStep
<1> QED BY <1>5, <1>6, <1>7, <1>8, <1>9, <1>10, <1>11, <1>12, Zenon DEF ThreadStep

-----------------------------------------------------------------------------
(* One transaction at a time *)

\* One transaction at a time.
OneRuns ==
    /\ \A t \in Tid : calls[t] = 0 => pc[t] = "idle"
    /\ \A t, u \in Tid : t # u /\ Running(t) => ~Running(u)

\* A thread that moves begins a call or was in one.
LEMMA MoverRuns ==
    ASSUME Types, OneRuns, NEW t \in Tid, ThreadStep(t)
    PROVE  /\ ~Ended(t)
           /\ Call(t) \/ (Running(t) /\ calls'[t] = calls[t])
<1>0. ThreadTypes /\ FileTypes /\ calls[t] \in Nat /\ (calls[t] = 0 => pc[t] = "idle")
  BY Zenon DEF Types, FileTypes, OneRuns
<1>1. CASE open(t) \/ hasNext(t) \/ insertTuple(t) \/ \E p \in Page : deleteTuple(t, p)
  BY <1>1, Zenon DEF open, hasNext, insertTuple, deleteTuple, Call, Ended
<1>2. CASE ~(open(t) \/ hasNext(t) \/ insertTuple(t) \/ \E p \in Page : deleteTuple(t, p))
  <2>1. calls' = calls
    BY <1>2, Zenon DEF ThreadStep, PoolStep, readTuples, clearSlot, fillSlot, endOfTry, GrowRead, GrowWrite,
       newPageId, writePage, tryLast, commitTransaction, abortTransaction, hfVars
  <2>2. ~Ended(t) /\ (pc[t] # "idle" \/ calls[t] > 0)
    BY <1>2, Zenon DEF ThreadStep, PoolStep, Acquire, AbortedByLock, containsKey, makeRoom, readPage,
       putPage, getReturns, markDirty, IteratorFails, LoopEnds, releaseEnds, flushPage, revertPage,
       releaseNext, readTuples, clearSlot, fillSlot, endOfTry, GrowRead, GrowWrite, newPageId, writePage,
       tryLast, commitTransaction, abortTransaction, Ended
  <2> QED BY <1>0, <2>1, <2>2 DEF Running
<1> QED BY <1>1, <1>2, Zenon

\* While t moves, no other transaction is running.
LEMMA Alone ==
    ASSUME Serial, Types, OneRuns, NEW t \in Tid, ThreadStep(t), NEW u \in Tid, u # t
    PROVE  /\ ~Running(u) /\ ~Running(u)'
           /\ pc[u] \in {"idle"} \cup Over
           /\ UNCHANGED <<pc[u], pid[u], op[u], calls[u], todo[u], held[u], work[u], iter[u], view[u]>>
<1>1. UNCHANGED <<pc[u], pid[u], op[u], calls[u], todo[u], held[u], work[u], iter[u], view[u]>>
  BY OthersStay, Zenon
<1>2. ~Running(u)
  BY MoverRuns, Zenon DEF OneRuns, Call
<1>3. ~Running(u)'
  BY <1>1, <1>2, Zenon DEF Running, Ended
<1>4. pc[u] \in {"idle"} \cup Over
  BY <1>2 DEF Running, Ended, Over, OneRuns, Types, FileTypes
<1> QED BY <1>1, <1>2, <1>3, <1>4, Zenon

LEMMA OneRunsStep ==
    ASSUME Serial, Types, OneRuns, [Next]_vars
    PROVE  OneRuns'
<1>1. ASSUME NEW t \in Tid, ThreadStep(t) PROVE OneRuns'
  <2>1. \A u \in Tid : u # t => ~Running(u)' /\ calls'[u] = calls[u] /\ pc'[u] = pc[u]
    BY <1>1, Alone, Zenon
  <2>2. calls'[t] > 0 /\ calls'[t] \in Nat
    BY <1>1, MoverRuns DEF Call, Running, Types, FileTypes
  <2> QED BY <2>1, <2>2 DEF OneRuns
<1>2. CASE flushAll \/ UNCHANGED vars
  BY <1>2, Zenon DEF flushAll, flushAllPages, vars, bpVars, hfVars, OneRuns, Running, Ended
<1> QED BY <1>1, <1>2, Steps, Zenon

LEMMA OneRunsInit == Init => OneRuns
BY DEF Init, InitPool, OneRuns, Running
=============================================================================
