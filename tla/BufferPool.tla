---------------------------- MODULE BufferPool -----------------------------
(***************************************************************************)
(* The buffer pool of SimpleDB (BufferPool.java): the page cache, eviction *)
(* and transaction completion, on top of page locks.                       *)
(*                                                                         *)
(* LockManager is represented by PageLocks, which it implements, and by    *)
(* the queue of pages it keeps for every transaction (held).  getPage is   *)
(* not synchronized: a call of _pages, of _pageids or of the file is one   *)
(* step and steps of other threads come in between.  evictPage, flushPage  *)
(* and flushAllPages hold the monitor of the pool and are one step each.   *)
(*                                                                         *)
(* A page is the set of its tuples.  pages[p] is the HeapPage object in    *)
(* the cache.  A thread refers to that object (shared) or to one that is   *)
(* not, or no longer, in the cache; then copy holds the contents.          *)
(***************************************************************************)
EXTENDS Integers, Sequences, FiniteSets

CONSTANTS
    Tid, NoTid,     \* transactions, each run by one thread; null
    Old,            \* the tuple every page has at first
    FilePages,      \* bound: pages of the file, at most
    InitPages,      \* pages of the file at first
    Slots,          \* tuples that fit on a page
    MaxPages        \* _maxPages, the capacity of the pool

ASSUME SizeAssumption ==
    /\ NoTid \notin Tid /\ Old \notin Tid /\ "absent" \notin Tid \cup {NoTid}
    /\ FilePages \in Nat \ {0} /\ InitPages \in 0..FilePages
    /\ Slots \in Nat \ {0} /\ MaxPages \in Nat

Page == 0..(FilePages - 1)
Tuple == Tid \cup {Old}

VARIABLES
    owner, readers, \* the page locks
    held,           \* transaction -> page -> occurrences in its queue
    pages,          \* _pages: the cached object of a page, or Absent
    pageids,        \* _pageids: the cached pages, in the order of eviction
    disk, fileLen,  \* the file: contents and number of its pages
    pc,             \* where a thread is
    pid,            \* the page number its call works on
    op,             \* the call it executes, or executed last
    shared, copy,   \* its reference to a HeapPage object
    todo, stale,    \* its iterator over _pages.keySet(), or over its queue
    committed,      \* history: contents after the committed transactions
    work            \* history: what a transaction deleted and added

lockVars == <<owner, readers, held>>
poolVars == <<pages, pageids>>
fileVars == <<disk, fileLen>>
refVars == <<shared, copy>>
iterVars == <<todo, stale>>
histVars == <<committed, work>>
bpVars == <<lockVars, poolVars, fileVars, pc, pid, op, refVars, iterVars,
            histVars>>

Locks == INSTANCE PageLocks WITH PageId <- Page

Absent == [data |-> {}, dirty |-> "absent"]
Clean(d) == [data |-> d, dirty |-> NoTid]
Cached == {p \in Page : pages[p] # Absent}
isDirty(p) == pages[p].dirty # NoTid

perm_ReadOnly(t) == "READ_ONLY"     \* mutant: deleting takes a shared lock

perm(t) == IF op[t] = "scan" THEN "READ_ONLY" ELSE "READ_WRITE"

holdsLock(t, p) == held[t][p] > 0

Goto(t, l) == pc' = [pc EXCEPT ![t] = l]

InitPool ==
    /\ owner = [p \in Page |-> NoTid]
    /\ readers = [p \in Page |-> {}]
    /\ held = [t \in Tid |-> [p \in Page |-> 0]]
    /\ pages = [p \in Page |-> Absent]
    /\ pageids = <<>>
    /\ disk = [p \in Page |-> IF p < InitPages THEN {Old} ELSE {}]
    /\ fileLen = InitPages
    /\ pc = [t \in Tid |-> "idle"]
    /\ pid = [t \in Tid |-> 0]
    /\ op = [t \in Tid |-> "none"]
    /\ shared = [t \in Tid |-> FALSE]
    /\ copy = [t \in Tid |-> {}]
    /\ todo = [t \in Tid |-> {}]
    /\ stale = [t \in Tid |-> FALSE]
    /\ committed = disk
    /\ work = [t \in Tid |-> [del |-> {}, add |-> {}]]

-----------------------------------------------------------------------------
(* The cache *)

\* The object of page p leaves the cache: threads that refer to it keep it.
Detach(p) ==
    LET U == {u \in Tid : shared[u] /\ pid[u] = p} IN
    /\ shared' = [u \in Tid |-> shared[u] /\ u \notin U]
    /\ copy' = [u \in Tid |-> IF u \in U THEN pages[p].data ELSE copy[u]]

\* A key is added to or removed from _pages: the iterators of the threads in
\* transactionComplete will throw ConcurrentModificationException.
Invalidate(changed) ==
    stale' = [u \in Tid |-> stale[u] \/ (changed /\ pc[u] \in {"flush", "undo"})]

-----------------------------------------------------------------------------
(* getPage *)

getPage(t, p, what) ==
    /\ pid' = [pid EXCEPT ![t] = p]
    /\ op' = [op EXCEPT ![t] = what]
    /\ Goto(t, "lock")

\* acquireLock returns: the lock is held and the page is in the queue.
Acquire(t) ==
    LET p == pid[t] IN
    /\ pc[t] = "lock"
    /\ \/ /\ IF perm(t) = "READ_ONLY" THEN Locks!Holds(t, p) ELSE owner[p] = t
          /\ UNCHANGED <<owner, readers>>
       \/ perm(t) = "READ_ONLY" /\ ~Locks!Holds(t, p) /\ Locks!Share(t, p)
       \/ perm(t) = "READ_WRITE" /\ Locks!Own(t, p)
    /\ held' = [held EXCEPT ![t][p] = @ + 1]
    /\ Goto(t, "lookup")
    /\ UNCHANGED <<poolVars, fileVars, pid, op, refVars, iterVars, histVars>>

\* acquireLock throws TransactionAbortedException, which it does only when
\* the request would have to wait.
AbortedByLock(t) ==
    /\ pc[t] = "lock" /\ Locks!MustWait(t, pid[t], perm(t))
    /\ Goto(t, "aborted")
    /\ UNCHANGED <<lockVars, poolVars, fileVars, pid, op, refVars, iterVars,
                   histVars>>

containsKey(t) ==
    /\ pc[t] = "lookup"
    /\ Goto(t, IF pid[t] \in Cached THEN "get" ELSE "room")
    /\ UNCHANGED <<lockVars, poolVars, fileVars, pid, op, refVars, iterVars,
                   histVars>>

evictPage_Oldest(t) ==              \* mutant: dirty pages are not passed over
    /\ Len(pageids) > 0
    /\ pages' = [pages EXCEPT ![pageids[1]] = Absent]
    /\ pageids' = Tail(pageids)
    /\ Detach(pageids[1]) /\ Invalidate(TRUE)
    /\ Goto(t, "read") /\ UNCHANGED op

\* Dirty pages at the head of the queue go to its end.  The first other one
\* is evicted; that one may have no object in the cache (its number was in
\* the queue twice), and then page.isDirty() is a NullPointerException.  If
\* all pages are dirty, DbException is thrown and the call of t ends.
evictPage(t) ==
    LET n == Len(pageids)
        candidates == {i \in 1..n : pageids[i] \notin Cached
                                    \/ ~isDirty(pageids[i])}
    IN  IF candidates = {}
        THEN /\ op' = [op EXCEPT ![t] = "failed"]
             /\ Goto(t, "idle")
             /\ UNCHANGED <<poolVars, refVars, stale>>
        ELSE \E k \in candidates :
             LET q == pageids[k]
             IN  /\ \A j \in candidates : k <= j
                 /\ pageids' = SubSeq(pageids, k + 1, n) \o SubSeq(pageids, 1, k - 1)
                 /\ pages' = [pages EXCEPT ![q] = Absent]
                 /\ Detach(q)
                 /\ Invalidate(q \in Cached)
                 /\ Goto(t, IF q \in Cached THEN "read" ELSE "dead")
                 /\ UNCHANGED op

makeRoom_Over(t) ==                 \* mutant: off by one in the test for a full pool
    /\ pc[t] = "room"
    /\ \/ Len(pageids) > MaxPages /\ evictPage(t)
       \/ /\ Len(pageids) <= MaxPages
          /\ Goto(t, "read")
          /\ UNCHANGED <<poolVars, refVars, stale, op>>
    /\ UNCHANGED <<lockVars, fileVars, pid, todo, histVars>>

makeRoom(t) ==
    /\ pc[t] = "room"
    /\ \/ Len(pageids) = MaxPages /\ evictPage(t)
       \/ /\ Len(pageids) # MaxPages
          /\ Goto(t, "read")
          /\ UNCHANGED <<poolVars, refVars, stale, op>>
    /\ UNCHANGED <<lockVars, fileVars, pid, todo, histVars>>

\* Reading past the end of the file is a RuntimeException.
readPage(t) ==
    /\ pc[t] = "read"
    /\ copy' = [copy EXCEPT ![t] = disk[pid[t]]]
    /\ Goto(t, IF pid[t] < fileLen THEN "put" ELSE "dead")
    /\ UNCHANGED <<lockVars, poolVars, fileVars, pid, op, shared, iterVars,
                   histVars>>

\* _pages.put and _pageids.add
putPage(t) ==
    LET p == pid[t] IN
    /\ pc[t] = "put"
    /\ Detach(p)
    /\ Invalidate(p \notin Cached)
    /\ pages' = [pages EXCEPT ![p] = Clean(copy[t])]
    /\ pageids' = Append(pageids, p)
    /\ Goto(t, "get")
    /\ UNCHANGED <<lockVars, fileVars, pid, op, todo, histVars>>

\* The object is looked up again.  If the page was evicted in between, null
\* is returned and the caller's use of it is a NullPointerException.
getReturns(t) ==
    /\ pc[t] = "get"
    /\ shared' = [shared EXCEPT ![t] = pid[t] \in Cached]
    /\ copy' = [copy EXCEPT ![t] = {}]
    /\ Goto(t, IF pid[t] \in Cached THEN "use" ELSE "dead")
    /\ UNCHANGED <<lockVars, poolVars, fileVars, pid, op, iterVars, histVars>>

\* The contents of the object that t refers to, and changing them.
Data(t) == IF shared[t] THEN pages[pid[t]].data ELSE copy[t]

SetData(t, d) ==
    IF shared[t]
    THEN pages' = [pages EXCEPT ![pid[t]].data = d] /\ UNCHANGED copy
    ELSE copy' = [copy EXCEPT ![t] = d] /\ UNCHANGED pages

\* markDirty(true, t), the last step of insertTuple and deleteTuple.
markDirty(t) ==
    /\ pc[t] = "mark"
    /\ pages' = IF shared[t] THEN [pages EXCEPT ![pid[t]].dirty = t] ELSE pages
    /\ shared' = [shared EXCEPT ![t] = FALSE]
    /\ copy' = [copy EXCEPT ![t] = {}]
    /\ Goto(t, "idle")
    /\ UNCHANGED <<lockVars, pageids, fileVars, pid, op, iterVars, histVars>>

-----------------------------------------------------------------------------
(* transactionComplete *)

transactionComplete(t, commit) ==
    /\ todo' = [todo EXCEPT ![t] = Cached]
    /\ stale' = [stale EXCEPT ![t] = FALSE]
    /\ op' = [op EXCEPT ![t] = "complete"]
    /\ Goto(t, IF commit THEN "flush" ELSE "undo")
    /\ UNCHANGED <<lockVars, poolVars, fileVars, pid, refVars, histVars>>

\* The iterator notices that the keys of _pages have changed.
IteratorFails(t) ==
    /\ pc[t] \in {"flush", "undo"} /\ todo[t] # {} /\ stale[t]
    /\ Goto(t, "dead")
    /\ UNCHANGED <<lockVars, poolVars, fileVars, pid, op, refVars, iterVars,
                   histVars>>

flushed_Clean(P) == pages           \* mutant: the page is not marked clean

\* The cache after the dirty pages of P have been written and marked clean.
flushed(P) ==
    [p \in Page |-> IF p \in P \cap Cached THEN Clean(pages[p].data) ELSE pages[p]]

\* The file after that.
written(P) ==
    [p \in Page |-> IF p \in P \cap Cached /\ isDirty(p)
                    THEN pages[p].data ELSE disk[p]]

flushPage_All(t, p) ==              \* mutant: pages of others are flushed too
    /\ pc[t] = "flush" /\ p \in todo[t] /\ ~stale[t]
    /\ todo' = [todo EXCEPT ![t] = @ \ {p}]
    /\ disk' = written({p}) /\ pages' = flushed({p})
    /\ UNCHANGED <<lockVars, pageids, fileLen, pc, pid, op, refVars, stale,
                   histVars>>

flushPage(t, p) ==
    /\ pc[t] = "flush" /\ p \in todo[t] /\ ~stale[t]
    /\ todo' = [todo EXCEPT ![t] = @ \ {p}]
    /\ LET P == {q \in {p} : holdsLock(t, q)}
       IN  disk' = written(P) /\ pages' = flushed(P)
    /\ UNCHANGED <<lockVars, pageids, fileLen, pc, pid, op, refVars, stale,
                   histVars>>

revertPage_NoPut(t, p) ==           \* mutant: the page read is not put into _pages
    /\ pc[t] = "undo" /\ p \in todo[t] /\ ~stale[t]
    /\ todo' = [todo EXCEPT ![t] = @ \ {p}]
    /\ UNCHANGED <<lockVars, poolVars, fileVars, pc, pid, op, refVars, stale,
                   histVars>>

\* The page is read again from the file and put into _pages.
revertPage(t, p) ==
    /\ pc[t] = "undo" /\ p \in todo[t] /\ ~stale[t]
    /\ todo' = [todo EXCEPT ![t] = @ \ {p}]
    /\ IF holdsLock(t, p)
       THEN /\ pages' = [pages EXCEPT ![p] = Clean(disk[p])]
            /\ Detach(p)
            /\ Invalidate(p \notin Cached)
       ELSE UNCHANGED <<pages, refVars, stale>>
    /\ UNCHANGED <<lockVars, pageids, fileVars, pc, pid, op, histVars>>

\* The loop over the pages is over: releasePages begins.
LoopEnds(t) ==
    /\ pc[t] \in {"flush", "undo"} /\ todo[t] = {}
    /\ todo' = [todo EXCEPT ![t] = {p \in Page : holdsLock(t, p)}]
    /\ IF pc[t] = "flush"
       THEN /\ committed' = [p \in Page |->
                   (committed[p] \ {x \in Tuple : <<p, x>> \in work[t].del})
                       \cup {x \in Tuple : <<p, x>> \in work[t].add}]
            /\ Goto(t, "committing")
       ELSE /\ Goto(t, "aborting")
            /\ UNCHANGED committed
    /\ UNCHANGED <<lockVars, poolVars, fileVars, pid, op, refVars, stale, work>>

releaseNext(t, p) ==
    /\ pc[t] \in {"committing", "aborting"} /\ p \in todo[t]
    /\ todo' = [todo EXCEPT ![t] = @ \ {p}]
    /\ IF Locks!Holds(t, p) THEN Locks!Release(t, p)
                            ELSE UNCHANGED <<owner, readers>>
    /\ UNCHANGED <<held, poolVars, fileVars, pc, pid, op, refVars, stale,
                   histVars>>

releaseEnds(t) ==
    /\ pc[t] \in {"committing", "aborting"} /\ todo[t] = {}
    /\ held' = [held EXCEPT ![t] = [p \in Page |-> 0]]
    /\ Goto(t, IF pc[t] = "committing" THEN "committed" ELSE "rolledback")
    /\ UNCHANGED <<owner, readers, poolVars, fileVars, pid, op, refVars,
                   iterVars, histVars>>

flushAllPages ==
    /\ disk' = written(Page)
    /\ pages' = flushed(Page)
    /\ UNCHANGED <<lockVars, pageids, fileLen, pc, pid, op, refVars, iterVars,
                   histVars>>
=============================================================================
