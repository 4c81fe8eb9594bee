----------------------------- MODULE HeapFile ------------------------------
(***************************************************************************)
(* Transactions that scan, delete and insert through HeapFile.java and the *)
(* buffer pool, and then commit or abort (Transaction.java).               *)
(*                                                                         *)
(* A transaction inserts at most one tuple; the tuple is named after it.   *)
(* A call that ends in a DbException leaves the transaction running, and   *)
(* TransactionAbortedException makes its thread abort it.  Any other       *)
(* exception ends the thread: pc = "dead".                                 *)
(***************************************************************************)
EXTENDS BufferPool

CONSTANTS
    Ops,        \* the calls transactions make
    Outcomes,   \* how a transaction may end: "commit", "abort"
    MaxCalls,   \* bound: calls a transaction makes before it ends
    Serial      \* TRUE: a transaction starts when the others have ended

ASSUME OpsAssumption ==
    /\ Ops \subseteq {"scan", "delete", "insert", "flushAll"}
    /\ Outcomes \subseteq {"commit", "abort"}
    /\ MaxCalls \in Nat /\ Serial \in BOOLEAN

VARIABLES
    numPages,   \* _numPages
    lastTry,    \* addTuple has added a page and tries that one
    iter,       \* HeapFileIterator: curPageNo, pageCount, more pages to come
    view,       \* tuples a transaction has read, with their pages
    calls       \* calls made

hfVars == <<numPages, lastTry, iter, view, calls>>
vars == <<bpVars, hfVars>>

Init ==
    /\ InitPool
    /\ numPages = fileLen
    /\ lastTry = [t \in Tid |-> FALSE]
    /\ iter = [t \in Tid |-> [cur |-> 0, count |-> 0, more |-> FALSE]]
    /\ view = [t \in Tid |-> {}]
    /\ calls = [t \in Tid |-> 0]

Ended(t) == pc[t] \in {"committed", "rolledback", "dead"}

Running(t) == calls[t] > 0 /\ ~Ended(t)

\* A new call of t
Call(t) ==
    /\ pc[t] = "idle" /\ calls[t] < MaxCalls
    /\ Serial => \A u \in Tid \ {t} : ~Running(u)
    /\ calls' = [calls EXCEPT ![t] = @ + 1]

-----------------------------------------------------------------------------
(* Scanning and deleting *)

\* HeapFileIterator.nextPage
nextPage(t, p, count) ==
    /\ iter' = [iter EXCEPT ![t] = [cur |-> p, count |-> count, more |-> FALSE]]
    /\ getPage(t, p, "scan")
    /\ UNCHANGED <<lockVars, poolVars, fileVars, refVars, iterVars, histVars,
                   numPages, lastTry, view>>

\* A new iterator is opened.
open(t) ==
    /\ "scan" \in Ops
    /\ Call(t)
    /\ nextPage(t, 0, numPages)

\* The tuples of the current page are used up and a page follows.
hasNext(t) ==
    /\ iter[t].more
    /\ Call(t)
    /\ nextPage(t, iter[t].cur + 1, iter[t].count)

\* HeapPage.iterator copies the tuples of the page.  hasNext returns false,
\* and the caller stops, when the page it has advanced to is empty.
readTuples(t) ==
    /\ pc[t] = "use" /\ op[t] = "scan"
    /\ view' = [view EXCEPT ![t] = @ \cup {<<pid[t], x>> : x \in Data(t)}]
    /\ iter' = [iter EXCEPT ![t].more = /\ iter[t].cur < iter[t].count - 1
                                        /\ iter[t].cur = 0 \/ Data(t) # {}]
    /\ shared' = [shared EXCEPT ![t] = FALSE]
    /\ copy' = [copy EXCEPT ![t] = {}]
    /\ Goto(t, "idle")
    /\ UNCHANGED <<lockVars, poolVars, fileVars, pid, op, iterVars, histVars,
                   numPages, lastTry, calls>>

\* The Delete operator deletes tuples that its child has read.
deleteTuple(t, p) ==
    /\ "delete" \in Ops /\ \E x \in Tuple : <<p, x>> \in view[t]
    /\ Call(t)
    /\ getPage(t, p, "delete")
    /\ UNCHANGED <<lockVars, poolVars, fileVars, refVars, iterVars, histVars,
                   numPages, lastTry, iter, view>>

\* HeapPage.deleteTuple: DbException when the slot is empty.
clearSlot(t, x) ==
    LET p == pid[t] IN
    /\ pc[t] = "use" /\ op[t] = "delete" /\ <<p, x>> \in view[t]
    /\ IF x \in Data(t)
       THEN /\ SetData(t, Data(t) \ {x})
            /\ work' = [work EXCEPT ![t].del = @ \cup {<<p, x>>},
                                    ![t].add = @ \ {<<p, x>>}]
            /\ Goto(t, "mark")
            /\ UNCHANGED <<shared, op>>
       ELSE /\ op' = [op EXCEPT ![t] = "failed"]
            /\ shared' = [shared EXCEPT ![t] = FALSE]
            /\ copy' = [copy EXCEPT ![t] = {}]
            /\ Goto(t, "idle")
            /\ UNCHANGED <<pages, work>>
    /\ view' = [view EXCEPT ![t] = @ \ {<<p, x>>}]
    /\ UNCHANGED <<lockVars, pageids, fileVars, pid, iterVars, committed,
                   numPages, lastTry, iter, calls>>

-----------------------------------------------------------------------------
(* Inserting: addTuple *)

\* The loop over the pages of the file reaches page p.
tryPage(t, p) ==
    IF p < numPages
    THEN getPage(t, p, "insert")
    ELSE /\ Goto(t, "grow")
         /\ op' = [op EXCEPT ![t] = "insert"]
         /\ UNCHANGED pid

insertTuple(t) ==
    /\ "insert" \in Ops
    /\ \A p \in Page : <<p, t>> \notin work[t].add \cup work[t].del
    /\ Call(t)
    /\ tryPage(t, 0)
    /\ lastTry' = [lastTry EXCEPT ![t] = FALSE]
    /\ UNCHANGED <<lockVars, poolVars, fileVars, refVars, iterVars, histVars,
                   numPages, iter, view>>

\* HeapPage.addTuple, if the page has an empty slot.
fillSlot(t) ==
    LET room == Cardinality(Data(t)) < Slots IN
    /\ pc[t] = "use" /\ op[t] = "insert"
    /\ IF room
       THEN /\ SetData(t, Data(t) \cup {t})
            /\ work' = [work EXCEPT ![t].add = @ \cup {<<pid[t], t>>}]
       ELSE UNCHANGED <<pages, copy, work>>
    /\ Goto(t, IF room THEN "unlockAdded" ELSE "unlockFull")
    /\ UNCHANGED <<lockVars, pageids, fileVars, pid, op, shared, iterVars,
                   committed, hfVars>>

\* BufferPool.releasePage: the lock goes, and one occurrence in the queue.
releasePage(t) ==
    /\ Locks!Release(t, pid[t])
    /\ held' = [held EXCEPT ![t][pid[t]] = @ - 1]

\* The end of tryAddTupleToPage: the lock is released whether or not the
\* tuple was added.  The loop goes on with the next page; after the page
\* that was added to the file there is none, and addTuple returns nothing.
endOfTry(t) ==
    /\ releasePage(t)
    /\ \/ /\ pc[t] = "unlockAdded"
          /\ Goto(t, "mark")
          /\ UNCHANGED <<pid, op, refVars>>
       \/ /\ pc[t] = "unlockFull"
          /\ shared' = [shared EXCEPT ![t] = FALSE]
          /\ copy' = [copy EXCEPT ![t] = {}]
          /\ IF lastTry[t] THEN Goto(t, "idle") /\ UNCHANGED <<pid, op>>
                           ELSE tryPage(t, pid[t] + 1)
    /\ UNCHANGED <<poolVars, fileVars, iterVars, histVars, hfVars>>

\* _numPages += 1 reads and writes; pid is the value read.
GrowRead(t) ==
    /\ pc[t] = "grow" /\ numPages < FilePages
    /\ pid' = [pid EXCEPT ![t] = numPages]
    /\ Goto(t, "increment")
    /\ UNCHANGED <<lockVars, poolVars, fileVars, op, refVars, iterVars,
                   histVars, hfVars>>

GrowWrite(t) ==
    /\ pc[t] = "increment"
    /\ numPages' = pid[t] + 1
    /\ Goto(t, "newPageId")
    /\ UNCHANGED <<lockVars, poolVars, fileVars, pid, op, refVars, iterVars,
                   histVars, lastTry, iter, view, calls>>

newPageId(t) ==
    /\ pc[t] = "newPageId"
    /\ pid' = [pid EXCEPT ![t] = numPages - 1]
    /\ Goto(t, "writeNew")
    /\ UNCHANGED <<lockVars, poolVars, fileVars, op, refVars, iterVars,
                   histVars, hfVars>>

\* writePage with an empty page, straight to the file; a gap before it
\* reads as empty pages.
writePage(t) ==
    /\ pc[t] = "writeNew"
    /\ disk' = [disk EXCEPT ![pid[t]] = {}]
    /\ fileLen' = IF fileLen > pid[t] THEN fileLen ELSE pid[t] + 1
    /\ lastTry' = [lastTry EXCEPT ![t] = TRUE]
    /\ Goto(t, "tryLast")
    /\ UNCHANGED <<lockVars, poolVars, pid, op, refVars, iterVars, histVars,
                   numPages, iter, view, calls>>

tryLast(t) ==
    /\ pc[t] = "tryLast"
    /\ getPage(t, numPages - 1, "insert")
    /\ UNCHANGED <<lockVars, poolVars, fileVars, refVars, iterVars, histVars,
                   hfVars>>

-----------------------------------------------------------------------------
(* The end of a transaction *)

commitTransaction(t) ==
    /\ "commit" \in Outcomes
    /\ pc[t] = "idle" /\ calls[t] > 0
    /\ transactionComplete(t, TRUE)
    /\ UNCHANGED hfVars

abortTransaction(t) ==
    /\ \/ pc[t] = "idle" /\ calls[t] > 0 /\ "abort" \in Outcomes
       \/ pc[t] = "aborted"
    /\ transactionComplete(t, FALSE)
    /\ UNCHANGED hfVars

\* Called between transactions.
flushAll ==
    /\ "flushAll" \in Ops /\ \A t \in Tid : ~Running(t)
    /\ flushAllPages
    /\ UNCHANGED hfVars

AllEnded ==
    /\ \A t \in Tid : Ended(t)
    /\ UNCHANGED vars

PoolStep(t) ==
    /\ \/ Acquire(t) \/ AbortedByLock(t) \/ containsKey(t) \/ makeRoom(t)
       \/ readPage(t) \/ putPage(t) \/ getReturns(t) \/ markDirty(t)
       \/ IteratorFails(t) \/ LoopEnds(t) \/ releaseEnds(t)
       \/ \E p \in Page : flushPage(t, p) \/ revertPage(t, p) \/ releaseNext(t, p)
    /\ UNCHANGED hfVars

Next ==
    \/ \E t \in Tid :
        \/ PoolStep(t)
        \/ open(t) \/ hasNext(t) \/ readTuples(t)
        \/ \E p \in Page : deleteTuple(t, p)
        \/ \E x \in Tuple : clearSlot(t, x)
        \/ insertTuple(t) \/ fillSlot(t) \/ endOfTry(t)
        \/ GrowRead(t) \/ GrowWrite(t) \/ newPageId(t) \/ writePage(t)
        \/ tryLast(t)
        \/ commitTransaction(t) \/ abortTransaction(t)
    \/ flushAll
    \/ AllEnded

Spec == Init /\ [][Next]_vars

-----------------------------------------------------------------------------
(* Properties *)

\* The values of the fields of BufferPool and HeapFile and of the locals of
\* the threads.
TypeOK ==
    /\ owner \in [Page -> Tid \cup {NoTid}]
    /\ readers \in [Page -> SUBSET Tid]
    /\ held \in [Tid -> [Page -> Nat]]
    /\ \A p \in Cached : /\ pages[p].data \subseteq Tuple
                         /\ Cardinality(pages[p].data) <= Slots
                         /\ pages[p].dirty \in Tid \cup {NoTid}
    /\ pageids \in Seq(Page)
    /\ disk \in [Page -> SUBSET Tuple] /\ fileLen \in 0..FilePages
    /\ pid \in [Tid -> 0..FilePages]
    /\ shared \in [Tid -> BOOLEAN] /\ copy \in [Tid -> SUBSET Tuple]
    /\ todo \in [Tid -> SUBSET Page] /\ stale \in [Tid -> BOOLEAN]
    /\ numPages \in 0..FilePages
    /\ \A t \in Tid : iter[t].more => iter[t].cur + 1 \in Page
    /\ view \in [Tid -> SUBSET (Page \X Tuple)]

\* The file holds the changes of the committed transactions, all of them and
\* no others, except for pages that a transaction owns whose thread is in the
\* loop that flushes them, or was when an exception ended it:
\* transactionComplete flushes before it releases (FORCE), and evictPage
\* passes dirty pages over (NO STEAL).  So commit persists the changes of a
\* transaction, and abort, or a crash, leaves none of them in the file.
ForceNoSteal ==
    \A p \in Page : disk[p] # committed[p] =>
        \E t \in Tid : owner[p] = t /\ pc[t] \in {"flush", "dead"}

\* A cached page that nobody has locked for writing is clean and is what the
\* file holds: whoever gets it from the cache gets the committed contents.
CacheCoherent ==
    \A p \in Cached : owner[p] = NoTid => pages[p] = Clean(disk[p])

\* What a transaction has read stays the committed contents until it gives
\* up its locks: it reads nothing uncommitted, and nothing it has read is
\* deleted by another transaction that commits.
ViewIsCommitted ==
    \A t \in Tid :
        Running(t) /\ pc[t] \notin {"committing", "aborting"} =>
            \A r \in view[t] : r[2] \in committed[r[1]]

\* The queue _pageids holds the cached pages, each once, and not more than
\* the capacity.  evictPage and the test in getPage rely on it.
PoolIsExact ==
    /\ Len(pageids) <= MaxPages
    /\ \A i, j \in DOMAIN pageids : pageids[i] = pageids[j] => i = j
    /\ {pageids[i] : i \in DOMAIN pageids} = Cached

\* Between transactions, what a scan finds is what was committed, whether a
\* page is cached (and perhaps dirty, insertTuple having given up its lock
\* before commit could flush it) or not.
CommittedVisible ==
    (\A t \in Tid : ~Running(t)) =>
        \A p \in Page :
            (IF p \in Cached THEN pages[p].data ELSE disk[p]) = committed[p]

\* "Creates a BufferPool that caches up to numPages pages."
PoolBound == Cardinality(Cached) <= MaxPages

\* "Commit or abort a given transaction; release all locks associated to the
\* transaction."
CompletionReleasesLocks ==
    \A t \in Tid, p \in Page :
        op[t] = "complete" /\ Ended(t) => ~Locks!Holds(t, p)

\* A scan "reads each tuple of a table": when it is over, it has found every
\* tuple on the pages the file had when it began.
ScanReadsAll ==
    \A t \in Tid : pc[t] = "idle" /\ op[t] = "scan" /\ ~iter[t].more =>
        \A p \in Page : p < iter[t].count =>
            {<<p, x>> : x \in IF p \in Cached THEN pages[p].data ELSE disk[p]}
                \subseteq view[t]

\* "Add a tuple to the specified table behalf of transaction tid.": when
\* insertTuple returns, the tuple is on some page.
InsertAdds ==
    \A t \in Tid : pc[t] = "idle" /\ op[t] = "insert" =>
        \E p \in Page : <<p, t>> \in work[t].add
=============================================================================
