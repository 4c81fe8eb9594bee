---------------------------- MODULE LockManager ----------------------------
(***************************************************************************)
(* The page-level lock manager of SimpleDB (LockManager.java).             *)
(*                                                                         *)
(* Every page has a monitor (_locks).  A transaction is run by one thread; *)
(* its requests follow one another.  Everything LockManager does to the    *)
(* owner and the readers of a page happens while the page's monitor is     *)
(* held, and the waits-for graph _dependency is touched at most once in    *)
(* each passage through a monitor, so a passage (from entering the monitor *)
(* or returning from wait() to leaving the monitor or calling wait()) is   *)
(* one step.  The bookkeeping in _pagesHoldsByTrans is done outside the    *)
(* monitor and is a step of its own.                                       *)
(***************************************************************************)
EXTENDS Naturals, FiniteSets

CONSTANTS
    Tid,        \* transactions (TransactionId objects)
    PageId,     \* pages
    NoTid,      \* null: the page has no read-write owner
    NoPage,     \* the thread is in no call that names a page
    MaxAcquires \* bound: acquireLock calls each transaction makes

ASSUME TidAssumption == IsFiniteSet(Tid) /\ NoTid \notin Tid
ASSUME PageAssumption == NoPage \notin PageId
ASSUME MaxAcquiresAssumption == MaxAcquires \in [Tid -> Nat]

VARIABLES
    ownerTrans,         \* page -> transaction with READ_WRITE permission
    sharedTrans,        \* page -> transactions with READ_ONLY permission
    pagesHoldsByTrans,  \* transaction -> page -> occurrences in its queue
    dependency,         \* edges <<waiter, holder>> of the waits-for graph
    pc,                 \* where the thread of a transaction is
    req,                \* the page and permission of its current call
    deps,               \* the local list deps of tryAquireR?LockOrWait
    toRelease,          \* pages the loop of releasePages has still to free
    acquires            \* acquireLock calls made so far

vars == <<ownerTrans, sharedTrans, pagesHoldsByTrans, dependency, pc, req,
          deps, toRelease, acquires>>

Permissions == {"READ_ONLY", "READ_WRITE"}

Request == [pid : PageId \cup {NoPage}, perm : Permissions]

NoRequest == [pid |-> NoPage, perm |-> "READ_ONLY"]

(* idle       running outside LockManager                                  *)
(* trying     about to enter, or to re-enter after wait(), the monitor     *)
(* waiting    in the wait set of the monitor of req[t].pid                 *)
(* granted    has the lock; _pagesHoldsByTrans not yet updated             *)
(* unlocked   in releasePage, after releaseLock                            *)
(* aborted    was thrown TransactionAbortedException                       *)
(* releasing  in the loop of releasePages                                  *)
(* done       the transaction is complete                                  *)
PCs == {"idle", "trying", "waiting", "granted", "unlocked", "aborted",
        "releasing", "done"}

-----------------------------------------------------------------------------
(* Permissions and holders *)

hasReadPermissions(t, p) == ownerTrans[p] = t \/ t \in sharedTrans[p]

hasWritePermissions(t, p) == ownerTrans[p] = t

\* t has a lock of some kind on p
Holds(t, p) == hasReadPermissions(t, p)

\* What the code answers to "does tid hold a lock on pid".
holdsLock(t, p) == pagesHoldsByTrans[t][p] > 0

-----------------------------------------------------------------------------
(* The waits-for graph: a DirectedAcyclicGraph of jgrapht. *)

\* The vertices reachable from a in the graph with edge set E.
Descendants(E, a) ==
    {b \in Tid : \A S \in SUBSET Tid :
        (a \in S /\ \A e \in E : e[1] \in S => e[2] \in S) => b \in S}

Acyclic(E) == \A e \in E : e[1] \notin Descendants(E, e[2])

CycleFound_Backwards(E, t, D) ==    \* mutant: searches from t
    \E d \in D \ {t} : <<t, d>> \notin E /\ d \in Descendants(E, t)

\* addDagEdge throws CycleFoundException for one of the new edges t -> d.
CycleFound(E, t, D) ==
    \E d \in D \ {t} : <<t, d>> \notin E /\ t \in Descendants(E, d)

\* removeVertex: the vertex goes with its outgoing and incoming edges.
removeVertex(E, t) == {e \in E : e[1] # t /\ e[2] # t}

addDeps_FirstWait(E, t, D) ==       \* mutant: only when t has no edge yet
    IF \E e \in E : e[1] = t THEN E ELSE E \cup {<<t, d>> : d \in D \ {t}}

\* addDeps when no cycle is found: earlier edges of t stay.
addDeps(E, t, D) == E \cup {<<t, d>> : d \in D \ {t}}

removeDeps(E, t, D) == E \ {<<t, d>> : d \in D}

-----------------------------------------------------------------------------
Init ==
    /\ ownerTrans = [p \in PageId |-> NoTid]
    /\ sharedTrans = [p \in PageId |-> {}]
    /\ pagesHoldsByTrans = [t \in Tid |-> [p \in PageId |-> 0]]
    /\ dependency = {}
    /\ pc = [t \in Tid |-> "idle"]
    /\ req = [t \in Tid |-> NoRequest]
    /\ deps = [t \in Tid |-> {}]
    /\ toRelease = [t \in Tid |-> {}]
    /\ acquires = [t \in Tid |-> 0]

-----------------------------------------------------------------------------
(* acquireLock *)

acquireLock(t, p, perm) ==
    /\ pc[t] = "idle"
    /\ acquires[t] < MaxAcquires[t]
    /\ acquires' = [acquires EXCEPT ![t] = @ + 1]
    /\ pc' = [pc EXCEPT ![t] = "trying"]
    /\ req' = [req EXCEPT ![t] = [pid |-> p, perm |-> perm]]
    /\ UNCHANGED <<ownerTrans, sharedTrans, pagesHoldsByTrans, dependency,
                   deps, toRelease>>

\* The lock is obtained: leave the loop and the monitor.
Granted(t) ==
    /\ pc' = [pc EXCEPT ![t] = "granted"]
    /\ deps' = [deps EXCEPT ![t] = {}]
    /\ UNCHANGED <<pagesHoldsByTrans, req, toRelease, acquires>>

\* The lock is not available: record the transactions waited for, then wait,
\* or leave with TransactionAbortedException when that closes a cycle.
Blocked(t, D) ==
    /\ IF CycleFound(dependency, t, D)
       THEN /\ dependency' = removeVertex(dependency, t)
            /\ deps' = [deps EXCEPT ![t] = {}]
            /\ req' = [req EXCEPT ![t] = NoRequest]
            /\ pc' = [pc EXCEPT ![t] = "aborted"]
       ELSE /\ dependency' = addDeps(dependency, t, D)
            /\ deps' = [deps EXCEPT ![t] = D]
            /\ pc' = [pc EXCEPT ![t] = "waiting"]
            /\ UNCHANGED req
    /\ UNCHANGED <<ownerTrans, sharedTrans, pagesHoldsByTrans, toRelease,
                   acquires>>

AlreadyPermitted(t, p) ==
    /\ Granted(t)
    /\ UNCHANGED <<ownerTrans, sharedTrans, dependency>>

\* No owner: become a reader (addSharer).  The list never has t twice, the
\* caller having found that t has no permission, so it is a set.
GrantRO(t, p) ==
    /\ ownerTrans[p] = NoTid
    /\ sharedTrans' = [sharedTrans EXCEPT ![p] = @ \cup {t}]
    /\ dependency' = removeDeps(dependency, t, deps[t])
    /\ Granted(t)
    /\ UNCHANGED ownerTrans

WaitRO(t, p) == ownerTrans[p] # NoTid /\ Blocked(t, {ownerTrans[p]})

tryAquireROLockOrWait(t) ==
    LET p == req[t].pid IN
    /\ pc[t] = "trying" /\ req[t].perm = "READ_ONLY"
    /\ \/ hasReadPermissions(t, p) /\ AlreadyPermitted(t, p)
       \/ ~hasReadPermissions(t, p) /\ GrantRO(t, p)
       \/ ~hasReadPermissions(t, p) /\ WaitRO(t, p)

GrantRW(t, p) ==
    /\ sharedTrans[p] = {} /\ ownerTrans[p] \in {NoTid, t}
    /\ ownerTrans' = [ownerTrans EXCEPT ![p] = t]
    /\ dependency' = removeDeps(dependency, t, deps[t])
    /\ Granted(t)
    /\ UNCHANGED sharedTrans

Upgrade_AnyReader(t, p) ==          \* mutant: size() == 1 not tested
    /\ t \in sharedTrans[p]
    /\ ownerTrans' = [ownerTrans EXCEPT ![p] = t]
    /\ sharedTrans' = [sharedTrans EXCEPT ![p] = @ \ {t}]
    /\ dependency' = removeDeps(dependency, t, deps[t])
    /\ Granted(t)

\* The only reader is t: it becomes the owner.
Upgrade(t, p) ==
    /\ sharedTrans[p] = {t}
    /\ ownerTrans' = [ownerTrans EXCEPT ![p] = t]
    /\ sharedTrans' = [sharedTrans EXCEPT ![p] = {}]
    /\ dependency' = removeDeps(dependency, t, deps[t])
    /\ Granted(t)

WaitRW(t, p) ==
    \/ /\ sharedTrans[p] = {} /\ ownerTrans[p] \notin {NoTid, t}
       /\ Blocked(t, {ownerTrans[p]})
    \/ /\ sharedTrans[p] \notin {{}, {t}}
       /\ Blocked(t, sharedTrans[p])

tryAquireRWLockOrWait(t) ==
    LET p == req[t].pid IN
    /\ pc[t] = "trying" /\ req[t].perm = "READ_WRITE"
    /\ \/ hasWritePermissions(t, p) /\ AlreadyPermitted(t, p)
       \/ ~hasWritePermissions(t, p) /\ GrantRW(t, p)
       \/ ~hasWritePermissions(t, p) /\ Upgrade(t, p)
       \/ ~hasWritePermissions(t, p) /\ WaitRW(t, p)

\* The last lines of acquireLock, outside the monitor.
AddHeldPage(t) ==
    /\ pc[t] = "granted"
    /\ pagesHoldsByTrans' = [pagesHoldsByTrans EXCEPT ![t][req[t].pid] = @ + 1]
    /\ pc' = [pc EXCEPT ![t] = "idle"]
    /\ req' = [req EXCEPT ![t] = NoRequest]
    /\ UNCHANGED <<ownerTrans, sharedTrans, dependency, deps, toRelease,
                   acquires>>

\* wait() returns without a notification (or is interrupted, which the code
\* treats alike): the loop is entered again.
SpuriousWakeup(t) ==
    /\ pc[t] = "waiting"
    /\ pc' = [pc EXCEPT ![t] = "trying"]
    /\ UNCHANGED <<ownerTrans, sharedTrans, pagesHoldsByTrans, dependency,
                   req, deps, toRelease, acquires>>

-----------------------------------------------------------------------------
(* Release *)

NotifyOne(p) ==                     \* mutant: notify()
    LET W == {t \in Tid : pc[t] = "waiting" /\ req[t].pid = p}
    IN  IF W = {} THEN pc ELSE [pc EXCEPT ![CHOOSE t \in W : TRUE] = "trying"]

\* The threads notifyAll moves out of the wait set of page p.
NotifyAll(p) ==
    [t \in Tid |-> IF pc[t] = "waiting" /\ req[t].pid = p
                   THEN "trying" ELSE pc[t]]

releaseLock_OwnerOnly(t, p, next) ==    \* mutant: readers are forgotten
    /\ ownerTrans' = [ownerTrans EXCEPT ![p] = IF @ = t THEN NoTid ELSE @]
    /\ pc' = [NotifyAll(p) EXCEPT ![t] = next]
    /\ UNCHANGED sharedTrans

releaseLock(t, p, next) ==
    /\ ownerTrans' = [ownerTrans EXCEPT ![p] = IF @ = t THEN NoTid ELSE @]
    /\ sharedTrans' = [sharedTrans EXCEPT ![p] = @ \ {t}]
    /\ pc' = [NotifyAll(p) EXCEPT ![t] = next]

\* The only caller, HeapFile.tryAddTupleToPage, releases a page it has just
\* got with READ_WRITE permission.
releasePage(t, p) ==
    /\ pc[t] = "idle" /\ hasWritePermissions(t, p)
    /\ releaseLock(t, p, "unlocked")
    /\ req' = [req EXCEPT ![t] = [pid |-> p, perm |-> "READ_WRITE"]]
    /\ UNCHANGED <<pagesHoldsByTrans, dependency, deps, toRelease, acquires>>

\* releasePage removes one occurrence of the page from the queue.
RemoveHeldPage(t) ==
    LET p == req[t].pid IN
    /\ pc[t] = "unlocked"
    /\ pagesHoldsByTrans' =
           [pagesHoldsByTrans EXCEPT ![t][p] = IF @ > 0 THEN @ - 1 ELSE 0]
    /\ pc' = [pc EXCEPT ![t] = "idle"]
    /\ req' = [req EXCEPT ![t] = NoRequest]
    /\ UNCHANGED <<ownerTrans, sharedTrans, dependency, deps, toRelease,
                   acquires>>

\* BufferPool.transactionComplete, after a commit or for an aborted
\* transaction, calls releasePages: start its loop.
releasePages(t) ==
    /\ pc[t] \in {"idle", "aborted"}
    /\ toRelease' = [toRelease EXCEPT ![t] = {p \in PageId : holdsLock(t, p)}]
    /\ pc' = [pc EXCEPT ![t] = "releasing"]
    /\ UNCHANGED <<ownerTrans, sharedTrans, pagesHoldsByTrans, dependency,
                   req, deps, acquires>>

\* One page of the loop.  A page that is in the queue twice is visited twice;
\* the second visit changes no lock and only repeats notifyAll, which is no
\* more than SpuriousWakeup allows.
ReleaseNext(t, p) ==
    /\ pc[t] = "releasing" /\ p \in toRelease[t]
    /\ releaseLock(t, p, "releasing")
    /\ toRelease' = [toRelease EXCEPT ![t] = @ \ {p}]
    /\ UNCHANGED <<pagesHoldsByTrans, dependency, req, deps, acquires>>

ClearHeldPages(t) ==
    /\ pc[t] = "releasing" /\ toRelease[t] = {}
    /\ pagesHoldsByTrans' =
           [pagesHoldsByTrans EXCEPT ![t] = [p \in PageId |-> 0]]
    /\ pc' = [pc EXCEPT ![t] = "done"]
    /\ UNCHANGED <<ownerTrans, sharedTrans, dependency, req, deps, toRelease,
                   acquires>>

-----------------------------------------------------------------------------
\* All transactions are complete: nothing more happens.
Terminated ==
    /\ \A t \in Tid : pc[t] = "done"
    /\ UNCHANGED vars

\* The steps of the thread of t inside LockManager and at completion.
Progress(t) ==
    \/ tryAquireROLockOrWait(t)
    \/ tryAquireRWLockOrWait(t)
    \/ AddHeldPage(t)
    \/ RemoveHeldPage(t)
    \/ releasePages(t)
    \/ \E p \in PageId : ReleaseNext(t, p)
    \/ ClearHeldPages(t)

Next ==
    \/ \E t \in Tid :
        \/ Progress(t)
        \/ \E p \in PageId, perm \in Permissions : acquireLock(t, p, perm)
        \/ \E p \in PageId : releasePage(t, p)
        \/ SpuriousWakeup(t)
    \/ Terminated

Spec == Init /\ [][Next]_vars

FairSpec == Spec /\ \A t \in Tid : WF_vars(Progress(t))

-----------------------------------------------------------------------------
(* Properties *)

\* The values of the fields of LockManager and of the locals of its methods.
TypeOK ==
    /\ ownerTrans \in [PageId -> Tid \cup {NoTid}]
    /\ sharedTrans \in [PageId -> SUBSET Tid]
    /\ pagesHoldsByTrans \in [Tid -> [PageId -> Nat]]
    /\ dependency \subseteq Tid \X Tid
    /\ pc \in [Tid -> PCs]
    /\ req \in [Tid -> Request]
    /\ deps \in [Tid -> SUBSET Tid]
    /\ toRelease \in [Tid -> SUBSET PageId]
    /\ acquires \in [Tid -> Nat]

\* A page with a read-write owner has no reader: the branches of
\* tryAquireRWLockOrWait and tryAquireROLockOrWait look at only one of the
\* two maps each and rely on this.
WriterExcludesReaders ==
    \A p \in PageId : ownerTrans[p] # NoTid => sharedTrans[p] = {}

\* A completed transaction holds no lock, although releasePages frees only
\* the pages of _pagesHoldsByTrans, which is filled outside the monitors and
\* from which releasePage removes pages.
CompletedHoldsNothing ==
    \A t \in Tid, p \in PageId : pc[t] = "done" => ~Holds(t, p)

\* No thread stays in wait() although the permission it asks for could be
\* granted: every change that can let it in notifies it (releaseLock).
NoLostWakeup ==
    \A t \in Tid : pc[t] = "waiting" =>
        LET p == req[t].pid IN
        /\ ~(req[t].perm = "READ_ONLY" /\ ownerTrans[p] = NoTid)
        /\ ~(ownerTrans[p] = NoTid /\ sharedTrans[p] \subseteq {t})

\* A waiter has an edge to a transaction that holds the page it waits for,
\* or that transaction has been aborted and will release the page.  Readers
\* that join later have no edge from the waiter, and removeVertex drops the
\* edges of others, so this is what deadlock detection has to work with.
WaiterKnowsABlocker ==
    \A t \in Tid : pc[t] = "waiting" =>
        \E h \in Tid \ {t} :
            /\ Holds(h, req[t].pid)
            /\ <<t, h>> \in dependency \/ pc[h] \in {"aborted", "releasing"}

\* Deadlock detection is enough: never do all transactions that are not
\* complete sit in wait().
NoDeadlock ==
    (\E t \in Tid : pc[t] = "waiting") =>
        \E t \in Tid : pc[t] \notin {"waiting", "done"}

\* Every transaction completes: no request of acquireLock waits for ever,
\* and a deadlock the graph does not show at once is found in the end.
AllComplete == <>(\A t \in Tid : pc[t] = "done")

\* The strengthening that makes the safety properties inductive: a call that
\* names a page names a real one, a lock is in the queue of its holder or
\* about to be put there, the loop of releasePages still has to visit every
\* lock that is left, and the waits-for graph is acyclic.
CallsNamePages ==
    \A t \in Tid : pc[t] \in {"trying", "waiting", "granted", "unlocked"} =>
        req[t].pid \in PageId

LocksAreRecorded ==
    \A t \in Tid, p \in PageId : Holds(t, p) =>
        /\ holdsLock(t, p) \/ (pc[t] = "granted" /\ req[t].pid = p)
        /\ ~(pc[t] = "unlocked" /\ req[t].pid = p)
        /\ pc[t] = "releasing" => p \in toRelease[t]

IInv ==
    /\ TypeOK
    /\ CallsNamePages
    /\ WriterExcludesReaders
    /\ LocksAreRecorded
    /\ CompletedHoldsNothing
    /\ Acyclic(dependency)
    /\ WaiterKnowsABlocker

\* LockManager behaves like one shared/exclusive lock per page.
PL == INSTANCE PageLocks WITH owner <- ownerTrans, readers <- sharedTrans
ImplementsPageLocks == PL!Spec

\* The comment of addDeps, "Reset Dependency for transaction tid": a waiter
\* depends on the transactions it last found in its way and on no others.
DependencyReset ==
    \A t \in Tid : pc[t] = "waiting" =>
        {d \in Tid : <<t, d>> \in dependency} \subseteq deps[t]
=============================================================================
