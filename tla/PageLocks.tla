----------------------------- MODULE PageLocks -----------------------------
(***************************************************************************)
(* What LockManager.java promises its callers: one shared/exclusive lock   *)
(* per page, with upgrade of a lone reader.  No waiting, no deadlock        *)
(* detection, no bookkeeping: a lock is taken or given up in one step.     *)
(* LockManager implements this specification; BufferPool is modelled on    *)
(* top of it.                                                              *)
(***************************************************************************)
CONSTANTS
    Tid,    \* transactions
    PageId, \* pages
    NoTid   \* the page has no exclusive owner

VARIABLES
    owner,  \* page -> the transaction with the exclusive lock, or NoTid
    readers \* page -> the transactions with a shared lock

lockVars == <<owner, readers>>

Init ==
    /\ owner = [p \in PageId |-> NoTid]
    /\ readers = [p \in PageId |-> {}]

Holds(t, p) == owner[p] = t \/ t \in readers[p]

\* Another transaction stands in the way of the permission.
MustWait(t, p, perm) ==
    \/ owner[p] \notin {NoTid, t}
    \/ perm = "READ_WRITE" /\ owner[p] # t /\ readers[p] \notin {{}, {t}}

Share(t, p) ==
    /\ owner[p] = NoTid
    /\ readers' = [readers EXCEPT ![p] = @ \cup {t}]
    /\ UNCHANGED owner

Own(t, p) ==
    /\ owner[p] = NoTid /\ readers[p] \subseteq {t}
    /\ owner' = [owner EXCEPT ![p] = t]
    /\ readers' = [readers EXCEPT ![p] = {}]

Release(t, p) ==
    /\ Holds(t, p)
    /\ owner' = [owner EXCEPT ![p] = IF @ = t THEN NoTid ELSE @]
    /\ readers' = [readers EXCEPT ![p] = @ \ {t}]

Next == \E t \in Tid, p \in PageId : Share(t, p) \/ Own(t, p) \/ Release(t, p)

Spec == Init /\ [][Next]_lockVars
=============================================================================
