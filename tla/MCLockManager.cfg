CONSTANTS
  Tid = {t1, t2, t3}
  t3 = t3
  PageId = {p1, p2}
  NoTid = NoTid
  NoPage = NoPage
  MaxAcquires <- OneShorter
SPECIFICATION FairSpec
INVARIANTS WriterExcludesReaders CompletedHoldsNothing NoLostWakeup WaiterKnowsABlocker NoDeadlock
PROPERTIES ImplementsPageLocks AllComplete
