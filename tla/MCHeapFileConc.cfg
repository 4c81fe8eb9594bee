SPECIFICATION Spec
CONSTANTS
    Tid = {t1, t2}
    NoTid = NoTid
    Old = Old
    FilePages = 2
    InitPages = 2
    Slots = 1
    MaxPages = 4
    Ops <- ScanDelete
    Outcomes <- CommitOrAbort
    MaxCalls = 4
    Serial = FALSE
    t1 = t1
    t2 = t2
SYMMETRY Symmetry
INVARIANTS
    ForceNoSteal
    CacheCoherent
    ViewIsCommitted
