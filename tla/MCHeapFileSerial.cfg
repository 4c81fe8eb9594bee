SPECIFICATION Spec
CONSTANTS
    Tid = {t1, t2, t3}
    NoTid = NoTid
    Old = Old
    FilePages = 2
    InitPages = 2
    Slots = 1
    MaxPages = 1
    Ops <- ScanDelete
    Outcomes <- CommitOrAbort
    MaxCalls = 4
    Serial = TRUE
    t1 = t1
    t2 = t2
    t3 = t3
SYMMETRY Symmetry
INVARIANTS
    ForceNoSteal
    CacheCoherent
