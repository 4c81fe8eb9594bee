SPECIFICATION Spec
CONSTANTS
    Tid = {t1, t2, t3}
    NoTid = NoTid
    Old = Old
    FilePages = 5
    InitPages = 2
    Slots = 1
    MaxPages = 2
    Ops <- ScanInsert
    Outcomes <- Commit
    MaxCalls = 3
    Serial = TRUE
    t1 = t1
    t2 = t2
    t3 = t3
SYMMETRY Symmetry
INVARIANTS
    CommittedVisible
    PoolIsExact
