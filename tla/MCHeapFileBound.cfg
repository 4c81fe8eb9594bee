SPECIFICATION Spec
CONSTANTS
    Tid = {t1, t2}
    NoTid = NoTid
    Old = Old
    FilePages = 2
    InitPages = 2
    Slots = 1
    MaxPages = 1
    Ops <- JustScan
    Outcomes <- Commit
    MaxCalls = 2
    Serial = FALSE
    t1 = t1
    t2 = t2
SYMMETRY Symmetry
INVARIANTS
    PoolBound
