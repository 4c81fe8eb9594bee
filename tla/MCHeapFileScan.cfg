SPECIFICATION Spec
CONSTANTS
    Tid = {t1, t2}
    NoTid = NoTid
    Old = Old
    FilePages = 3
    InitPages = 3
    Slots = 1
    MaxPages = 2
    Ops <- ScanDelete
    Outcomes <- Commit
    MaxCalls = 3
    Serial = TRUE
    t1 = t1
    t2 = t2
SYMMETRY Symmetry
INVARIANTS
    ScanReadsAll
