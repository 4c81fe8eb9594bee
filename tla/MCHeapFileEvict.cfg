SPECIFICATION Spec
CONSTANTS
    Tid = {t1, t2}
    NoTid = NoTid
    Old = Old
    FilePages = 2
    InitPages = 2
    Slots = 1
    MaxPages = 1
    Ops <- ScanDelete
    Outcomes <- Commit
    MaxCalls = 3
    Serial = FALSE
    t1 = t1
    t2 = t2
SYMMETRY Symmetry
INVARIANTS
    ForceNoSteal
