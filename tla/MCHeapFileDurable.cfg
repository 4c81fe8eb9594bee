SPECIFICATION Spec
CONSTANTS
    Tid = {t1, t2}
    NoTid = NoTid
    Old = Old
    FilePages = 2
    InitPages = 1
    Slots = 2
    MaxPages = 2
    Ops <- JustInsert
    Outcomes <- Commit
    MaxCalls = 1
    Serial = TRUE
    t1 = t1
    t2 = t2
SYMMETRY Symmetry
INVARIANTS
    ForceNoSteal
