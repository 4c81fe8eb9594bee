SPECIFICATION Spec
CONSTANTS
    Tid = {t1, t2}
    NoTid = NoTid
    Old = Old
    FilePages = 3
    InitPages = 1
    Slots = 1
    MaxPages = 3
    Ops <- JustInsert
    Outcomes <- Commit
    MaxCalls = 1
    Serial = FALSE
    t1 = t1
    t2 = t2
SYMMETRY Symmetry
INVARIANTS
    InsertAdds
