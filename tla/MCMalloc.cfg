SPECIFICATION Spec
CONSTANTS
    PageSize = 48
    MAX_HEAP = 192
    Index = {i1, i2, i3}
    i1 = i1
    i2 = i2
    i3 = i3
    Sizes = {20, 28, 60}
SYMMETRY Names
INVARIANTS
    HeapIsTiled
    FreeListIsExact
    UsedIsLive
    NothingFragmented
    DriverAccepts
PROPERTIES
    ImplementsAllocator
CHECK_DEADLOCK FALSE
