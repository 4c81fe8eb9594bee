SPECIFICATION HttpSpec
CONSTANTS
    Task = {c1, c2, c3}
    c1 = c1
    c2 = c2
    c3 = c3
    NoTask = NoTask
    NumThreads = 2
    Requests <- ThreeClients
    Header <- NoHeader
INVARIANTS
    FifoExactlyOnce
    OneExecutor
    QueueIsAttended
    ShutdownIsClean
    AnsweredInOrder
PROPERTIES
    ServedIfNobodyStays
    ShutdownEnds
