SPECIFICATION HttpSpec
CONSTANTS
    Task = {c1}
    c1 = c1
    c2 = c2
    c3 = c3
    NoTask = NoTask
    NumThreads = 1
    Requests <- TwoRequests
    Header <- FirstCloses
INVARIANT CloseEndsConnection
