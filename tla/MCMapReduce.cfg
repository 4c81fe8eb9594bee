SPECIFICATION FairSpec
CONSTANTS
    w1 = w1
    w2 = w2
    w3 = w3
    Worker = {w1, w2, w3}
    NoWorker = NoWorker
    nMap = 2
    nReduce = 2
    Limit <- Limits
    Mortal = {w1, w3}
INVARIANTS
    OneTaskPerWorker
    InputsAreWhole
PROPERTIES
    DoneIsFinal
    JobEnds
