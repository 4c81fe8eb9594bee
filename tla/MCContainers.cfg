SPECIFICATION Spec
CONSTANTS
    Payloads = {1, 2, 3}
    Pairs <- SomePairs
    NumBuckets = 1
    MaxElements = 4
INVARIANTS
    ListWellFormed
    BucketsWellFormed
PROPERTIES
    ImplementsSequence
    ImplementsDictionary
