SPECIFICATION Spec
CONSTANTS
    Name <- Names
    FNVHash64 <- Hash
    Length <- NameLength
    WordHTBuckets = 1
    DocTableBuckets = 1
    IndexBuckets = 1
    DocIDsBuckets = 1
    DocNames <- Docs
    Contained <- Texts
    Word <- Words
    MaxQuery = 3
    MaxFailing = 1
CHECK_DEADLOCK FALSE
INVARIANTS
    WrittenIsWhole
