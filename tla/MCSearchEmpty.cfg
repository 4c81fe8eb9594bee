SPECIFICATION Spec
CONSTANTS
    Name <- Names
    FNVHash64 <- Hash
    Length <- NameLength
    WordHTBuckets = 1
    DocTableBuckets = 1
    IndexBuckets = 1
    DocIDsBuckets = 1
    DocNames <- Docs
    Contained <- FewTexts
    Word <- Words
    MaxQuery = 3
    MaxFailing = 0
CHECK_DEADLOCK FALSE
INVARIANTS
    EmptyAnswer
