SPECIFICATION FairSpec
CONSTANTS
    s1 = s1
    s2 = s2
    s3 = s3
    Symbol = {s1, s2, s3}
    Listed <- TwoListed
    BatchSize = 1
    LastDay = 2
    MaxEvents = 2
INVARIANTS
    TypeOK
    CompletedDayIsScanned
    MarkHasARun
PROPERTIES
    ScanCompletes
CHECK_DEADLOCK FALSE
