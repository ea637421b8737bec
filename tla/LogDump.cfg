SPECIFICATION FairSpec
CONSTANTS
    NBuffer = 3
    NSector = 3
    Size = 3
    QueueMax = 2
    MaxSeqnum = 5
    MaxUpset = 3
    MaxFails = 1
INVARIANTS
    TypeOK
    OneWritting
    OldestNext
    FlashInOrder
PROPERTIES
    FullFlushed
    CrashFlushed
CHECK_DEADLOCK FALSE
