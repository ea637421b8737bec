SPECIFICATION Spec
CONSTANTS
    d1 = d1
    d2 = d2
    erased = erased
    mixed = mixed
    cp = cp
    NSec = 2
    NPage = 2
    Data = {d1}
    Erased = erased
    Mixed = mixed
    NMod = 1
    Region <- OneModule
    BlockSectors = 2
    NOp = 3
    NBuf = 2
    FlashSuspend = TRUE
    Users = {}
    CleanWrites = TRUE
INVARIANTS
    TypeOK
    PoolsAccounted
    OnlyTailLocked
    SyncAfterQueued
PROPERTIES
    HalSourceStable
