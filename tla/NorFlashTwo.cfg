SPECIFICATION WakeFairSpec
CONSTANTS
    d1 = d1
    d2 = d2
    erased = erased
    mixed = mixed
    cp = cp
    NSec = 2
    NPage = 1
    Data = {d1}
    Erased = erased
    Mixed = mixed
    NMod = 2
    Region <- TwoModules
    BlockSectors = 1
    NOp = 3
    NBuf = 2
    FlashSuspend = TRUE
    Users = {cp}
    CleanWrites = TRUE
INVARIANTS
    FlushAccepted
PROPERTIES
    Drains
