SPECIFICATION Spec
CONSTANTS
    d1 = d1
    d2 = d2
    erased = erased
    mixed = mixed
    cp = cp
    NSec = 2
    NPage = 1
    Data = {d1}
    Erased = erased
    Mixed = mixed
    NMod = 1
    Region <- OneModule
    BlockSectors = 2
    NOp = 3
    NBuf = 1
    FlashSuspend = TRUE
    Users = {}
    CleanWrites = TRUE
PROPERTIES
    EraseCoversRange
