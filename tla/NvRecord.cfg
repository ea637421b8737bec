SPECIFICATION FairSpec
CONSTANTS
    MaxVersion = 3
    MaxCrashes = 2
    Blank = blank
    Bad = bad
    None = none
INVARIANTS
    TypeOK
    FlushDurable
    NoLostUpdate
PROPERTIES
    NeverBothLost
    Settles
