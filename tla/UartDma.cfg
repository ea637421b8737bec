SPECIFICATION Spec
CONSTANTS
    Size = 4
    Margin = 3
    CountMod = 8
    MaxBytes = 11
INVARIANTS
    TypeOK
    InOrder
    NothingLeft
    CorruptionExplained
CHECK_DEADLOCK FALSE
