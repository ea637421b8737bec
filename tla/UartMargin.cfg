SPECIFICATION Spec
CONSTANTS
    Size = 4
    Margin = 3
    CountMod = 8
    MaxBytes = 11
INVARIANTS
    MarginConsumed
CHECK_DEADLOCK FALSE
