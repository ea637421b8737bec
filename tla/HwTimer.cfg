SPECIFICATION Spec
CONSTANTS
    HWTIMER_NUM = 3
    Ticks = {0, 4}
    MaxLate = 3
    MaxSlack = 1
INVARIANTS
    TypeOK
    ListsAgree
    NoCollapse
    Armed
PROPERTIES
    NotEarly
    NotLate
