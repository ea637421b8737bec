SPECIFICATION FairSpec
CONSTANTS
    Chips = {a, b}
    MailboxMax = 2
    HeapBlocks = 2
    ResendTime = 1
    MaxCmds = 2
    Prompt = TRUE
INVARIANTS
    TypeOK
    NoTokenLeft
    DeafIsExplained
PROPERTIES
    AnsweredIsHandled
    ComesToRest
CHECK_DEADLOCK FALSE
