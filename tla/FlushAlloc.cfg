SPECIFICATION Spec
CONSTANTS
    NClient = 2
    MailboxMax = 2
    NOp = 2
    NLog = 2
    Gate = FALSE
INVARIANTS
    AllocSucceeds
CHECK_DEADLOCK FALSE
