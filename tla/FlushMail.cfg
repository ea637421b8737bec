SPECIFICATION FairSpec
CONSTANTS
    NClient = 1
    MailboxMax = 2
    NOp = 2
    NLog = 2
    Gate = TRUE
INVARIANTS
    TypeOK
    QueueRoom
    NoWakeUpLost
PROPERTIES
    UpdateWritten
CHECK_DEADLOCK FALSE
