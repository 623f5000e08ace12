SPECIFICATION FairSpec
CONSTANTS
    QueueCapacity = 2
    EventCapacity = 2
    MessageLimit = 1
INVARIANTS
    TypeOK
    EndReachesSession
    FailedStartLeavesNothing
PROPERTIES
    CallsReturn
CHECK_DEADLOCK FALSE
