SPECIFICATION Spec
CONSTANTS
    QueueCapacity = 2
    EventCapacity = 2
    MessageLimit = 1
INVARIANTS
    RemoteCloseEndsSession
CHECK_DEADLOCK FALSE
