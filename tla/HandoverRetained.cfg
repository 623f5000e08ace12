SPECIFICATION Spec
CONSTANTS
    QueueCapacity = 2
    EventCapacity = 2
    MessageLimit = 0
INVARIANTS
    ClosedNotRetained
CHECK_DEADLOCK FALSE
