SPECIFICATION Spec
CONSTANTS
    p1 = p1
    p2 = p2
    n1 = n1
    NoRequest = NoRequest
    Requests <- MCRequests
    PriorityRequests <- MCPriority
    Capacity = 2
    BurstLimit = 1
VIEW MCView
SYMMETRY MCSymmetry
INVARIANTS
    TypeOK
    NoLostWakeup
    ResultRoom
    ReturnedNotQueued
    BurstBound
    FifoPerClass
PROPERTIES
    OutboxSpec
CHECK_DEADLOCK FALSE
