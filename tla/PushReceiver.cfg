SPECIFICATION SenderSpec
CONSTANTS
    Ids = {m1}
    LinkLimit = 2
    Capacity = 1
INVARIANTS
    TypeOK
    AcknowledgedNotLost
    LinksEndCleanly
PROPERTIES
    ReceiverStops
    DeadLinkGivenUp
CHECK_DEADLOCK FALSE
