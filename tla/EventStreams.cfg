SPECIFICATION FairSpec
CONSTANTS
    Receivers = {r1, r2}
    Closers = {k1, k2}
    Capacity = 1
    EventLimit = 2
    Error = Error
    Closed = Closed
    Nobody = Nobody
INVARIANTS
    TypeOK
    ChannelsClosedLast
PROPERTIES
    StreamSpec
    CallsReturn
CHECK_DEADLOCK FALSE
