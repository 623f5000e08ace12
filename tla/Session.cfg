SPECIFICATION FairSpec
CONSTANTS
    c1 = c1
    Beat = Beat
    Expiry = Expiry
    Closer = Closer
    Reader = Reader
    Calls = {c1}
    Heartbeat = 1
    MissedIntervals = 1
    MaxAge = 2
    ResponseTimeout = 1
    Horizon = 2
INVARIANTS
    TypeOK
    PendingSound
    EndReachesCalls
    ReplyCorrelated
    OneCause
PROPERTIES
    ServiceSpec
    NothingStaysOverdue
CHECK_DEADLOCK FALSE
