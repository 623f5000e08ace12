SPECIFICATION FairSpec
CONSTANTS
    Callers = {c1}
    Closers = {owner, connection}
    Connection = connection
    Directions = {left}
    None = None
INVARIANTS
    TypeOK
    AcknowledgedTracked
    OneCloserStops
    StopIsLast
PROPERTIES
    CallsReturn
CHECK_DEADLOCK FALSE
