SPECIFICATION Spec
CONSTANTS
    Callers = {c1}
    Closers = {owner}
    Connection = connection
    Directions = {left, right}
    None = None
PROPERTIES
    CloseStopsTracked
CHECK_DEADLOCK FALSE
