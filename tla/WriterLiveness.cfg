SPECIFICATION FairSpec
CONSTANTS
    p1 = p1
    n1 = n1
    NoRequest = NoRequest
    Requests = {p1, n1}
    PriorityRequests = {p1}
    Capacity = 1
    BurstLimit = 1
PROPERTIES
    SendReturns
    RunFinishes
CHECK_DEADLOCK FALSE
