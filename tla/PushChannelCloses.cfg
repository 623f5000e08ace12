SPECIFICATION FairSpec
CONSTANTS
    Ids = {m1}
    LinkLimit = 1
    Capacity = 1
PROPERTIES
    ChannelCloses
CHECK_DEADLOCK FALSE
