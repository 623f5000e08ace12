SPECIFICATION Spec
CONSTANTS
    c1 = c1
    c2 = c2
    Sessions <- MCSessions
    Earlier = Earlier
    CallLimit = 3
    Mixes <- MCMixes
SYMMETRY MCSymmetry
INVARIANTS
    TypeOK
    SavesAtomic
    ChallengeRetained
    OneCodePerLogin
PROPERTIES
    SavesNewest
    RefreshKept
CHECK_DEADLOCK FALSE
