SPECIFICATION FairSpec
CONSTANTS
    s1 = s1
    s2 = s2
    None = None
    Sessions <- MCSessions
    MaxMoves = 1
CHECK_DEADLOCK FALSE
PROPERTIES
    SessionsLoadingEnds
