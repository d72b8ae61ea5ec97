SPECIFICATION FairSpec
CONSTANTS
    MaxEvents = 6
    t1 = t1
    o1 = o1
    o2 = o2
    Tools <- OneTool
    Others <- MCOthers
    Limit = 2
    MaxLate = 1
CHECK_DEADLOCK FALSE
PROPERTIES
    RetryContinues
