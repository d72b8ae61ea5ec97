SPECIFICATION CloseSpec
CONSTANTS
    s1 = s1
    s2 = s2
    Sessions <- MCOneSession
    MaxQueue = 2
    MaxSessions = 1
    MaxTasks = 3
    NoTask = NoTask
CHECK_DEADLOCK FALSE
INVARIANTS
    QueueBound
PROPERTIES
    CloseReturns
    CapturedFinishes
