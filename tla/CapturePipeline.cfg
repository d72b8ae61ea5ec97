SPECIFICATION Spec
CONSTANTS
    s1 = s1
    s2 = s2
    Sessions <- MCSessions
    MaxQueue = 3
    MaxSessions = 1
    MaxTasks = 3
    NoTask = NoTask
SYMMETRY Symmetry
CHECK_DEADLOCK FALSE
INVARIANTS
    NoTaskStranded
    SessionStartFirst
    OnlyProjectSessions
    InCaptureOrder
PROPERTIES
    NoTaskAfterGivingUp
    SerialDeliveryHolds
