SPECIFICATION Spec
CONSTANTS
    t1 = t1
    t2 = t2
    srv = srv
    v1 = v1
    v2 = v2
    NoID = NoID
    NoServer = NoServer
    NoValue = NoValue
    ToolUseIDs <- MCToolUseIDs
    Servers <- MCServers
    Values <- MCValues
    MaxToolEvents = 4
    MaxMessages = 3
    Stored <- Slices
CHECK_DEADLOCK FALSE
INVARIANTS
    PostsCloseOldestOpenCall
    TimelineAndCallsAgree
    DuplicatesMarked
    LatestSnapshotWins
    OrderIsDetermined
PROPERTIES
    CompletedCallsStand
