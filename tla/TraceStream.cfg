SPECIFICATION FairSpec
CONSTANTS
    t1 = t1
    silent = silent
    spoken = spoken
    context = context
    Tools <- MCTools
    Others <- MCOthers
    MessageEvents <- MCOthers
    Spoken <- MCSpoken
    Visible <- MCVisible
    Turnless <- MCTurnless
    Moment <- MCMoment
    Limit = 2
    MaxLate = 1
    MaxEvents = 5
CHECK_DEADLOCK FALSE
INVARIANTS
    NoGapButLate
    RowsInOrder
    StartsShowTheirCalls
    StreamIsTheTimeline
PROPERTIES
    WholeTraceLoads
    LoadedRowsRemain
