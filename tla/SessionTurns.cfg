SPECIFICATION Spec
CONSTANTS
    m1 = m1
    m2 = m2
    n1 = n1
    n2 = n2
    None = None
    Messages = {m1, m2}
    Names = {n1, n2}
    Inputs <- MCInputs
    MaxEvents = 5
CHECK_DEADLOCK FALSE
INVARIANTS
    OneStopPerTurn
    StopsReportSteps
    StopsAnswerPrompts
    LastMessageIsLatest
    MetadataIsLatest
PROPERTIES
    PendingOpensTurn
