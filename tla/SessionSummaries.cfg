SPECIFICATION FairSpec
CONSTANTS
    d1 = d1
    d2 = d2
    d3 = d3
    d4 = d4
    w1 = w1
    w2 = w2
    None = None
    Documents <- MCDocuments
    Selected <- MCSelected
    Workers <- MCWorkers
    Capacity = 1
CHECK_DEADLOCK FALSE
INVARIANTS
    FeaturesAreSequential
    ErrorHasCause
    NothingLeftRunning
PROPERTIES
    RequestAnswered
