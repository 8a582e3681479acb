SPECIFICATION FairSpec
CONSTANTS
    t1 = t1
    t2 = t2
    Task <- MCTask
    Enabled = TRUE
    Threshold = 3
    PolicyRetries = 2
    MaxRecalls = 1
INVARIANTS
    OneAgentUnlessMissed
    TimeoutIsEscalated
    DispatchesBounded
PROPERTIES
    CallsReturn
CHECK_DEADLOCK FALSE
