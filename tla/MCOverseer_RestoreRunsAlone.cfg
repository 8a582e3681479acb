SPECIFICATION Spec
CONSTANTS
    t1 = t1
    t2 = t2
    Task <- MCTask
    Enabled = TRUE
    Threshold = 3
    PolicyRetries = 2
    MaxRecalls = 0
INVARIANTS
    RestoreRunsAlone
CHECK_DEADLOCK FALSE
