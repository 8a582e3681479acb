SPECIFICATION MCSpec
CONSTANTS
    s1 = s1
    s2 = s2
    c1 = c1
    c2 = c2
    c3 = c3
    p1 = p1
    p2 = p2
    Slice <- MCSlice
    NoSlice = NoSlice
    MaxRetries = 2
    Lenient <- MCLenientPlanning
    RetryBound = 3
    Command <- MCCommand
    Shell <- MCShell
    ShellOf <- MCShellOf
    NoCommand = NoCommand
    MaxRecords = 1
    MaxDeaths = 1
SYMMETRY MCSymmetry
INVARIANTS
    SliceInStep
    NeverWedged
    OneExecution
    SavesKeepEachOther
CHECK_DEADLOCK FALSE
