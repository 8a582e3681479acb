SPECIFICATION MCSpec
CONSTANTS
    s1 = s1
    s2 = s2
    a = a
    b = b
    c = c
    q1 = q1
    q2 = q2
    p1 = p1
    p2 = p2
    here = here
    there = there
    x = x
    y = y
    Slice <- MCSlice
    NoSlice = NoSlice
    MaxRetries = 2
    Lenient = {}
    RetryBound = 0
    Label <- MCLabel
    Drafts <- MCDrafts
    NoDraft = NoDraft
    MaxWrites = 2
    AdHoc <- MCAdHoc
    Nobody = Nobody
    Process <- MCProcess
    Writer <- MCProcess
    Editions <- MCEditions
    Requests <- MCRequests
    Surrounding <- MCSurrounding
    MaxUpdates = 2
    Root <- MCRoot
    Home = here
    NoRoot = NoRoot
SYMMETRY MCSymmetry
INVARIANTS
    WavesFollowBlockers
    PlannedIsComplete
    LabelsDistinct
    AdHocInStep
    CascadeOrder
    SettingsKept
CHECK_DEADLOCK FALSE
