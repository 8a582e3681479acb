SPECIFICATION MCSpec
CONSTANTS
    t1 = t1
    t2 = t2
    TaskId <- MCPair
    NoId = NoId
    MaxNotes = 2
    MaxRuns = 2
    MaxKills = 1
    MaxFaults = 1
    AgentTask <- MCPair
    NoAgentTask = NoAgentTask
    Sessions <- MCTwice
    Turns <- MCTwice
    MaxTools = 1
    Member <- MCPair
    MaxLaunches = 2
    MaxGitFailures = 1
INVARIANTS
    RecordedIsJournalled
    NoFalseDrift
    NumberedInOrder
    OwnTurns
    ShownIsOfOneTask
    OffendersGone
PROPERTY
    EarlierWorkKept
CHECK_DEADLOCK FALSE
