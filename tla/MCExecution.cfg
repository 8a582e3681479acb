SPECIFICATION MCSpec
CONSTANTS
    t1 = t1
    t2 = t2
    t3 = t3
    unknown = unknown
    SliceTask <- MCTask
    Id <- MCId
    Plans <- MCPlans
    NoTask = NoTask
    Task <- MCTask
    BlockedBy <- MCBlockedBy
    Waves <- MCWaves
    DependencyRule = FALSE
    Chain <- MCChain
    Profile = "balanced"
    RetryCountPerProfile = 1
    MaxExecutions = 2
    MaxCrashes = 1
INVARIANTS
    RecordedHasEvidence
    CompletedMeansAllWaves
    UpstreamWaveOver
    WavesRespectDependencies
    ResultIsLayers
    CyclePathIsCycle
PROPERTIES
    CheckpointIsProgress
    PauseNotOutrun
    ExecutionEnds
    DetectionReturns
CHECK_DEADLOCK FALSE
