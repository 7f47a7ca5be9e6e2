CONSTANTS
    w1 = w1
    w2 = w2
    w3 = w3
    a = a
    b = b
    Worker <- ThreeWorkers
    Source <- TwoSources
    NoSource = NoSource
    MaxChunks = 3
    MaxRetries = 1
    CooldownThreshold = 2
    DeadThreshold = 3
    MinSources = 1
SPECIFICATION Spec
SYMMETRY Symmetry
INVARIANTS
    TypeOK
    HealthFollowsFailures
    EachChunkInOnePlace
    CountersMatchOutcomes
    QueueIsServed
    VerdictIsComplete
PROPERTIES
    RetriesNeverForgotten
    NoFailureReadmits
    ImplementsDownload
