CONSTANTS
    w1 = w1
    w2 = w2
    w3 = w3
    a = a
    b = b
    Worker <- TwoWorkers
    Source <- TwoSources
    NoSource = NoSource
    MaxChunks = 2
    MaxRetries = 1
    CooldownThreshold = 2
    DeadThreshold = 3
    MinSources = 1
SPECIFICATION Spec
INVARIANT CancelIsNotSuccess
