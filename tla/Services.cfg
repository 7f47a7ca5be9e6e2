SPECIFICATION FairSpec
CONSTANTS
    a = a
    b = b
    f1 = f1
    r1 = r1
    r2 = r2
    d1 = d1
    s1 = s1
    s2 = s2
    k1 = k1
    k2 = k2
    Infohash = {a, b}
    Feeder = {f1}
    Runner = {r1, r2}
    MaxConcurrent = 1
    MaxRetries = 2
    MaxQueueSize = 2
    MaxEnqueues = 3
    Initial = 2
    MinConn = 1
    MaxConn = 6
    Step = 1
    Stagnation = 2
    FailPercent = 30
    BackoffNum = 3
    BackoffDen = 2
    MaxBackoff = 4
    MaxRequests = 3
    Attempt = {d1}
    Torrent = {a}
    TorrentOf <- TorrentOfEach
    Standalone = {}
    Size = 2
    FrameSlots = 2
    OutboxSize = 2
    InboxSize = 0
    Service = {s1, s2}
    Client = {k1, k2}
    CacheTtl = 2
    Cooldown = 2
    MaxFailures = 2
    QueryTicks = 1
INVARIANTS NothingForgotten AttemptsBounded ThrottledNeverGrows SuccessIsBacked
PROPERTIES RunReturns ThrottlingEnds CancelledP2pEnds SuspensionEnds
CHECK_DEADLOCK FALSE
