SPECIFICATION Spec
CONSTANTS
    w1 = w1
    w2 = w2
    h1 = h1
    h2 = h2
    h3 = h3
    t1 = t1
    t2 = t2
    t3 = t3
    o1 = o1
    o2 = o2
    u1 = u1
    u2 = u2
    r1 = r1
    r2 = r2
    c1 = c1
    x = x
    y = y
    z = z
    k1 = k1
    k2 = k2
    m1 = m1
    m2 = m2
    impostor = impostor
    none = none
    Worker = {w1, w2}
    Total <- Plans
    Threshold = 2
    MaxCrashes = 1
    Host = {h1, h2, h3}
    Checker = {k1, k2}
    HostSpeed = {0, 1, 4}
    SlowPercent = 50
    SlowLimit = 2
    MinHosts = 2
    Client = {t1, t2, t3}
    Priorities = {0, 5, 10}
    Downloaded = {0, 2}
    FullSize = 2
    TotalBandwidth = 12
    MinBandwidth = 2
    MaxBandwidth = 10
    MaxClients = 2
    MaxCalls = 3
    Origin = {o1, o2}
    OpensAt = 3
    MaxWeight = 2
    MaxUnderWay = 2
    Updater = {u1, u2}
    Reader = {r1, r2}
    Ceiling = 2
    MaxPeers = 3
    NumPieces = 2
    MaxClaim = 3
    Conn = {c1}
    Address = {x, y, z}
    Remote <- RemoteOf
    MaxAdded = 1
    Caller = {k1, k2}
    Capability = {"tracker"}
    PeerAddr = {"x"}
    Priority = {1, 2}
    PdcTtl = 2
    HybridTtl = 2
    HttpTicks = 1
    Original = o1
    Impostor = impostor
    Mirror = {o1, m1, m2}
    MaxDiscoverers = 2
    MaxFound = 2
    Workers = 2
    ReportSlots = 2
    Discovery = {k1, k2}
    Url = {x, y, z}
    Web = {x}
    Domain <- DomainOf
    NoUrl = none
    V4 = {t1}
    V6 = {t2}
    MaxIps = 2
    RewriteSet <- RewriteRules
    FirstRules <- FirstRule
    MaxRules = 2
    ConfigSet <- Configs
    FirstConfigs <- FirstConfig
    MaxConfigs = 2
INVARIANTS SkipsOnlyWritten CountIsExact ThrottledIsFlagged SharesAreCurrent FailingSourceIsLeftOut GoodPeerSuffices ToldOnceEach StalenessBounded StrategyGetsVerified EachMirrorOnce
PROPERTIES ExchangeLosesNothing PercentNeverBack
CHECK_DEADLOCK FALSE
