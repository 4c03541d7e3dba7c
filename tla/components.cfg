SPECIFICATION ComponentSpec
CONSTANTS
    HalfBase = 16
    WordSize = 32
    Radix = 2
    Round <- MCRound
    Calls = {"c1", "c2", "c3"}
    Start = 254
    MaxLosses = 1
    Threads = {t1, t2}
    Max = 2
    Window = 2
    Ttl = 3
    SweepEvery = 2
    MaxClock = 5
    MaxCalls = 4
    Lookups = {l1, l2}
    CacheTtl = 2
    FetchTime = 1
    MaxVersion = 2
    MaxKeyTime = 4
    Byte = 2
    EntropyBytes = 2
    MaxMs = 2
    MaxIds = 5
    Callers = {b1, b2}
    Threshold = 1
    MaxFlights = 5
    Exchanges = {x1, x2}
    Statuses = {200, 404}
    MaxWriterCalls = 3
    Devices = {"phone", "tablet"}
    PushCalls = {"p1", "p2", "p3"}
    PlatformOf <- MCPlatformOf
    Endpoints = {"android"}
    TokenTtl = 2
    MaxDay = 3
    Requests = {q1, q2}
    SampleEvery = 2
    Dependencies = {valkey, postgres}
INVARIANTS
    ConflictOnlyAfterLossOrWrap
    WithinLimitUnlessRaced
    MissOnlyAfterLateStore
    MessageIdsAreDistinct
    
    CountedAsSent
    TokensAreKept
    AnswersMatchChanges
    ReadyMeansAnswered
PROPERTIES NoStaleKey DeniedOnlyWhenFull
CHECK_DEADLOCK FALSE
