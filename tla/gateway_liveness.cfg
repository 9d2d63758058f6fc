SPECIFICATION GFairSpec
PROPERTIES
    EveryRequestAnswered
    IdleReclaimed
CONSTANTS
    Group = {"ACCOUNT"}
    OtherGroup = {}
    Base <- MCOne
    Peak <- MCPeak
    PeakStart <- MCPeakStart
    PeakEnd <- MCPeakEnd
    TicksPerDay = 5
    TicksPerSecond = 2
    SafetyUnit = 1
    RawSafety = 1
    Client = {a}
    Caller = {p, q}
    BucketId = {b1, b2, b3}
    Nil = Nil
    Free = Free
    Janitor = Janitor
    Enabled = TRUE
    MaxBuckets = 1
    SampleSize = 1
    MaxIdle = 0
    Header = {}
    Retry = {}
    MaxClock = 2
    Endpoint = {"accounts"}
    Status = {401}
    MaxHops = 1
