SPECIFICATION GSpec
INVARIANTS
    GTypeOK
    Paid
SYMMETRY Symmetric
CONSTANTS
    Group = {"AUTH", "ORDER"}
    OtherGroup = {}
    Base <- MCBase
    Peak <- MCPeak
    PeakStart <- MCPeakStart
    PeakEnd <- MCPeakEnd
    TicksPerDay = 5
    TicksPerSecond = 2
    SafetyUnit = 1
    RawSafety = 1
    Client = {a}
    Caller = {p, q}
    BucketId = {b1, b2, b3}
    Nil = Nil
    Free = Free
    Janitor = Janitor
    Enabled = TRUE
    MaxBuckets = 1
    SampleSize = 1
    MaxIdle = 9
    Header = {}
    Retry = {}
    MaxClock = 1
    Endpoint = {"issueToken", "cancelOrder"}
    Status = {200, 401}
    MaxHops = 3
