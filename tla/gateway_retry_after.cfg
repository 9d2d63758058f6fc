SPECIFICATION GSpec
PROPERTY RetryAfterSuffices
SYMMETRY Symmetric
CONSTANTS
    Group = {"ORDER"}
    OtherGroup = {"MARKET_INFO"}
    Base <- MCBase
    Peak <- MCPeak
    PeakStart <- MCPeakStart
    PeakEnd <- MCPeakEnd
    TicksPerDay = 5
    TicksPerSecond = 2
    SafetyUnit = 1
    RawSafety = 1
    Client = {a}
    Caller = {p, q}
    BucketId = {b1, b2, b3}
    Nil = Nil
    Free = Free
    Janitor = Janitor
    Enabled = TRUE
    MaxBuckets = 1
    SampleSize = 1
    MaxIdle = 9
    Header = {1}
    Retry = {4}
    MaxClock = 2
    Endpoint = {"cancelOrder", "krCalendar"}
    Status = {429}
    MaxHops = 1
