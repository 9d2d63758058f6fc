SPECIFICATION WSpec
INVARIANTS
    TypeOK
    WindowBound
SYMMETRY Symmetric
CONSTANTS
    Group = {ORDER}
    OtherGroup = {}
    Base <- MCBase
    Peak <- MCPeak
    PeakStart <- MCPeakStart
    PeakEnd <- MCPeakEnd
    TicksPerDay = 5
    TicksPerSecond = 1
    SafetyUnit = 2
    RawSafety = 1
    Client = {a}
    Caller = {p, q}
    BucketId = {b1, b2, b3}
    Nil = Nil
    Free = Free
    Janitor = Janitor
    Enabled = TRUE
    MaxBuckets = 1
    SampleSize = 1
    MaxIdle = 9
    Header = {1}
    Retry = {1}
    MaxClock = 3
    Windows <- MCWindows
