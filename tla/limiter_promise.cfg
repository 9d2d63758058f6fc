SPECIFICATION PSpec
INVARIANT KeyWindowBoundUnlessTorn
PROPERTIES
    BanHonouredUnlessTorn
    ImplementsGate
SYMMETRY Symmetric
CONSTANTS
    Group = {ORDER}
    OtherGroup = {}
    Base <- MCBase
    Peak <- MCZero
    PeakStart <- MCZero
    PeakEnd <- MCZero
    TicksPerDay = 5
    TicksPerSecond = 2
    SafetyUnit = 1
    RawSafety = 1
    Client = {a}
    Caller = {p, q}
    BucketId = {b1, b2, b3}
    Nil = Nil
    Free = Free
    Janitor = Janitor
    Enabled = TRUE
    MaxBuckets = 1
    SampleSize = 1
    MaxIdle = 2
    Header = {}
    Retry = {3}
    MaxClock = 4
    Windows <- MCWindows
