SPECIFICATION PSpec
PROPERTY BanHonoured
SYMMETRY Symmetric
CONSTANTS
    Group = {ORDER}
    OtherGroup = {}
    Base <- MCBase
    Peak <- MCZero
    PeakStart <- MCZero
    PeakEnd <- MCZero
    TicksPerDay = 5
    TicksPerSecond = 1
    SafetyUnit = 1
    RawSafety = 1
    Client = {a}
    Caller = {p, q}
    BucketId = {b1, b2, b3}
    Nil = Nil
    Free = Free
    Janitor = Janitor
    Enabled = TRUE
    MaxBuckets = 1
    SampleSize = 1
    MaxIdle = 9
    Header = {}
    Retry = {1, 2}
    MaxClock = 3
    Windows <- MCLater
