SPECIFICATION WSpec
INVARIANTS
    HolderCanGoOn
    LockInv
    OwnBucket
    BucketMapBounded
PROPERTY
    SweepAdvances
SYMMETRY Symmetric
CONSTANTS
    Group = {ORDER}
    OtherGroup = {}
    Base <- MCOne
    Peak <- MCZero
    PeakStart <- MCZero
    PeakEnd <- MCZero
    TicksPerDay = 5
    TicksPerSecond = 1
    SafetyUnit = 1
    RawSafety = 1
    Client = {a, b}
    Caller = {p, q}
    BucketId = {b1, b2, b3}
    Nil = Nil
    Free = Free
    Janitor = Janitor
    Enabled = TRUE
    MaxBuckets = 1
    SampleSize = 1
    MaxIdle = 0
    Header = {}
    Retry = {2}
    MaxClock = 2
    Windows <- MCLater
