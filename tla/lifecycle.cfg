SPECIFICATION FairSpec
INVARIANTS
    TypeOK
    DrainLosesNothing
PROPERTIES
    RepliesHaveTime
    SignalStops
CONSTANTS
    Conn = {c1, c2}
    Configs <- MCConfigs
    NewGrace = 1
    PollInterval = 1
    MaxClock = 7
CHECK_DEADLOCK FALSE
