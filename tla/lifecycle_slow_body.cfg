SPECIFICATION Spec
INVARIANT TooLargeIsLarge
CONSTANTS
    Conn = {c1}
    Configs <- MCDefault
    NewGrace = 1
    PollInterval = 1
    MaxClock = 5
CHECK_DEADLOCK FALSE
