SPECIFICATION FairSpec
CONSTANTS
    Callers = {c1, c2, c3}
    Keys = {k1}
    KeyOf <- OneQuestion
    NoEntry = NoEntry
    Windows = {0, 1}
    MaxWait = 2
    MaxTime = 5
INVARIANTS
    SharedIsComplete
    RunsOverlapForAReason
PROPERTIES
    WaitersGetAway
CHECK_DEADLOCK FALSE
