SPECIFICATION Spec
CONSTANTS
    Agents = {a1, a2}
    Intervals = {1, 3}
    Crons = {{1, 2, 4}}
    Nobody = Nobody
    MinuteLen = 2
    TickLen = 1
    BootDelay = 2
    MaxPerTick = 1
    MaxTime = 7
    MaxEdits = 1
    MaxFaults = 1
INVARIANTS
    EditsTakeEffect
PROPERTIES
    CronOncePerMinute
    CronRunsHaveTheirMinute
    IntervalsAreKept
CHECK_DEADLOCK FALSE
