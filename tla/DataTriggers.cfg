SPECIFICATION Spec
CONSTANTS
    Workers = {w1, w2}
    either = either
    both = both
    release = release
    Agents = {either, both}
    Stories = {s1}
    Releases = {release}
    ReleaseAt <- MCReleaseAt
    Combine <- MCCombine
    Conditions <- MCConditions
    Nobody = Nobody
    TickLen = 1
    Cooldown = 2
    Lookback = 2
    Window = 2
    BootDelay = 1
    MaxTime = 3
    MaxLag = 1
    MaxFaults = 1
SYMMETRY Symmetry
INVARIANTS
    BurstsAreAnswered
PROPERTIES
    NoSecondRun
    DistanceIsKept
CHECK_DEADLOCK FALSE
