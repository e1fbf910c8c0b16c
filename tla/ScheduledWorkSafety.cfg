SPECIFICATION Spec
CONSTANTS
    Processes = {p1, p2}
    Tables = {"orders"}
    Rows = {o1, o2, o3}
    TableOf <- OrdersOnly
    NoRow = NoRow
    Limit = 2
    Attempts = 2
    MaxTime = 1
    MaxFaults = 2
SYMMETRY Symmetry
INVARIANTS
    AtMostOnce
    StatusTellsTheTruth
    NeverEarly
    OnlyFaultsStrand
PROPERTIES
    KeepsPromises
CHECK_DEADLOCK FALSE
