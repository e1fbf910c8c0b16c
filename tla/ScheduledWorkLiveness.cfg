SPECIFICATION FairSpec
CONSTANTS
    Processes = {p1}
    Tables = {"orders", "actions"}
    Rows = {r1, r2, r3}
    TableOf <- OneAction
    NoRow = NoRow
    Limit = 1
    Attempts = 2
    MaxTime = 1
    MaxFaults = 1
PROPERTIES
    DueIsTakenUp
    DueIsSettled
CHECK_DEADLOCK FALSE
