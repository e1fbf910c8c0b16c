SPECIFICATION InstanceSpec
CONSTANTS
    Processes = {p1}
    Self = p1
    Tables = {"orders"}
    Rows = {o1}
    TableOf <- OrdersOnly
    NoRow = NoRow
    Limit = 1
    Attempts = 2
    MaxTime = 1
    MaxFaults = 1
    MaxRequests = 1
PROPERTIES
    RestartCutsNothing
CHECK_DEADLOCK FALSE
