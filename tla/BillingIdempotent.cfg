SPECIFICATION Spec
CONSTANTS
    Sessions = {s1, s2}
    NoSession = NoSession
    Plans = {trader, elite}
    NoPlan = NoPlan
    Allowance <- SmallWorths
    Txs = {sub, top}
    PlanOf <- OneTopUp
    Pack = 2
    Cost = 2
    MaxSessions = 2
INVARIANTS
    AppliedOnce
CHECK_DEADLOCK FALSE
