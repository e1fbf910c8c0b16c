SPECIFICATION Spec
CONSTANTS
    single = single
    pack = pack
    part = part
    gift = gift
    everything = everything
    Keys = {k1, k2}
    Products = {single, pack}
    Free = {gift}
    Includes <- MCIncludes
    With <- MCWith
    Everything = everything
    Grants <- MCGrants
    Instances = {i1, i2}
    Nobody = Nobody
    Orders <- MCOrders
    i1 = i1
    i2 = i2
    c1 = c1
    Purchases = {1, 2}
    Procs = {p1, p2}
    Terms = {1, 2}
    MaxRebinds = 1
    Bounds <- MCBounds
SYMMETRY Symmetry
INVARIANTS
    PaidIsOwned
    OneKeyPerInstance
    MovesAreLimited
PROPERTIES
    TermsMoveOutward
CHECK_DEADLOCK FALSE
