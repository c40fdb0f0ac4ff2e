SPECIFICATION MCSpec
CONSTANTS
    x1 = x1
    x2 = x2
    Row = {x1, x2}
    Request = {1, 2, 3}
    NoRequest = NoRequest
    Kinds <- LockedKinds
    Carts <- MCCarts
    Adjustments <- MCAdjust
    InitQty <- MCInitQty
    MaxPicks = 0
    Events = 1
    Instance = {i1, i2}
    Batch = 1
    Retries = 1
    Faults <- MCAnything
    MaxFaults = 1
INVARIANTS
    NoLostUpdate
    StockNeverNegative
    SaleTakesWhatItSold
    HandledOnce
    NoneLost
PROPERTIES
    Settled
CHECK_DEADLOCK FALSE
