SPECIFICATION FairSpec
CONSTANTS
    x1 = x1
    x2 = x2
    Row = {x1, x2}
    Request = {r1, r2, r3}
    NoRequest = NoRequest
    Kinds <- MCSelling
    Carts <- MCCrossing
    Adjustments <- MCNoAdjust
    InitQty <- MCInitQty
    MaxPicks = 2
INVARIANTS
    OneReversal
    RestoredWithinSold
PROPERTIES
    Answered
CHECK_DEADLOCK FALSE
