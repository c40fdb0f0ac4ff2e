SPECIFICATION Spec
CONSTANTS
    x1 = x1
    x2 = x2
    Row = {x1}
    Request = {r1, r2, r3, r4}
    NoRequest = NoRequest
    Kinds <- MCVoiding
    Carts <- MCOneCart
    Adjustments <- MCNoAdjust
    InitQty <- MCOneRowQty
    MaxPicks = 0
SYMMETRY Symmetry
INVARIANTS
    NoLostUpdate
CHECK_DEADLOCK FALSE
