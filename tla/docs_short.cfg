SPECIFICATION Spec
CONSTANTS
    x1 = x1
    x2 = x2
    Row = {x1, x2}
    Doc = {d1, d2}
    Request = {r1, r2, r3}
    Nobody = Nobody
    Choices <- MCMoving
    Existing <- MCMoving
    OrderStatuses <- MCReceive
    Kinds <- MCApproving
    InitQty <- MCInitQty
SYMMETRY Symmetry
INVARIANTS
    CompletedMovedAll
CHECK_DEADLOCK FALSE
