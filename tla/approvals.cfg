SPECIFICATION MCSpec
CONSTANTS
    x1 = x1
    x2 = x2
    Row = {x1, x2}
    Doc = {d1, d2}
    Request = {r1, r2, r3}
    Nobody = Nobody
    Choices <- MCAll
    Existing <- MCMoved
    OrderStatuses <- MCStatuses
    Kinds <- MCRoutes
    InitQty <- MCInitQty
    Call = {1, 2, 3, 4}
    Expense = {e1}
    Person = {maker, checker}
    Checker = {maker, checker}
    Super = {}
    Nil = Nil
    Review = {1, 2, 3}
    Form = {f1, f2}
    Owner = {o1}
    Home = Home
    NoTenant = NoTenant
    Order = {o1}
    Item = {i1, i2, i3}
    Handler = {h1, h2}
    Nowhere = Nowhere
    OrderWords <- MCOrderWords
    OrderTotals <- MCOrderTotals
    ItemWords <- MCItemWords
SYMMETRY MCSymmetry
INVARIANTS
    MovedOnce
    TransferBalanced
    PaidForGood
    TotalIsItems
    ApprovedIsProvisioned
    KitchenSees
CHECK_DEADLOCK FALSE
