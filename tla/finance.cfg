SPECIFICATION MCSpec
CONSTANTS
    e1 = e1
    e2 = e2
    a1 = a1
    a2 = a2
    Period = {p1, p2}
    Employee = {e1, e2}
    Adjustment = {a1, a2}
    For <- MCFor
    User = {maker, checker}
    SuperAdmin = {}
    Nobody = Nobody
    NetPay <- MCNetPay
    NoLimit = NoLimit
    Whole = 100
    Request = {1, 2, 3, 4, 5}
    Cashier = {maker, checker}
    Manager = {checker}
    Unbound = {}
    None = None
    DayOff = DayOff
    Policy <- MCPolicy
    Roster <- MCRoster
    Record = {t1, t2}
    Clock <- MCClock
    Bounds <- MCBounds
SYMMETRY Symmetry
INVARIANTS
    PaidOnce
    BooksAgree
    AdjustmentsCounted
    CloseCounts
    SettledOnce
    HoursPaidOnce
    SameVerdict
PROPERTIES
    SalaryPaid
CHECK_DEADLOCK FALSE
