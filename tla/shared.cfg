SPECIFICATION MCSpec
CONSTANTS
    Instance = {i1, i2, i3}
    Ticks = 2
    NoToken = NoToken
    Sentinel = Sentinel
    Faults <- MCRedis
    Ticket = {1, 2, 3, 4, 5}
    NoTicket = 0
    Lookup = {1, 2, 3}
    Change = {4, 5}
    Request = {1, 2, 3}
    Nobody = Nobody
    Customer = Customer
    Coupon = Coupon
    Kinds <- RouteKinds
    Loyalty <- BOOLEAN
    InitPoints = 2
    UsageLimit = 1
    Total = 2
    Earned = 1
    Redeems <- MCRedeems
    Initials <- MCInitials
    Amounts <- MCAmounts
    References = {ref}
    Adjustments <- MCAdjust
INVARIANTS
    MutualExclusion
    OnePair
    LoginEnds
    ChangeIsSeen
    PointsAreHistory
    PointsReturned
    CouponCounts
    BalanceIsPayments
PROPERTIES
CHECK_DEADLOCK FALSE
