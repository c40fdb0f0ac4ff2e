SPECIFICATION MCSpec
CONSTANTS
    Cart = {c1, c2}
    Post = {p1, p2}
    Replay = {i1, i2}
    Page = Page
    Nobody = Nobody
    MaxFaults = 3
    Bill = {b1, b2}
    Qr = {q1, q2}
    Poll = {k1, k2}
    Asked = {q2}
    None = None
INVARIANTS
    BookedOnce
    QueueOrder
    QrSaleIsPaid
PROPERTIES
    Drained
CHECK_DEADLOCK FALSE
