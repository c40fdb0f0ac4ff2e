SPECIFICATION MCSpec
CONSTANTS
    Job = {j1, j2}
    Keys = {j1}
    Request = {r1, r2}
    Worker = {w1, w2}
    NoJob = NoJob
    Retries = 2
    MaxAttempts = 2
    Routes <- MCBoth
    Faults <- MCAnything
    MaxFaults = 3
    Conn = {x1, x2}
    Http = {1, 2, 3}
    NoConn = NoConn
    NoHttp = NoHttp
INVARIANTS
    PrintedOnce
    QueuedHasMessage
    OwnContext
PROPERTIES
    ProcessingEnds
    AllServed
CHECK_DEADLOCK FALSE
