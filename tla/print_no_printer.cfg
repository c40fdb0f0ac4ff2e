SPECIFICATION Spec
CONSTANTS
    Job = {j1}
    Keys = {j1}
    Request = {r1, r2}
    Worker = {w1}
    NoJob = NoJob
    Retries = 1
    MaxAttempts = 2
    Routes <- MCPrint
    Faults <- MCPrinter
    MaxFaults = 1
INVARIANTS
    BuriedIsFailed
CHECK_DEADLOCK FALSE
