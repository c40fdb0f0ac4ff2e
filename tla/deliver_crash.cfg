SPECIFICATION DeliverySpec
CONSTANTS
    Events = 1
    Instance = {i1}
    Batch = 1
    Retries = 1
    Faults <- MCCrash
    MaxFaults = 1
INVARIANTS
    ClaimedNotLost
CHECK_DEADLOCK FALSE
