SPECIFICATION WindowSpec
CONSTANTS
    Day = 3
    MaxUint = 15
    WindowLimits = {4, 5}
    InitialLimit = 5
    Amounts = {1, 4}
    Locks = {l1, l2}
    MaxWindowTime = 4
    MaxWindowCalls = 6
INVARIANTS
    ThroughputBounded
    FailedPublishUndone
CHECK_DEADLOCK FALSE
