SPECIFICATION KeeperSpec
CONSTANTS
    dispatcher1 = dispatcher1
    dispatcher2 = dispatcher2
    safe1 = safe1
    safe2 = safe2
    anyone = anyone
    stranger = stranger
    Dispatchers = {dispatcher1, dispatcher2}
    Stranger = stranger
    Destinations = {"here"}
    Contents = {"recover", "slow", "slower", "cancel"}
    MaxNonce = 2
    MaxMessages = 2
    Here = "here"
    Safes = {safe1}
    Anyone = anyone
    FirstDispatcher = dispatcher1
    FirstSafe = safe1
    FirstVetoPeriod = 1
    FirstGracePeriod = 2
    CallsOf <- MCCallsOf
    MinVetoPeriod = 1
    MinGracePeriod = 2
    MaxGracePeriod = 3
    TechnicalCommitteeDelay = 4
    CancelMargin = 2
    MaxTimestamp = 100
    MaxTime = 5
    MaxCommittee = 1
    MaxBalance = 0
INVARIANTS
    ReviewedBeforeExecution
    CancellationsStand
    CancelledInTimeNeverExecutes
CHECK_DEADLOCK FALSE
