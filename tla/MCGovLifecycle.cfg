SPECIFICATION Spec
CONSTANTS
    dispatcher1 = dispatcher1
    dispatcher2 = dispatcher2
    safe1 = safe1
    safe2 = safe2
    anyone = anyone
    stranger = stranger
    Dispatchers = {dispatcher1, dispatcher2}
    Stranger = stranger
    Destinations = {"here", "elsewhere"}
    Contents = {"spend", "rotate", "upgrade"}
    MaxNonce = 2
    MaxMessages = 2
    Here = "here"
    Safes = {safe1, safe2}
    Anyone = anyone
    FirstDispatcher = dispatcher1
    FirstSafe = safe1
    FirstVetoPeriod = 1
    FirstGracePeriod = 2
    CallsOf <- MCCallsOf
    MinVetoPeriod = 1
    MinGracePeriod = 2
    MaxGracePeriod = 3
    TechnicalCommitteeDelay = 4
    CancelMargin = 2
    MaxTimestamp = 100
    MaxTime = 4
    MaxCommittee = 0
    MaxBalance = 1
INVARIANTS
    TypeOK
    OnlyPublishedActions
PROPERTIES
    FinalStays
CHECK_DEADLOCK FALSE
