SPECIFICATION Spec
CONSTANTS
    alice = alice
    bob = bob
    hydration = hydration
    pair1 = pair1
    pair2 = pair2
    d1 = d1
    d2 = d2
    Day = 1
    MaxUint = 1000
    TrimmedDecimals = 8
    MaxTrimmed = 255
    MaxDecimals = 4
    Accounts = {alice, bob}
    Chains = {hydration}
    Pairs = {pair1}
    NoPeer = NoPeer
    PairDecimals <- MCPairDecimals
    TokenDecimals = 1
    Digests = {d1}
    Msg <- MCMsg
    InitialBalance <- MCBalance
    Transfers = {15}
    Limits = {5, 20}
    OutboundLimit = 20
    Deposits = {9}
    RegistrationDeposit = 2
    StorageAllowance = 5
    ClaimReserve = 2
    ExecutedCost = 1
    QueueCost = 2
    ClaimCost = 1
    InitialFree = 2
    MaxTime = 1
    MaxSeq = 1
    MaxCalls = 2
    MaxPayouts = 3
INVARIANTS
    TypeOK
    NothingLost
    UnlockedOnce
    DepositAccounted
PROPERTIES
    QueueDelayHonoured
    PauseStopsUnlocks
CHECK_DEADLOCK FALSE
