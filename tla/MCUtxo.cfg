SPECIFICATION FairSpec
CONSTANTS
    a1 = a1
    a2 = a2
    c1 = c1
    c2 = c2
    NoCoin = NoCoin
    Accounts = {a1, a2}
    Coins = {c1, c2}
    CoinValues = {5}
    InitialCoins <- MCCoins
    Configs <- MCConfigs
    InitialConfig <- MCConfig
    Validity = 1
    MinerFee = 1
    MaxRatio = 2
    Calls = {1}
    MaxDisturbances = 1
    Requests <- MCRequests
    Amounts = {4}
    Fee = 1
    MinWithdraw = 3
    CheckpointEvery = 1
PROPERTIES
    FirstFundsLeave
INVARIANTS
    TypeOK
    CursorCovers
    ClosedWhenTaken
CHECK_DEADLOCK FALSE
