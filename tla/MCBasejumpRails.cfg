SPECIFICATION Spec
CONSTANTS
    usdc = usdc
    usdt = usdt
    asset21 = asset21
    asset10 = asset10
    emitter1 = emitter1
    emitter2 = emitter2
    receiver1 = receiver1
    receiver2 = receiver2
    Bridges = {receiver1, receiver2}
    Emitters = {emitter1, emitter2}
    EmittersOf <- TwoCorridors
    Stranger = stranger
    SourceAssets = {usdc, usdt}
    DestAssets = {asset21, asset10}
    Unset = unset
    Here = here
    Elsewhere = elsewhere
    InitialPool <- MCEmptyPool
    InitialAssets <- MCInitialAssets
    SettlesAs <- MCSettlesAs
    Amounts = {2}
    Fees = {0, 1}
    InitialFee = 1
    OwnerMoves = {"fee"}
    MaxMessages = 3
    Refs <- MCRefs
    Undispatchable = {2}
INVARIANTS
    PoolBalances
    QueueCovered
CHECK_DEADLOCK FALSE
