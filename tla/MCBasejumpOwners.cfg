SPECIFICATION Spec
CONSTANTS
    usdc = usdc
    usdt = usdt
    asset21 = asset21
    asset10 = asset10
    emitter1 = emitter1
    emitter2 = emitter2
    receiver1 = receiver1
    receiver2 = receiver2
    Bridges = {receiver1}
    Emitters = {emitter1, emitter2}
    EmittersOf <- OneCorridor
    Stranger = stranger
    SourceAssets = {usdc}
    DestAssets = {asset21}
    Unset = unset
    Here = here
    Elsewhere = elsewhere
    InitialPool <- MCPool
    InitialAssets <- MCInitialAssets
    SettlesAs <- MCSettlesAs
    Amounts = {2, 3}
    Fees = {1}
    InitialFee = 1
    OwnerMoves = {"route", "landing", "receiver", "emitter", "disarm", "asset", "withdraw"}
    MaxMessages = 2
    Refs <- MCRefs
    Undispatchable = {}
INVARIANTS
    TypeOK
    DeliveredOnce
CHECK_DEADLOCK FALSE
