SPECIFICATION FairSpec
CONSTANTS
    wsteth = wsteth
    source1 = source1
    source2 = source2
    Unset = unset
    Assets = {wsteth}
    Sources = {source1, source2}
    Rates = {10, 11}
    InitialRate <- MCInitialRate
    InitialFeeds <- MCInitialFeeds
    Feeds <- MCFeeds
    MaxPriceAges = {0, 1}
    InitialMaxPriceAge = 1
    MaxAge = 1
    Scale = 10
    MaxDisturbances = 1
    Threshold = 950
    Refresh = 2
    Ticks = {1, 2}
INVARIANTS
    TypeOK
    RefreshedInTime
PROPERTIES
    PricesAreFeeds
    EventuallyCurrent
CHECK_DEADLOCK FALSE
