SPECIFICATION FairSpec
CONSTANTS
    order1 = order1
    order2 = order2
    relayer = relayer
    other = other
    NoTask = no_task
    Orders = {order1, order2}
    Tasks = {order1, order2}
    Callers = {relayer, other}
    Us = relayer
    Amounts = {1, 2}
    MaxDisturbances = 1
    Retries = 2
INVARIANTS
    TypeOK
    OwnSettlementOnly
    NoGap
    AckedProven
PROPERTIES
    OrdersEnd
CHECK_DEADLOCK FALSE
