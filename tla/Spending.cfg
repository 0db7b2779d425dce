SPECIFICATION Spec
CONSTANTS
    Start <- MCStart
    Table <- MCTable
    FirstTable <- MCFirstTable
    Moments <- MCMoments
    PriceOf <- MCPriceOf
    ReserveSats = 90000
    OperatorKey = "op"
    MAX_RECYCLE_PER_UPDATE = 3
    Address <- MCAddress
    HeadAddress <- MCHeadAddress
    Other <- MCOther
    Net = "bitcoincash"
    MaxTx = 4
INVARIANTS
    BuiltAsMeant
    BuiltIsSpendable
    
    HeadIsFound
    AddressHolds
CHECK_DEADLOCK FALSE
