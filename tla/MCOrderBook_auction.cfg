CONSTANTS
    Agents = {1, 2}
    MaxOrders = 3
    MaxTick = 3
    MaxQty = 2
    Tickets <- AuctionTickets
    BandNum = 1
    BandDen = 3
    InitRef = 0
    MaxClock = 0
    MaxPrio = 2
SPECIFICATION Spec
CHECK_DEADLOCK FALSE
INVARIANT TypeOK
INVARIANT SettledBetweenCalls
INVARIANT AuctionVolumeExecuted
INVARIANT CallPriceIsRight
PROPERTY RefinesExchange
