CONSTANTS
    Agents = {1, 2}
    MaxOrders = 3
    MaxTick = 3
    MaxQty = 2
    Tickets <- AuctionTickets
    BandNum = 1
    BandDen = 3
    InitRef = 0
    MaxClock = 1
    MaxPrio = 1
SPECIFICATION Spec
INVARIANT NeverCrossed
CHECK_DEADLOCK FALSE
