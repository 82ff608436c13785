CONSTANTS
    Agents = {1, 2}
    MaxOrders = 3
    MaxTick = 3
    MaxQty = 1
    Tickets <- StopTickets
    BandNum = 1
    BandDen = 3
    InitRef = 2
    MaxClock = 1
    MaxPrio = 2
SPECIFICATION FairSpec
CHECK_DEADLOCK FALSE
INVARIANT SettledBetweenCalls
PROPERTY CallReturns
