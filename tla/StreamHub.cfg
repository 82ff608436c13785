CONSTANTS
    Clients = {alice}
    Conns = {1, 2}
    Owner <- OwnedByOne
    Publishers = {1}
    Batches <- DayBatches
    MaxLog = 2
SPECIFICATION FairSpec
CHECK_DEADLOCK FALSE
INVARIANT DeliveredAsPromised
PROPERTY EventuallyDelivered
