CONSTANTS
    Clients = {alice}
    Conns = {1}
    Owner <- OwnedByOne
    Publishers = {1, 2}
    Batches <- DayBatches
    MaxLog = 3
SPECIFICATION Spec
INVARIANT NeverDropFills
CHECK_DEADLOCK FALSE
