CONSTANTS
    t1 = t1
    t2 = t2
    None = None
    Agents = {1}
    Keys = {1}
    Threads = {t1, t2}
    OrdersPerTick = 1
    DecisionsPerTick = 1
    MaxOpen = 4
    Patient = TRUE
    ResetsAlone = TRUE
    MayRejoin = FALSE
    MaxTick = 4
    MaxId = 6
    MaxResets = 1
    Traders = {1, 2, 3}
    WashWindow = 1
    CircularN = 1
    PumpWindow = 2
    PumpRunup = 50
    PumpShare = 50
    Quantities = {1}
    Marks = {1, 2}
    MaxClock = 2
    MaxPrints = 3
SPECIFICATION MCSpec
CHECK_DEADLOCK FALSE
SYMMETRY Pool
INVARIANT LimitsHold
INVARIANT FlagsOfTheTape
PROPERTY OrdersAnsweredOnce
PROPERTY LoansAccounted
