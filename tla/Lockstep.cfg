CONSTANTS
    Agents = {a1, a2}
    Seqs = {1, 2}
    MaxTick = 2
    MaxInputs = 3
    MaxAhead = 1
    PerTick = FALSE
SPECIFICATION FairSpec
CHECK_DEADLOCK FALSE
INVARIANT InputsOnceOnTime
INVARIANT TicksComplete
PROPERTY WorldAdvances
