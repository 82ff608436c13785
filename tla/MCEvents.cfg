CONSTANTS
    Agents = {a1, a2}
    Authorities = {"GOVT", "CENBANK"}
    Levers <- LeversOf
    OneOffs = {"transfer_oneoff"}
    Owner = "GOVT"
    Overlaid = "vat"
    Bound <- Bounds
    Decisions <- DecisionSet
    Lags = {1}
    Effects <- RateEvents
    None = None
    DaysPerMonth = 2
    MaxTick = 4
    MaxMade = 3
    Parts = {"policy", "cascade", "releases", "shocks"}
    N = 3
    Category <- Kinds
    Cooldown <- Cooldowns
    Followups <- Chain
    Lag <- HeadlineLags
    Height <- ChainsBelow
    Governs <- PolicyEvents
    Controls = {"autopilot", "agent"}
    MaxDepth = 2
    MaxConcurrent = 2
    Scripts = {1}
    LastTick = 3
    MaxScripts = 2
SPECIFICATION MCSpec
SYMMETRY Symmetry
CHECK_DEADLOCK FALSE
INVARIANT CascadesInOrder
INVARIANT ControlRespected
INVARIANT FiguresAsReleased
INVARIANT ShocksArrive
PROPERTY LeversObeyed
