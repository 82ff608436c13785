CONSTANTS
    Agents = {a1, a2}
    Authorities = {"GOVT", "CENBANK"}
    Levers <- LeversOf
    OneOffs = {"transfer_oneoff"}
    Owner = "GOVT"
    Overlaid = "vat"
    Bound <- Bounds
    Decisions <- DecisionSet
    Lags = {1}
    Effects <- RateEvents
    None = None
    DaysPerMonth = 2
    MaxTick = 4
    MaxMade = 3
    Parts = {"cascade"}
    N = 3
    Category <- Kinds
    Cooldown <- Cooldowns
    Followups <- Chain
    Lag <- HeadlineLags
    Height <- ChainsBelow
    Governs <- PolicyEvents
    Controls = {"autopilot", "agent"}
    MaxDepth = 2
    MaxConcurrent = 2
    Scripts = {1}
    LastTick = 3
    MaxScripts = 1
SPECIFICATION MCSpec
INVARIANT FollowupsRespectControl
CHECK_DEADLOCK FALSE
