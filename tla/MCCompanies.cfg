CONSTANTS
    None = None
    Capital = 10
    Cell0 <- FourUnits
    Sizes = {2, 4}
    UnitCost = 3
    BuildLag = 2
    Face = 8
    Tenor = 2
    Rate = 450
    Committed = {0, 4}
    Uncommitted = {0, 6}
    Sales = {3}
    Wages = {12}
    Dividends = {2}
    Fines = {1}
    Obligations <- DueAtTheEnd
    PlantRecovery = 70
    StockRecovery = 50
    Inventory = 4
    Staff = 3
    MaxMonth = 3
    MaxOps = 6
    Operators = {"ann", "bob"}
    PriceStep = 2
    PriceFloor = 3
    Overtime = 110
    HireShare = 50
    GrowthCap = 50
    CoverMax = 2
    OrderCap = 1
    PremiumMax = 0
    Soft = 2
    Hard = 4
    Line = 50
    Multiplier <- ByRating
    MonthlyLag = 2
    QuarterlyLag = 3
    DaysPerMonth = 2
    Asked <- MoreOrLess
    Unemployed = {0, 4}
    Ebts <- Earnings
    Standings <- TwoStandings
    References = {0, 7, 12}
    Conditions <- FiveConditions
    Professional = TRUE
    MaxTick = 8
    MaxDecisions = 2
SPECIFICATION MCSpec
CHECK_DEADLOCK FALSE
INVARIANT BooksExplained
INVARIANT GoodsSharedOut
INVARIANT RegisterAndCash
INVARIANT DecisionsChecked
PROPERTY ServiceKeepsBudget
PROPERTY MovesAreAuthorised
