CONSTANTS
    Agents = {a1, a2}
    Insts = {"BOND"}
    Size = 10
    NpcAt <- Schedule
    Fair = 1
    Yields = {0, 2}
    Faces = {7}
    CouponRate = 20
    DecayRate = 40
    DaysPerMonth = 3
    AuctionDay = 2
    Months = 2
    Strides = {1, 4}
    MaxTick = 7
    MaxBids = 2
    MaxResets = 1
    Debt0 = 3
    Bonds0 = 12
    BankBonds0 = 4
    Reserves0 = 3
    Deposits0 = 10
    Purchases = {1, 4}
    Taxes = {0, 4}
    Spends = {2}
    Borrowings <- Repayments
    Losses = {1}
    Rates = {0, 1}
    Rescues = {2}
    Lolrs = {5}
    Capital = 12
    Thin = 8
    MaxMonth = 3
    MaxOps = 2
    Agent = "AGENT"
    Insurer = "INSURANCE"
    Buckets = {"GB"}
    PoolBucket = "POOL"
    Face0 = 10
    Held0 = 3
    Targets <- Shares
    Prices = {1, 2}
    Lots = {4}
    Gain = 50
    TradeCap = 2
    MarketCoupon = 25
    Window = 2
    Devs = {1, 3}
    MaxTrades = 4
SYMMETRY BidderSymmetry
SPECIFICATION MCSpec
CHECK_DEADLOCK FALSE
INVARIANT AuctionsAndCoupons
INVARIANT HoldingsAccounted
 
INVARIANT NewsAsAnnounced
INVARIANT MoneyAccounted
INVARIANT GoodsTraced
