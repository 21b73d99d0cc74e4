SPECIFICATION FairSpec
CONSTANTS
    FeeDen = 10
    Untouchable = 3
    MaxLqCap = 60
    MinN2T = 8
    MinT2T = 2
    Refused = Refused
    LegacyFeeMult = 3
    Word = 1000
    NoStake = NoStake
    NoKey = NoKey
    Orders <- AllOrders
    Makers <- AllMakers
    Reserves2 <- AllReserves
    SoftCap = 6
    MaxTakes = 3
    TakeUnits = 1
    MakeUnits = 2
    BaseStepBudget = 12
    O2oAllowed = TRUE
    MaxEvents = 1
    MaxAttempts = 2
    NoRecipe = NoRecipe
    MinLovelace = 2
    MinCost = 8
    MinFee = 0
    MinSafe = 3
    FundingAda = 10
    BaseFee = 1
    TakeFee = 1
    MakeFee = 1
    OutputFee = 1
    FundingFee = 1
    WideFrom = 30
    WideFee = 1
    TakeResidualFee = TRUE
    NoOrder = NoOrder
INVARIANTS
    Restorable
    TransactionBalanced
    LimitHonoured
PROPERTIES
    BookFollowsRecipe
    AttemptEnds
CHECK_DEADLOCK FALSE
