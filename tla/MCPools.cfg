SPECIFICATION TradingSpec
CONSTANTS
    FeeDen = 10
    Untouchable = 3
    MaxLqCap = 60
    MinN2T = 8
    MinT2T = 2
    Refused = Refused
    LegacyFeeMult = 3
    Word = 1000
    NoStake = NoStake
    NoKey = NoKey
    AdaWeight = 1
    TokenWeight = 4
    WeightDen = 5
    BalanceWord = 1000
    MaxSwapError = 2
    Corrections = 8
    Steps = 12
    Unsettled = Unsettled
    Emission = 10
    ADenom = 30
    BDenom = 1
    MinAda = 3
    FeePart = 10
    Percentile = 10
    Operator = Operator
    MinCollateral = 2
    DaoKeys <- Keys
    DaoThreshold = 2
    DaoFee = 2
    RoyaltyFee = 2
    NoFee = NoFee
    Pools <- AllPools
    Amounts = {3, 12}
    Prices <- AllPrices
    OrderTerms <- AllOrders
    Signatories <- AllSignatories
    TxFee = 1
    MaxSteps = 2
INVARIANTS
    PoolMirrorsLedger
    Solvent
    OperatorTakesOnlyFee
    SignedOnceRunOnce
    AvailableAtPrice
PROPERTIES
    SharesKeepValue
    StableSwapProvable
CHECK_DEADLOCK FALSE
