SPECIFICATION Spec
CONSTANTS
    Scale = 4000
    Leverage = 100
    LiquidationBuffer = 12
    TakerFee = 3
    MakerFee <- MCMakerFee
    RiskPerTrade = 10
    Method = "auto"
    AtrMultiplier = 15
    MinAtrRatio = 2
    MinDistance = 4
    MaxDistance = 80
    OnExceeds = "cap"
    MaxLeverage = 100
    TierMaxAge = 3600
    ClockSkew = 5
    LiqPriceTolerance = 8
    Ladders <- MCLadders
    Contracts <- MCContracts
    Setups <- MCSetups
    Offsets <- MCOffsets
    Slippage = 1
    FundingRate = 1
    StartingEquity = 6000000
    ExpiresAfter = 2
    MaxBars = 5
    MaxTrades = 2
    Nothing = Nothing
INVARIANTS
    TypeOK
    RiskWithinBudget
    LiquidationClear
    CappedStopPasses
    SizingSettles
    StopHonoured
    BooksBalance
    RungsCoverRemaining
    LossWithinMargin
CHECK_DEADLOCK FALSE
