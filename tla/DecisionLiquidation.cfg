SPECIFICATION Spec
CONSTANTS
    None = None
    Snapshots <- MCSnapshots
    Answers <- MCAnswers
    Terms <- MCTerms
    Accounts <- MCAccounts
    FailureThreshold = 3
    MaxAttempts = 2
    Tokens = 2
    LimitHour = 1
    LimitDay = 3
    MaxMargin = 5
    Environment = "PAPER"
    Leverage <- MCLeverage
    InitialBalance = 100
    MarketImpact = 2
    MaxDailyLoss = 10
    MaxTotalLoss = 50
    MaxAdverseFunding = 10
    MinNetRR = 150
    MaxOpen = 1
    MinEntryDistance = 5
    MinStopBuffer = 2
INVARIANTS
    LiquidationMarginsKept
