SPECIFICATION FairSpec
CONSTANTS
    o1 = o1
    btc = btc
    eth = eth
    None = None
    Ids = {o1}
    SymbolOrder <- MCSymbolOrder
    FailureThreshold = 3
    MaxAttempts = 3
    MaxFaults = 3
INVARIANTS
    TypeOK
    AnswersTrue
    LostAnswerRecovered
PROPERTIES
    IsolatedOneWay
    OperationEnds
