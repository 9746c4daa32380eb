SPECIFICATION FairSpec
CONSTANTS
    None = None
    Prices <- MCPrices
    Plans <- AllPlans
    MaxEntries = 2
    MaxFailures = 1
INVARIANTS
    TypeOK
    CoveredAfterTick
    StopsHonoured
    ReclosedOnlyAfterFailure
PROPERTIES
    BreakEvenNeverStopsOut
    StopsOnlyTighten
    StopEventuallyCloses
    OrphanConfigDropped
