SPECIFICATION Spec
CONSTANTS
    None = None
    Prices <- MCPrices
    Plans <- AllPlans
    MaxEntries = 1
    MaxFailures = 1
INVARIANTS
    LevelsClosedOnce
