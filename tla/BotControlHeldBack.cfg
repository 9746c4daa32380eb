SPECIFICATION Spec
CONSTANTS
    w1 = w1
    w2 = w2
    a1 = a1
    a2 = a2
    None = None
    Workers = {w1}
    Apis = {a1}
    MaxRuns = 1
    NumSymbols = 2
    MaxDbErrors = 0
    StartupOverlap = TRUE
PROPERTIES
    KillNotHeldBack
