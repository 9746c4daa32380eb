SPECIFICATION FairSpec
CONSTANTS
    w1 = w1
    w2 = w2
    a1 = a1
    a2 = a2
    None = None
    Workers = {w1}
    Apis = {a1}
    MaxRuns = 3
    NumSymbols = 2
    MaxDbErrors = 2
    StartupOverlap = FALSE
INVARIANTS
    KillCarriedOver
PROPERTIES
    RunHistoryKept
    KillTakesEffect
    KillStopsWorker
