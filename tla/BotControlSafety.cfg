SPECIFICATION Spec
CONSTANTS
    w1 = w1
    w2 = w2
    a1 = a1
    a2 = a2
    None = None
    Workers = {w1, w2}
    Apis = {a1}
    MaxRuns = 2
    NumSymbols = 2
    MaxDbErrors = 1
    StartupOverlap = TRUE
SYMMETRY Interchangeable
INVARIANTS
    TypeOK
    RunningIsNewest
    LateEntriesBounded
    MemoryBacked
PROPERTIES
    KillIsFinal
    ClosedRunsFrozen
    RunHistoryKept
