SPECIFICATION FairSpec
CONSTANTS
    s1 = s1
    s2 = s2
    d1 = d1
    d2 = d2
    None = None
    Symbols = {s1, s2}
    Decisions = {d1, d2}
    MaxOpen = 1
    MaxDbErrors = 1
    MaxTimeouts = 1
    MaxFetchErrors = 1
    MaxRefusals = 1
INVARIANTS
    TypeOK
    OpenBounded
    FilledOnce
    CoveredUnlessFault
    NoEntryOverUnprotected
    NoFalseAlarm
PROPERTIES
    UnprotectedNoticed
    LedgerKept
