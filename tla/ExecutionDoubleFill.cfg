SPECIFICATION Spec
CONSTANTS
    s1 = s1
    s2 = s2
    d1 = d1
    d2 = d2
    None = None
    Symbols = {s1}
    Decisions = {d1}
    MaxOpen = 2
    MaxDbErrors = 0
    MaxTimeouts = 1
    MaxFetchErrors = 0
    MaxRefusals = 0
INVARIANTS
    NeverFilledTwice
