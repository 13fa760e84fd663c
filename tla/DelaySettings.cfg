CONSTANTS
    NumGroups = 2
    NumPins = 2
    InMax = 1
    DqsInMax = 2
    DqsInReserve = 1
    OutMax = 2
    DqsOutReserve = 1
    EnPhaseMax = 1
    EnDelayMax = 1
    DtapsPerPtap = 2
    DqChoices <- MCDqChoices
    SweepAllGroups = TRUE
SPECIFICATION Spec
INVARIANT TestedAsSet
PROPERTY SettledStays
CHECK_DEADLOCK FALSE
