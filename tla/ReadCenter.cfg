SPECIFICATION Spec
CONSTANTS
    NumBits = 2
    DqMax = 3
    DqsMax = 3
    Reach = 4
    MaxFuzz = 1
CHECK_DEADLOCK FALSE
INVARIANTS
    EveryBitReads
    EdgesAreTrue
    Centred
    FindsDelays
