SPECIFICATION Spec
CONSTANTS
    NumBits = 2
    OutMax = 3
    StartDqs = 1
    Reach = 1
    MaxFuzz = 0
CHECK_DEADLOCK FALSE
INVARIANTS
    EveryPinWrites
    EdgesAreTrue
    Centred
    WidestRun
    FindsDelays
