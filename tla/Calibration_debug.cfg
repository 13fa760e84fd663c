SPECIFICATION Spec
CONSTANTS
    NumGroups = 3
    DqPerDqs = 1
    DqsInMax = 1
    DqsInReserve = 1
    OutMax = 2
    DqsOutReserve = 1
    DtapsPerPtap = 2
    ReadLats = {1}
    LatencyMargin = 2
    MaxLatency = 6
    SkipGroups = {1}
    DebugFlags = {"SWEEP_ALL_GROUPS", "DISABLE_GUARANTEED_READ", "IN_DEBUG_MODE"}
CHECK_DEADLOCK FALSE
PROPERTIES
    KeepsPromise
