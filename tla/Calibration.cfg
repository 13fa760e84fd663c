SPECIFICATION Spec
CONSTANTS
    NumGroups = 2
    DqPerDqs = 2
    DqsInMax = 3
    DqsInReserve = 1
    OutMax = 4
    DqsOutReserve = 3
    DtapsPerPtap = 4
    ReadLats = {3, 5}
    LatencyMargin = 2
    MaxLatency = 6
    SkipGroups = {}
    DebugFlags = {}
CHECK_DEADLOCK FALSE
INVARIANTS
    TypeOK
    FailureHasCause
    OutputsRestored
    LatencyFits
PROPERTIES
    PublishedAfterHandoff
    Terminates
    KeepsPromise
