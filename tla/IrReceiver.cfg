\* Four bits a frame; the durations in the order of the real ones.
SPECIFICATION Spec
CONSTANTS
    NBits = 4
    BitAvailable = 2
    DataHigh = 4
    GuideHigh = 5
    GuideLow = 6
    IdleHigh = 7
INVARIANTS TypeOK DecodesPulses OneInterruptPerFrame
PROPERTIES RecoversWhenQuiet
