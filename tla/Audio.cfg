CONSTANTS
    Half = 2
    MaxPad = 1
    InDepth = 2
    NumFrames = 4
    OutDepth = 2
    NumSamples = 7
SPECIFICATION AudioSpec
INVARIANT WordsWhole
INVARIANT SamplesInOrder
INVARIANT PlayedInOrder
