\* The frame of IrReceiver.cfg, for the claim about its last bit.
SPECIFICATION Spec
CONSTANTS
    NBits = 4
    BitAvailable = 2
    DataHigh = 4
    GuideHigh = 5
    GuideLow = 6
    IdleHigh = 7
INVARIANT InterruptMeansFrame
