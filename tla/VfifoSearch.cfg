SPECIFICATION Spec
CONSTANTS
    VfifoSize = 4
    PhaseMax = 7
    DelayMax = 6
    OpaTap = 5
    DchainTap = 2
    Lengths = {1, 4, 10, 20, 30, 60}
    Fuzzes = {0, 5}
CHECK_DEADLOCK FALSE
INVARIANTS
    TypeOK
    RangeReads
    Centred
    FindsWindow
PROPERTIES
    Terminates
