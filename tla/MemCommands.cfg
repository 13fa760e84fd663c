SPECIFICATION CSpec
CONSTANTS
    MaxCntr = 255
    Boards <- BoardsDef
    WriteClocks = 5
    TinitCntrs <- Tinit
    TresetCntrs <- Treset
    PatternReads = 32
    ReadLoops = 8
    AllReadLoops = 6
    AllGroups = 3
    WriteLoops = 16
CHECK_DEADLOCK FALSE
INVARIANTS
    CommandsLegal
    RightRank
    ReadsWhatWasWritten
    HandedOff
    LoopsLastTheirCycles
    LoopsStartLoaded
PROPERTIES
    RunsReturn
