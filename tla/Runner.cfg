SPECIFICATION FairSpec
CONSTANTS
    Scripts <- MCScripts
    NL = 0
    OutCap = 2
    ErrCap = 2
    None = None
CHECK_DEADLOCK FALSE
INVARIANTS
    RunnerTypeOK
    EveryByteOnce
    LinesAreWhole
PROPERTIES
    HandoverIsComplete
    ReturnsIfOutputFits
