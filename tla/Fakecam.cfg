SPECIFICATION FairSpec
CONSTANTS
    cam = cam
    other = other
    fresh = fresh
    moved = moved
    right = right
    wrong = wrong
    tool = tool
    None = None
    Camera <- MCCamera
    Mac <- MCMac
    Cfg <- MCCfg
    Password <- MCPassword
    Tool <- MCTool
    Sock = {s1}
    RxCap = 1
    InCap = 2
    password <- MCpassword
    factory <- MCfactory
    Commands <- MCCommands
    MaxSent = 3
CHECK_DEADLOCK FALSE
INVARIANTS
    LogFollowsCommands
    NothingDropped
    ReportIsExplained
PROPERTIES
    SilentAfterClose
    CloseReturns
    ChangeIsAnnounced
