SPECIFICATION Spec
CONSTANTS
    cam = cam
    ghost = ghost
    fresh = fresh
    moved = moved
    pw = pw
    elsewhere = elsewhere
    None = None
    Camera <- MCCamera
    Mac <- MCMac
    Cfg <- MCCfg
    Password <- MCPassword
    Tool <- MCTool
    Sock = {s1, s2}
    RxCap = 1
    InCap = 1
    password <- MCpassword
    factory <- MCfactory
    OtherSets <- MCOtherSets
    Targets <- MCList
    ListTimeout = 1
CHECK_DEADLOCK FALSE
INVARIANT
    SuccessHasListened
