SPECIFICATION FairSpec
CONSTANTS
    cam = cam
    cam2 = cam2
    ghost = ghost
    atA = atA
    atB = atB
    remask = remask
    right = right
    wrong = wrong
    me = me
    it = it
    a = a
    b = b
    None = None
    Camera <- OneCamera
    Mac <- MCMac
    Cfg <- MCCfg
    Password <- MCPassword
    Tool <- MCTool
    Sock = {s1}
    RxCap = 2
    InCap = 2
    password <- MCpassword
    factory <- MCfactory
    Addr <- MCAddr
    ipOf <- MCipOf
    Me = me
    Requests <- Everything
    OtherSets <- AnotherSet
    DiscoverTimeout = 1
    ConfirmTimeout = 4
    Window = 3
    MinWindow = 2
CHECK_DEADLOCK FALSE
INVARIANTS
    OnlyTargetChanges
    GivesUpInTime
PROPERTIES
    KeepsPromise
    SessionEnds
