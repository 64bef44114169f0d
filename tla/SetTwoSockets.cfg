SPECIFICATION Spec
CONSTANTS
    cam = cam
    cam2 = cam2
    ghost = ghost
    atA = atA
    atB = atB
    remask = remask
    right = right
    wrong = wrong
    me = me
    it = it
    a = a
    b = b
    None = None
    Camera <- OneCamera
    Mac <- MCMac
    Cfg <- MCCfg
    Password <- MCPassword
    Tool <- MCTool
    Sock = {s1, s2}
    RxCap = 1
    InCap = 1
    password <- MCpassword
    factory <- MCfactory
    Addr <- MCAddr
    ipOf <- MCipOf
    Me = me
    Requests <- Everything
    OtherSets <- NoOthers
    DiscoverTimeout = 1
    ConfirmTimeout = 2
    Window = 1
    MinWindow = 1
CHECK_DEADLOCK FALSE
INVARIANTS
    SetTypeOK
    ConfirmedMeansApplied
    NoBlindSend
    RefusedMeansUntouched
    AckMeansReceived
