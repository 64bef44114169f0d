SPECIFICATION Spec
CONSTANTS
    cam1 = cam1
    cam2 = cam2
    a = a
    b = b
    en0 = en0
    w1 = w1
    j1 = j1
    j2 = j2
    None = None
    Mac <- MCMac
    Addr <- MCAddr
    home <- MChome
    Interface <- MCInterface
    Window <- OneWindow
    Job <- MCJob
    Overfull <- MCOverfull
CHECK_DEADLOCK FALSE
INVARIANT
    VerdictHasAPlace
