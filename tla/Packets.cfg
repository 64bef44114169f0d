SPECIFICATION Spec
CONSTANTS
    Runs <- MCRuns
    Cameras <- MCCameras
    CapturesOf <- MCCapturesOf
    Port = 50123
CHECK_DEADLOCK FALSE
INVARIANTS
    PathTypeOK
    OnlyHostsAreAsked
    SaysWhatWasMeant
    EchoIsBack
    ListsWhatItAccepts
    ReasonExplains
    OnlyTheAddressee
    AnswersSurvive
    FramesAreThePackets
    MatchIsOurs
PROPERTIES
    ReaderEnds
