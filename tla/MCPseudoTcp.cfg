SPECIFICATION Spec
CONSTANTS
    opener = opener
    answerer = answerer
    Ends = {opener, answerer}
    Initiator = opener
    Total <- OneWay
    MayClose = {}
    NetworkSize = 2
    MaxSaved = 2
    Copies = {answerer}
    MtuChanges = {}
    Mtus = {1, 2}
    Fails = {}
    RcvBuf = 2
    SndBuf = 3
    MssLevels <- Levels
    PathMss = 1
    UseNagling = TRUE
    MaxXmit = 2
    MaxXmitConnecting = 1
    MaxCwnd = 2
INVARIANTS
    AckedHasArrived
PROPERTIES
    StreamSpec
CHECK_DEADLOCK FALSE
