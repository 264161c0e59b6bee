SPECIFICATION Spec
CONSTANTS
    opener = opener
    answerer = answerer
    Ends = {opener, answerer}
    Initiator = opener
    Total <- MoreThanFits
    MayClose = {opener}
    NetworkSize = 2
    MaxSaved = 1
    Copies = {}
    MtuChanges = {opener}
    Mtus = {1, 2}
    Fails = {opener}
    RcvBuf = 2
    SndBuf = 2
    MssLevels <- OneLevel
    PathMss = 1
    UseNagling = TRUE
    MaxXmit = 2
    MaxXmitConnecting = 1
    MaxCwnd = 2
INVARIANTS
    SegmentsCover
    WindowIsKept
    TimerRunsInFlight
    NeverStalls
    NoLostEvent
    CloseLosesNothing
CHECK_DEADLOCK FALSE
