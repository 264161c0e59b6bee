SPECIFICATION FairSpec
CONSTANTS
    Workers = {A, B}
    Main = Main
    NoThread = NoThread
    Handlers = {h}
    Stoppable = {A}
    Kinds = {"post", "send", "clear"}
    MaxCalls = 2
PROPERTIES
    EverySendReturns
    PostedRuns
    DestroyReturns
CHECK_DEADLOCK FALSE
