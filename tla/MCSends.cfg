SPECIFICATION Spec
CONSTANTS
    Workers = {A, B}
    Main = Main
    NoThread = NoThread
    Handlers = {h}
    Stoppable = {}
    Kinds = {"send", "postdelayed"}
    MaxCalls = 3
INVARIANTS
    NoLostWakeup
    OnlyFromTarget
CHECK_DEADLOCK FALSE
