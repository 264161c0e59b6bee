SPECIFICATION FairSpec
CONSTANTS
    Modules = {m1, m2}
    Callers = {c1, c2}
    MaxCalls = 3
    MaxStarts = 2
INVARIANTS
    NoLostWakeup
    AttachedAgrees
PROPERTIES
    PassIsUndisturbed
    TasksRun
    WakeUpServed
    StopReturns
CHECK_DEADLOCK FALSE
