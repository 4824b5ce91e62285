SPECIFICATION FairThreadSpec
CONSTANTS
    Functors = {f1, f2}
    Quitters = {q1}
    QueueBeforeLoop = TRUE
    CallbacksQuit = TRUE
INVARIANTS
    LifetimesNested
PROPERTIES
    StartLoopAlwaysReturns
    DtorOfLoopingReturns
CHECK_DEADLOCK FALSE
