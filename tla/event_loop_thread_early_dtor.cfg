SPECIFICATION FairThreadSpec
CONSTANTS
    Functors = {f1}
    Quitters = {q1}
    QueueBeforeLoop = FALSE
    CallbacksQuit = FALSE
PROPERTIES
    ThreadDtorReturns
