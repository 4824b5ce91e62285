SPECIFICATION FairSpec
CONSTANTS
    Functors = {f1, f2, f3}
    Quitters = {q1, q2}
    QueueBeforeLoop = FALSE
    CallbacksQuit = TRUE
INVARIANTS
    NoLostWakeup
    NoLostQuit
PROPERTIES
    ImplementsExecutor
    QueuedIsExecuted
