SPECIFICATION FairSpec
CONSTANTS
    ThreadNums = {0, 1, 2}
    MaxConns = 3
    Fds = {3, 4}
INVARIANTS
    EvenlyDealt
    NoDanglingChannel
    UpThenDownOnce
PROPERTIES
    ClosedIsFreed
    DestructorReturns
