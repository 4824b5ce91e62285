SPECIFICATION FairSpec
CONSTANTS
    Tasks = {t1, t2}
    NoTask = NoTask
    Modes = {"MODE_CACHED"}
    InitSizes = {1}
    kThreadMaxSize = 2
    kTaskQueMaxSize = 1
    ThreadMaxSizes = {2}
    QueMaxSizes = {2}
    FirstIds = {0}
    MaxThreadId = 2
PROPERTIES
    DtorReturns
