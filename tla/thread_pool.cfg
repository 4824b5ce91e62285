SPECIFICATION FairSpec
CONSTANTS
    Tasks = {t1, t2, t3}
    NoTask = NoTask
    Modes = {"MODE_CACHED", "MODE_FIXED"}
    InitSizes = {0, 1, 2, 3}
    kThreadMaxSize = 2
    kTaskQueMaxSize = 1
    ThreadMaxSizes = {2}
    QueMaxSizes = {2}
    FirstIds = {0, 1}
    MaxThreadId = 5
INVARIANTS
    CounterAccounting
    ExactlyOnce
    BlockedOnlyWhenFull
    NoUseAfterDestroy
    DtorIsWoken
    NoSleepWithWork
PROPERTIES
    SubmitTaskServed
    DtorReturnsUnlessRecycled
