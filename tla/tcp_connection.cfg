SPECIFICATION FairSpec
CONSTANTS
    Users = {u1}
    Msgs = {1, 2}
    SndBuf = 1
    PeerBytes = 1
    high_water_mark_ = 2
INVARIANTS
    BytesInOrder
    PollerAgrees
    InputBeforeClose
    ClosedOnce
    ShutdownFindsConnection
    RegisteredIsOwned
CHECK_DEADLOCK FALSE
PROPERTIES
    PeerCloseIsNoticed
