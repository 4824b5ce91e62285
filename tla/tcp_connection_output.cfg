SPECIFICATION FairSpec
CONSTANTS
    Users = {u1}
    Msgs = {1, 2}
    SndBuf = 1
    PeerBytes = 0
    high_water_mark_ = 2
PROPERTIES
    BufferedIsSent
CHECK_DEADLOCK FALSE
