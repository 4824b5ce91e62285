SPECIFICATION FairSpec
CONSTANTS
    Clients = {c1, c2}
    Connections = {x1, x2, x3}
    NoConn = NoConn
    init_size_ = 1
    max_size_ = 3
    MaxIdle = 0
    MaxClock = 2
    MaxSpurious = 1
    ConnectMayFail = TRUE
INVARIANTS
    SizeAccounting
    ExclusiveUse
    IdleOrder
PROPERTIES
    ServedBelowMax
