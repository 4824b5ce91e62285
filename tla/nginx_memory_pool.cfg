SPECIFICATION Spec
CONSTANTS
    PoolSizes = {0, 1, 5, 20}
    AllocSizes = {1, 4, 5}
    LargeAddrs = {a1, a2, a3}
    Handlers = {h1, h2}
    Null = Null
    kAlignment = 2
    kMaxAlloc = 4
    kDefaultPoolSize = 6
    MinPoolSize = 4
    SmallBlockSize = 2
    LargeBlockSize = 2
    CleanupBlockSize = 3
    kMaxFailed = 1
    kMaxTries = 0
    MaxBlocks = 4
SYMMETRY Symmetry
INVARIANTS
    PiecesDisjoint
    NodesLive
    LargeAccounting
    CleanupOnce
