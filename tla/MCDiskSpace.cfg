\* Two clients, two pools of three blocks; one block is in use.
CONSTANTS
    Clients = {c1, c2}
    NoClient = NoClient
    PoolSize = 3
    MaxPools = 2
    SystemBlocks = {1}
    FREE_LIMIT_UP = 1
    FREE_LIMIT_DOWN = 1
    BLOCK_FILL_LIMIT = 2
    ByteSize = 1
    BigSize = 2
    MaxExpand = 1
    MaxCrashes = 1
    MaxRequests = 5
    FlushPeriod = TRUE
    FlushOnCommit = FALSE
    Imports = {c1, c2}
    MayFail = {"pool", "read", "extend", "expand"}
SPECIFICATION Spec
INVARIANTS TypeOK BlocksAccounted SafeOnDisc SavepointItemsKept
CONSTRAINT Explored
SYMMETRY Symmetry
