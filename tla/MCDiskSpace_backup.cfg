\* Two clients and a hot backup; no imports, errors or failures of the computer.
CONSTANTS
    Clients = {c1, c2}
    NoClient = NoClient
    PoolSize = 3
    MaxPools = 2
    SystemBlocks = {1}
    FREE_LIMIT_UP = 1
    FREE_LIMIT_DOWN = 1
    BLOCK_FILL_LIMIT = 2
    ByteSize = 1
    BigSize = 2
    MaxExpand = 1
    MaxCrashes = 0
    MaxRequests = 5
    FlushPeriod = TRUE
    FlushOnCommit = FALSE
    Imports = {}
    MayFail = {}
SPECIFICATION Spec
INVARIANT FlushedBeforeAllocated
SYMMETRY Symmetry
