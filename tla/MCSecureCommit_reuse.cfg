\* Another client swaps pages while a commit writes.
CONSTANTS
    Clients = {c1, c2}
    Pages = {p1, p2}
    SystemPages = {}
    CellSize = 2
    Cells = 4
    TjcPairs = 2
    MaxTrans = 1
    MaxCrashes = 1
    MayFail = {}
    NoClient = NoClient
    NoPage = NoPage
SPECIFICATION Spec
INVARIANTS OnlyCommitted
