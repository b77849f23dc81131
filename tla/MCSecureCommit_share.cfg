\* Two clients change the same pages; no crash.
CONSTANTS
    Clients = {c1, c2}
    Pages = {p1, p2}
    SystemPages = {}
    CellSize = 3
    Cells = 2
    TjcPairs = 1
    MaxTrans = 1
    MaxCrashes = 0
    MayFail = {"swap"}
    NoClient = NoClient
    NoPage = NoPage
SPECIFICATION Spec
SYMMETRY Symmetry
INVARIANTS TypeOK SwapSpaceExact CopiesCurrent CopiesLogged OneLeader
