\* A TJC block cannot be written.
CONSTANTS
    Clients = {c1, c2}
    Pages = {p1}
    SystemPages = {}
    CellSize = 2
    Cells = 4
    TjcPairs = 1
    MaxTrans = 1
    MaxCrashes = 0
    MayFail = {"tjc"}
    NoClient = NoClient
    NoPage = NoPage
SPECIFICATION Spec
INVARIANTS CopiesLogged
