\* One client, crashes in commit and on the start.
CONSTANTS
    Clients = {c1}
    Pages = {p1, p2}
    SystemPages = {p1}
    CellSize = 2
    Cells = 4
    TjcPairs = 1
    MaxTrans = 2
    MaxCrashes = 2
    MayFail = {"tjc"}
    NoClient = NoClient
    NoPage = NoPage
SPECIFICATION FairSpec
INVARIANTS OneLeader SharedCurrent Durable OnlyCommitted
PROPERTIES StartEnds
