\* A client changes a record committed by the other one after its savepoint.
CONSTANTS
    Threads = {t1, t2}
    NoThread = NoThread
    CellSize = 4
    Cells = 1
    NoCell = NoCell
    Pages = {p1, p2}
    FullPages = {p2}
    Records = {r1, r2}
    SapoThreads = {t1}
    Names = {s1, s2}
    MaxNumber = 3
    MaxSapos = 2
    MaxWrites = 3
    MaxStatements = 4
    Programs = {"stale record"}
SYMMETRY Symmetry
SPECIFICATION SavepointsSpec
INVARIANTS CommittedExact
