\* Two clients, a page of two records and a page of a long object.
CONSTANTS
    Threads = {t1, t2}
    NoThread = NoThread
    CellSize = 4
    Cells = 1
    NoCell = NoCell
    Pages = {p1, p2}
    FullPages = {p2}
    Records = {r1, r2}
    SapoThreads = {t1}
    Names = {s1, s2}
    MaxNumber = 3
    MaxSapos = 2
    MaxWrites = 3
    MaxStatements = 4
    Programs = {}
SYMMETRY Symmetry
SPECIFICATION SavepointsSpec
INVARIANTS SavepointsTypeOK ViewExact CommittedExact AtomicIndexExact CopiesHeld
PROPERTY OnlyFailedCreateForgets
