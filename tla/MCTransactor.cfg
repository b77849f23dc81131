\* Two threads and a file of three cells with two swap blocks each.
CONSTANTS
    Threads = {t1, t2}
    CellSize = 3
    Cells = 3
    NoCell = NoCell
SYMMETRY Symmetry
SPECIFICATION Spec
INVARIANT BlocksExclusive
