\* Two threads and a file of two cells with two swap blocks each.
CONSTANTS
    Threads = {t1, t2}
    CellSize = 3
    Cells = 2
    NoCell = NoCell
SYMMETRY Symmetry
SPECIFICATION Spec
INVARIANT NoFreeBelowStart
