\* Objects 1 and FULLTABLE have the same hash in a table of 6 cells, and with
\* object 4 every cell can be used.
CONSTANTS
    Objects = {1, 4, 99}
    FULLTABLE = 99
    Product <- ProductOf
    Owners = {1}
    UsedTypes = {"WLOCK", "TMPWLOCK"}
    MaxSize = 12
    MaxLocks = 4
    EMPTY_CELL = EMPTY_CELL
    INVALID_CELL = INVALID_CELL
    NoLock = NoLock
SPECIFICATION Spec
INVARIANTS TypeOK CountsExact SearchEnds LocksReachable
PROPERTIES IsLockBag
