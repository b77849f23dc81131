\* Two clients that lock a record or the whole system table; the write lock
\* that is released becomes a temporary one.  Every wait is limited, it may be
\* cancelled or end for lack of memory.
CONSTANTS
    Clients = {c1, c2}
    Records = {r1}
    FULLTABLE = FULLTABLE
    UsedTypes = {"WLOCK", "TMPRLOCK"}
    UsedObjects = {r1, FULLTABLE}
    Breakable = {c1}
    IsCatalog = TRUE
    ChainLimit = 3
    MaxCells = 1
    TimedWaits = {TRUE}
    AdminUnlocks = FALSE
    NoClient = NoClient
SPECIFICATION FairSpec
INVARIANTS TypeOK TempLocksLogged GrantedIsHeld NoConflictingLocks
PROPERTIES TimedWaitEnds
