\* Three clients and three records, exclusive locks, no time limit; a client may
\* remove the locks of another one.
CONSTANTS
    Clients = {c1, c2, c3}
    Records = {r1, r2, r3}
    FULLTABLE = FULLTABLE
    UsedTypes = {"TMPWLOCK"}
    UsedObjects = {r1, r2, r3}
    Breakable = {}
    IsCatalog = FALSE
    ChainLimit = 4
    MaxCells = 1
    TimedWaits = {FALSE}
    AdminUnlocks = TRUE
    NoClient = NoClient
SPECIFICATION Spec
INVARIANTS NoSleepingCycle
\* On a system with pthread_cond_wait all clients may sleep for ever.
CHECK_DEADLOCK FALSE
SYMMETRY Symmetry
