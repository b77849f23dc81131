\* No time limit: pthread_cond_wait.
CONSTANTS
    Clients = {c1, c2}
    Records = {r1}
    FULLTABLE = FULLTABLE
    UsedTypes = {"TMPWLOCK"}
    UsedObjects = {r1}
    Breakable = {}
    IsCatalog = FALSE
    ChainLimit = 3
    MaxCells = 1
    TimedWaits = {FALSE}
    AdminUnlocks = FALSE
    NoClient = NoClient
SPECIFICATION FairSpec
PROPERTIES FreeLockIsNoticed
