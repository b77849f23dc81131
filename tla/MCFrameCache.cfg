CONSTANTS
    Clients = {c1, c2}
    Dadrs = {d1, d2, d3}
    NoDadr = NoDadr
    MaxDadrLocks = 2
    Frames = {f1, f2}
    NoFrame = NoFrame
    NoClient = NoClient
    c1 = c1
    c2 = c2
    d1 = d1
    d2 = d2
    d3 = d3
    Reads <- ReadsOfBoth
    Writes <- WritesOfBoth
    MaxFix = 1
    IOFails = TRUE
SPECIFICATION FrameFairSpec
INVARIANTS FrameTypeOK BlockIOExclusive NoLostWakeup FixedViewExact CommitExact PrivateCopiesCurrent ChangedPageFound
PROPERTIES WaitingEnds
