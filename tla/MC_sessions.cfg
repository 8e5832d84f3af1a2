\* Every command, with and without its proper data phase, and every failure of the
\* card; eject, load, and a detach as the screen allows it without the warning.
SPECIFICATION FairSpec
CONSTANTS
    d0 = d0
    d1 = d1
    Data <- MCData
    LineBlocks = 2
    CacheLines = 1
    CardBlocks = 2
    Ops <- MCAllOps
    Extents <- MCReplyExtents
    Lengths = {TRUE, FALSE}
    Faults <- MCAllFaults
    Forced = FALSE
    GivesUp = FALSE
INVARIANTS
    FailureHasSense
    UnforcedDetachIsClean
PROPERTIES
    NoStaleWrite
    EveryCommandEnds
    ImplementsBlockStore
