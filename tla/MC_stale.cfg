\* The way out while the host has the card, against the comment on generation.
SPECIFICATION Spec
CONSTANTS
    d0 = d0
    d1 = d1
    Data <- MCData
    LineBlocks = 2
    CacheLines = 1
    CardBlocks = 3
    Ops <- MCCacheOps
    Extents <- MCShortExtents
    Lengths = {TRUE}
    Faults <- MCNoFaults
    Forced = TRUE
    GivesUp = FALSE
PROPERTY NoStaleWrite
