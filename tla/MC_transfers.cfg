\* Reads and writes on a card that fails, by a host that may give up on them.
SPECIFICATION Spec
CONSTANTS
    d0 = d0
    d1 = d1
    Data <- MCData
    LineBlocks = 2
    CacheLines = 1
    CardBlocks = 3
    Ops <- MCCacheOps
    Extents <- MCWideExtents
    Lengths = {TRUE}
    Faults <- MCAllFaults
    Forced = FALSE
    GivesUp = TRUE
SYMMETRY DataSymmetry
INVARIANTS
    InFlight
    CacheCoherent
    ResidueIsHonest
    DataPhaseDrained
