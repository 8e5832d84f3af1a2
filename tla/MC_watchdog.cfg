\* Hangs, long steps, WDT commands and resets in any order, in ticks of 5 s.
SPECIFICATION FairSpec
CONSTANTS
    Normal <- MCNormal
    Slow <- MCSlow
    PassTime <- MCPassTime
    BlockTime <- MCBlockTime
    MaxResets = 3
INVARIANTS OnlyHangsAreReset WindowFits HistoryTells
PROPERTY HangIsReset
