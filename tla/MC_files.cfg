\* Every key and every step of a copy on three small volumes, with a card that may
\* fail at any access; two entries to a page.
SPECIFICATION FairSpec
CONSTANTS
    a = a
    b = b
    c = c
    Names <- MCNames
    Typed <- MCTyped
    Content <- MCContent
    PageLen = 2
    Chunk = 1
    MaxDepth = 2
    MaxNodes = 7
    MaxEdits = 2
    Trees <- MCTrees
    CardFails = TRUE
INVARIANTS
    TypeOK
    ListIsFresh
    ClipboardKeepsUp
PROPERTIES
    CopyOnlyAdds
    CopiedIsWhole
    LossIsConfirmed
    CopyEnds
