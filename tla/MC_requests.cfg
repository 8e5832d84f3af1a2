\* One file, one handle, a card that may fail, a client that pipelines its
\* requests and may break the framing.  Three units and chunks of one give a
\* WRITE a gap of several chunks, a payload of several, and an end to append
\* to; a SETSTAT only grows the file.
SPECIFICATION FairSpec
CONSTANTS
    a = a
    b = b
    x = x
    zero = zero
    Names <- MCOneName
    Slots = {1}
    ReadChunk = 1
    WriteChunk = 1
    MaxSize = 3
    MaxRead = 2
    MaxInput = 2
    Symbols <- MCPayload
    Kinds <- MCRequestKinds
    Perms = {"keep"}
    Zero = zero
    Ids = {1, 2}
    MaxOpens = 1
    Payloads = {0, 1, 2}
    NewSizes = {3}
    OpenFlags <- MCRequestFlags
    CardFails = TRUE
    Rude = TRUE
INVARIANTS
    TypeOK
    FramesInStep
    OkMeansDone
PROPERTIES
    ImplementsService
    EveryRequestAnswered
