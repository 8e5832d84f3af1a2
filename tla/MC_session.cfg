\* A polite client on a card that works, with two names for its file.
SPECIFICATION Spec
CONSTANTS
    a = a
    b = b
    x = x
    zero = zero
    Names <- MCTwoNames
    Slots = {1}
    ReadChunk = 1
    WriteChunk = 1
    MaxSize = 2
    MaxRead = 1
    MaxInput = 2
    Symbols <- MCPayload
    Kinds <- MCSessionKinds
    Perms = {"keep"}
    Zero = x
    Ids = {1}
    MaxOpens = 1
    Payloads = {2}
    NewSizes = {0, 1, 2}
    OpenFlags <- MCRequestFlags
    CardFails = FALSE
    Rude = FALSE
INVARIANT SessionSurvives
