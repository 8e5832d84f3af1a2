\* Two handles on one file, every request, a WRITE of a chunk and its tail;
\* the client waits for each reply.
SPECIFICATION Spec
CONSTANTS
    a = a
    b = b
    x = x
    zero = zero
    Names <- MCOneName
    Slots = {1, 2}
    ReadChunk = 1
    WriteChunk = 2
    MaxSize = 3
    MaxRead = 1
    MaxInput = 3
    Symbols <- MCPayload
    Kinds <- AllKinds
    Perms = {"keep", "readonly", "invalid"}
    Zero = x
    Ids = {1}
    MaxOpens = 2
    Payloads = {3}
    NewSizes = {0, 1, 2, 3}
    OpenFlags <- MCFileFlags
    CardFails = FALSE
    Rude = FALSE
INVARIANT CursorsAreFresh
PROPERTIES
    ReadOnlyIsKept
    TokensAreNew
