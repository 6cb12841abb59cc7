SPECIFICATION Spec
CONSTANTS
    Bytes = {0, 1}
    Nul = 0
    CheapPrepend = 1
    InitialSize = 2
    ExtraSize = 2
    MaxReadable = 3
    Chunks <- MCChunks
INVARIANTS
    TypeOK
    EmptyIsReset
PROPERTIES
    ImplementsByteQueue
