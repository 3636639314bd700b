CONSTANTS
    HEADER_SIZE = 2
    BUFFER_SIZE = 3
    MAX_U32 = 7
    MaxBytes = 6
    PayloadLengths <- Lengths
SPECIFICATION FairReaderSpec
INVARIANTS
    ReaderTypeOK
    BufferRespected
    ReadsSomething
    PulledIsRead
PROPERTIES
    FramesKept
    ArrivedIsRead
