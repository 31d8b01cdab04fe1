SPECIFICATION Spec
CONSTANTS
    Capacity = 2
    Wrap = 4
    InitialSeq = 3
    CaptureEnabled = FALSE
    MaxStarts = 2
    MaxRecords = 5
INVARIANTS
    TypeOK
    StreamInOrder
    NoDuplicates
    BufferAccounting
    DropCounterLag
PROPERTIES
    ImplementsLossyFifo
