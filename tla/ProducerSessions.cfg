SPECIFICATION FairSpec
CONSTANTS
    Capacity = 2
    Wrap = 4
    InitialSeq = 3
    CaptureEnabled = TRUE
    MaxStarts = 2
    MaxRecords = 2
INVARIANTS
    CaptureFaithful
    StopReportsCaptureFailure
    StopJoins
PROPERTIES
    FinalAfterStop
    StopEnds
    CaptureFailureEndsThreads
    HeadMoves
