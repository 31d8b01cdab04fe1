SPECIFICATION CliSpec
CONSTANTS
    Capacity = 2
    Wrap = 4
    InitialSeq = 3
    CaptureEnabled = TRUE
    MaxStarts = 1
    MaxRecords = 3
INVARIANTS
    ExitZeroIsClean
PROPERTIES
    ShutdownEnds
\* The process ends.
CHECK_DEADLOCK FALSE
