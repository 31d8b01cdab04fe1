SPECIFICATION Spec
CONSTANTS
    RecordSize = 3
    InitialCapacity = 1
    Candidates = 2
    MaxLines = 5
INVARIANTS
    OutputIsPrefix
    ExitZeroIsComplete
\* The program ends.
CHECK_DEADLOCK FALSE
