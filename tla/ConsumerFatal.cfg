SPECIFICATION Spec
CONSTANTS
    Conns = {c1, c2}
    NoConn = NoConn
    RecordSize = 2
    ExportEnabled = TRUE
    MaxStarts = 1
    MaxFrames = 1
    MaxBytes = 4
INVARIANTS
    FailureIsFatal
\* After the last stop() nothing has to happen.
CHECK_DEADLOCK FALSE
