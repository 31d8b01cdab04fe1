SPECIFICATION Spec
CONSTANTS
    Conns = {c1, c2}
    NoConn = NoConn
    RecordSize = 2
    ExportEnabled = TRUE
    MaxStarts = 2
    MaxFrames = 1
    MaxBytes = 4
INVARIANTS
    OneConnection
    StopCloses
    LateOnlyIfAbandoned
\* After the last stop() nothing has to happen.
CHECK_DEADLOCK FALSE
