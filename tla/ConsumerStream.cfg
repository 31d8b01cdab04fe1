SPECIFICATION FairSpec
CONSTANTS
    Conns = {c1, c2}
    NoConn = NoConn
    RecordSize = 2
    ExportEnabled = TRUE
    MaxStarts = 1
    MaxFrames = 2
    MaxBytes = 5
INVARIANTS
    TypeOK
    RecordsAreWhole
PROPERTIES
    ServerStopEnds
    PendingIsServed
\* After the last stop() nothing has to happen.
CHECK_DEADLOCK FALSE
