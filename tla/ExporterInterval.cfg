SPECIFICATION Spec
CONSTANTS
    QueueCapacity = 2
    BatchMode = "time"
    MaxPerFile = 2
    FlushInterval = 2
    MaxRecords = 5
INVARIANTS
    WrittenEveryInterval
\* stop() ends the exporter for good.
CHECK_DEADLOCK FALSE
