SPECIFICATION FairSpec
CONSTANTS
    QueueCapacity = 2
    BatchMode = "volume"
    MaxPerFile = 2
    FlushInterval = 2
    MaxRecords = 5
INVARIANTS
    TypeOK
    NothingVanishes
    StopFlushes
PROPERTIES
    ImplementsArchive
    BatchIsWritten
    WriterEnds
\* stop() ends the exporter for good.
CHECK_DEADLOCK FALSE
