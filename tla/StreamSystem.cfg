SPECIFICATION FairSpec
CONSTANTS
    Capacity = 1
    Room = 1
    Window = 2
    Backlog = 2
    MaxRecords = 3
    MaxLives = 2
    MaxFaults = 3
INVARIANTS
    GapsAreDrops
    FaultFreeLossless
PROPERTIES
    ImplementsDelivery
    Drains
\* The records and the faults are bounded.
CHECK_DEADLOCK FALSE
