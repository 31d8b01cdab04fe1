SPECIFICATION Spec
CONSTANTS
    Byte = 2
    ValuesCount = 2
    DegreeE7 = 2
    MetreMm = 2
    MaxLatitude = 2
    MaxLongitude = 3
    MaxRecords = 2
    Inputs <- MCInputs
    Rows <- MCRows
    Clock <- MCClock
    DroppedTotals <- MCDroppedTotals
INVARIANTS
    AcceptedConfigRuns
    RecordSurvives
    FlagsAct
PROPERTIES
    TimestampsIncrease
\* A program that refuses its input, and the last record, end the run.
CHECK_DEADLOCK FALSE
