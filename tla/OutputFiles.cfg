SPECIFICATION Spec
CONSTANTS
    Writers = {w1, w2}
    Seeds = {s1, s2}
    Seconds = 2
    MaxBatches = 4
    MaxCrashes = 1
INVARIANTS
    WrittenStays
    NothingLingers
\* The batches are bounded.
CHECK_DEADLOCK FALSE
