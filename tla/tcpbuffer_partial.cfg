SPECIFICATION Spec
CONSTANTS
    Default = 4
    MaxCapacity = 7
    Chunk = 3
    MaxBytes = 16
CHECK_DEADLOCK FALSE
INVARIANTS
    GivenIsUnconsumed
