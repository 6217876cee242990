SPECIFICATION Spec
CONSTANTS
    ChunkSize = 4
    MaxSafe = 100
    Sizes <- MCSizes
    SizeIsText = TRUE
INVARIANTS FixedSize
CHECK_DEADLOCK FALSE
