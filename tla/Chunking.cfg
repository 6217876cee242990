SPECIFICATION Spec
CONSTANTS
    ChunkSize = 4
    MaxSafe = 100
    Sizes <- MCSizes
    SizeIsText = FALSE
INVARIANTS TypeOK FixedSize Contiguous CoversFile
CHECK_DEADLOCK FALSE
