\* Every request that writes, two in flight for one file of two chunks, one failure.
SPECIFICATION Spec
CONSTANTS
    f1 = f1 s1 = s1 s2 = s2 w1 = w1 w2 = w2 d1 = d1 d2 = d2
    Null = Null
    FileIds = {f1}
    Slots = {s1, s2}
    Workers = {w1}
    Indices <- MCIndices
    ChunkCounts = {2}
    Payloads = {d1}
    Features = {"compression", "deduplication"}
    Regions <- MCRegions
    DefaultRegion = "east"
    Patches <- JustChangeAll
    Ops = {"create", "upload", "update", "remove", "download"}
    SameBytes = FALSE
    MaxFaults = 1
SYMMETRY Symmetry
VIEW Viewed
INVARIANTS TypeOK AvailableIsSettled ProcessedChunksHaveData
CHECK_DEADLOCK FALSE
