\* DELETE while other requests for the file are in flight.
SPECIFICATION Spec
CONSTANTS
    f1 = f1 s1 = s1 s2 = s2 w1 = w1 w2 = w2 d1 = d1 d2 = d2
    Null = Null
    FileIds = {f1}
    Slots = {s1, s2}
    Workers = {w1}
    Indices <- MCIndices
    ChunkCounts = {2}
    Payloads = {d1}
    Features = {}
    Regions <- MCRegions
    DefaultRegion = "east"
    Patches <- JustRename
    Ops = {"create", "upload", "update", "remove"}
    SameBytes = TRUE
    MaxFaults = 0
INVARIANTS DeletedStaysDeleted
CHECK_DEADLOCK FALSE
