\* A failure while a chunk is uploaded, under fairness.
SPECIFICATION FairSpec
CONSTANTS
    f1 = f1 s1 = s1 s2 = s2 w1 = w1 w2 = w2 d1 = d1 d2 = d2
    Null = Null
    FileIds = {f1}
    Slots = {s1}
    Workers = {w1}
    Indices <- MCIndices
    ChunkCounts = {2}
    Payloads = {d1}
    Features = {}
    Regions <- MCRegions
    DefaultRegion = "east"
    Patches <- JustRename
    Ops = {"create", "upload"}
    SameBytes = TRUE
    MaxFaults = 1
PROPERTIES UploadSurvivesCrash
CHECK_DEADLOCK FALSE
