\* Uploads, and downloads by signed URLs, in parallel, two workers, one failure, under fairness.
SPECIFICATION DownloadsSpec
CONSTANTS
    f1 = f1 s1 = s1 s2 = s2 w1 = w1 w2 = w2 d1 = d1 d2 = d2
    Null = Null
    FileIds = {f1}
    Slots = {s1, s2}
    Workers = {w1, w2}
    Indices <- MCIndices
    ChunkCounts = {0, 1, 2}
    Payloads = {d1, d2}
    Features = {"compression", "deduplication"}
    Regions <- MCRegions
    DefaultRegion = "east"
    Patches <- JustRename
    Ops = {"create", "upload", "download"}
    SameBytes = TRUE
    MaxFaults = 1
INVARIANTS ProcessingHasJob 
PROPERTIES UploadCompletes  
CHECK_DEADLOCK FALSE
