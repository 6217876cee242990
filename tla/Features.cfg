\* Two jobs for one file that is changed and deleted meanwhile, under fairness; one failure.
SPECIFICATION FairSpec
CONSTANTS
    f1 = f1 j1 = j1 j2 = j2 r1 = r1 r2 = r2
    Null = Null
    Files = {f1}
    Indices <- MCIndices
    Jobs = {j1, j2}
    Runs = {r1, r2}
    MaxFaults = 1
INVARIANTS TypeOK TriedThreeTimes DeduplicationCompletes
PROPERTIES JobSettles JobLifeSpec
CHECK_DEADLOCK FALSE
