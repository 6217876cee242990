\* A policy and the job of the upload on two workers, orphaned copies, one failure; a node switched meanwhile.
SPECIFICATION Spec
CONSTANTS
    f1 = f1 c1 = c1 c2 = c2 rEast = rEast rWest = rWest rNorth = rNorth
    nWest = nWest nNorth = nNorth j1 = j1 j2 = j2 r1 = r1 r2 = r2 p1 = p1 a1 = a1
    Null = Null
    ChunksOf <- MCChunksOf
    Files = {f1}
    Chunks = {c1, c2}
    Names = {"east", "west"}
    RegionIds = {rWest}
    NodeIds = {nWest}
    Capacities = {4}
    InitRegions <- MCRegions
    InitNodes <- MCNodes
    Admins = {a1}
    AdminOps = {"status"}
    Targets <- West
    Jobs = {j1, j2}
    Runs = {r1, r2}
    Workers = 2
    Clients = {p1}
    MaxPolicies = 1
    MaxFaults = 1
    InitRegion = "east"
SYMMETRY Symmetry
INVARIANTS ReplicatedHasCopies
PROPERTIES JobLifeSpec
CHECK_DEADLOCK FALSE
