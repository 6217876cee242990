\* One policy for two regions.
SPECIFICATION Spec
CONSTANTS
    f1 = f1 c1 = c1 c2 = c2 rEast = rEast rWest = rWest rNorth = rNorth
    nWest = nWest nNorth = nNorth j1 = j1 j2 = j2 r1 = r1 r2 = r2 p1 = p1 a1 = a1
    Null = Null
    ChunksOf <- MCChunksOf
    Files = {f1}
    Chunks = {c1, c2}
    Names = {"east", "west", "north"}
    RegionIds = {rEast, rWest, rNorth}
    NodeIds = {nWest, nNorth}
    Capacities = {4}
    InitRegions <- MCRegions
    InitNodes <- MCNodes
    Admins = {}
    AdminOps = {}
    Targets <- WestNorth
    Jobs = {j1, j2}
    Runs = {r1}
    Workers = 1
    Clients = {p1}
    MaxPolicies = 1
    MaxFaults = 0
    InitRegion = "east"
INVARIANTS ReplicatedStillThere
CHECK_DEADLOCK FALSE
