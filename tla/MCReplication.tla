--------------------------- MODULE MCReplication ---------------------------
(* Small instances of Replication: a file of two chunks in region "east",  *)
(* and the target regions "west" and "north" with a node each.             *)
EXTENDS Replication, TLC

CONSTANTS f1, c1, c2, rEast, rWest, rNorth, nWest, nNorth, j1, j2, r1, r2, p1, a1

MCChunksOf == [f \in Files |-> {c1, c2}]

Active(name) == [name |-> name, active |-> TRUE]
MCRegions ==
    [id \in RegionIds |-> Active(CASE id = rEast -> "east" [] id = rWest -> "west"
                                    [] id = rNorth -> "north")]
(* The region "north" is still to be created. *)
MCOnlyWest == [id \in RegionIds |-> IF id = rWest THEN Active("west") ELSE NoRegion]

Node(id, bytes) == [region |-> id, capacity |-> bytes, available |-> bytes, online |-> TRUE]
MCNodes == [n \in NodeIds |-> IF n = nWest THEN Node(rWest, 4) ELSE Node(rNorth, 4)]
(* The other node is still to be created, in whatever region. *)
MCNodesLess == [n \in NodeIds |-> IF n = nWest THEN Node(rWest, 4) ELSE NoNode]

West      == {<<"west">>}
WestNorth == {<<"west", "north">>}

Symmetry == Permutations({c1, c2}) \cup Permutations({j1, j2}) \cup Permutations({r1, r2})
=============================================================================
