------------------------------ MODULE Storage -------------------------------
(***************************************************************************)
(* StorageService: the rows of Region and StorageNode, the lookups other   *)
(* services make in them, and the requests of StorageController that write *)
(* them.  Replication extends this module; its workers save node rows too. *)
(*                                                                         *)
(* createRegion, deactivateRegion and createStorageNode are one action     *)
(* each: region rows are never deleted and only their `active` is ever     *)
(* written again, so that nothing can come between their lookup and their  *)
(* save.  updateStorageNodeStatus saves a whole node row it loaded before. *)
(***************************************************************************)
EXTENDS Integers

CONSTANTS
    RegionIds,     \* ids of region rows
    Names,         \* names of regions; two rows may have the same one
    NodeIds,       \* ids of storage nodes
    Capacities,    \* capacities, in bytes, that createStorageNode gets
    InitRegions,   \* the region rows there are at the start
    InitNodes,     \* the node rows there are at the start
    Admins,        \* requests for a node's status in flight
    AdminOps,      \* the requests of StorageController that are sent
    Null

NoRegion == [name |-> Null, active |-> FALSE]
NoNode   == [region |-> Null, capacity |-> 0, available |-> 0, online |-> FALSE]

Region == [name : Names, active : BOOLEAN] \cup {NoRegion}

(* status is any string; the code only tells 'online' from the others. *)
StorageNode == [region : RegionIds, capacity : Nat, available : Int, online : BOOLEAN]
                    \cup {NoNode}

ASSUME StorageAssumption ==
    /\ Null \notin Names \cup RegionIds \cup NodeIds
    /\ Capacities \subseteq Nat
    /\ InitRegions \in [RegionIds -> Region]
    /\ InitNodes \in [NodeIds -> StorageNode]
    /\ \A n \in NodeIds : InitNodes[n] # NoNode =>
          InitRegions[InitNodes[n].region] # NoRegion
    /\ AdminOps \subseteq {"createRegion", "deactivate", "createNode", "status"}

VARIABLES
    regions,   \* the Region rows, by id
    nodes,     \* the StorageNode rows, by id
    admin      \* the local state of updateStorageNodeStatus, per request

storageVars == <<regions, nodes, admin>>

AdminIdle == [at |-> "idle", node |-> Null, row |-> NoNode]
AdminState == [at : {"idle", "save"}, node : NodeIds \cup {Null}, row : StorageNode]

StorageInit ==
    /\ regions = InitRegions
    /\ nodes = InitNodes
    /\ admin = [a \in Admins |-> AdminIdle]

-----------------------------------------------------------------------------
(* Lookups.  findOneBy without an order may return any row that matches.   *)

getRegionByName(name) == {id \in RegionIds : regions[id].name = name /\ regions[id].active}

getStorageNodesInRegion(id) == {n \in NodeIds : nodes[n].region = id /\ nodes[n].online}

(* save() writes every column of the node in memory. *)
saveStorageNode(n, row) == nodes' = [nodes EXCEPT ![n] = row]

-----------------------------------------------------------------------------
(* Requests of StorageController *)

CreateRegion ==
    /\ "createRegion" \in AdminOps
    /\ \E id \in RegionIds, name \in Names :
          /\ regions[id] = NoRegion
          /\ regions' = [regions EXCEPT ![id] = [name |-> name, active |-> TRUE]]
    /\ UNCHANGED <<nodes, admin>>

DeactivateRegion ==
    /\ "deactivate" \in AdminOps
    /\ \E id \in RegionIds :
          /\ regions[id] # NoRegion
          /\ regions' = [regions EXCEPT ![id].active = FALSE]
    /\ UNCHANGED <<nodes, admin>>

(* The region must exist; it need not be active. *)
CreateStorageNode ==
    /\ "createNode" \in AdminOps
    /\ \E n \in NodeIds, id \in RegionIds, capacity \in Capacities :
          /\ nodes[n] = NoNode
          /\ regions[id] # NoRegion
          /\ saveStorageNode(n, [region |-> id, capacity |-> capacity,
                                 available |-> capacity, online |-> TRUE])
    /\ UNCHANGED <<regions, admin>>

StatusLoad(a) ==
    /\ "status" \in AdminOps
    /\ admin[a].at = "idle"
    /\ \E n \in NodeIds, online \in BOOLEAN :
          /\ nodes[n] # NoNode
          /\ admin' = [admin EXCEPT ![a] = [at |-> "save", node |-> n,
                                            row |-> [nodes[n] EXCEPT !.online = online]]]
    /\ UNCHANGED <<regions, nodes>>

StatusSave(a) ==
    /\ admin[a].at = "save"
    /\ saveStorageNode(admin[a].node, admin[a].row)
    /\ admin' = [admin EXCEPT ![a] = AdminIdle]
    /\ UNCHANGED regions

StorageNext ==
    \/ CreateRegion \/ DeactivateRegion \/ CreateStorageNode
    \/ \E a \in Admins : StatusLoad(a) \/ StatusSave(a)

-----------------------------------------------------------------------------

StorageTypeOK ==
    /\ regions \in [RegionIds -> Region]
    /\ nodes \in [NodeIds -> StorageNode]
    /\ admin \in [Admins -> AdminState]

=============================================================================
