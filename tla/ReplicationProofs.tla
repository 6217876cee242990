------------------------- MODULE ReplicationProofs --------------------------
(***************************************************************************)
(* A region is listed in replicatedTo only with copies of all chunks.  The *)
(* argument needs no types of lists of regions: a job keeps its list, and  *)
(* node and region rows keep their region and their name, whoever saves    *)
(* them and from how long ago.                                             *)
(***************************************************************************)
EXTENDS Replication, FiniteSetTheorems, TLAPS

Live == [region : RegionIds, capacity : Nat, available : Int, online : BOOLEAN]

Queued(j) ==
    /\ DOMAIN jobs[j] = {"state", "file", "targets", "attempts", "stalls"}
    /\ jobs[j].file \in Files

Good(f, name) ==
    \A c \in ChunksOf[f] : \E n \in NodeIds : <<c, n>> \in placed /\ InRegion(n, name)

Target(q) == jobs[q.job].targets[q.k]

TablesInv ==
    /\ regions \in [RegionIds -> Region]
    /\ nodes \in [NodeIds -> Live \cup {NoNode}]
    /\ \A n \in NodeIds : nodes[n] \in Live => regions[nodes[n].region] # NoRegion
    /\ DOMAIN files = Files /\ DOMAIN jobs = Jobs
    /\ \A j \in Jobs : jobs[j] = NoJob \/ Queued(j)
    /\ ReplicatedHasCopies

(* A copy of a node row has the region of the row. *)
Mirrors(n, row) == n \in NodeIds /\ row \in Live /\ nodes[n] \in Live
                   /\ row.region = nodes[n].region

(* What an execution knows, in terms of the tables as they are now. *)
RunInv(q) ==
    /\ DOMAIN q = {"at", "job", "file", "k", "region", "node", "target", "copy", "row"}
    /\ DOMAIN q.copy = Chunks
    /\ \A c \in Chunks : q.copy[c] # "done" => q.at \in {"copy", "stray"}
    /\ q.job # Null => q.job \in Jobs /\ Queued(q.job) /\ q.file = jobs[q.job].file
    /\ q.at \notin {"idle", "stray"} => q.job # Null
    /\ q.at = "nodes" => /\ q.region \in RegionIds /\ regions[q.region] # NoRegion
                         /\ regions[q.region].name = Target(q)
    /\ q.at \in {"assemble", "copy", "stray"} => Mirrors(q.node, q.target)
    /\ q.at \in {"assemble", "copy", "metaLoad"} =>
          q.node \in NodeIds /\ nodes[q.node] \in Live /\ InRegion(q.node, Target(q))
    /\ q.at = "copy" => \A c \in ChunksOf[q.file] :
          q.copy[c] \in {"node", "done"} => <<c, q.node>> \in placed
    /\ q.at = "metaLoad" => \A c \in ChunksOf[q.file] : <<c, q.node>> \in placed
    /\ q.at = "metaSave" => \A name \in q.row.replicatedTo : Good(q.file, name)

PolicyInv(p) ==
    /\ DOMAIN p = {"at", "file", "targets", "new", "row"}
    /\ p.at # "idle" => p.file \in Files
    /\ p.at = "save" => \A name \in p.row.replicatedTo : Good(p.file, name)

AdminInv(a) == a.at = "save" => Mirrors(a.node, a.row)

IInv ==
    /\ TablesInv
    /\ DOMAIN runs = Runs /\ \A r \in Runs : RunInv(runs[r])
    /\ DOMAIN policy = Clients /\ \A c \in Clients : PolicyInv(policy[c])
    /\ DOMAIN admin = Admins /\ \A a \in Admins : AdminInv(admin[a])

(* What no step takes back. *)
Keeps ==
    /\ \A n \in NodeIds : nodes[n] \in Live =>
          nodes'[n] \in Live /\ nodes'[n].region = nodes[n].region
    /\ \A id \in RegionIds : regions[id] # NoRegion =>
          regions'[id] # NoRegion /\ regions'[id].name = regions[id].name
    /\ \A j \in Jobs : Queued(j) => /\ Queued(j)'
                                    /\ jobs'[j].file = jobs[j].file
                                    /\ jobs'[j].targets = jobs[j].targets
    /\ placed \subseteq placed'

-----------------------------------------------------------------------------

LEMMA KeepsInRegion ==
    ASSUME TablesInv, Keeps, NEW n \in NodeIds, nodes[n] \in Live, NEW name, InRegion(n, name)
    PROVE  InRegion(n, name)'
BY DEF TablesInv, Keeps, InRegion, Live

LEMMA KeepsGood ==
    ASSUME ReplicationAssumption, StorageAssumption, TablesInv, Keeps,
           NEW f \in Files, NEW name, Good(f, name)
    PROVE  Good(f, name)'
<1> SUFFICES ASSUME NEW c \in ChunksOf[f]
             PROVE  \E n \in NodeIds : <<c, n>> \in placed' /\ InRegion(n, name)'
    BY DEF Good
<1>1. PICK n \in NodeIds : <<c, n>> \in placed /\ InRegion(n, name)
    BY DEF Good
<1>2. nodes[n] \in Live
    BY <1>1 DEF InRegion, TablesInv, NoNode, StorageAssumption
<1>3. InRegion(n, name)'
    BY <1>1, <1>2, KeepsInRegion
<1> QED BY <1>1, <1>3 DEF Keeps

LEMMA KeepsRun ==
    ASSUME ReplicationAssumption, StorageAssumption, TablesInv, Keeps, NEW q, RunInv(q)
    PROVE  RunInv(q)'
<1>1. q.job # Null => q.job \in Jobs /\ Queued(q.job)' /\ q.file = jobs'[q.job].file
                      /\ jobs'[q.job].targets = jobs[q.job].targets
    BY DEF RunInv, Keeps
<1>2. q.job # Null => Target(q)' = Target(q)
    BY <1>1 DEF Target
<1>3. q.at = "nodes" => /\ q.region \in RegionIds /\ regions'[q.region] # NoRegion
                        /\ regions'[q.region].name = Target(q)'
    BY <1>2 DEF RunInv, Keeps
<1>4. q.at \in {"assemble", "copy", "stray"} => Mirrors(q.node, q.target)'
    BY DEF RunInv, Keeps, Mirrors
<1>5. q.at \in {"assemble", "copy", "metaLoad"} =>
          q.node \in NodeIds /\ nodes'[q.node] \in Live /\ InRegion(q.node, Target(q))'
    <2> SUFFICES ASSUME q.at \in {"assemble", "copy", "metaLoad"}
                 PROVE  q.node \in NodeIds /\ nodes'[q.node] \in Live
                        /\ InRegion(q.node, Target(q))'
        OBVIOUS
    <2>1. PICK name : name = Target(q)
        OBVIOUS
    <2>2. q.node \in NodeIds /\ nodes[q.node] \in Live /\ InRegion(q.node, name)
          /\ name = Target(q)'
        BY <1>2, <2>1 DEF RunInv
    <2>3. InRegion(q.node, name)'
        BY <2>2, KeepsInRegion
    <2> QED BY <2>2, <2>3 DEF Keeps, InRegion
<1>6. q.at = "metaSave" => \A name \in q.row.replicatedTo : Good(q.file, name)'
    BY KeepsGood DEF RunInv, Queued
<1>7. /\ q.at = "copy" => \A c \in ChunksOf[q.file] :
            q.copy[c] \in {"node", "done"} => <<c, q.node>> \in placed'
      /\ q.at = "metaLoad" => \A c \in ChunksOf[q.file] : <<c, q.node>> \in placed'
    BY DEF RunInv, Keeps
<1> QED BY <1>1, <1>3, <1>4, <1>5, <1>6, <1>7 DEF RunInv

LEMMA KeepsPolicy ==
    ASSUME ReplicationAssumption, StorageAssumption, TablesInv, Keeps, NEW p, PolicyInv(p)
    PROVE  PolicyInv(p)'
BY KeepsGood DEF PolicyInv

LEMMA KeepsAdmin ==
    ASSUME TablesInv, Keeps, NEW a, AdminInv(a)
    PROVE  AdminInv(a)'
BY DEF AdminInv, Mirrors, Keeps

LEMMA IdleRun == RunInv(RunIdle)
BY DEF RunInv, RunIdle

-----------------------------------------------------------------------------
(* The queue: a job keeps its file and its targets.                        *)

JobsOK ==
    /\ DOMAIN jobs' = Jobs
    /\ \A j \in Jobs :
          \/ jobs[j] = NoJob /\ jobs'[j] = NoJob
          \/ /\ Queued(j)'
             /\ Queued(j) => /\ jobs'[j].file = jobs[j].file
                             /\ jobs'[j].targets = jobs[j].targets

LEMMA QueuedIsJob ==
    ASSUME NEW j \in Jobs, Queued(j) PROVE jobs[j] # NoJob
BY DEF Queued, NoJob

LEMMA JobsSame == ASSUME TablesInv, UNCHANGED jobs PROVE JobsOK
BY DEF TablesInv, JobsOK, Queued

LEMMA JobsNew ==
    ASSUME TablesInv, NEW f \in Files, NEW t, NEW a, NewJob(f, t, a) PROVE JobsOK
<1>1. PICK j \in Jobs :
         /\ jobs[j] = NoJob
         /\ jobs' = [jobs EXCEPT ![j] = [state |-> "waiting", file |-> f, targets |-> t,
                                         attempts |-> a, stalls |-> 1]]
    BY DEF NewJob
<1>2. Queued(j)'
    BY <1>1 DEF TablesInv, Queued
<1>3. ~Queued(j)
    BY <1>1, QueuedIsJob
<1>4. \A i \in Jobs \ {j} : jobs'[i] = jobs[i]
    BY <1>1 DEF TablesInv
<1> QED BY <1>1, <1>2, <1>3, <1>4 DEF TablesInv, JobsOK, Queued

LEMMA JobMoves ==
    ASSUME TablesInv, NEW j \in Jobs, Queued(j), NEW job,
           DOMAIN job = DOMAIN jobs[j], job.file = jobs[j].file, job.targets = jobs[j].targets,
           jobs' = [jobs EXCEPT ![j] = job]
    PROVE  JobsOK
<1>1. jobs'[j] = job /\ \A i \in Jobs \ {j} : jobs'[i] = jobs[i]
    BY DEF TablesInv
<1>2. Queued(j)'
    BY <1>1 DEF Queued
<1> QED BY <1>1, <1>2 DEF TablesInv, JobsOK, Queued

LEMMA JobGoto ==
    ASSUME TablesInv, NEW j \in Jobs, Queued(j), NEW state,
           jobs' = [jobs EXCEPT ![j].state = state]
    PROVE  JobsOK
<1>1. PICK job : job = [jobs[j] EXCEPT !.state = state]
    OBVIOUS
<1>2. DOMAIN job = DOMAIN jobs[j] /\ job.file = jobs[j].file /\ job.targets = jobs[j].targets
    BY <1>1 DEF Queued
<1>3. jobs' = [jobs EXCEPT ![j] = job]
    BY <1>1
<1> QED BY <1>2, <1>3, JobMoves

LEMMA JobRetried ==
    ASSUME TablesInv, NEW j \in Jobs, Queued(j), jobs' = [jobs EXCEPT ![j] = Retried(@)]
    PROVE  JobsOK
<1>1. PICK job : job = Retried(jobs[j])
    OBVIOUS
<1>2. DOMAIN job = DOMAIN jobs[j] /\ job.file = jobs[j].file /\ job.targets = jobs[j].targets
    BY <1>1 DEF Retried, Queued
<1>3. jobs' = [jobs EXCEPT ![j] = job]
    BY <1>1
<1> QED BY <1>2, <1>3, JobMoves

LEMMA JobsStalled == ASSUME TablesInv, jobs' = StallActive(jobs) PROVE JobsOK
<1>1. ASSUME NEW j \in Jobs, Queued(j)
      PROVE  Queued(j)' /\ jobs'[j].file = jobs[j].file /\ jobs'[j].targets = jobs[j].targets
    BY <1>1 DEF StallActive, Stalled, TablesInv, Queued
<1>2. ASSUME NEW j \in Jobs, jobs[j] = NoJob PROVE jobs'[j] = NoJob
    <2>1. jobs[j].state # "active"
        BY <1>2 DEF NoJob
    <2> QED BY <1>2, <2>1 DEF StallActive, TablesInv
<1> QED BY <1>1, <1>2 DEF TablesInv, JobsOK, StallActive

-----------------------------------------------------------------------------
(* What the parts of a step contribute. *)

LEMMA TablesStep ==
    ASSUME ReplicationAssumption, StorageAssumption, IInv, JobsOK, UNCHANGED <<regions, nodes>>,
           placed \subseteq placed', DOMAIN files' = Files,
           \A f \in Files : \A name \in files'[f].replicatedTo : Good(f, name)
    PROVE  Keeps /\ TablesInv'
<1>1. Keeps
    <2>1. \A j \in Jobs : Queued(j) => /\ Queued(j)' /\ jobs'[j].file = jobs[j].file
                                       /\ jobs'[j].targets = jobs[j].targets
        BY QueuedIsJob DEF JobsOK
    <2> QED BY <2>1 DEF Keeps
<1>2. ReplicatedHasCopies'
    BY <1>1, KeepsGood DEF IInv, ReplicatedHasCopies, Good
<1>3. DOMAIN jobs' = Jobs /\ \A j \in Jobs : jobs'[j] = NoJob \/ Queued(j)'
    BY DEF JobsOK
<1> QED BY <1>1, <1>2, <1>3 DEF IInv, TablesInv

LEMMA SameTables ==
    ASSUME ReplicationAssumption, StorageAssumption, IInv, JobsOK,
           UNCHANGED <<regions, nodes, files>>, placed \subseteq placed'
    PROVE  Keeps /\ TablesInv'
BY TablesStep DEF IInv, TablesInv, ReplicatedHasCopies, Good

LEMMA NodeStep ==
    ASSUME ReplicationAssumption, StorageAssumption, IInv, UNCHANGED <<regions, files, jobs, placed>>,
           NEW n, NEW row, Mirrors(n, row), saveStorageNode(n, row)
    PROVE  Keeps /\ TablesInv'
<1>1. nodes'[n] = row /\ \A m \in NodeIds \ {n} : nodes'[m] = nodes[m]
    BY DEF saveStorageNode, Mirrors, IInv, TablesInv
<1>2. nodes' \in [NodeIds -> Live \cup {NoNode}]
    BY DEF saveStorageNode, Mirrors, IInv, TablesInv
<1>3. Keeps
    BY <1>1 DEF Keeps, Mirrors, Queued
<1>4. ReplicatedHasCopies'
    BY <1>3, KeepsGood DEF IInv, TablesInv, ReplicatedHasCopies, Good
<1>5. \A m \in NodeIds : nodes'[m] \in Live => regions[nodes'[m].region] # NoRegion
    BY <1>1 DEF Mirrors, IInv, TablesInv
<1> QED BY <1>2, <1>3, <1>4, <1>5 DEF IInv, TablesInv, Queued

LEMMA SameRuns ==
    ASSUME ReplicationAssumption, StorageAssumption, IInv, Keeps, UNCHANGED runs
    PROVE  DOMAIN runs' = Runs /\ \A r \in Runs : RunInv(runs[r])'
<1>1. ASSUME NEW r \in Runs PROVE RunInv(runs[r])'
    <2>1. PICK u : u = runs[r]
        OBVIOUS
    <2>2. RunInv(u)'
        BY <2>1, KeepsRun DEF IInv
    <2> QED BY <2>1, <2>2 DEF RunInv, Target
<1> QED BY <1>1 DEF IInv

LEMMA SamePolicies ==
    ASSUME ReplicationAssumption, StorageAssumption, IInv, Keeps, UNCHANGED policy
    PROVE  DOMAIN policy' = Clients /\ \A c \in Clients : PolicyInv(policy[c])'
BY KeepsPolicy DEF IInv, PolicyInv

LEMMA SameAdmins ==
    ASSUME IInv, Keeps, UNCHANGED admin
    PROVE  DOMAIN admin' = Admins /\ \A a \in Admins : AdminInv(admin[a])'
BY KeepsAdmin DEF IInv, AdminInv

LEMMA RunStep ==
    ASSUME ReplicationAssumption, StorageAssumption, IInv, Keeps, TablesInv',
           NEW r \in Runs, NEW q, RunInv(q) \/ RunInv(q)',
           runs' = [runs EXCEPT ![r] = q], UNCHANGED <<policy, admin>>
    PROVE  IInv'
<1>1. runs'[r] = q /\ \A s \in Runs \ {r} : runs'[s] = runs[s]
    BY DEF IInv
<1>2. RunInv(q)'
    BY KeepsRun DEF IInv
<1>3. \A s \in Runs : RunInv(runs[s])'
    <2>1. ASSUME NEW s \in Runs \ {r} PROVE RunInv(runs[s])'
        <3>1. PICK u : u = runs[s]
            OBVIOUS
        <3>2. RunInv(u)'
            BY <3>1, KeepsRun DEF IInv
        <3>3. runs'[s] = u
            BY <1>1, <3>1
        <3> QED BY <3>2, <3>3 DEF RunInv, Target
    <2>2. RunInv(runs[r])'
        BY <1>1, <1>2 DEF RunInv, Target
    <2> QED BY <2>1, <2>2
<1> QED BY <1>3, SamePolicies, SameAdmins DEF IInv

LEMMA PolicyStep ==
    ASSUME ReplicationAssumption, StorageAssumption, IInv, Keeps, TablesInv',
           NEW c \in Clients, NEW p, PolicyInv(p), policy' = [policy EXCEPT ![c] = p],
           UNCHANGED <<runs, admin>>
    PROVE  IInv'
<1>1. policy'[c] = p /\ \A d \in Clients \ {c} : policy'[d] = policy[d]
    BY DEF IInv
<1>2. \A d \in Clients : PolicyInv(policy[d])'
    <2>1. ASSUME NEW d \in Clients PROVE PolicyInv(policy[d])'
        <3>1. PICK u : u = policy'[d]
            OBVIOUS
        <3>2. PolicyInv(u)'
            BY <1>1, <3>1, KeepsPolicy DEF IInv
        <3> QED BY <3>1, <3>2 DEF PolicyInv
    <2> QED BY <2>1
<1> QED BY <1>2, SameRuns, SameAdmins DEF IInv

-----------------------------------------------------------------------------
(* The actions *)

LEMMA InitIInv ==
    ASSUME ReplicationAssumption, StorageAssumption, Init PROVE IInv
<1> USE DEF Init, StorageInit
<1>1. TablesInv
    <2>1. StorageNode = Live \cup {NoNode}
        BY DEF StorageNode, Live
    <2>2. \A n \in NodeIds : nodes[n] \in Live => nodes[n] # NoNode
        BY DEF Live, NoNode, StorageAssumption
    <2> QED BY <2>1, <2>2 DEF TablesInv, StorageAssumption, ReplicatedHasCopies
<1>2. \A r \in Runs : RunInv(runs[r])
    BY IdleRun
<1>3. \A c \in Clients : PolicyInv(policy[c])
    BY DEF PolicyInv, PolicyIdle
<1>4. \A a \in Admins : AdminInv(admin[a])
    BY DEF AdminInv, AdminIdle
<1> QED BY <1>1, <1>2, <1>3, <1>4 DEF IInv

LEMMA RegionsStep ==
    ASSUME ReplicationAssumption, StorageAssumption, IInv, UNCHANGED <<files, jobs, placed>>,
           regions' \in [RegionIds -> Region],
           nodes' \in [NodeIds -> Live \cup {NoNode}],
           \A id \in RegionIds : regions[id] # NoRegion =>
              regions'[id] # NoRegion /\ regions'[id].name = regions[id].name,
           \A n \in NodeIds : nodes[n] \in Live => nodes'[n] = nodes[n],
           \A n \in NodeIds : nodes'[n] \in Live => regions[nodes'[n].region] # NoRegion
    PROVE  Keeps /\ TablesInv'
<1>1. Keeps
    BY DEF Keeps, Queued
<1>2. ReplicatedHasCopies'
    BY <1>1, KeepsGood DEF IInv, TablesInv, ReplicatedHasCopies, Good
<1>3. \A n \in NodeIds : nodes'[n] \in Live => regions'[nodes'[n].region] # NoRegion
    BY DEF Live
<1> QED BY <1>1, <1>2, <1>3 DEF IInv, TablesInv, Queued

LEMMA AdminStep ==
    ASSUME ReplicationAssumption, StorageAssumption, IInv, Administration PROVE IInv'
<1> USE DEF Administration
<1>1. JobsOK
    BY JobsSame DEF IInv
<1>2. ASSUME Keeps, TablesInv', UNCHANGED admin PROVE IInv'
    BY <1>2, SameRuns, SamePolicies, SameAdmins DEF IInv
<1>t. /\ regions \in [RegionIds -> Region]
      /\ nodes \in [NodeIds -> Live \cup {NoNode}]
      /\ \A n \in NodeIds : nodes[n] \in Live => regions[nodes[n].region] # NoRegion
      /\ NoNode \notin Live
    BY DEF IInv, TablesInv, NoNode, Live, StorageAssumption
<1>3. CASE CreateRegion
    <2>1. PICK id \in RegionIds, name \in Names :
             /\ regions[id] = NoRegion
             /\ regions' = [regions EXCEPT ![id] = [name |-> name, active |-> TRUE]]
        BY <1>3 DEF CreateRegion
    <2>2. /\ regions' \in [RegionIds -> Region]
          /\ \A i \in RegionIds \ {id} : regions'[i] = regions[i]
        BY <1>t, <2>1 DEF Region
    <2> QED BY <1>2, <1>3, <1>t, <2>1, <2>2, RegionsStep DEF CreateRegion
<1>4. CASE DeactivateRegion
    <2>1. PICK id \in RegionIds :
             /\ regions[id] # NoRegion
             /\ regions' = [regions EXCEPT ![id].active = FALSE]
        BY <1>4 DEF DeactivateRegion
    <2>2. /\ regions' \in [RegionIds -> Region]
          /\ regions'[id] # NoRegion /\ regions'[id].name = regions[id].name
          /\ \A i \in RegionIds \ {id} : regions'[i] = regions[i]
        <3>1. regions[id] \in [name : Names, active : BOOLEAN]
            BY <1>t, <2>1 DEF Region
        <3>2. [regions[id] EXCEPT !.active = FALSE] \in [name : Names, active : BOOLEAN]
            BY <3>1
        <3>3. NoRegion \notin [name : Names, active : BOOLEAN]
            BY DEF NoRegion, StorageAssumption
        <3>4. regions'[id] = [regions[id] EXCEPT !.active = FALSE]
            BY <1>t, <2>1
        <3> QED BY <1>t, <2>1, <3>1, <3>2, <3>3, <3>4 DEF Region
    <2> QED BY <1>2, <1>4, <1>t, <2>1, <2>2, RegionsStep DEF DeactivateRegion
<1>5. CASE CreateStorageNode
    <2>1. PICK n \in NodeIds, id \in RegionIds, capacity \in Capacities :
             /\ nodes[n] = NoNode /\ regions[id] # NoRegion
             /\ nodes' = [nodes EXCEPT ![n] = [region |-> id, capacity |-> capacity,
                                               available |-> capacity, online |-> TRUE]]
        BY <1>5 DEF CreateStorageNode, saveStorageNode
    <2>2. [region |-> id, capacity |-> capacity, available |-> capacity, online |-> TRUE] \in Live
        BY DEF Live, StorageAssumption
    <2>3. /\ nodes' \in [NodeIds -> Live \cup {NoNode}]
          /\ nodes'[n].region = id
          /\ \A m \in NodeIds \ {n} : nodes'[m] = nodes[m]
        BY <1>t, <2>1, <2>2
    <2> QED BY <1>2, <1>5, <1>t, <2>1, <2>3, RegionsStep DEF CreateStorageNode
<1>6. ASSUME NEW a \in Admins, StatusLoad(a) PROVE IInv'
    <2>1. PICK n \in NodeIds, online \in BOOLEAN :
             /\ nodes[n] # NoNode
             /\ admin' = [admin EXCEPT ![a] = [at |-> "save", node |-> n,
                                               row |-> [nodes[n] EXCEPT !.online = online]]]
        BY <1>6 DEF StatusLoad
    <2>2. Mirrors(n, [nodes[n] EXCEPT !.online = online])
        BY <1>t, <2>1 DEF Mirrors, Live
    <2>3. Keeps /\ TablesInv'
        BY <1>1, <1>6, SameTables DEF StatusLoad
    <2>4. \A b \in Admins : AdminInv(admin[b])'
        BY <1>6, <2>1, <2>2 DEF IInv, AdminInv, Mirrors, StatusLoad
    <2>5. DOMAIN admin' = Admins
        BY <2>1 DEF IInv
    <2> QED BY <1>6, <2>3, <2>4, <2>5, SameRuns, SamePolicies DEF IInv
<1>7. ASSUME NEW a \in Admins, StatusSave(a) PROVE IInv'
    <2>1. Keeps /\ TablesInv'
        BY <1>7, NodeStep DEF StatusSave, IInv, AdminInv
    <2>2. admin'[a].at = "idle" /\ \A b \in Admins \ {a} : admin'[b] = admin[b]
        BY <1>7 DEF StatusSave, IInv, AdminIdle
    <2>3. \A b \in Admins : AdminInv(admin[b])'
        BY <2>1, <2>2, KeepsAdmin DEF IInv, AdminInv
    <2>4. DOMAIN admin' = Admins
        BY <1>7 DEF IInv, StatusSave
    <2> QED BY <2>1, <2>3, <2>4, SameRuns, SamePolicies DEF IInv
<1> QED BY <1>3, <1>4, <1>5, <1>6, <1>7 DEF StorageNext

LEMMA UploadStep ==
    ASSUME ReplicationAssumption, StorageAssumption, IInv, NEW f \in Files, UploadFinishes(f)
    PROVE  IInv'
<1>1. JobsOK
    BY JobsSame, JobsNew DEF UploadFinishes, IInv
<1>2. Keeps /\ TablesInv'
    BY <1>1, SameTables DEF UploadFinishes, storageVars
<1> QED BY <1>2, SameRuns, SamePolicies, SameAdmins DEF IInv, UploadFinishes, storageVars

LEMMA PolicySteps ==
    ASSUME ReplicationAssumption, StorageAssumption, IInv, NEW c \in Clients,
           PolicyLoad(c) \/ Policy(c) \/ RequestFails(c)
    PROVE  IInv'
<1> USE DEF storageVars
<1>1. PolicyInv(policy[c]) /\ TablesInv
    BY DEF IInv
<1>2. PolicyInv(PolicyIdle)
    BY DEF PolicyInv, PolicyIdle
<1>3. ASSUME NEW p, PolicyInv(p), policy' = [policy EXCEPT ![c] = p], JobsOK,
             UNCHANGED <<regions, nodes, admin, files, placed, runs>>
      PROVE  IInv'
    BY <1>3, SameTables, PolicyStep
<1>4. UNCHANGED jobs => JobsOK
    BY <1>1, JobsSame
<1>5. CASE PolicyLoad(c)
    <2>f. PICK f \in Files, targets \in Targets :
             policy' = [policy EXCEPT ![c] = [at |-> "check", file |-> f, targets |-> targets,
                                              new |-> << >>, row |-> files[f]]]
        BY <1>5 DEF PolicyLoad
    <2>1. PICK p : /\ p = [at |-> "check", file |-> f, targets |-> targets, new |-> << >>,
                           row |-> files[f]]
                   /\ policy' = [policy EXCEPT ![c] = p]
        BY <2>f
    <2>2. PolicyInv(p)
        BY <2>1 DEF PolicyInv
    <2> QED BY <1>3, <1>4, <1>5, <2>1, <2>2 DEF PolicyLoad
<1>6. CASE PolicyCheck(c)
    <2>1. PICK p : /\ p \in {[policy[c] EXCEPT !.at = "reload"], PolicyIdle}
                   /\ policy' = [policy EXCEPT ![c] = p]
        BY <1>6 DEF PolicyCheck
    <2>2. PolicyInv(p)
        BY <1>1, <1>2, <1>6, <2>1 DEF PolicyInv, PolicyCheck
    <2> QED BY <1>3, <1>4, <1>6, <2>1, <2>2 DEF PolicyCheck
<1>7. CASE PolicyReload(c)
    <2>1. PICK p, list, new :
             /\ p = [policy[c] EXCEPT
                       !.at = "save",
                       !.row = [regions |-> list,
                                replicatedTo |-> files[policy[c].file].replicatedTo],
                       !.new = new]
             /\ policy' = [policy EXCEPT ![c] = p]
        BY <1>7 DEF PolicyReload
    <2>2. policy[c].file \in Files
        BY <1>1, <1>7 DEF PolicyInv, PolicyReload
    <2>3. \A name \in files[policy[c].file].replicatedTo : Good(policy[c].file, name)
        BY <1>1, <2>2 DEF TablesInv, ReplicatedHasCopies, Good
    <2>4. p.row.replicatedTo = files[policy[c].file].replicatedTo /\ p.file = policy[c].file
          /\ DOMAIN p = DOMAIN policy[c]
        BY <1>1, <2>1 DEF PolicyInv
    <2>5. PolicyInv(p)
        BY <1>1, <2>2, <2>3, <2>4 DEF PolicyInv
    <2> QED BY <1>3, <1>4, <1>7, <2>1, <2>5 DEF PolicyReload
<1>8. CASE PolicySave(c)
    <2>1. PICK f, row, p : /\ f = policy[c].file /\ row = policy[c].row
                           /\ files' = [files EXCEPT ![f] = row]
                           /\ p \in {[policy[c] EXCEPT !.at = "answer"],
                                     [policy[c] EXCEPT !.at = "queue"]}
                           /\ policy' = [policy EXCEPT ![c] = p]
        BY <1>8 DEF PolicySave
    <2>2. f \in Files /\ \A name \in row.replicatedTo : Good(f, name)
        BY <1>1, <1>8, <2>1 DEF PolicyInv, PolicySave
    <2>3. \A g \in Files : \A name \in files'[g].replicatedTo : Good(g, name)
        BY <1>1, <2>1, <2>2 DEF TablesInv, ReplicatedHasCopies, Good
    <2>4. Keeps /\ TablesInv'
        BY <1>1, <1>4, <1>8, <2>1, <2>3, TablesStep DEF PolicySave, TablesInv
    <2>5. PolicyInv(p)
        BY <1>1, <2>1, <2>2 DEF PolicyInv
    <2> QED BY <1>8, <2>1, <2>4, <2>5, PolicyStep DEF PolicySave
<1>9. CASE PolicyQueue(c)
    <2>1. PICK p : /\ p = [policy[c] EXCEPT !.at = "answer"]
                   /\ policy' = [policy EXCEPT ![c] = p]
        BY <1>9 DEF PolicyQueue
    <2>2. PolicyInv(p) /\ policy[c].file \in Files
        BY <1>1, <1>9, <2>1 DEF PolicyInv, PolicyQueue
    <2>3. JobsOK
        BY <1>1, <1>9, <2>2, JobsNew DEF PolicyQueue
    <2> QED BY <1>3, <1>9, <2>1, <2>2, <2>3 DEF PolicyQueue
<1>10. CASE PolicyAnswer(c) \/ RequestFails(c)
    BY <1>2, <1>3, <1>4, <1>10 DEF PolicyAnswer, RequestFails
<1> QED BY <1>5, <1>6, <1>7, <1>8, <1>9, <1>10 DEF Policy

LEMMA CrashStep ==
    ASSUME ReplicationAssumption, StorageAssumption, IInv, Crash
    PROVE  IInv'
<1>1. Keeps /\ TablesInv'
    BY JobsStalled, SameTables DEF Crash, IInv
<1>2. \A r \in Runs : RunInv(runs[r])'
    BY IdleRun DEF Crash, RunInv, RunIdle
<1>3. \A c \in Clients : PolicyInv(policy[c])'
    BY DEF PolicyInv, Crash, PolicyIdle
<1>4. \A a \in Admins : AdminInv(admin[a])'
    BY DEF AdminInv, Crash, AdminIdle
<1> QED BY <1>1, <1>2, <1>3, <1>4 DEF IInv, Crash

-----------------------------------------------------------------------------
(* Steps of an execution *)

LEMMA RunMoves ==
    ASSUME ReplicationAssumption, StorageAssumption, IInv, NEW r \in Runs, NEW q,
           RunInv(q) \/ RunInv(q)', runs' = [runs EXCEPT ![r] = q], JobsOK,
           UNCHANGED <<regions, nodes, admin, files, policy>>, placed \subseteq placed'
    PROVE  IInv'
BY SameTables, RunStep

LEMMA RunThrows ==
    ASSUME ReplicationAssumption, StorageAssumption, IInv, NEW r \in Runs, runs[r].job # Null,
           Throws(r), UNCHANGED <<regions, nodes, admin, files, placed, policy>>
    PROVE  IInv'
<1>1. runs[r].job \in Jobs /\ Queued(runs[r].job) /\ TablesInv
    BY DEF IInv, RunInv
<1>2. JobsOK
    BY <1>1, JobRetried DEF Throws
<1> QED BY <1>2, IdleRun, RunMoves DEF Throws, RunEnds

LEMMA StartSteps ==
    ASSUME ReplicationAssumption, StorageAssumption, IInv, NEW r \in Runs,
           TakeJob(r) \/ FindRegion(r) \/ FindNode(r) \/ Assemble(r)
    PROVE  IInv'
<1> USE DEF storageVars
<1>1. RunInv(runs[r]) /\ TablesInv
    BY DEF IInv
<1>2. UNCHANGED jobs => JobsOK
    BY <1>1, JobsSame
<1>3. CASE TakeJob(r)
    <2>1. PICK j \in Jobs :
             /\ jobs[j].state = "waiting"
             /\ jobs' = [jobs EXCEPT ![j].state = "active"]
             /\ runs' = [runs EXCEPT ![r] = [RunIdle EXCEPT !.at = "region", !.job = j,
                                                !.file = jobs[j].file, !.k = 1]]
        BY <1>3 DEF TakeJob
    <2>2. PICK q : q = [RunIdle EXCEPT !.at = "region", !.job = j, !.file = jobs[j].file, !.k = 1]
        OBVIOUS
    <2>3. Queued(j)
        BY <1>1, <2>1 DEF TablesInv, NoJob
    <2>4. RunInv(q)
        BY <2>2, <2>3 DEF RunInv, RunIdle
    <2>5. JobsOK
        BY <1>1, <2>1, <2>3, JobGoto
    <2> QED BY <1>3, <2>1, <2>2, <2>4, <2>5, RunMoves DEF TakeJob
<1>4. CASE FindRegion(r)
    <2>1. CASE Throws(r)
        BY <1>1, <1>4, <2>1, RunThrows DEF FindRegion, RunAt, RunInv
    <2>2. CASE ~Throws(r)
        <3>1. PICK id \in getRegionByName(TargetRegion(r)) :
                 runs' = [runs EXCEPT ![r].at = "nodes", ![r].region = id]
            BY <1>4, <2>2 DEF FindRegion
        <3>2. PICK q : q = [runs[r] EXCEPT !.at = "nodes", !.region = id]
            OBVIOUS
        <3>3. id \in RegionIds /\ regions[id].name = TargetRegion(r) /\ regions[id] # NoRegion
            BY <3>1 DEF getRegionByName, NoRegion
        <3>4. q.at = "nodes" /\ q.region = id /\ q.job = runs[r].job /\ q.k = runs[r].k
              /\ q.file = runs[r].file /\ q.copy = runs[r].copy /\ DOMAIN q = DOMAIN runs[r]
            BY <1>1, <3>2 DEF RunInv
        <3>5. runs[r].at = "region"
            BY <1>4 DEF FindRegion, RunAt
        <3>6. RunInv(q)
            BY <1>1, <3>3, <3>4, <3>5 DEF RunInv, Target, TargetRegion
        <3>7. runs' = [runs EXCEPT ![r] = q]
            BY <3>1, <3>2
        <3> QED BY <1>2, <1>4, <2>2, <3>6, <3>7, RunMoves DEF FindRegion
    <2> QED BY <2>1, <2>2
<1>5. CASE FindNode(r)
    <2>1. CASE Throws(r)
        BY <1>1, <1>5, <2>1, RunThrows DEF FindNode, RunAt, RunInv
    <2>2. CASE ~Throws(r)
        <3>1. PICK n \in getStorageNodesInRegion(runs[r].region) :
                 runs' = [runs EXCEPT ![r].at = "assemble", ![r].node = n, ![r].target = nodes[n]]
            BY <1>5, <2>2 DEF FindNode
        <3>2. PICK q : q = [runs[r] EXCEPT !.at = "assemble", !.node = n, !.target = nodes[n]]
            OBVIOUS
        <3>3. /\ runs[r].at = "nodes" /\ runs[r].region \in RegionIds
              /\ regions[runs[r].region].name = Target(runs[r])
            BY <1>1, <1>5 DEF FindNode, RunAt, RunInv
        <3>4. n \in NodeIds /\ nodes[n].region = runs[r].region /\ nodes[n] \in Live
            BY <1>1, <3>1, <3>3 DEF getStorageNodesInRegion, TablesInv, NoNode, StorageAssumption
        <3>5. /\ q.at = "assemble" /\ q.node = n /\ q.target = nodes[n] /\ q.job = runs[r].job
              /\ q.k = runs[r].k /\ q.file = runs[r].file /\ q.copy = runs[r].copy
              /\ DOMAIN q = DOMAIN runs[r]
            BY <1>1, <3>2 DEF RunInv
        <3>6. InRegion(n, Target(q)) /\ Mirrors(n, q.target)
            BY <3>3, <3>4, <3>5 DEF InRegion, Mirrors, Target
        <3>7. RunInv(q)
            BY <1>1, <3>3, <3>4, <3>5, <3>6 DEF RunInv
        <3>8. runs' = [runs EXCEPT ![r] = q]
            BY <3>1, <3>2
        <3> QED BY <1>2, <1>5, <2>2, <3>7, <3>8, RunMoves DEF FindNode
    <2> QED BY <2>1, <2>2
<1>6. CASE Assemble(r)
    <2>1. CASE Throws(r)
        BY <1>1, <1>6, <2>1, RunThrows DEF Assemble, RunAt, RunInv
    <2>2. CASE ~Throws(r)
        <3>1. PICK copy : /\ copy = [c \in Chunks |-> IF c \in ChunksOf[runs[r].file]
                                                      THEN "entry" ELSE "done"]
                          /\ runs' = [runs EXCEPT ![r].at = "copy", ![r].copy = copy]
            BY <1>6, <2>2 DEF Assemble
        <3>2. PICK q : q = [runs[r] EXCEPT !.at = "copy", !.copy = copy]
            OBVIOUS
        <3>3. runs[r].at = "assemble"
            BY <1>6 DEF Assemble, RunAt
        <3>4. /\ q.at = "copy" /\ q.copy = copy /\ q.node = runs[r].node
              /\ q.target = runs[r].target /\ q.job = runs[r].job /\ q.k = runs[r].k
              /\ q.file = runs[r].file /\ DOMAIN q = DOMAIN runs[r]
            BY <1>1, <3>2 DEF RunInv
        <3>5. runs[r].file \in Files
            BY <1>1, <3>3 DEF RunInv, Queued
        <3>6. DOMAIN copy = Chunks /\ \A c \in ChunksOf[runs[r].file] : copy[c] = "entry"
            BY <3>1, <3>5 DEF ReplicationAssumption
        <3>7. RunInv(q)
            BY <1>1, <3>3, <3>4, <3>6 DEF RunInv, Target
        <3>8. runs' = [runs EXCEPT ![r] = q]
            BY <3>1, <3>2
        <3> QED BY <1>2, <1>6, <2>2, <3>7, <3>8, RunMoves DEF Assemble
    <2> QED BY <2>1, <2>2
<1> QED BY <1>3, <1>4, <1>5, <1>6

(* One field of the copy of chunk c moves on. *)
LEMMA CopyMoves ==
    ASSUME ReplicationAssumption, StorageAssumption, IInv, NEW r \in Runs, NEW c \in Chunks,
           runs[r].copy[c] # "done", NEW step, step \in {"chunk", "node"},
           step = "node" => <<c, runs[r].node>> \in placed',
           runs' = [runs EXCEPT ![r].copy[c] = step],
           UNCHANGED <<regions, nodes, admin, files, jobs, policy>>, placed \subseteq placed'
    PROVE  IInv'
<1>1. RunInv(runs[r]) /\ JobsOK
    BY JobsSame DEF IInv
<1>2. PICK q : q = [runs[r] EXCEPT !.copy[c] = step]
    OBVIOUS
<1>3. /\ q.at = runs[r].at /\ q.node = runs[r].node /\ q.target = runs[r].target
      /\ q.job = runs[r].job /\ q.k = runs[r].k /\ q.file = runs[r].file
      /\ DOMAIN q = DOMAIN runs[r] /\ DOMAIN q.copy = Chunks /\ q.copy[c] = step
      /\ \A d \in Chunks \ {c} : q.copy[d] = runs[r].copy[d]
    BY <1>1, <1>2 DEF RunInv
<1>4. runs[r].at \in {"copy", "stray"}
    BY <1>1 DEF RunInv
<1>5. Keeps
    BY <1>1, SameTables
<1>6. PICK u : u = runs[r]
    OBVIOUS
<1>7. RunInv(u)'
    BY <1>1, <1>5, <1>6, KeepsRun DEF IInv
<1>8. q.at = "copy" => \A d \in ChunksOf[q.file] :
          q.copy[d] \in {"node", "done"} => <<d, q.node>> \in placed'
    <2> SUFFICES ASSUME q.at = "copy", NEW d \in ChunksOf[q.file], q.copy[d] \in {"node", "done"}
                 PROVE  <<d, q.node>> \in placed'
        OBVIOUS
    <2>1. q.file \in Files /\ d \in Chunks
        BY <1>1, <1>3 DEF RunInv, Queued, ReplicationAssumption
    <2>2. CASE d = c
        BY <1>3, <2>2
    <2>3. CASE d # c
        BY <1>3, <1>6, <1>7, <2>1, <2>3 DEF RunInv
    <2> QED BY <2>2, <2>3
<1>9. RunInv(q)'
    BY <1>3, <1>4, <1>6, <1>7, <1>8 DEF RunInv, Target
<1>10. runs' = [runs EXCEPT ![r] = q]
    BY <1>2
<1> QED BY <1>1, <1>9, <1>10, RunMoves

LEMMA CopySteps ==
    ASSUME ReplicationAssumption, StorageAssumption, IInv, NEW r \in Runs, Copy(r)
    PROVE  IInv'
<1> USE DEF storageVars
<1>1. PICK c \in Chunks : CopyEntry(r, c) \/ CopyChunk(r, c) \/ CopyNode(r, c)
    BY DEF Copy
<1>2. CASE CopyEntry(r, c)
    BY <1>2, CopyMoves DEF CopyEntry
<1>3. CASE CopyChunk(r, c)
    BY <1>3, CopyMoves DEF CopyChunk
<1>4. CASE CopyNode(r, c)
    <2>1. RunInv(runs[r])
        BY DEF IInv
    <2>2. runs[r].at \in {"copy", "stray"} /\ Mirrors(runs[r].node, runs[r].target)
        BY <1>4, <2>1 DEF CopyNode, RunInv
    <2>3. PICK less : less = [runs[r].target EXCEPT !.available = @ - 1]
        OBVIOUS
    <2>4. Mirrors(runs[r].node, less)
        BY <2>2, <2>3 DEF Mirrors, Live
    <2>5. Keeps /\ TablesInv'
        BY <1>4, <2>3, <2>4, NodeStep DEF CopyNode
    <2>6. CASE runs' = [runs EXCEPT ![r] = RunIdle]
        BY <1>4, <2>5, <2>6, IdleRun, RunStep DEF CopyNode
    <2>7. CASE runs' = [runs EXCEPT ![r] = [runs[r] EXCEPT !.copy[c] = "done", !.target = less]]
        <3>1. PICK q : q = [runs[r] EXCEPT !.copy[c] = "done", !.target = less]
            OBVIOUS
        <3>2. /\ q.at = runs[r].at /\ q.node = runs[r].node /\ q.target = less
              /\ q.job = runs[r].job /\ q.k = runs[r].k /\ q.file = runs[r].file
              /\ DOMAIN q = DOMAIN runs[r] /\ DOMAIN q.copy = Chunks
              /\ \A d \in Chunks \ {c} : q.copy[d] = runs[r].copy[d]
            BY <2>1, <3>1 DEF RunInv
        <3>3. q.at = "copy" => \A d \in ChunksOf[q.file] :
                 q.copy[d] \in {"node", "done"} => <<d, q.node>> \in placed
            <4> SUFFICES ASSUME q.at = "copy", NEW d \in ChunksOf[q.file],
                                q.copy[d] \in {"node", "done"}
                         PROVE  <<d, q.node>> \in placed
                OBVIOUS
            <4>1. q.file \in Files /\ d \in Chunks
                BY <2>1, <3>2 DEF RunInv, Queued, ReplicationAssumption
            <4>2. CASE d = c
                BY <1>4, <2>1, <3>2, <4>2 DEF RunInv, CopyNode
            <4>3. CASE d # c
                BY <2>1, <3>2, <4>1, <4>3 DEF RunInv
            <4> QED BY <4>2, <4>3
        <3>4. RunInv(q)
            BY <2>1, <2>2, <2>4, <3>2, <3>3 DEF RunInv, Target
        <3>5. runs' = [runs EXCEPT ![r] = q]
            BY <2>7, <3>1
        <3> QED BY <1>4, <2>5, <3>4, <3>5, RunStep DEF CopyNode
    <2> QED BY <1>4, <2>3, <2>6, <2>7 DEF CopyNode, CopyDone
<1> QED BY <1>1, <1>2, <1>3, <1>4

LEMMA SizeInt ==
    ASSUME ReplicationAssumption, NEW f \in Files PROVE Size(f) \in Nat
<1>1. IsFiniteSet(ChunksOf[f])
    BY FS_Subset DEF ReplicationAssumption
<1> QED BY <1>1, FS_CardinalityType DEF Size

LEMMA DeductStep ==
    ASSUME ReplicationAssumption, StorageAssumption, IInv, NEW r \in Runs, DeductFile(r)
    PROVE  IInv'
<1>1. RunInv(runs[r]) /\ runs[r].at = "copy" /\ runs[r].file \in Files
    BY DEF IInv, DeductFile, RunAt, RunInv, Queued
<1>2. PICK less : less = [runs[r].target EXCEPT !.available = @ - Size(runs[r].file)]
    OBVIOUS
<1>3. Mirrors(runs[r].node, less)
    <2>1. Mirrors(runs[r].node, runs[r].target)
        BY <1>1 DEF RunInv
    <2>2. PICK size \in Nat : size = Size(runs[r].file)
        BY <1>1, SizeInt
    <2> QED BY <1>2, <2>1, <2>2 DEF Mirrors, Live
<1>4. Keeps /\ TablesInv'
    BY <1>2, <1>3, NodeStep DEF DeductFile
<1>5. PICK q : q = [runs[r] EXCEPT !.at = "metaLoad", !.target = less]
    OBVIOUS
<1>6. /\ q.at = "metaLoad" /\ q.node = runs[r].node /\ q.copy = runs[r].copy
      /\ q.job = runs[r].job /\ q.k = runs[r].k /\ q.file = runs[r].file
      /\ DOMAIN q = DOMAIN runs[r]
    BY <1>1, <1>5 DEF RunInv
<1>7. \A c \in Chunks : runs[r].copy[c] = "done"
    BY DEF DeductFile, Copying
<1>8. \A c \in ChunksOf[q.file] : <<c, q.node>> \in placed
    BY <1>1, <1>6, <1>7 DEF RunInv, ReplicationAssumption
<1>9. RunInv(q)
    BY <1>1, <1>6, <1>7, <1>8 DEF RunInv, Target
<1>10. runs' = [runs EXCEPT ![r] = q]
    BY <1>2, <1>5 DEF DeductFile
<1> QED BY <1>4, <1>9, <1>10, RunStep DEF DeductFile

LEMMA MetadataSteps ==
    ASSUME ReplicationAssumption, StorageAssumption, IInv, NEW r \in Runs,
           LoadMetadata(r) \/ SaveMetadata(r)
    PROVE  IInv'
<1> USE DEF storageVars
<1>1. RunInv(runs[r]) /\ TablesInv
    BY DEF IInv
<1>2. runs[r].at \in {"metaLoad", "metaSave"}
    BY DEF LoadMetadata, SaveMetadata, RunAt
<1>3. runs[r].job \in Jobs /\ Queued(runs[r].job) /\ runs[r].file = jobs[runs[r].job].file
      /\ runs[r].file \in Files
    BY <1>1, <1>2 DEF RunInv, Queued
<1>4. \A f \in Files : \A name \in files[f].replicatedTo : Good(f, name)
    BY <1>1 DEF TablesInv, ReplicatedHasCopies, Good
<1>5. CASE LoadMetadata(r)
    <2>1. PICK list, row :
             /\ row = [regions |-> list, replicatedTo |->
                          files[runs[r].file].replicatedTo \cup {TargetRegion(r)}]
             /\ runs' = [runs EXCEPT ![r].at = "metaSave", ![r].row = row]
        BY <1>5 DEF LoadMetadata
    <2>2. PICK q : q = [runs[r] EXCEPT !.at = "metaSave", !.row = row]
        OBVIOUS
    <2>3. /\ q.at = "metaSave" /\ q.row = row /\ q.copy = runs[r].copy
          /\ q.job = runs[r].job /\ q.k = runs[r].k /\ q.file = runs[r].file
          /\ DOMAIN q = DOMAIN runs[r]
        BY <1>1, <2>2 DEF RunInv
    <2>4. runs[r].at = "metaLoad"
        BY <1>5 DEF LoadMetadata, RunAt
    <2>5. Good(runs[r].file, TargetRegion(r))
        BY <1>1, <2>4 DEF RunInv, Good, Target, TargetRegion
    <2>6. \A name \in row.replicatedTo : Good(runs[r].file, name)
        BY <1>3, <1>4, <2>1, <2>5
    <2>7. RunInv(q)
        BY <1>1, <1>3, <2>3, <2>4, <2>6 DEF RunInv
    <2>8. runs' = [runs EXCEPT ![r] = q]
        BY <2>1, <2>2
    <2> QED BY <1>1, <1>5, <2>7, <2>8, JobsSame, RunMoves DEF LoadMetadata
<1>6. CASE SaveMetadata(r)
    <2>1. runs[r].at = "metaSave"
        BY <1>6 DEF SaveMetadata, RunAt
    <2>2. \A name \in runs[r].row.replicatedTo : Good(runs[r].file, name)
        BY <1>1, <2>1 DEF RunInv
    <2>3. \A f \in Files : \A name \in files'[f].replicatedTo : Good(f, name)
        BY <1>1, <1>4, <1>6, <2>2 DEF SaveMetadata, TablesInv
    <2>4. JobsOK
        BY <1>1, <1>3, <1>6, JobsSame, JobGoto DEF SaveMetadata
    <2>5. Keeps /\ TablesInv'
        BY <1>1, <1>6, <2>3, <2>4, TablesStep DEF SaveMetadata, TablesInv
    <2>6. PICK q : q = [RunIdle EXCEPT !.at = "region", !.job = runs[r].job,
                                       !.file = jobs[runs[r].job].file, !.k = runs[r].k + 1]
        OBVIOUS
    <2>7. RunInv(q)
        BY <1>3, <2>6 DEF RunInv, RunIdle
    <2>8. runs' = [runs EXCEPT ![r] = q] \/ runs' = [runs EXCEPT ![r] = RunIdle]
        BY <1>6, <2>6 DEF SaveMetadata, RunEnds
    <2> QED BY <1>6, <2>5, <2>7, <2>8, IdleRun, RunStep DEF SaveMetadata
<1> QED BY <1>5, <1>6

LEMMA FailureSteps ==
    ASSUME ReplicationAssumption, StorageAssumption, IInv, NEW r \in Runs,
           CallFails(r) \/ \E c \in Chunks : CopyFails(r, c)
    PROVE  IInv'
<1> USE DEF storageVars
<1>1. RunInv(runs[r]) /\ TablesInv
    BY DEF IInv
<1>2. CASE CallFails(r)
    BY <1>2, RunThrows DEF CallFails
<1>3. ASSUME NEW c \in Chunks, CopyFails(r, c) PROVE IInv'
    <2>1. JobsOK
        BY <1>1, <1>3, JobsSame, JobRetried DEF CopyFails, RunInv
    <2>2. PICK q : q = [runs[r] EXCEPT !.at = "stray", !.job = Null, !.copy[c] = "done"]
        OBVIOUS
    <2>3. /\ q.at = "stray" /\ q.job = Null /\ q.node = runs[r].node /\ q.target = runs[r].target
          /\ DOMAIN q = DOMAIN runs[r] /\ DOMAIN q.copy = Chunks
        BY <1>1, <2>2 DEF RunInv
    <2>4. runs[r].at \in {"copy", "stray"}
        BY <1>1, <1>3 DEF CopyFails, Copying, RunInv
    <2>5. RunInv(q)
        BY <1>1, <2>3, <2>4 DEF RunInv
    <2>6. runs' = [runs EXCEPT ![r] = q] \/ runs' = [runs EXCEPT ![r] = RunIdle]
        BY <1>3, <2>2 DEF CopyFails
    <2> QED BY <1>3, <2>1, <2>5, <2>6, IdleRun, RunMoves DEF CopyFails
<1> QED BY <1>2, <1>3

-----------------------------------------------------------------------------
(* The invariant holds in every state of every behaviour, with any number  *)
(* of files, jobs, workers, requests, nodes, regions, crashes and failures *)
(* (ReplicationService, ReplicationProcessor, StorageService).             *)
THEOREM InductiveInvariant ==
    ASSUME ReplicationAssumption, StorageAssumption PROVE Spec => []IInv
<1>1. Init => IInv
    BY InitIInv
<1>2. ASSUME IInv, [Next]_vars PROVE IInv'
    <2>1. CASE Next
        BY <1>2, <2>1, AdminStep, UploadStep, PolicySteps, StartSteps, CopySteps, DeductStep,
           MetadataSteps, FailureSteps, CrashStep DEF Next, Run
    <2>2. CASE UNCHANGED vars
        <3>1. Keeps /\ TablesInv'
            BY <1>2, <2>2, JobsSame, SameTables DEF vars, storageVars, IInv
        <3> QED BY <1>2, <2>2, <3>1, SameRuns, SamePolicies, SameAdmins DEF IInv, vars, storageVars
    <2> QED BY <1>2, <2>1, <2>2
<1> QED BY <1>1, <1>2, PTL DEF Spec

(* A region is in replicatedTo only after all chunks were stored on nodes  *)
(* of that region, though node rows, file rows and jobs are saved from     *)
(* stale copies and chunks are copied by executions whose job has failed   *)
(* (processReplicationJob, updateReplicationMetadata).                     *)
THEOREM CopiesBeforeReplicated ==
    ASSUME ReplicationAssumption, StorageAssumption PROVE Spec => []ReplicatedHasCopies
<1>1. IInv => ReplicatedHasCopies
    BY DEF IInv, TablesInv
<1> QED BY <1>1, InductiveInvariant, PTL

=============================================================================
