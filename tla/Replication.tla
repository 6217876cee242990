---------------------------- MODULE Replication -----------------------------
(***************************************************************************)
(* ReplicationService and ReplicationProcessor over StorageService: the    *)
(* request for a replication policy, the jobs of the replication queue,    *)
(* and the copying of chunks to a storage node.  An action is the code     *)
(* between two awaits, with the call it resumes from or ends in.           *)
(*                                                                         *)
(* The files considered are in the database, with chunks of one byte each; *)
(* they are not deleted, and PATCH does not write them (see Files).  What  *)
(* the upload worker contributes is UploadFinishes.                        *)
(***************************************************************************)
EXTENDS Storage, JobQueue, Sequences, FiniteSets, Functions

CONSTANTS
    Files,         \* ids of files
    Chunks,        \* ids of chunks
    ChunksOf,      \* the chunks of each file
    InitRegion,    \* name of the region create() puts a file in
    Targets,       \* the targetRegions of policies
    Jobs,          \* ids of jobs of the replication queue
    Runs,          \* executions of processReplicationJob in progress
    Workers,       \* how many jobs run at a time
    Clients,       \* requests for a policy in flight
    MaxPolicies,   \* bound on the policies requested
    MaxFaults      \* bound on the crashes and failed calls

ASSUME ReplicationAssumption ==
    /\ ChunksOf \in [Files -> SUBSET Chunks]
    /\ IsFiniteSet(Chunks)
    /\ InitRegion \in Names
    /\ Targets \subseteq Seq(Names) \ {<< >>}
    /\ \A t \in Targets : IsInjective(t)
    /\ Null \notin Files \cup Jobs
    /\ {Workers, MaxPolicies, MaxFaults} \subseteq Nat

VARIABLES
    files,     \* the columns regions and replicatedTo of the File rows
    ready,     \* files whose chunk rows all have data
    entries,   \* for each chunk, the region of the File row with the chunk's id
    located,   \* the column storageNodeId of each chunk
    placed,    \* pairs <<chunk, node>> that were ever stored (history)
    jobs,      \* the replication queue
    runs,      \* the local state of processReplicationJob, per execution
    policy,    \* the local state of createReplicationPolicy, per request
    sent,      \* policies requested so far
    faults     \* crashes and failed calls so far

vars == <<storageVars, files, ready, entries, located, placed, jobs, runs, policy,
          sent, faults>>

Row == [regions : Seq(Names), replicatedTo : SUBSET Names]

Job == [state : JobStates, file : Files, targets : Seq(Names), attempts : Attempts,
        stalls : Stalls]

NoRow == [regions |-> << >>, replicatedTo |-> {}]

RunIdle == [at |-> "idle", job |-> Null, file |-> Null, k |-> 0, region |-> Null,
            node |-> Null, target |-> NoNode, copy |-> [c \in Chunks |-> "done"],
            row |-> NoRow]

(* `target` is the node row in memory, shared by the copies of all chunks; *)
(* `copy` is where each of them is.                                        *)
RunState == [at : {"idle", "region", "nodes", "assemble", "copy", "stray",
                   "metaLoad", "metaSave"},
             job : Jobs \cup {Null}, file : Files \cup {Null}, k : Nat,
             region : RegionIds \cup {Null}, node : NodeIds \cup {Null},
             target : StorageNode, copy : [Chunks -> {"entry", "chunk", "node", "done"}],
             row : Row]

PolicyIdle == [at |-> "idle", file |-> Null, targets |-> << >>, new |-> << >>, row |-> NoRow]
PolicyState == [at : {"idle", "check", "reload", "save", "queue", "answer"},
                file : Files \cup {Null}, targets : Seq(Names), new : Seq(Names), row : Row]

-----------------------------------------------------------------------------

Size(f) == Cardinality(ChunksOf[f])

(* t.filter((name) => !names.includes(name)): element k of the result is   *)
(* the one of the elements that stay with k - 1 of them before it.         *)
Without(t, names) ==
    LET stay == {i \in DOMAIN t : t[i] \notin names}
    IN  [k \in 1..Cardinality(stay) |->
            t[CHOOSE i \in stay : Cardinality({j \in stay : j <= i}) = k]]

(* Array.from(new Set([...s, ...t])) *)
Union(s, t) == s \o Without(t, Range(s))

NewJob(f, targets, attempts) ==
    \E j \in Jobs :
        /\ jobs[j] = NoJob
        /\ jobs' = [jobs EXCEPT ![j] = [state |-> "waiting", file |-> f, targets |-> targets,
                                        attempts |-> attempts, stalls |-> 1]]

RunAt(r, step)   == runs[r].at = step
RunGoto(r, step) == runs' = [runs EXCEPT ![r].at = step]
RunEnds(r)       == runs' = [runs EXCEPT ![r] = RunIdle]

Throws(r) ==
    /\ jobs' = [jobs EXCEPT ![runs[r].job] = Retried(@)]
    /\ RunEnds(r)

Copying(r) == {c \in Chunks : runs[r].copy[c] # "done"}

Init ==
    /\ StorageInit
    /\ files = [f \in Files |-> [regions |-> <<InitRegion>>, replicatedTo |-> {}]]
    /\ ready = {}
    /\ entries = [c \in Chunks |-> Null]
    /\ located = [c \in Chunks |-> Null]
    /\ placed = {}
    /\ jobs = [j \in Jobs |-> NoJob]
    /\ runs = [r \in Runs |-> RunIdle]
    /\ policy = [c \in Clients |-> PolicyIdle]
    /\ sent = 0
    /\ faults = 0

-----------------------------------------------------------------------------
(* Variants with a plausible mistake, to put in the place of the operators *)
(* whose names they begin with.                                            *)

(* Promise.all is not awaited. *)
DeductFileAtOnce(r) ==
    LET less == [runs[r].target EXCEPT !.available = @ - Size(runs[r].file)]
    IN  /\ RunAt(r, "copy")
        /\ saveStorageNode(runs[r].node, less)
        /\ runs' = [runs EXCEPT ![r].at = "metaLoad", ![r].target = less]
        /\ UNCHANGED <<regions, admin, files, ready, entries, located, placed, jobs, policy,
                       sent, faults>>

(* The loop over the target regions stops one short. *)
SaveMetadataOfFirst(r) ==
    LET j == runs[r].job
    IN  /\ RunAt(r, "metaSave")
        /\ files' = [files EXCEPT ![runs[r].file] = runs[r].row]
        /\ jobs' = [jobs EXCEPT ![j].state = "completed"]
        /\ RunEnds(r)
        /\ UNCHANGED <<storageVars, ready, entries, located, placed, policy, sent, faults>>

(* The copies that go on after a failure still belong to the job. *)
CopyFailsForJob(r, c) ==
    /\ faults < MaxFaults
    /\ c \in Copying(r)
    /\ runs' = [runs EXCEPT ![r] =
          IF Copying(r) = {c} THEN RunIdle ELSE [@ EXCEPT !.at = "stray", !.copy[c] = "done"]]
    /\ jobs' = [jobs EXCEPT ![runs[r].job] = Retried(@)]
    /\ faults' = faults + 1
    /\ UNCHANGED <<storageVars, files, ready, entries, located, placed, policy, sent>>

-----------------------------------------------------------------------------
(* The end of processUploadedFile: the file has all its data, and if it    *)
(* has more than one region a job is queued, with Bull's one attempt.      *)

UploadFinishes(f) ==
    /\ f \notin ready
    /\ ready' = ready \cup {f}
    /\ IF Len(files[f].regions) > 1 THEN NewJob(f, Tail(files[f].regions), 1)
                                    ELSE UNCHANGED jobs
    /\ UNCHANGED <<storageVars, files, entries, located, placed, runs, policy, sent, faults>>

-----------------------------------------------------------------------------
(* POST /replication/files/:fileId/policy *)

PolicyLoad(c) ==
    /\ policy[c].at = "idle"
    /\ sent < MaxPolicies
    /\ sent' = sent + 1
    /\ \E f \in Files, targets \in Targets :
          policy' = [policy EXCEPT ![c] = [at |-> "check", file |-> f, targets |-> targets,
                                           new |-> << >>, row |-> files[f]]]
    /\ UNCHANGED <<storageVars, files, ready, entries, located, placed, jobs, runs, faults>>

(* getRegionByName of every target region, which throws for one that is    *)
(* not active.                                                             *)
PolicyCheck(c) ==
    /\ policy[c].at = "check"
    /\ policy' = [policy EXCEPT ![c] =
          IF \A name \in Range(@.targets) : getRegionByName(name) # {}
          THEN [@ EXCEPT !.at = "reload"] ELSE PolicyIdle]
    /\ UNCHANGED <<storageVars, files, ready, entries, located, placed, jobs, runs, sent, faults>>

(* The findOne of FilesService.update.  Which regions are new was decided  *)
(* by the row loaded first.                                                *)
PolicyReload(c) ==
    LET p == policy[c]
        f == p.file
    IN  /\ p.at = "reload"
        /\ policy' = [policy EXCEPT ![c] = [p EXCEPT
              !.at = "save",
              !.row = [regions      |-> Union(p.row.regions, p.targets),
                       replicatedTo |-> files[f].replicatedTo],
              !.new = Without(p.targets, Range(p.row.regions) \cup p.row.replicatedTo)]]
        /\ UNCHANGED <<storageVars, files, ready, entries, located, placed, jobs, runs, sent,
                       faults>>

PolicySave(c) ==
    /\ policy[c].at = "save"
    /\ files' = [files EXCEPT ![policy[c].file] = policy[c].row]
    /\ policy' = [policy EXCEPT ![c].at = IF policy[c].new = << >> THEN "answer" ELSE "queue"]
    /\ UNCHANGED <<storageVars, ready, entries, located, placed, jobs, runs, sent, faults>>

PolicyQueue(c) ==
    /\ policy[c].at = "queue"
    /\ NewJob(policy[c].file, policy[c].new, 3)
    /\ policy' = [policy EXCEPT ![c].at = "answer"]
    /\ UNCHANGED <<storageVars, files, ready, entries, located, placed, runs, sent, faults>>

PolicyAnswer(c) ==
    /\ policy[c].at = "answer"
    /\ policy' = [policy EXCEPT ![c] = PolicyIdle]
    /\ UNCHANGED <<storageVars, files, ready, entries, located, placed, jobs, runs, sent, faults>>

-----------------------------------------------------------------------------
(* processReplicationJob.  Its findOne only yields the size and the chunks *)
(* of the file, which do not change here.                                  *)

TakeJob(r) ==
    /\ RunAt(r, "idle")
    /\ Cardinality({q \in Runs : runs[q].job # Null}) < Workers
    /\ \E j \in Jobs :
          /\ jobs[j].state = "waiting"
          /\ jobs' = [jobs EXCEPT ![j].state = "active"]
          /\ runs' = [runs EXCEPT ![r] = [RunIdle EXCEPT !.at = "region", !.job = j,
                                             !.file = jobs[j].file, !.k = 1]]
    /\ UNCHANGED <<storageVars, files, ready, entries, located, placed, policy, sent, faults>>

TargetRegion(r) == jobs[runs[r].job].targets[runs[r].k]

FindRegion(r) ==
    LET found == getRegionByName(TargetRegion(r))
    IN  /\ RunAt(r, "region")
        /\ IF found = {} THEN Throws(r)
           ELSE /\ \E id \in found :
                      runs' = [runs EXCEPT ![r].at = "nodes", ![r].region = id]
                /\ UNCHANGED jobs
        /\ UNCHANGED <<storageVars, files, ready, entries, located, placed, policy, sent, faults>>

FindNode(r) ==
    LET found == {n \in getStorageNodesInRegion(runs[r].region) :
                      nodes[n].available >= Size(runs[r].file)}
    IN  /\ RunAt(r, "nodes")
        /\ IF found = {} THEN Throws(r)
           ELSE /\ \E n \in found :
                      runs' = [runs EXCEPT ![r].at = "assemble", ![r].node = n,
                                           ![r].target = nodes[n]]
                /\ UNCHANGED jobs
        /\ UNCHANGED <<storageVars, files, ready, entries, located, placed, policy, sent, faults>>

(* assembleFileFromChunks throws when a chunk has no data.                 *)
Assemble(r) ==
    LET f == runs[r].file
    IN  /\ RunAt(r, "assemble")
        /\ IF f \notin ready THEN Throws(r)
           ELSE /\ runs' = [runs EXCEPT ![r].at = "copy", ![r].copy = [c \in Chunks |->
                               IF c \in ChunksOf[f] THEN "entry" ELSE "done"]]
                /\ UNCHANGED jobs
        /\ UNCHANGED <<storageVars, files, ready, entries, located, placed, policy, sent, faults>>

(* saveChunkToNode, for the chunks in parallel: a File row with the id of  *)
(* the chunk, the chunk row, the capacity of the node.                     *)
CopyEntry(r, c) ==
    /\ runs[r].copy[c] = "entry"
    /\ entries' = [entries EXCEPT ![c] = runs[r].target.region]
    /\ runs' = [runs EXCEPT ![r].copy[c] = "chunk"]
    /\ UNCHANGED <<storageVars, files, ready, located, placed, jobs, policy, sent, faults>>

CopyChunk(r, c) ==
    /\ runs[r].copy[c] = "chunk"
    /\ located' = [located EXCEPT ![c] = runs[r].node]
    /\ placed' = placed \cup {<<c, runs[r].node>>}
    /\ runs' = [runs EXCEPT ![r].copy[c] = "node"]
    /\ UNCHANGED <<storageVars, files, ready, entries, jobs, policy, sent, faults>>

(* What is left of a run whose job has failed ends with its last copy.     *)
CopyDone(r, c, target) ==
    runs' = [runs EXCEPT ![r] =
        IF @.at = "stray" /\ Copying(r) = {c} THEN RunIdle
        ELSE [@ EXCEPT !.copy[c] = "done", !.target = target]]

CopyNode(r, c) ==
    LET less == [runs[r].target EXCEPT !.available = @ - 1]
    IN  /\ runs[r].copy[c] = "node"
        /\ saveStorageNode(runs[r].node, less)
        /\ CopyDone(r, c, less)
        /\ UNCHANGED <<regions, admin, files, ready, entries, located, placed, jobs, policy,
                       sent, faults>>

(* After Promise.all: the size of the file is subtracted as well.          *)
DeductFile(r) ==
    LET less == [runs[r].target EXCEPT !.available = @ - Size(runs[r].file)]
    IN  /\ RunAt(r, "copy")
        /\ Copying(r) = {}
        /\ saveStorageNode(runs[r].node, less)
        /\ runs' = [runs EXCEPT ![r].at = "metaLoad", ![r].target = less]
        /\ UNCHANGED <<regions, admin, files, ready, entries, located, placed, jobs, policy,
                       sent, faults>>

(* updateReplicationMetadata *)
LoadMetadata(r) ==
    LET row == files[runs[r].file]
        name == TargetRegion(r)
    IN  /\ RunAt(r, "metaLoad")
        /\ runs' = [runs EXCEPT ![r].at = "metaSave",
                                ![r].row = [regions      |-> Union(row.regions, <<name>>),
                                            replicatedTo |-> row.replicatedTo \cup {name}]]
        /\ UNCHANGED <<storageVars, files, ready, entries, located, placed, jobs, policy, sent,
                       faults>>

(* ... and on to the next target region, or the end of the job.            *)
SaveMetadata(r) ==
    LET j == runs[r].job
    IN  /\ RunAt(r, "metaSave")
        /\ files' = [files EXCEPT ![runs[r].file] = runs[r].row]
        /\ IF runs[r].k < Len(jobs[j].targets)
           THEN /\ runs' = [runs EXCEPT ![r] = [RunIdle EXCEPT !.at = "region", !.job = j,
                                                   !.file = jobs[j].file, !.k = runs[r].k + 1]]
                /\ UNCHANGED jobs
           ELSE /\ jobs' = [jobs EXCEPT ![j].state = "completed"]
                /\ RunEnds(r)
        /\ UNCHANGED <<storageVars, ready, entries, located, placed, policy, sent, faults>>

-----------------------------------------------------------------------------
(* Failures *)

(* A call outside Promise.all fails: the job throws.                       *)
CallFails(r) ==
    /\ faults < MaxFaults
    /\ runs[r].job # Null
    /\ Copying(r) = {}
    /\ Throws(r)
    /\ faults' = faults + 1
    /\ UNCHANGED <<storageVars, files, ready, entries, located, placed, policy, sent>>

(* A call of one chunk's copy fails: Promise.all rejects at once, and the  *)
(* copies of the other chunks go on without their job.                     *)
CopyFails(r, c) ==
    /\ faults < MaxFaults
    /\ c \in Copying(r)
    /\ runs' = [runs EXCEPT ![r] =
          IF Copying(r) = {c} THEN RunIdle
          ELSE [@ EXCEPT !.at = "stray", !.job = Null, !.copy[c] = "done"]]
    /\ jobs' = IF runs[r].job = Null THEN jobs
               ELSE [jobs EXCEPT ![runs[r].job] = Retried(@)]
    /\ faults' = faults + 1
    /\ UNCHANGED <<storageVars, files, ready, entries, located, placed, policy, sent>>

RequestFails(c) ==
    /\ faults < MaxFaults
    /\ policy[c].at # "idle"
    /\ policy' = [policy EXCEPT ![c] = PolicyIdle]
    /\ faults' = faults + 1
    /\ UNCHANGED <<storageVars, files, ready, entries, located, placed, jobs, runs, sent>>

(* The server stops and is started again. *)
Crash ==
    /\ faults < MaxFaults
    /\ admin' = [a \in Admins |-> AdminIdle]
    /\ policy' = [c \in Clients |-> PolicyIdle]
    /\ runs' = [r \in Runs |-> RunIdle]
    /\ jobs' = StallActive(jobs)
    /\ faults' = faults + 1
    /\ UNCHANGED <<regions, nodes, files, ready, entries, located, placed, sent>>

-----------------------------------------------------------------------------

Administration ==
    /\ StorageNext
    /\ UNCHANGED <<files, ready, entries, located, placed, jobs, runs, policy, sent, faults>>

Policy(c) ==
    \/ PolicyCheck(c) \/ PolicyReload(c) \/ PolicySave(c) \/ PolicyQueue(c) \/ PolicyAnswer(c)

Copy(r) == \E c \in Chunks : CopyEntry(r, c) \/ CopyChunk(r, c) \/ CopyNode(r, c)

Run(r) ==
    \/ TakeJob(r) \/ FindRegion(r) \/ FindNode(r) \/ Assemble(r)
    \/ Copy(r) \/ DeductFile(r) \/ LoadMetadata(r) \/ SaveMetadata(r)

Next ==
    \/ Administration
    \/ \E f \in Files : UploadFinishes(f)
    \/ \E c \in Clients : PolicyLoad(c) \/ Policy(c) \/ RequestFails(c)
    \/ \E r \in Runs : Run(r) \/ CallFails(r) \/ \E c \in Chunks : CopyFails(r, c)
    \/ Crash

Spec == Init /\ [][Next]_vars

(* A worker takes the jobs that wait, and goes on with what it started.    *)
Fairness ==
    /\ \A c \in Clients : WF_vars(Policy(c))
    /\ \A r \in Runs : WF_vars(Run(r))

FairSpec == Spec /\ Fairness

-----------------------------------------------------------------------------
(* Properties *)

RunOK(q) ==
    /\ q \in RunState
    /\ IF q.job = Null THEN q.at \in {"idle", "stray"}
       ELSE /\ q.at \notin {"idle", "stray"}
            /\ jobs[q.job] # NoJob
            /\ jobs[q.job].state = "active"
            /\ q.file = jobs[q.job].file
            /\ q.k \in 1..Len(jobs[q.job].targets)
    /\ q.at # "idle" => q.file \in Files
    /\ q.at \in {"copy", "stray", "metaLoad"} => q.node \in NodeIds

(* The tables, the queue and the local states have the shape the actions   *)
(* rely on: an execution has an active job of its own file, at one of its  *)
(* targets, until the job has failed under its copies.                     *)
TypeOK ==
    /\ StorageTypeOK
    /\ files \in [Files -> Row]
    /\ ready \in SUBSET Files
    /\ entries \in [Chunks -> RegionIds \cup {Null}]
    /\ located \in [Chunks -> NodeIds \cup {Null}]
    /\ placed \in SUBSET (Chunks \X NodeIds)
    /\ jobs \in [Jobs -> Job \cup {NoJob}]
    /\ DOMAIN runs = Runs
    /\ \A r \in Runs : RunOK(runs[r])
    /\ policy \in [Clients -> PolicyState]
    /\ sent \in Nat /\ faults \in Nat

InRegion(n, name) == nodes[n].region \in RegionIds /\ regions[nodes[n].region].name = name

(* A region is listed in replicatedTo only after every chunk of the file   *)
(* was stored on a node of that region, however jobs, their retries, their *)
(* orphaned copies and concurrent policies interleave                      *)
(* (processReplicationJob, updateReplicationMetadata, update).             *)
ReplicatedHasCopies ==
    \A f \in Files : \A name \in files[f].replicatedTo : \A c \in ChunksOf[f] :
        \E n \in NodeIds : <<c, n>> \in placed /\ InRegion(n, name)

(* Every region listed in replicatedTo still has a copy of every chunk: a  *)
(* file is replicated "across multiple geographic regions" (README.md:60). *)
ReplicatedStillThere ==
    \A f \in Files : \A name \in files[f].replicatedTo : \A c \in ChunksOf[f] :
        located[c] # Null /\ InRegion(located[c], name)

(* A job that is completed has replicated its file to all its targets,     *)
(* also when it was retried or run again after a stop, as long as no other *)
(* policy for the file is requested.                                       *)
CompletedMeansReplicated ==
    \A j \in Jobs : jobs[j].state = "completed" =>
        Range(jobs[j].targets) \subseteq files[jobs[j].file].replicatedTo

(* A queued job comes to an end: whatever it finds, it is not retried for  *)
(* ever (attempts of queueReplicationJob).                                 *)
JobSettles ==
    \A j \in Jobs : jobs[j].state = "waiting" ~> jobs[j].state \in {"completed", "failed"}

(* When nothing is in progress, a node's available bytes are its capacity  *)
(* less the chunks stored on it: "Update target node's available capacity" *)
(* (replication.service.ts:135).                                           *)
NodeAccounts ==
    (\A r \in Runs : RunAt(r, "idle")) =>
        \A n \in NodeIds :
            nodes[n].available = nodes[n].capacity - Cardinality({c \in Chunks : <<c, n>> \in placed})

(* The job that an execution has is running; what the queue calls active,   *)
(* and nobody executes, is not a state of JobLife.                         *)
Life == INSTANCE JobLife WITH
    MaxStarts <- 4,
    state     <- [j \in Jobs |-> IF \E r \in Runs : runs[r].job = j THEN "running"
                                                               ELSE jobs[j].state],
    left      <- [j \in Jobs |-> StartsLeft(jobs[j])]

(* The executions, their retries and what is left of them after a failure  *)
(* treat each job as JobLife says: it is with at most one execution that   *)
(* counts, and a copy that outlives its job does not touch the job again   *)
(* (queueReplicationJob, processReplicationJob, Bull).                     *)
JobLifeSpec == Life!Spec

=============================================================================
