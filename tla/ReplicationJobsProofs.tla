----------------------- MODULE ReplicationJobsProofs ------------------------
(***************************************************************************)
(* The jobs of the replication queue: types, which execution has which     *)
(* job, and what a completed job has done.                                 *)
(***************************************************************************)
EXTENDS ReplicationProofs

(* The ranks of the elements of a finite set of numbers are the numbers up *)
(* to its size, each for one element.                                      *)
LEMMA Ranks ==
    ASSUME NEW S \in SUBSET Int, IsFiniteSet(S)
    PROVE  /\ \A i \in S : Cardinality({j \in S : j <= i}) \in 1..Cardinality(S)
           /\ \A k \in 1..Cardinality(S) :
                 \E i \in S : Cardinality({j \in S : j <= i}) = k
           /\ \A i, h \in S :
                 Cardinality({j \in S : j <= i}) = Cardinality({j \in S : j <= h}) => i = h
<1> DEFINE Below(i) == {j \in S : j <= i}
           rank == [i \in S |-> Cardinality(Below(i))]
           N == Cardinality(S)
<1>1. N \in Nat
    BY FS_CardinalityType
<1>2. \A i \in S : IsFiniteSet(Below(i)) /\ Cardinality(Below(i)) \in 1..N
    <2> SUFFICES ASSUME NEW i \in S
                 PROVE  IsFiniteSet(Below(i)) /\ Cardinality(Below(i)) \in 1..N
        OBVIOUS
    <2>1. Below(i) \in SUBSET S /\ Below(i) # {}
        OBVIOUS
    <2> HIDE DEF Below
    <2>2. IsFiniteSet(Below(i)) /\ Cardinality(Below(i)) <= N
        BY <2>1, FS_Subset
    <2>3. Cardinality(Below(i)) \in Nat /\ Cardinality(Below(i)) # 0
        BY <2>1, <2>2, FS_CardinalityType, FS_EmptySet
    <2> QED BY <1>1, <2>2, <2>3
<1>3. \A i, j \in S : Cardinality(Below(i)) = Cardinality(Below(j)) => i = j
    <2>1. ASSUME NEW i \in S, NEW j \in S, i < j PROVE Cardinality(Below(i)) # Cardinality(Below(j))
        <3>0. ~(j <= i) /\ j <= j /\ \A m \in S : m <= i => m <= j
            BY <2>1
        <3>1. Below(i) \in SUBSET Below(j) /\ j \in Below(j) /\ j \notin Below(i)
            BY Zenon, <3>0
        <3>2. IsFiniteSet(Below(j))
            BY <1>2
        <3> HIDE DEF Below
        <3>3. Below(i) # Below(j)
            BY <3>1
        <3> QED BY <3>1, <3>2, <3>3, FS_Subset
    <2> QED BY <2>1
<1> HIDE DEF Below
<1>4. rank \in Injection(S, 1..N)
    BY <1>2, <1>3 DEF Injection, IsInjective
<1>5. IsFiniteSet(1..N) /\ Cardinality(1..N) = N
    BY <1>1, FS_Interval
<1>6. rank \in Surjection(S, 1..N)
    BY <1>4, <1>5, FS_Injection
<1>7. \A k \in 1..N : \E i \in S : Cardinality(Below(i)) = k
    BY <1>6 DEF Surjection
<1> QED BY Zenon, <1>2, <1>3, <1>7 DEF Below

(* Without takes the names away, and nothing else. *)
LEMMA WithoutElements ==
    ASSUME NEW T, NEW t \in Seq(T), NEW names
    PROVE  /\ Without(t, names) \in Seq(T)
           /\ Range(Without(t, names)) = Range(t) \ names
<1> DEFINE stay == {i \in DOMAIN t : t[i] \notin names}
           Rank(i) == Cardinality({j \in stay : j <= i})
           N == Cardinality(stay)
           Pick(k) == CHOOSE i \in stay : Rank(i) = k
<1>1. stay \in SUBSET Int /\ IsFiniteSet(stay)
    <2>1. stay \in SUBSET (1..Len(t)) /\ Len(t) \in Nat
        OBVIOUS
    <2> HIDE DEF stay
    <2>2. IsFiniteSet(1..Len(t)) /\ 1..Len(t) \subseteq Int
        BY <2>1, FS_Interval
    <2> QED BY <2>1, <2>2, FS_Subset
<1>2. \A i \in stay : i \in DOMAIN t /\ t[i] \in T \ names
    OBVIOUS
<1>3. \A i \in DOMAIN t : t[i] \notin names => i \in stay
    OBVIOUS
<1>4. Without(t, names) = [k \in 1..N |-> t[Pick(k)]]
    BY Zenon DEF Without
<1> HIDE DEF stay
<1>5. N \in Nat
    BY <1>1, FS_CardinalityType
<1>6. /\ \A i \in stay : Rank(i) \in 1..N
      /\ \A k \in 1..N : \E i \in stay : Rank(i) = k
      /\ \A i, h \in stay : Rank(i) = Rank(h) => i = h
    BY <1>1, Ranks
<1> HIDE DEF Rank
<1>7. \A k \in 1..N : Pick(k) \in stay /\ Rank(Pick(k)) = k
    BY <1>6
<1>8. \A i \in stay : Pick(Rank(i)) = i
    BY <1>6, <1>7
<1> HIDE DEF Pick, N
<1>9. Without(t, names) \in Seq(T)
    BY <1>2, <1>4, <1>5, <1>7
<1>10. \A k \in 1..N : Without(t, names)[k] \in Range(t) \ names
    BY <1>2, <1>4, <1>7 DEF Range
<1>11. ASSUME NEW x \in Range(t) \ names PROVE x \in Range(Without(t, names))
    <2>1. PICK i \in DOMAIN t : x = t[i]
        BY DEF Range
    <2>2. i \in stay
        BY <1>3, <2>1
    <2>3. Rank(i) \in 1..N /\ Without(t, names)[Rank(i)] = x
        BY <1>4, <1>6, <1>8, <2>1, <2>2
    <2> QED BY <1>4, <2>3 DEF Range
<1> QED BY <1>4, <1>9, <1>10, <1>11 DEF Range

LEMMA UnionType ==
    ASSUME NEW T, NEW s \in Seq(T), NEW t \in Seq(T)
    PROVE  Union(s, t) \in Seq(T) /\ Len(Union(s, t)) >= Len(s)
<1>1. PICK u \in Seq(T) : u = Without(t, Range(s))
    BY WithoutElements
<1> QED BY <1>1 DEF Union

LEMMA TailType ==
    ASSUME NEW T, NEW s \in Seq(T), Len(s) > 1 PROVE Tail(s) \in Seq(T) /\ Tail(s) # << >>
<1>1. Len(s) \in Nat /\ s # << >>
    OBVIOUS
<1>2. Tail(s) \in Seq(T) /\ Len(Tail(s)) = Len(s) - 1
    BY <1>1
<1>3. Len(Tail(s)) > 0
    BY <1>1, <1>2
<1>4. ASSUME NEW t \in Seq(T), Len(t) > 0 PROVE t # << >>
    BY <1>4
<1> QED BY Zenon, <1>2, <1>3, <1>4

-----------------------------------------------------------------------------
(* The type invariant, in parts, with what makes it inductive: a job has a *)
(* target, a policy that queues one has a target for it, and no two        *)
(* executions have the same job.                                           *)

RowsTyped ==
    /\ StorageTypeOK
    /\ files \in [Files -> Row]
    /\ ready \in SUBSET Files
    /\ entries \in [Chunks -> RegionIds \cup {Null}]
    /\ located \in [Chunks -> NodeIds \cup {Null}]
    /\ placed \in SUBSET (Chunks \X NodeIds)
    /\ sent \in Nat /\ faults \in Nat

JobsTyped ==
    /\ jobs \in [Jobs -> Job \cup {NoJob}]
    /\ \A j \in Jobs : jobs[j] # NoJob => jobs[j].targets # << >>

PolicyTyped ==
    /\ policy \in [Clients -> PolicyState]
    /\ \A c \in Clients : /\ policy[c].at # "idle" => policy[c].file \in Files
                          /\ policy[c].at = "queue" => policy[c].new # << >>

Exclusive ==
    \A r, s \in Runs : runs[r].job # Null /\ runs[r].job = runs[s].job => r = s

RunsTyped ==
    /\ DOMAIN runs = Runs
    /\ \A r \in Runs : RunOK(runs[r])
    /\ Exclusive

Typed == RowsTyped /\ JobsTyped /\ PolicyTyped /\ RunsTyped

LEMMA TypedIsTypeOK == Typed <=> TypeOK /\ JobsTyped /\ PolicyTyped /\ Exclusive
BY DEF Typed, RowsTyped, JobsTyped, PolicyTyped, RunsTyped, TypeOK

(* What the rows in memory are, at the steps that save them. *)
LEMMA RunMemory ==
    ASSUME IInv, Typed, NEW r \in Runs
    PROVE  /\ runs[r] \in RunState
           /\ runs[r].at # "idle" => runs[r].file \in Files
           /\ runs[r].at \in {"assemble", "copy", "stray", "metaLoad"} => runs[r].node \in NodeIds
           /\ \A c \in Chunks : runs[r].copy[c] # "done" =>
                 runs[r].at \in {"copy", "stray"} /\ runs[r].node \in NodeIds
<1>1. RunOK(runs[r]) /\ RunInv(runs[r])
    BY DEF IInv, Typed, RunsTyped
<1>2. runs[r].at = "assemble" => runs[r].node \in NodeIds
    BY <1>1 DEF RunInv
<1> QED BY <1>1, <1>2 DEF RunOK, RunInv

LEMMA RowsStep ==
    ASSUME ReplicationAssumption, StorageAssumption, IInv, IInv', Typed, [Next]_vars
    PROVE  RowsTyped'
<1> USE DEF storageVars
<1>1. regions' \in [RegionIds -> Region] /\ nodes' \in [NodeIds -> StorageNode]
    BY DEF IInv, TablesInv, Live, StorageNode
<1>2. ASSUME UNCHANGED <<admin, files, ready, entries, located, placed>>,
             sent' = sent \/ sent' = sent + 1, faults' = faults \/ faults' = faults + 1
      PROVE  RowsTyped'
    BY <1>1, <1>2 DEF Typed, RowsTyped, StorageTypeOK
<1>3. ASSUME UNCHANGED <<files, ready, entries, located, placed, sent>>,
             faults' = faults \/ faults' = faults + 1,
             admin' \in [Admins -> AdminState]
      PROVE  RowsTyped'
    BY <1>1, <1>3 DEF Typed, RowsTyped, StorageTypeOK
<1>4. AdminIdle \in AdminState
    BY DEF AdminIdle, AdminState, StorageNode
<1>5. CASE Administration
    <2>1. CASE CreateRegion \/ DeactivateRegion \/ CreateStorageNode
        BY <1>2, <1>5, <2>1 DEF Administration, CreateRegion, DeactivateRegion, CreateStorageNode
    <2>2. ASSUME NEW a \in Admins, StatusLoad(a) PROVE RowsTyped'
        <3>1. PICK n \in NodeIds, online \in BOOLEAN :
                 /\ nodes[n] # NoNode
                 /\ admin' = [admin EXCEPT ![a] = [at |-> "save", node |-> n,
                                                   row |-> [nodes[n] EXCEPT !.online = online]]]
            BY <2>2 DEF StatusLoad
        <3>2. [nodes[n] EXCEPT !.online = online] \in StorageNode
            BY <3>1 DEF Typed, RowsTyped, StorageTypeOK, StorageNode
        <3>3. [at |-> "save", node |-> n, row |-> [nodes[n] EXCEPT !.online = online]] \in AdminState
            BY <3>2 DEF AdminState
        <3>4. admin' \in [Admins -> AdminState]
            BY <3>1, <3>3 DEF Typed, RowsTyped, StorageTypeOK
        <3> QED BY <1>3, <1>5, <3>4 DEF Administration
    <2>3. ASSUME NEW a \in Admins, StatusSave(a) PROVE RowsTyped'
        <3>1. admin' \in [Admins -> AdminState]
            BY <1>4, <2>3 DEF StatusSave, Typed, RowsTyped, StorageTypeOK
        <3> QED BY <1>3, <1>5, <3>1 DEF Administration
    <2> QED BY <1>5, <2>1, <2>2, <2>3 DEF Administration, StorageNext
<1>6. ASSUME NEW f \in Files, UploadFinishes(f) PROVE RowsTyped'
    BY <1>1, <1>6 DEF UploadFinishes, Typed, RowsTyped, StorageTypeOK
<1>7. ASSUME NEW c \in Clients, PolicyLoad(c) \/ Policy(c) \/ RequestFails(c) PROVE RowsTyped'
    <2>1. CASE PolicySave(c)
        <3>1. policy[c].row \in Row
            BY DEF Typed, PolicyTyped, PolicyState
        <3>2. files' \in [Files -> Row]
            BY <2>1, <3>1 DEF PolicySave, Typed, RowsTyped
        <3> QED BY <1>1, <2>1, <3>2 DEF PolicySave, Typed, RowsTyped, StorageTypeOK
    <2>2. CASE ~PolicySave(c)
        BY <1>2, <1>7, <2>2
        DEF Policy, PolicyLoad, PolicyCheck, PolicyReload, PolicyQueue, PolicyAnswer, RequestFails
    <2> QED BY <2>1, <2>2
<1>8. ASSUME NEW r \in Runs, Run(r) PROVE RowsTyped'
    <2>1. ASSUME NEW c \in Chunks, CopyEntry(r, c) PROVE RowsTyped'
        <3>1. runs[r].target \in StorageNode
            BY RunMemory DEF RunState
        <3>2. runs[r].target.region \in RegionIds \cup {Null}
            BY <3>1 DEF StorageNode, NoNode
        <3>3. entries' \in [Chunks -> RegionIds \cup {Null}]
            BY <2>1, <3>2 DEF CopyEntry, Typed, RowsTyped
        <3> QED BY <1>1, <2>1, <3>3 DEF CopyEntry, Typed, RowsTyped, StorageTypeOK
    <2>2. ASSUME NEW c \in Chunks, CopyChunk(r, c) PROVE RowsTyped'
        <3>1. runs[r].node \in NodeIds
            BY <2>2, RunMemory DEF CopyChunk
        <3>2. /\ located' \in [Chunks -> NodeIds \cup {Null}]
              /\ placed' \in SUBSET (Chunks \X NodeIds)
            BY <2>2, <3>1 DEF CopyChunk, Typed, RowsTyped
        <3> QED BY <1>1, <2>2, <3>2 DEF CopyChunk, Typed, RowsTyped, StorageTypeOK
    <2>3. ASSUME NEW c \in Chunks, CopyNode(r, c) PROVE RowsTyped'
        BY <1>2, <2>3 DEF CopyNode
    <2>4. CASE SaveMetadata(r)
        <3>1. runs[r].row \in Row
            BY RunMemory DEF RunState
        <3>2. files' \in [Files -> Row]
            BY <2>4, <3>1 DEF SaveMetadata, Typed, RowsTyped
        <3> QED BY <1>1, <2>4, <3>2 DEF SaveMetadata, Typed, RowsTyped, StorageTypeOK
    <2>5. CASE TakeJob(r) \/ FindRegion(r) \/ FindNode(r) \/ Assemble(r) \/ LoadMetadata(r)
        BY <1>2, <2>5 DEF TakeJob, FindRegion, FindNode, Assemble, LoadMetadata
    <2>6. CASE DeductFile(r)
        BY <1>2, <2>6 DEF DeductFile
    <2> QED BY <1>8, <2>1, <2>2, <2>3, <2>4, <2>5, <2>6 DEF Run, Copy
<1>9. ASSUME NEW r \in Runs, CallFails(r) PROVE RowsTyped'
    BY <1>2, <1>9 DEF CallFails
<1>10. ASSUME NEW r \in Runs, NEW c \in Chunks, CopyFails(r, c) PROVE RowsTyped'
    BY <1>2, <1>10 DEF CopyFails
<1>11. CASE Crash
    <2>1. admin' \in [Admins -> AdminState]
        BY <1>4, <1>11 DEF Crash
    <2> QED BY <1>3, <1>11, <2>1 DEF Crash
<1>12. CASE UNCHANGED vars
    BY <1>2, <1>12 DEF vars
<1> QED BY <1>5, <1>6, <1>7, <1>8, <1>9, <1>10, <1>11, <1>12 DEF Next

-----------------------------------------------------------------------------
(* The queue *)

LEMMA JobPut ==
    ASSUME JobsTyped, NEW j \in Jobs, NEW job \in Job, job.targets # << >>,
           jobs' = [jobs EXCEPT ![j] = job]
    PROVE  JobsTyped'
BY DEF JobsTyped

LEMMA JobIsTyped ==
    ASSUME JobsTyped, NEW j \in Jobs, jobs[j] # NoJob
    PROVE  jobs[j] \in Job /\ jobs[j].targets # << >>
BY DEF JobsTyped

LEMMA NewJobTyped ==
    ASSUME JobsTyped, NEW f \in Files, NEW t \in Seq(Names), t # << >>,
           NEW a \in Attempts, NewJob(f, t, a)
    PROVE  JobsTyped'
<1>1. PICK job : job = [state |-> "waiting", file |-> f, targets |-> t, attempts |-> a,
                        stalls |-> 1]
    OBVIOUS
<1>2. job \in Job /\ job.targets # << >>
    BY <1>1 DEF Job, JobStates, Stalls
<1>3. PICK j \in Jobs : jobs' = [jobs EXCEPT ![j] = job]
    BY <1>1 DEF NewJob
<1> QED BY <1>2, <1>3, JobPut

LEMMA JobStateTyped ==
    ASSUME JobsTyped, NEW j \in Jobs, jobs[j] # NoJob, NEW state \in JobStates,
           jobs' = [jobs EXCEPT ![j].state = state]
    PROVE  JobsTyped'
<1>1. PICK job : job = [jobs[j] EXCEPT !.state = state]
    OBVIOUS
<1>2. job \in Job /\ job.targets # << >>
    BY <1>1, JobIsTyped DEF Job
<1>3. jobs' = [jobs EXCEPT ![j] = job]
    BY <1>1
<1> QED BY <1>2, <1>3, JobPut

LEMMA RetriedTyped ==
    ASSUME JobsTyped, NEW j \in Jobs, jobs[j] # NoJob, jobs' = [jobs EXCEPT ![j] = Retried(@)]
    PROVE  JobsTyped'
<1>1. PICK job : job = Retried(jobs[j])
    OBVIOUS
<1>2. jobs[j] \in Job /\ jobs[j].targets # << >>
    BY JobIsTyped
<1>3. job \in Job /\ job.targets # << >>
    <2>1. CASE jobs[j].attempts > 1
        <3>1. PICK n \in Attempts : n = jobs[j].attempts - 1
            BY <1>2, <2>1 DEF Job, Attempts
        <3>2. job = [jobs[j] EXCEPT !.state = "waiting", !.attempts = n]
            BY <1>1, <2>1, <3>1 DEF Retried
        <3> QED BY <1>2, <3>2 DEF Job, JobStates
    <2>2. CASE ~(jobs[j].attempts > 1)
        <3>1. job = [jobs[j] EXCEPT !.state = "failed"]
            BY <1>1, <2>2 DEF Retried
        <3> QED BY <1>2, <3>1 DEF Job, JobStates
    <2> QED BY <2>1, <2>2
<1>4. jobs' = [jobs EXCEPT ![j] = job]
    BY <1>1
<1> QED BY <1>3, <1>4, JobPut

LEMMA StalledTyped ==
    ASSUME JobsTyped, jobs' = StallActive(jobs) PROVE JobsTyped'
<1>1. ASSUME NEW j \in Jobs, jobs[j].state = "active"
      PROVE  Stalled(jobs[j]) \in Job /\ Stalled(jobs[j]).targets # << >>
    <2>1. jobs[j] \in Job /\ jobs[j].targets # << >>
        BY <1>1, JobIsTyped DEF NoJob
    <2>2. CASE jobs[j].stalls > 0
        <3>1. PICK n \in Stalls : n = jobs[j].stalls - 1
            BY <2>1, <2>2 DEF Job, Stalls
        <3>2. Stalled(jobs[j]) = [jobs[j] EXCEPT !.state = "waiting", !.stalls = n]
            BY <2>2, <3>1 DEF Stalled
        <3> QED BY <2>1, <3>2 DEF Job, JobStates
    <2>3. CASE ~(jobs[j].stalls > 0)
        <3>1. Stalled(jobs[j]) = [jobs[j] EXCEPT !.state = "failed"]
            BY <2>3 DEF Stalled
        <3> QED BY <2>1, <3>1 DEF Job, JobStates
    <2> QED BY <2>2, <2>3
<1>2. DOMAIN jobs = Jobs
    BY DEF JobsTyped
<1>3. \A j \in Jobs : jobs'[j] = IF jobs[j].state = "active" THEN Stalled(jobs[j]) ELSE jobs[j]
    BY <1>2 DEF StallActive
<1>4. jobs' = [j \in Jobs |-> jobs'[j]]
    BY <1>2 DEF StallActive
<1>5. \A j \in Jobs : jobs'[j] \in Job \cup {NoJob} /\ (jobs'[j] # NoJob => jobs'[j].targets # << >>)
    BY <1>1, <1>3 DEF JobsTyped
<1> QED BY <1>4, <1>5 DEF JobsTyped

LEMMA JobsStep ==
    ASSUME ReplicationAssumption, StorageAssumption, IInv, Typed, [Next]_vars
    PROVE  JobsTyped'
<1> USE DEF storageVars
<1>1. JobsTyped
    BY DEF Typed
<1>2. ASSUME UNCHANGED jobs PROVE JobsTyped'
    BY <1>1, <1>2 DEF JobsTyped
<1>3. \A r \in Runs : runs[r].job # Null =>
         runs[r].job \in Jobs /\ jobs[runs[r].job] # NoJob
    BY DEF Typed, RunsTyped, RunOK, RunState
<1>4. ASSUME NEW r \in Runs, runs[r].job # Null, Throws(r) PROVE JobsTyped'
    BY <1>1, <1>3, <1>4, RetriedTyped DEF Throws
<1>5. \A r \in Runs : runs[r].at \notin {"idle", "stray"} => runs[r].job # Null
    BY DEF IInv, RunInv
<1>6. ASSUME NEW f \in Files, UploadFinishes(f) PROVE JobsTyped'
    <2>1. files[f].regions \in Seq(Names)
        BY DEF Typed, RowsTyped, Row
    <2>2. Len(files[f].regions) > 1 =>
             Tail(files[f].regions) \in Seq(Names) /\ Tail(files[f].regions) # << >>
        BY <2>1, TailType
    <2>3. CASE Len(files[f].regions) > 1
        <3>1. PICK t \in Seq(Names) : t # << >> /\ NewJob(f, t, 1)
            BY <1>6, <2>2, <2>3 DEF UploadFinishes
        <3> QED BY <1>1, <3>1, NewJobTyped DEF Attempts
    <2>4. CASE ~(Len(files[f].regions) > 1)
        BY <1>2, <1>6, <2>4 DEF UploadFinishes
    <2> QED BY <2>3, <2>4
<1>7. ASSUME NEW c \in Clients, PolicyLoad(c) \/ Policy(c) \/ RequestFails(c) PROVE JobsTyped'
    <2>1. CASE PolicyQueue(c)
        <3>1. policy[c].file \in Files /\ policy[c].new \in Seq(Names) /\ policy[c].new # << >>
            BY <2>1 DEF PolicyQueue, Typed, PolicyTyped, PolicyState
        <3> QED BY <1>1, <2>1, <3>1, NewJobTyped DEF PolicyQueue, Attempts
    <2>2. CASE ~PolicyQueue(c)
        BY <1>2, <1>7, <2>2
        DEF Policy, PolicyLoad, PolicyCheck, PolicyReload, PolicySave, PolicyAnswer, RequestFails
    <2> QED BY <2>1, <2>2
<1>8. ASSUME NEW r \in Runs, Run(r) PROVE JobsTyped'
    <2>1. CASE TakeJob(r)
        <3>1. PICK j \in Jobs : jobs[j].state = "waiting" /\ jobs' = [jobs EXCEPT ![j].state = "active"]
            BY <2>1 DEF TakeJob
        <3>2. jobs[j] # NoJob
            BY <3>1 DEF NoJob
        <3> QED BY <1>1, <3>1, <3>2, JobStateTyped DEF JobStates
    <2>2. CASE FindRegion(r) \/ FindNode(r) \/ Assemble(r)
        BY <1>2, <1>4, <1>5, <2>2 DEF FindRegion, FindNode, Assemble, RunAt
    <2>3. CASE Copy(r)
        BY <1>2, <2>3 DEF Copy, CopyEntry, CopyChunk, CopyNode
    <2>4. CASE DeductFile(r) \/ LoadMetadata(r)
        BY <1>2, <2>4 DEF DeductFile, LoadMetadata
    <2>5. CASE SaveMetadata(r)
        <3>1. runs[r].job \in Jobs /\ jobs[runs[r].job] # NoJob
            BY <1>3, <1>5, <2>5 DEF SaveMetadata, RunAt
        <3> QED BY <1>1, <1>2, <2>5, <3>1, JobStateTyped DEF SaveMetadata, JobStates
    <2> QED BY <1>8, <2>1, <2>2, <2>3, <2>4, <2>5 DEF Run
<1>9. ASSUME NEW r \in Runs, CallFails(r) PROVE JobsTyped'
    BY <1>4, <1>9 DEF CallFails
<1>10. ASSUME NEW r \in Runs, NEW c \in Chunks, CopyFails(r, c) PROVE JobsTyped'
    BY <1>1, <1>2, <1>3, <1>10, RetriedTyped DEF CopyFails
<1>11. CASE Administration
    BY <1>2, <1>11 DEF Administration
<1>12. CASE Crash
    BY <1>1, <1>12, StalledTyped DEF Crash
<1>13. CASE UNCHANGED vars
    BY <1>2, <1>13 DEF vars
<1> QED BY <1>6, <1>7, <1>8, <1>9, <1>10, <1>11, <1>12, <1>13 DEF Next

-----------------------------------------------------------------------------
(* The requests for a policy *)

LEMMA PolicyTypedStep ==
    ASSUME ReplicationAssumption, StorageAssumption, IInv, Typed, [Next]_vars
    PROVE  PolicyTyped'
<1> USE DEF storageVars
<1>1. PolicyTyped
    BY DEF Typed
<1>2. ASSUME UNCHANGED policy PROVE PolicyTyped'
    BY <1>1, <1>2 DEF PolicyTyped
<1>3. ASSUME NEW c \in Clients, NEW p \in PolicyState, p.at # "idle" => p.file \in Files,
             p.at = "queue" => p.new # << >>, policy' = [policy EXCEPT ![c] = p]
      PROVE  PolicyTyped'
    BY <1>1, <1>3 DEF PolicyTyped
<1>4. PolicyIdle \in PolicyState /\ PolicyIdle.at = "idle"
    BY DEF PolicyIdle, PolicyState, NoRow, Row
<1>5. \A c \in Clients : policy[c] \in PolicyState /\ (policy[c].at # "idle" => policy[c].file \in Files)
    BY <1>1 DEF PolicyTyped
<1>6. \A f \in Files : files[f] \in Row
    BY DEF Typed, RowsTyped
<1>7. ASSUME NEW c \in Clients, PolicyLoad(c) PROVE PolicyTyped'
    <2>1. PICK f \in Files, targets \in Targets :
             policy' = [policy EXCEPT ![c] = [at |-> "check", file |-> f, targets |-> targets,
                                              new |-> << >>, row |-> files[f]]]
        BY <1>7 DEF PolicyLoad
    <2>2. targets \in Seq(Names)
        BY DEF ReplicationAssumption
    <2>3. PICK p : p = [at |-> "check", file |-> f, targets |-> targets, new |-> << >>,
                        row |-> files[f]]
        OBVIOUS
    <2>4. p \in PolicyState /\ p.at = "check" /\ p.file \in Files
        BY <1>6, <2>2, <2>3 DEF PolicyState
    <2> QED BY <1>3, <2>1, <2>3, <2>4
<1>8. ASSUME NEW c \in Clients, PolicyCheck(c) PROVE PolicyTyped'
    <2>1. PICK p : p = [policy[c] EXCEPT !.at = "reload"]
        OBVIOUS
    <2>2. p \in PolicyState /\ p.at = "reload" /\ p.file \in Files
        BY <1>5, <1>8, <2>1 DEF PolicyCheck, PolicyState
    <2>3. policy' = [policy EXCEPT ![c] = p] \/ policy' = [policy EXCEPT ![c] = PolicyIdle]
        BY <1>8, <2>1 DEF PolicyCheck
    <2> QED BY <1>3, <1>4, <2>2, <2>3
<1>9. ASSUME NEW c \in Clients, PolicyReload(c) PROVE PolicyTyped'
    <2>1. /\ policy[c] \in PolicyState /\ policy[c].at = "reload" /\ policy[c].file \in Files
          /\ policy[c].targets \in Seq(Names) /\ policy[c].row.regions \in Seq(Names)
        BY <1>5, <1>9 DEF PolicyReload, PolicyState, Row
    <2>2. PICK new \in Seq(Names) :
             new = Without(policy[c].targets,
                           Range(policy[c].row.regions) \cup policy[c].row.replicatedTo)
        BY <2>1, WithoutElements
    <2>3. PICK list \in Seq(Names) : list = Union(policy[c].row.regions, policy[c].targets)
        BY <2>1, UnionType
    <2>4. PICK row \in Row : row = [regions |-> list,
                                    replicatedTo |-> files[policy[c].file].replicatedTo]
        BY <1>6, <2>1 DEF Row
    <2>5. PICK p : p = [policy[c] EXCEPT !.at = "save", !.row = row, !.new = new]
        OBVIOUS
    <2>6. p \in PolicyState /\ p.at = "save" /\ p.file \in Files
        BY <2>1, <2>5 DEF PolicyState
    <2>7. policy' = [policy EXCEPT ![c] = p]
        BY <1>9, <2>2, <2>3, <2>4, <2>5 DEF PolicyReload
    <2> QED BY <1>3, <2>6, <2>7
<1>10. ASSUME NEW c \in Clients, NEW step \in {"answer", "queue"}, policy[c].at # "idle",
              step = "queue" => policy[c].new # << >>, policy' = [policy EXCEPT ![c].at = step]
       PROVE  PolicyTyped'
    <2>1. PICK p : p = [policy[c] EXCEPT !.at = step]
        OBVIOUS
    <2>2. p \in PolicyState /\ p.at = step /\ p.file \in Files /\ p.new = policy[c].new
        BY <1>5, <1>10, <2>1 DEF PolicyState
    <2>3. policy' = [policy EXCEPT ![c] = p]
        BY <1>10, <2>1
    <2> QED BY <1>3, <1>10, <2>2, <2>3
<1>11. ASSUME NEW c \in Clients, PolicySave(c) \/ PolicyQueue(c) PROVE PolicyTyped'
    BY <1>10, <1>11 DEF PolicySave, PolicyQueue
<1>12. ASSUME NEW c \in Clients, PolicyAnswer(c) \/ RequestFails(c) PROVE PolicyTyped'
    BY <1>3, <1>4, <1>12 DEF PolicyAnswer, RequestFails
<1>13. CASE Crash
    BY <1>4, <1>13 DEF Crash, PolicyTyped
<1>14. CASE Administration
    BY <1>2, <1>14 DEF Administration
<1>15. ASSUME NEW f \in Files, UploadFinishes(f) PROVE PolicyTyped'
    BY <1>2, <1>15 DEF UploadFinishes
<1>16. ASSUME NEW r \in Runs, Run(r) PROVE PolicyTyped'
    BY <1>2, <1>16 DEF Run, TakeJob, FindRegion, FindNode, Assemble, Copy, CopyEntry, CopyChunk,
                       CopyNode, DeductFile, LoadMetadata, SaveMetadata
<1>17. ASSUME NEW r \in Runs, CallFails(r) \/ \E c \in Chunks : CopyFails(r, c) PROVE PolicyTyped'
    BY <1>2, <1>17 DEF CallFails, CopyFails
<1>18. CASE UNCHANGED vars
    BY <1>2, <1>18 DEF vars
<1> QED BY <1>7, <1>8, <1>9, <1>11, <1>12, <1>13, <1>14, <1>15, <1>16, <1>17, <1>18
        DEF Next, Policy

-----------------------------------------------------------------------------
(* The executions *)

LEMMA RunIdleOK == RunOK(RunIdle)
<1>1. RunIdle \in RunState
    BY DEF RunIdle, RunState, NoRow, Row, StorageNode
<1> QED BY <1>1 DEF RunIdle, RunOK

(* An execution moves on to q, or ends, and writes no job but its own. *)
OwnJob(r) ==
    \/ UNCHANGED jobs
    \/ runs[r].job # Null /\ \E job : jobs' = [jobs EXCEPT ![runs[r].job] = job]

Goes(r, q) ==
    /\ q.job \in {Null, runs[r].job}
    /\ runs' = [runs EXCEPT ![r] = q]
    /\ RunOK(q)'

LEMMA RunGoes ==
    ASSUME Typed, NEW r \in Runs, NEW q, OwnJob(r), Goes(r, q) PROVE RunsTyped'
<1>1. RunsTyped /\ JobsTyped
    BY DEF Typed
<1>2. runs'[r] = q /\ DOMAIN runs' = Runs /\ \A s \in Runs \ {r} : runs'[s] = runs[s]
    BY <1>1 DEF RunsTyped, Goes
<1>3. ASSUME NEW s \in Runs \ {r} PROVE RunOK(runs[s])'
    <2>1. PICK u : u = runs[s]
        OBVIOUS
    <2>2. RunOK(u) /\ (u.job # Null => u.job # runs[r].job)
        BY <1>1, <2>1 DEF RunsTyped, Exclusive
    <2>3. u.job # Null => u.job \in Jobs /\ jobs'[u.job] = jobs[u.job]
        BY <1>1, <2>2 DEF RunOK, RunState, JobsTyped, OwnJob
    <2>4. RunOK(u)'
        BY <2>2, <2>3 DEF RunOK
    <2> QED BY <1>2, <2>1, <2>4 DEF RunOK
<1>4. RunOK(runs[r])'
    BY <1>2 DEF RunOK, Goes
<1>5. Exclusive'
    BY <1>1, <1>2 DEF RunsTyped, Exclusive, Goes
<1> QED BY <1>2, <1>3, <1>4, <1>5 DEF RunsTyped

LEMMA RunEndsOK ==
    ASSUME Typed, NEW r \in Runs, RunEnds(r), OwnJob(r)
    PROVE  RunsTyped'
<1>1. PICK q : q = RunIdle
    OBVIOUS
<1>2. q.job = Null /\ RunOK(q)
    BY <1>1, RunIdleOK DEF RunIdle
<1>3. RunOK(q)'
    BY <1>2 DEF RunOK
<1>4. runs' = [runs EXCEPT ![r] = q]
    BY <1>1 DEF RunEnds
<1>5. Goes(r, q)
    BY <1>2, <1>3, <1>4 DEF Goes
<1> QED BY <1>5, RunGoes

LEMMA ThrowsOK ==
    ASSUME Typed, NEW r \in Runs, runs[r].job # Null, Throws(r) PROVE RunsTyped'
<1>1. OwnJob(r)
    BY DEF Throws, OwnJob
<1> QED BY <1>1, RunEndsOK DEF Throws

LEMMA TakeJobOK ==
    ASSUME ReplicationAssumption, Typed, NEW r \in Runs, TakeJob(r) PROVE RunsTyped'
<1>1. RunsTyped /\ JobsTyped
    BY DEF Typed
<1>2. PICK j \in Jobs :
         /\ jobs[j].state = "waiting"
         /\ jobs' = [jobs EXCEPT ![j].state = "active"]
         /\ runs' = [runs EXCEPT ![r] = [RunIdle EXCEPT !.at = "region", !.job = j,
                                                        !.file = jobs[j].file, !.k = 1]]
    BY DEF TakeJob
<1>3. jobs[j] \in Job /\ jobs[j].targets # << >>
    BY <1>1, <1>2, JobIsTyped DEF NoJob
<1>4. PICK q : q = [RunIdle EXCEPT !.at = "region", !.job = j, !.file = jobs[j].file, !.k = 1]
    OBVIOUS
<1>5. q \in RunState /\ q.at = "region" /\ q.job = j /\ q.k = 1 /\ q.file = jobs[j].file
      /\ q.file \in Files
    <2>1. RunIdle \in RunState
        BY RunIdleOK DEF RunOK
    <2>2. jobs[j].file \in Files
        BY <1>3 DEF Job
    <2> QED BY <1>4, <2>1, <2>2 DEF RunState
<1>6. jobs'[j] = [jobs[j] EXCEPT !.state = "active"] /\ \A i \in Jobs \ {j} : jobs'[i] = jobs[i]
    BY <1>1, <1>2 DEF JobsTyped
<1>7. jobs'[j].state = "active" /\ jobs'[j].file = jobs[j].file
      /\ jobs'[j].targets = jobs[j].targets
    BY <1>3, <1>6 DEF Job
<1>8. jobs'[j] # NoJob /\ 1 \in 1..Len(jobs'[j].targets)
    <2>1. jobs[j].targets \in Seq(Names)
        BY <1>3 DEF Job
    <2>2. 1 \in 1..Len(jobs[j].targets)
        BY <1>3, <2>1
    <2> QED BY <1>7, <2>2 DEF NoJob
<1>9. RunOK(q)'
    BY <1>5, <1>7, <1>8 DEF RunOK, ReplicationAssumption
<1>10. runs'[r] = q /\ DOMAIN runs' = Runs /\ \A s \in Runs \ {r} : runs'[s] = runs[s]
    BY <1>1, <1>2, <1>4 DEF RunsTyped
<1>11. \A s \in Runs : runs[s].job # Null => runs[s].job \in Jobs \ {j}
    BY <1>1, <1>2 DEF RunsTyped, RunOK, RunState
<1>12. ASSUME NEW s \in Runs \ {r} PROVE RunOK(runs[s])'
    <2>1. PICK u : u = runs[s]
        OBVIOUS
    <2>2. RunOK(u) /\ (u.job # Null => jobs'[u.job] = jobs[u.job])
        BY <1>1, <1>6, <1>11, <2>1 DEF RunsTyped
    <2>3. RunOK(u)'
        BY <2>2 DEF RunOK
    <2> QED BY <1>10, <2>1, <2>3 DEF RunOK
<1>13. RunOK(runs[r])'
    BY <1>9, <1>10 DEF RunOK
<1>14. Exclusive'
    BY <1>1, <1>5, <1>10, <1>11 DEF RunsTyped, Exclusive
<1> QED BY <1>10, <1>12, <1>13, <1>14 DEF RunsTyped

(* The steps before the copies find a region, a node and the data. *)
LEMMA StartOK ==
    ASSUME Typed, IInv, NEW r \in Runs, FindRegion(r) \/ FindNode(r) \/ Assemble(r)
    PROVE  RunsTyped'
<1>1. /\ RunOK(runs[r]) /\ runs[r] \in RunState
      /\ runs[r].at \in {"region", "nodes", "assemble"}
      /\ runs[r].job # Null /\ runs[r].file \in Files
    BY DEF Typed, RunsTyped, RunOK, FindRegion, FindNode, Assemble, RunAt
<1>2. ASSUME NEW q \in RunState, q.at \in {"nodes", "assemble", "copy"},
             q.job = runs[r].job, q.file = runs[r].file, q.k = runs[r].k,
             q.at = "copy" => q.node \in NodeIds,
             runs' = [runs EXCEPT ![r] = q], UNCHANGED jobs
      PROVE  RunsTyped'
    <2>1. RunOK(q)'
        BY <1>1, <1>2 DEF RunOK
    <2>2. OwnJob(r) /\ Goes(r, q)
        BY <1>2, <2>1 DEF OwnJob, Goes
    <2> QED BY <2>2, RunGoes
<1>3. CASE Throws(r)
    BY <1>1, <1>3, ThrowsOK
<1>4. CASE FindRegion(r) /\ ~Throws(r)
    <2>1. PICK id \in RegionIds :
             runs' = [runs EXCEPT ![r].at = "nodes", ![r].region = id] /\ UNCHANGED jobs
        BY <1>4 DEF FindRegion, getRegionByName
    <2>2. PICK q : q = [runs[r] EXCEPT !.at = "nodes", !.region = id]
        OBVIOUS
    <2>3. /\ q \in RunState /\ q.at = "nodes" /\ q.job = runs[r].job
          /\ q.file = runs[r].file /\ q.k = runs[r].k
        BY <1>1, <2>2 DEF RunState
    <2>4. runs' = [runs EXCEPT ![r] = q]
        BY <2>1, <2>2
    <2> QED BY <1>2, <2>1, <2>3, <2>4
<1>5. CASE FindNode(r) /\ ~Throws(r)
    <2>1. PICK n \in NodeIds :
             /\ runs' = [runs EXCEPT ![r].at = "assemble", ![r].node = n, ![r].target = nodes[n]]
             /\ UNCHANGED jobs
        BY <1>5 DEF FindNode, getStorageNodesInRegion
    <2>2. PICK q : q = [runs[r] EXCEPT !.at = "assemble", !.node = n, !.target = nodes[n]]
        OBVIOUS
    <2>3. nodes[n] \in StorageNode
        BY DEF Typed, RowsTyped, StorageTypeOK
    <2>4. /\ q \in RunState /\ q.at = "assemble" /\ q.job = runs[r].job
          /\ q.file = runs[r].file /\ q.k = runs[r].k
        BY <1>1, <2>2, <2>3 DEF RunState
    <2>5. runs' = [runs EXCEPT ![r] = q]
        BY <2>1, <2>2
    <2> QED BY <1>2, <2>1, <2>4, <2>5
<1>6. CASE Assemble(r) /\ ~Throws(r)
    <2>1. PICK copy \in [Chunks -> {"entry", "chunk", "node", "done"}] :
             runs' = [runs EXCEPT ![r].at = "copy", ![r].copy = copy] /\ UNCHANGED jobs
        <3>1. PICK copy : /\ copy = [c \in Chunks |-> IF c \in ChunksOf[runs[r].file]
                                                      THEN "entry" ELSE "done"]
                          /\ runs' = [runs EXCEPT ![r].at = "copy", ![r].copy = copy]
                          /\ UNCHANGED jobs
            BY <1>6 DEF Assemble
        <3>2. copy \in [Chunks -> {"entry", "chunk", "node", "done"}]
            BY <3>1
        <3> QED BY <3>1, <3>2
    <2>2. PICK q : q = [runs[r] EXCEPT !.at = "copy", !.copy = copy]
        OBVIOUS
    <2>3. runs[r].node \in NodeIds
        BY <1>6, RunMemory DEF Assemble, RunAt
    <2>4. /\ q \in RunState /\ q.at = "copy" /\ q.job = runs[r].job
          /\ q.file = runs[r].file /\ q.k = runs[r].k /\ q.node \in NodeIds
        BY <1>1, <2>2, <2>3 DEF RunState
    <2>5. runs' = [runs EXCEPT ![r] = q]
        BY <2>1, <2>2
    <2> QED BY <1>2, <2>1, <2>4, <2>5
<1> QED BY <1>3, <1>4, <1>5, <1>6

LEMMA CopyOK ==
    ASSUME ReplicationAssumption, Typed, IInv, NEW r \in Runs, Copy(r) \/ DeductFile(r)
    PROVE  RunsTyped'
<1>1. /\ RunOK(runs[r]) /\ runs[r] \in RunState /\ runs[r].target \in StorageNode
    BY DEF Typed, RunsTyped, RunOK, RunState
<1>2. ASSUME runs[r].at \in {"copy", "stray"}, runs[r].node \in NodeIds,
             NEW q \in RunState, q.at = runs[r].at \/ (q.at = "metaLoad" /\ runs[r].at = "copy"),
             q.job = runs[r].job, q.file = runs[r].file, q.k = runs[r].k, q.node = runs[r].node,
             runs' = [runs EXCEPT ![r] = q], UNCHANGED jobs
      PROVE  RunsTyped'
    <2>1. RunOK(q)'
        BY <1>1, <1>2 DEF RunOK
    <2>2. OwnJob(r) /\ Goes(r, q)
        BY <1>2, <2>1 DEF OwnJob, Goes
    <2> QED BY <2>2, RunGoes
<1>3. ASSUME NEW c \in Chunks, runs[r].copy[c] # "done",
             NEW step \in {"chunk", "node", "done"}, NEW target \in StorageNode,
             runs' = [runs EXCEPT ![r] = [runs[r] EXCEPT !.copy[c] = step, !.target = target]],
             UNCHANGED jobs
      PROVE  RunsTyped'
    <2>1. PICK q : q = [runs[r] EXCEPT !.copy[c] = step, !.target = target]
        OBVIOUS
    <2>2. /\ q \in RunState /\ q.at = runs[r].at /\ q.job = runs[r].job
          /\ q.file = runs[r].file /\ q.k = runs[r].k /\ q.node = runs[r].node
        BY <1>1, <2>1 DEF RunState
    <2>3. runs[r].at \in {"copy", "stray"} /\ runs[r].node \in NodeIds
        BY <1>3, RunMemory
    <2>4. runs' = [runs EXCEPT ![r] = q]
        BY <1>3, <2>1
    <2> QED BY <1>2, <1>3, <2>2, <2>3, <2>4
<1>4. ASSUME NEW c \in Chunks, CopyEntry(r, c) \/ CopyChunk(r, c) PROVE RunsTyped'
    <2>1. PICK step \in {"chunk", "node"} : runs' = [runs EXCEPT ![r].copy[c] = step]
        BY <1>4 DEF CopyEntry, CopyChunk
    <2>2. [runs[r] EXCEPT !.copy[c] = step]
              = [runs[r] EXCEPT !.copy[c] = step, !.target = runs[r].target]
        BY <1>1 DEF RunState
    <2>3. runs[r].copy[c] # "done" /\ UNCHANGED jobs
        BY <1>4 DEF CopyEntry, CopyChunk
    <2>4. runs' = [runs EXCEPT ![r] = [runs[r] EXCEPT !.copy[c] = step, !.target = runs[r].target]]
        BY <2>1, <2>2
    <2> QED BY <1>1, <1>3, <2>3, <2>4
<1>5. ASSUME NEW c \in Chunks, CopyNode(r, c) PROVE RunsTyped'
    <2>1. PICK less : less = [runs[r].target EXCEPT !.available = @ - 1]
        OBVIOUS
    <2>2. less \in StorageNode
        BY <1>1, <1>5, <2>1, RunMemory DEF CopyNode, IInv, RunInv, Mirrors, Live, StorageNode
    <2>3. runs[r].copy[c] # "done" /\ UNCHANGED jobs
        BY <1>5 DEF CopyNode
    <2>4. CASE runs' = [runs EXCEPT ![r] = RunIdle]
        BY <2>3, <2>4, RunEndsOK DEF RunEnds, OwnJob
    <2>5. CASE runs' = [runs EXCEPT ![r] = [runs[r] EXCEPT !.copy[c] = "done", !.target = less]]
        BY <1>3, <2>2, <2>3, <2>5
    <2> QED BY <1>5, <2>1, <2>4, <2>5 DEF CopyNode, CopyDone
<1>6. CASE DeductFile(r)
    <2>1. PICK less : less = [runs[r].target EXCEPT !.available = @ - Size(runs[r].file)]
        OBVIOUS
    <2>2. runs[r].at = "copy" /\ runs[r].file \in Files /\ runs[r].node \in NodeIds
        BY <1>6, RunMemory DEF DeductFile, RunAt
    <2>3. less \in StorageNode
        <3>1. PICK size \in Nat : size = Size(runs[r].file)
            BY <2>2, SizeInt
        <3>2. runs[r].target \in Live
            BY <2>2 DEF IInv, RunInv, Mirrors
        <3>3. less \in Live
            BY <2>1, <3>1, <3>2 DEF Live
        <3> QED BY <3>3 DEF Live, StorageNode
    <2>4. PICK q : q = [runs[r] EXCEPT !.at = "metaLoad", !.target = less]
        OBVIOUS
    <2>5. /\ q \in RunState /\ q.at = "metaLoad" /\ q.job = runs[r].job
          /\ q.file = runs[r].file /\ q.k = runs[r].k /\ q.node = runs[r].node
        BY <1>1, <2>3, <2>4 DEF RunState
    <2>6. runs' = [runs EXCEPT ![r] = q] /\ UNCHANGED jobs
        BY <1>6, <2>1, <2>4 DEF DeductFile
    <2> QED BY <1>2, <2>2, <2>5, <2>6
<1> QED BY <1>4, <1>5, <1>6 DEF Copy

LEMMA MetadataOK ==
    ASSUME ReplicationAssumption, Typed, IInv, NEW r \in Runs, LoadMetadata(r) \/ SaveMetadata(r)
    PROVE  RunsTyped'
<1> USE DEF storageVars
<1>1. /\ RunOK(runs[r]) /\ runs[r] \in RunState /\ runs[r].at \in {"metaLoad", "metaSave"}
      /\ runs[r].job \in Jobs /\ jobs[runs[r].job] # NoJob
      /\ runs[r].k \in 1..Len(jobs[runs[r].job].targets)
      /\ runs[r].file = jobs[runs[r].job].file /\ runs[r].file \in Files
    BY DEF Typed, RunsTyped, RunOK, RunState, LoadMetadata, SaveMetadata, RunAt
<1>2. jobs[runs[r].job] \in Job /\ jobs[runs[r].job].targets \in Seq(Names)
    BY <1>1, JobIsTyped DEF Typed, Job
<1>3. CASE LoadMetadata(r)
    <2>1. PICK f \in Files : f = runs[r].file
        BY <1>1
    <2>2. PICK name \in Names : name = TargetRegion(r)
        BY <1>1, <1>2 DEF TargetRegion
    <2>3. files[f] \in Row
        BY DEF Typed, RowsTyped
    <2>4. PICK list \in Seq(Names) : list = Union(files[f].regions, <<name>>)
        <3>1. files[f].regions \in Seq(Names) /\ <<name>> \in Seq(Names)
            BY <2>3 DEF Row
        <3> QED BY Zenon, <3>1, UnionType
    <2>5. PICK row \in Row : row = [regions |-> list,
                                    replicatedTo |-> files[f].replicatedTo \cup {name}]
        BY <2>3 DEF Row
    <2>6. PICK q : q = [runs[r] EXCEPT !.at = "metaSave", !.row = row]
        OBVIOUS
    <2>7. /\ q \in RunState /\ q.at = "metaSave" /\ q.job = runs[r].job
          /\ q.file = runs[r].file /\ q.k = runs[r].k
        BY <1>1, <2>6 DEF RunState
    <2>8. runs' = [runs EXCEPT ![r] = q] /\ UNCHANGED jobs
        BY <1>3, <2>1, <2>2, <2>4, <2>5, <2>6 DEF LoadMetadata
    <2>9. RunOK(q)'
        BY <1>1, <2>7, <2>8 DEF RunOK
    <2>10. OwnJob(r) /\ Goes(r, q)
        BY <2>7, <2>8, <2>9 DEF OwnJob, Goes
    <2> QED BY <2>10, RunGoes
<1>4. CASE SaveMetadata(r) /\ runs[r].k < Len(jobs[runs[r].job].targets)
    <2>1. PICK q : q = [RunIdle EXCEPT !.at = "region", !.job = runs[r].job,
                                       !.file = jobs[runs[r].job].file, !.k = runs[r].k + 1]
        OBVIOUS
    <2>2. runs' = [runs EXCEPT ![r] = q] /\ UNCHANGED jobs
        BY <1>4, <2>1 DEF SaveMetadata
    <2>3. runs[r].k + 1 \in 1..Len(jobs[runs[r].job].targets) /\ runs[r].k + 1 \in Nat
        BY <1>1, <1>2, <1>4
    <2>4. /\ q \in RunState /\ q.at = "region" /\ q.job = runs[r].job
          /\ q.file = jobs[runs[r].job].file /\ q.k = runs[r].k + 1
        <3>1. RunIdle \in RunState
            BY RunIdleOK DEF RunOK
        <3> QED BY <1>1, <2>1, <2>3, <3>1 DEF RunState
    <2>5. RunOK(q)'
        BY <1>1, <2>2, <2>3, <2>4 DEF RunOK
    <2>6. OwnJob(r) /\ Goes(r, q)
        BY <2>2, <2>4, <2>5 DEF OwnJob, Goes
    <2> QED BY <2>6, RunGoes
<1>5. CASE SaveMetadata(r) /\ ~(runs[r].k < Len(jobs[runs[r].job].targets))
    <2>1. RunEnds(r) /\ jobs' = [jobs EXCEPT ![runs[r].job].state = "completed"]
        BY <1>5 DEF SaveMetadata
    <2>2. PICK job : job = [jobs[runs[r].job] EXCEPT !.state = "completed"]
        OBVIOUS
    <2>3. jobs' = [jobs EXCEPT ![runs[r].job] = job] /\ runs[r].job # Null
        BY <1>1, <2>1, <2>2 DEF ReplicationAssumption
    <2> QED BY <2>1, <2>3, RunEndsOK DEF OwnJob
<1> QED BY <1>3, <1>4, <1>5

LEMMA FailureOK ==
    ASSUME ReplicationAssumption, Typed, IInv, NEW r \in Runs,
           CallFails(r) \/ \E c \in Chunks : CopyFails(r, c)
    PROVE  RunsTyped'
<1>1. CASE CallFails(r)
    BY <1>1, ThrowsOK DEF CallFails
<1>2. ASSUME NEW c \in Chunks, CopyFails(r, c) PROVE RunsTyped'
    <2>1. /\ RunOK(runs[r]) /\ runs[r] \in RunState
          /\ runs[r].at \in {"copy", "stray"} /\ runs[r].node \in NodeIds /\ runs[r].file \in Files
        BY <1>2, RunMemory DEF Typed, RunsTyped, CopyFails, Copying
    <2>2. OwnJob(r)
        BY <1>2 DEF CopyFails, OwnJob
    <2>3. PICK q : q = [runs[r] EXCEPT !.at = "stray", !.job = Null, !.copy[c] = "done"]
        OBVIOUS
    <2>4. /\ q \in RunState /\ q.at = "stray" /\ q.job = Null
          /\ q.file = runs[r].file /\ q.node = runs[r].node
        BY <2>1, <2>3 DEF RunState
    <2>5. RunOK(q)'
        BY <2>1, <2>4 DEF RunOK
    <2>6. runs' = [runs EXCEPT ![r] = q] \/ RunEnds(r)
        BY <1>2, <2>3 DEF CopyFails, RunEnds
    <2>7. CASE runs' = [runs EXCEPT ![r] = q]
        <3>1. Goes(r, q)
            BY <2>4, <2>5, <2>7 DEF Goes
        <3> QED BY <2>2, <3>1, RunGoes
    <2> QED BY <2>2, <2>6, <2>7, RunEndsOK
<1> QED BY <1>1, <1>2

LEMMA RunsStep ==
    ASSUME ReplicationAssumption, StorageAssumption, IInv, Typed, [Next]_vars
    PROVE  RunsTyped'
<1> USE DEF storageVars
<1>1. RunsTyped /\ JobsTyped
    BY DEF Typed
<1>2. ASSUME UNCHANGED runs,
             \A r \in Runs : runs[r].job # Null => jobs'[runs[r].job] = jobs[runs[r].job]
      PROVE  RunsTyped'
    <2>1. ASSUME NEW r \in Runs PROVE RunOK(runs[r])'
        <3>1. PICK u : u = runs[r]
            OBVIOUS
        <3>2. RunOK(u) /\ (u.job # Null => jobs'[u.job] = jobs[u.job])
            BY <1>1, <1>2, <3>1 DEF RunsTyped
        <3>3. RunOK(u)'
            BY <3>2 DEF RunOK
        <3> QED BY <1>2, <3>1, <3>3 DEF RunOK
    <2> QED BY <1>1, <1>2, <2>1 DEF RunsTyped, Exclusive
<1>3. ASSUME UNCHANGED runs, NEW f, NEW t, NEW a, NewJob(f, t, a) PROVE RunsTyped'
    <2>1. PICK j \in Jobs : jobs[j] = NoJob /\ \A i \in Jobs \ {j} : jobs'[i] = jobs[i]
        BY <1>1, <1>3 DEF NewJob, JobsTyped
    <2>2. \A r \in Runs : runs[r].job # Null => runs[r].job \in Jobs \ {j}
        BY <1>1, <2>1 DEF RunsTyped, RunOK, RunState
    <2> QED BY <1>2, <1>3, <2>1, <2>2
<1>4. CASE Administration
    BY <1>2, <1>4 DEF Administration
<1>5. ASSUME NEW f \in Files, UploadFinishes(f) PROVE RunsTyped'
    BY <1>2, <1>3, <1>5 DEF UploadFinishes
<1>6. ASSUME NEW c \in Clients, PolicyLoad(c) \/ Policy(c) \/ RequestFails(c) PROVE RunsTyped'
    BY <1>2, <1>3, <1>6 DEF PolicyLoad, Policy, PolicyCheck, PolicyReload, PolicySave,
                            PolicyQueue, PolicyAnswer, RequestFails
<1>7. CASE Crash
    <2>1. runs' = [r \in Runs |-> RunIdle] /\ RunIdle.job = Null
        BY <1>7 DEF Crash, RunIdle
    <2>2. PICK q : q = RunIdle
        OBVIOUS
    <2>3. RunOK(q) /\ q.job = Null
        BY <2>1, <2>2, RunIdleOK
    <2>4. RunOK(q)'
        BY <2>3 DEF RunOK
    <2>5. \A r \in Runs : RunOK(runs[r])'
        BY <2>1, <2>2, <2>4 DEF RunOK
    <2> QED BY <2>1, <2>5 DEF RunsTyped, Exclusive
<1>8. CASE UNCHANGED vars
    BY <1>2, <1>8 DEF vars
<1> QED BY <1>4, <1>5, <1>6, <1>7, <1>8, TakeJobOK, StartOK, CopyOK, MetadataOK, FailureOK
        DEF Next, Run

LEMMA InitTyped ==
    ASSUME ReplicationAssumption, StorageAssumption, Init PROVE Typed
<1> USE DEF Init, StorageInit
<1>1. RowsTyped
    <2>1. AdminIdle \in AdminState
        BY DEF AdminIdle, AdminState, StorageNode
    <2>2. <<InitRegion>> \in Seq(Names)
        BY DEF ReplicationAssumption
    <2>3. files \in [Files -> Row]
        BY <2>2 DEF Row
    <2> QED BY <2>1, <2>3 DEF RowsTyped, StorageTypeOK, StorageAssumption
<1>2. JobsTyped
    BY DEF JobsTyped
<1>3. PolicyTyped
    BY DEF PolicyTyped, PolicyIdle, PolicyState, NoRow, Row
<1>4. RunsTyped
    BY RunIdleOK DEF RunsTyped, Exclusive, RunIdle
<1> QED BY <1>1, <1>2, <1>3, <1>4 DEF Typed

LEMMA TypedInvariant ==
    ASSUME ReplicationAssumption, StorageAssumption PROVE Spec => []Typed
<1>1. Init => Typed
    BY InitTyped
<1>2. ASSUME IInv, IInv', Typed, [Next]_vars PROVE Typed'
    BY <1>2, RowsStep, JobsStep, PolicyTypedStep, RunsStep DEF Typed
<1> QED BY <1>1, <1>2, InductiveInvariant, PTL DEF Spec

(* The tables, the queue and the local states keep their shape, and an     *)
(* execution has an active job of its own file, at one of its targets,     *)
(* which no other execution has, through retries, stops and copies that go *)
(* on without their job (processReplicationJob, createReplicationPolicy).  *)
THEOREM TypeCorrect ==
    ASSUME ReplicationAssumption, StorageAssumption PROVE Spec => [](TypeOK /\ Exclusive)
<1>1. Typed => TypeOK /\ Exclusive
    BY TypedIsTypeOK
<1> QED BY <1>1, TypedInvariant, PTL

-----------------------------------------------------------------------------
(* A completed job.  Two saves of one File row can undo each other, so     *)
(* that two things are supposed of the schedule: one job runs at a time,   *)
(* as Bull has it unless @Process names a concurrency, and a policy is     *)
(* only requested for a file whose replication is at rest.                 *)

Ended == {"completed", "failed"}

(* No job of the file is left, and the end of its upload will queue none. *)
AtRest(f) ==
    /\ \A j \in Jobs : jobs[j] # NoJob /\ jobs[j].file = f => jobs[j].state \in Ended
    /\ f \in ready \/ Len(files[f].regions) = 1

OnePolicyAtATime ==
    \A c \in Clients : PolicyLoad(c) =>
        AtRest(policy'[c].file) /\ \A d \in Clients : policy[d].file # policy'[c].file

OneRun == \A r, s \in Runs : runs[r].job # Null /\ runs[s].job # Null => r = s

OnePolicy ==
    \A c, d \in Clients : policy[c].at # "idle" /\ policy[d].at # "idle"
                          /\ policy[c].file = policy[d].file => c = d

Undisturbed(p) ==
    /\ p.at \in {"check", "reload", "save"} => AtRest(p.file)
    /\ p.at = "save" => p.row.replicatedTo = files[p.file].replicatedTo

Progress(q) ==
    q.job # Null =>
        /\ \A i \in 1..(q.k - 1) : jobs[q.job].targets[i] \in files[q.file].replicatedTo
        /\ q.at = "metaSave" =>
              q.row.replicatedTo = files[q.file].replicatedTo \cup {Target(q)}

CInv ==
    /\ OneRun /\ OnePolicy
    /\ \A c \in Clients : Undisturbed(policy[c])
    /\ \A r \in Runs : Progress(runs[r])
    /\ CompletedMeansReplicated

(* Jobs keep their file and targets, those that have ended stay so, and    *)
(* new ones are for files of G.                                            *)
Grows(G) ==
    \A j \in Jobs :
        \/ jobs[j] = NoJob /\ jobs'[j] = NoJob
        \/ /\ jobs[j] # NoJob /\ jobs'[j] # NoJob
           /\ jobs'[j].file = jobs[j].file /\ jobs'[j].targets = jobs[j].targets
           /\ jobs[j].state \in Ended => jobs'[j].state = jobs[j].state
        \/ jobs[j] = NoJob /\ jobs'[j].file \in G /\ jobs'[j].state = "waiting"

NoneCompletes == \A j \in Jobs : jobs'[j].state = "completed" => jobs[j].state = "completed"

LEMMA GrowsSame == ASSUME UNCHANGED jobs, NEW G PROVE Grows(G) /\ NoneCompletes
BY DEF Grows, NoneCompletes

LEMMA GrowsNew ==
    ASSUME JobsTyped, NEW f, NEW t, NEW a, NewJob(f, t, a) PROVE Grows({f}) /\ NoneCompletes
<1>1. PICK j \in Jobs :
         /\ jobs[j] = NoJob
         /\ jobs' = [jobs EXCEPT ![j] = [state |-> "waiting", file |-> f, targets |-> t,
                                         attempts |-> a, stalls |-> 1]]
    BY DEF NewJob
<1>2. jobs'[j].file = f /\ jobs'[j].state = "waiting" /\ \A i \in Jobs \ {j} : jobs'[i] = jobs[i]
    BY <1>1 DEF JobsTyped
<1> QED BY <1>1, <1>2 DEF Grows, NoneCompletes

(* One job that has not ended moves on. *)
LEMMA GrowsMoved ==
    ASSUME JobsTyped, NEW j \in Jobs, jobs[j] # NoJob, jobs[j].state \notin Ended, NEW job,
           job # NoJob, job.file = jobs[j].file, job.targets = jobs[j].targets,
           jobs' = [jobs EXCEPT ![j] = job]
    PROVE  Grows({}) /\ (job.state # "completed" => NoneCompletes)
<1>1. jobs'[j] = job /\ \A i \in Jobs \ {j} : jobs'[i] = jobs[i]
    BY DEF JobsTyped
<1> QED BY <1>1 DEF Grows, NoneCompletes

LEMMA GrowsTo ==
    ASSUME JobsTyped, NEW j \in Jobs, jobs[j].state \in {"waiting", "active"}, NEW state,
           jobs' = [jobs EXCEPT ![j].state = state]
    PROVE  Grows({}) /\ (state # "completed" => NoneCompletes)
<1>1. jobs[j] # NoJob /\ jobs[j].state \notin Ended
    BY DEF NoJob, Ended
<1>2. PICK job : job = [jobs[j] EXCEPT !.state = state]
    OBVIOUS
<1>3. job # NoJob /\ job.state = state /\ job.file = jobs[j].file /\ job.targets = jobs[j].targets
    BY <1>1, <1>2, JobIsTyped DEF Job, NoJob
<1>4. jobs' = [jobs EXCEPT ![j] = job]
    BY <1>2
<1> QED BY <1>1, <1>3, <1>4, GrowsMoved

LEMMA GrowsRetried ==
    ASSUME JobsTyped, NEW j \in Jobs, jobs[j].state = "active", jobs' = [jobs EXCEPT ![j] = Retried(@)]
    PROVE  Grows({}) /\ NoneCompletes
<1>1. jobs[j] # NoJob /\ jobs[j].state \notin Ended
    BY DEF NoJob, Ended
<1>2. PICK job : job = Retried(jobs[j])
    OBVIOUS
<1>3. /\ job # NoJob /\ job.state # "completed"
      /\ job.file = jobs[j].file /\ job.targets = jobs[j].targets
    BY <1>1, <1>2, JobIsTyped DEF Retried, Job, NoJob
<1>4. jobs' = [jobs EXCEPT ![j] = job]
    BY <1>2
<1> QED BY <1>1, <1>3, <1>4, GrowsMoved

LEMMA GrowsStalled ==
    ASSUME JobsTyped, jobs' = StallActive(jobs) PROVE Grows({}) /\ NoneCompletes
<1>1. \A j \in Jobs : jobs'[j] = IF jobs[j].state = "active" THEN Stalled(jobs[j]) ELSE jobs[j]
    BY DEF StallActive, JobsTyped
<1>2. ASSUME NEW j \in Jobs, jobs[j].state = "active"
      PROVE  /\ jobs[j] # NoJob /\ jobs'[j] # NoJob /\ jobs'[j].state # "completed"
             /\ jobs'[j].file = jobs[j].file /\ jobs'[j].targets = jobs[j].targets
    <2>1. jobs[j] \in Job
        BY <1>2, JobIsTyped DEF NoJob
    <2>2. jobs'[j] = Stalled(jobs[j])
        BY <1>1, <1>2
    <2>3. jobs[j] # NoJob
        BY <1>2 DEF NoJob
    <2>4. jobs'[j] = [jobs[j] EXCEPT !.state = "waiting", !.stalls = @ - 1]
          \/ jobs'[j] = [jobs[j] EXCEPT !.state = "failed"]
        BY <2>2 DEF Stalled
    <2>5. /\ jobs'[j].state \in {"waiting", "failed"}
          /\ jobs'[j].file = jobs[j].file /\ jobs'[j].targets = jobs[j].targets
        BY <2>1, <2>4 DEF Job
    <2> QED BY <2>3, <2>5 DEF NoJob
<1> QED BY <1>1, <1>2 DEF Grows, NoneCompletes, Ended

LEMMA RestStays ==
    ASSUME NEW G, Grows(G), NEW f, f \notin G, AtRest(f), ready \subseteq ready',
           files'[f].regions = files[f].regions
    PROVE  AtRest(f)'
BY DEF Grows, AtRest

LEMMA CompletedStays ==
    ASSUME Typed, NEW G, Grows(G), NoneCompletes, CompletedMeansReplicated,
           \A f \in Files : files[f].replicatedTo \subseteq files'[f].replicatedTo
    PROVE  CompletedMeansReplicated'
<1> SUFFICES ASSUME NEW j \in Jobs, jobs'[j].state = "completed"
             PROVE  Range(jobs'[j].targets) \subseteq files'[jobs'[j].file].replicatedTo
    BY DEF CompletedMeansReplicated
<1>1. jobs[j].state = "completed"
    BY DEF NoneCompletes
<1>2. jobs[j] # NoJob
    BY <1>1 DEF NoJob
<1>3. jobs'[j].file = jobs[j].file /\ jobs'[j].targets = jobs[j].targets /\ jobs[j].file \in Files
    BY <1>2, JobIsTyped DEF Grows, Typed, Job
<1> QED BY <1>1, <1>3 DEF CompletedMeansReplicated

LEMMA ProgressStays ==
    ASSUME NEW G, Grows(G), NEW q, Progress(q),
           q.job # Null => q.job \in Jobs /\ jobs[q.job] # NoJob,
           files'[q.file].replicatedTo = files[q.file].replicatedTo
    PROVE  Progress(q)'
BY DEF Grows, Progress, Target

(* What a run's job is, while it has one. *)
LEMMA RunJob ==
    ASSUME Typed, NEW r \in Runs, runs[r].job # Null
    PROVE  /\ runs[r].job \in Jobs /\ jobs[runs[r].job] # NoJob
           /\ jobs[runs[r].job].state = "active"
           /\ runs[r].file = jobs[runs[r].job].file /\ runs[r].file \in Files
<1>1. RunOK(runs[r])
    BY DEF Typed, RunsTyped
<1> QED BY <1>1 DEF RunOK, RunState

LEMMA PoliciesStay ==
    ASSUME CInv, NEW G, Grows(G), ready \subseteq ready', UNCHANGED policy,
           \A c \in Clients : policy[c].at \in {"check", "reload", "save"} =>
              policy[c].file \notin G /\ files'[policy[c].file] = files[policy[c].file]
    PROVE  OnePolicy' /\ \A c \in Clients : Undisturbed(policy[c])'
<1>1. ASSUME NEW c \in Clients PROVE Undisturbed(policy[c])'
    <2>1. PICK p : p = policy[c]
        OBVIOUS
    <2>2. Undisturbed(p)
        BY <2>1 DEF CInv
    <2>3. p.at \in {"check", "reload", "save"} =>
             p.file \notin G /\ files'[p.file] = files[p.file]
        BY <2>1
    <2>4. p.at \in {"check", "reload", "save"} => AtRest(p.file)'
        BY <2>2, <2>3, RestStays DEF Undisturbed
    <2>5. Undisturbed(p)'
        BY <2>2, <2>3, <2>4 DEF Undisturbed
    <2> QED BY <2>1, <2>5 DEF Undisturbed, AtRest
<1>2. OnePolicy'
    BY DEF CInv, OnePolicy
<1> QED BY <1>1, <1>2

LEMMA RunsStay ==
    ASSUME CInv, Typed, NEW G, Grows(G), UNCHANGED runs,
           \A f \in Files : files'[f].replicatedTo = files[f].replicatedTo
    PROVE  OneRun' /\ \A r \in Runs : Progress(runs[r])'
<1>1. ASSUME NEW r \in Runs PROVE Progress(runs[r])'
    <2>1. PICK q : q = runs[r]
        OBVIOUS
    <2>2. Progress(q) /\ (q.job # Null => q.job \in Jobs /\ jobs[q.job] # NoJob /\ q.file \in Files)
        BY <2>1, RunJob DEF CInv
    <2>3. CASE q.job # Null
        <3>1. Progress(q)'
            BY <2>2, <2>3, ProgressStays
        <3> QED BY <2>1, <3>1 DEF Progress, Target
    <2>4. CASE q.job = Null
        BY <2>1, <2>4 DEF Progress
    <2> QED BY <2>3, <2>4
<1>2. OneRun'
    BY DEF CInv, OneRun
<1> QED BY <1>1, <1>2

(* An execution moves on and writes no File row. *)
LEMMA RunQuiet ==
    ASSUME CInv, Typed, UNCHANGED <<files, ready, policy>>, Grows({}), NoneCompletes,
           NEW r \in Runs, NEW q, runs' = [runs EXCEPT ![r] = q], Progress(q),
           q.job # Null => q.job = runs[r].job
    PROVE  CInv'
<1>1. runs'[r] = q /\ DOMAIN runs' = Runs /\ \A s \in Runs \ {r} : runs'[s] = runs[s]
    BY DEF Typed, RunsTyped
<1>2. ASSUME NEW s \in Runs PROVE Progress(runs[s])'
    <2>1. PICK u : u = runs'[s]
        OBVIOUS
    <2>2. Progress(u) /\ (u.job # Null => u.job \in Jobs /\ jobs[u.job] # NoJob)
        BY <1>1, <2>1, RunJob DEF CInv
    <2>3. Progress(u)'
        BY <2>2, ProgressStays
    <2> QED BY <2>1, <2>3 DEF Progress, Target
<1>3. OneRun'
    BY <1>1 DEF CInv, OneRun
<1>4. CompletedMeansReplicated'
    BY CompletedStays DEF CInv
<1> QED BY <1>2, <1>3, <1>4, PoliciesStay DEF CInv

LEMMA UploadCompleted ==
    ASSUME CInv, Typed, NEW f \in Files, UploadFinishes(f) PROVE CInv'
<1> USE DEF storageVars
<1>1. /\ f \notin ready /\ ready \subseteq ready' /\ UNCHANGED <<files, runs, policy>>
    BY DEF UploadFinishes
<1>2. PICK G \in {{}, {f}} : /\ Grows(G) /\ NoneCompletes
                             /\ f \in G => Len(files[f].regions) > 1
    <2>1. JobsTyped
        BY DEF Typed
    <2> QED BY <2>1, GrowsSame, GrowsNew DEF UploadFinishes
<1>3. \A c \in Clients : policy[c].at \in {"check", "reload", "save"} => policy[c].file \notin G
    <2> SUFFICES ASSUME NEW c \in Clients, policy[c].at \in {"check", "reload", "save"},
                        policy[c].file = f, f \in G
                 PROVE  FALSE
        BY <1>2
    <2>1. AtRest(f)
        BY DEF CInv, Undisturbed
    <2>2. Len(files[f].regions) = 1
        BY <1>1, <2>1 DEF AtRest
    <2> QED BY <1>2, <2>2
<1>4. OnePolicy' /\ \A c \in Clients : Undisturbed(policy[c])'
    BY <1>1, <1>2, <1>3, PoliciesStay
<1>5. OneRun' /\ \A r \in Runs : Progress(runs[r])'
    BY <1>1, <1>2, RunsStay
<1>6. CompletedMeansReplicated'
    BY <1>1, <1>2, CompletedStays DEF CInv
<1> QED BY <1>4, <1>5, <1>6 DEF CInv

(* What a step of a request leaves of it. *)
LEMMA PolicyMoves ==
    ASSUME Typed, NEW c \in Clients, Policy(c) \/ RequestFails(c)
    PROVE  /\ policy[c].at # "idle" /\ policy[c].file \in Files
           /\ \E p : /\ policy' = [policy EXCEPT ![c] = p]
                     /\ p.at # "idle" => p.file = policy[c].file
                     /\ p.at \in {"check", "reload", "save"} =>
                           PolicyCheck(c) \/ PolicyReload(c)
                     /\ p.at = "save" => p.row.replicatedTo = files[p.file].replicatedTo
<1>1. /\ policy[c] \in PolicyState /\ policy[c].at # "idle" /\ policy[c].file \in Files
    BY DEF Typed, PolicyTyped, Policy, PolicyCheck, PolicyReload, PolicySave, PolicyQueue,
           PolicyAnswer, RequestFails
<1>2. CASE policy' = [policy EXCEPT ![c] = PolicyIdle]
    <2>1. PICK p : p = PolicyIdle
        OBVIOUS
    <2>2. policy' = [policy EXCEPT ![c] = p] /\ p.at = "idle"
        BY <1>2, <2>1 DEF PolicyIdle
    <2> QED BY <1>1, <2>2
<1>3. CASE PolicyCheck(c)
    <2>1. PICK p : p = [policy[c] EXCEPT !.at = "reload"]
        OBVIOUS
    <2>2. policy' = [policy EXCEPT ![c] = p] \/ policy' = [policy EXCEPT ![c] = PolicyIdle]
        BY <1>3, <2>1 DEF PolicyCheck
    <2>3. p.at = "reload" /\ p.file = policy[c].file
        BY <1>1, <2>1 DEF PolicyState
    <2> QED BY <1>1, <1>2, <1>3, <2>2, <2>3
<1>4. CASE PolicyReload(c)
    <2>1. PICK new : new = Without(policy[c].targets, Range(policy[c].row.regions)
                                                      \cup policy[c].row.replicatedTo)
        OBVIOUS
    <2>2. PICK row : row = [regions      |-> Union(policy[c].row.regions, policy[c].targets),
                            replicatedTo |-> files[policy[c].file].replicatedTo]
        OBVIOUS
    <2>3. PICK p : p = [policy[c] EXCEPT !.at = "save", !.row = row, !.new = new]
        OBVIOUS
    <2>4. policy' = [policy EXCEPT ![c] = p]
        BY <1>4, <2>1, <2>2, <2>3 DEF PolicyReload
    <2>5. p.at = "save" /\ p.file = policy[c].file
          /\ p.row.replicatedTo = files[p.file].replicatedTo
        BY <1>1, <2>2, <2>3 DEF PolicyState
    <2> QED BY Zenon, <1>1, <1>4, <2>4, <2>5
<1>5. CASE PolicySave(c) \/ PolicyQueue(c)
    <2>1. PICK step \in {"answer", "queue"} : policy' = [policy EXCEPT ![c].at = step]
        BY <1>5 DEF PolicySave, PolicyQueue
    <2>2. PICK p : p = [policy[c] EXCEPT !.at = step]
        OBVIOUS
    <2>3. p.at = step /\ p.file = policy[c].file
        BY <1>1, <2>2 DEF PolicyState
    <2>4. policy' = [policy EXCEPT ![c] = p]
        BY <2>1, <2>2
    <2> QED BY <1>1, <2>3, <2>4
<1>6. CASE PolicyAnswer(c) \/ RequestFails(c)
    BY <1>2, <1>6 DEF PolicyAnswer, RequestFails
<1> QED BY <1>3, <1>4, <1>5, <1>6 DEF Policy

LEMMA PolicyCompleted ==
    ASSUME ReplicationAssumption, CInv, Typed, NEW c \in Clients,
           PolicyLoad(c) \/ Policy(c) \/ RequestFails(c), PolicyLoad(c) => OnePolicyAtATime
    PROVE  CInv'
<1> USE DEF storageVars
<1>1. JobsTyped /\ DOMAIN policy = Clients
    BY DEF Typed, PolicyTyped
<1>2. /\ UNCHANGED <<ready, runs>>
      /\ \A d \in Clients \ {c} : policy'[d] = policy[d]
    BY <1>1 DEF PolicyLoad, Policy, PolicyCheck, PolicyReload, PolicySave, PolicyQueue,
                PolicyAnswer, RequestFails
<1>3. PICK G \in {{}, {policy[c].file}} :
         /\ Grows(G) /\ NoneCompletes
         /\ ~PolicyQueue(c) => G = {}
    BY <1>1, GrowsSame, GrowsNew DEF PolicyLoad, Policy, PolicyCheck, PolicyReload, PolicySave,
                PolicyQueue, PolicyAnswer, RequestFails
<1>4. \A f \in Files : files'[f].replicatedTo = files[f].replicatedTo
    <2>1. CASE PolicySave(c)
        <3>1. policy[c].row.replicatedTo = files[policy[c].file].replicatedTo
            BY <2>1 DEF PolicySave, CInv, Undisturbed
        <3> QED BY <2>1, <3>1 DEF PolicySave, Typed, RowsTyped
    <2>2. CASE UNCHANGED files
        BY <2>2
    <2> QED BY <2>1, <2>2 DEF PolicyLoad, Policy, PolicyCheck, PolicyReload, PolicyQueue,
                PolicyAnswer, RequestFails
<1>5. OneRun' /\ \A r \in Runs : Progress(runs[r])'
    BY <1>2, <1>3, <1>4, RunsStay
<1>6. CompletedMeansReplicated'
    BY <1>3, <1>4, CompletedStays DEF CInv
<1>7. ASSUME PolicyLoad(c) PROVE OnePolicy' /\ Undisturbed(policy[c])'
    <2>1. PICK p : policy' = [policy EXCEPT ![c] = p] /\ p.at = "check"
        <3>1. PICK f, t, p : /\ p = [at |-> "check", file |-> f, targets |-> t, new |-> << >>,
                                     row |-> files[f]]
                             /\ policy' = [policy EXCEPT ![c] = p]
            BY <1>7 DEF PolicyLoad
        <3>2. p.at = "check"
            BY <3>1
        <3> QED BY Zenon, <3>1, <3>2
    <2>2. policy'[c] = p
        BY <1>1, <2>1
    <2>3. AtRest(p.file) /\ \A d \in Clients : policy[d].file # p.file
        BY <1>7, <2>2 DEF OnePolicyAtATime
    <2>4. AtRest(p.file)'
        BY <1>7, <2>3 DEF AtRest, PolicyLoad
    <2>5. OnePolicy'
        BY <1>2, <2>2, <2>3 DEF CInv, OnePolicy
    <2> QED BY <2>1, <2>2, <2>4, <2>5 DEF Undisturbed, AtRest
<1>8. ASSUME Policy(c) \/ RequestFails(c) PROVE OnePolicy' /\ Undisturbed(policy[c])'
    <2>1. PICK p : /\ policy' = [policy EXCEPT ![c] = p]
                   /\ p.at # "idle" => p.file = policy[c].file
                   /\ p.at \in {"check", "reload", "save"} => PolicyCheck(c) \/ PolicyReload(c)
                   /\ p.at = "save" => p.row.replicatedTo = files[p.file].replicatedTo
        BY <1>8, PolicyMoves
    <2>2. policy'[c] = p /\ policy[c].at # "idle"
        BY <1>1, <1>8, <2>1, PolicyMoves
    <2>3. OnePolicy'
        BY <1>2, <2>1, <2>2 DEF CInv, OnePolicy
    <2>4. CASE p.at \in {"check", "reload", "save"}
        <3>1. UNCHANGED <<files, jobs, ready>> /\ AtRest(policy[c].file)
            BY <2>1, <2>4 DEF PolicyCheck, PolicyReload, CInv, Undisturbed
        <3>2. AtRest(p.file)'
            BY <2>1, <2>4, <3>1 DEF AtRest
        <3> QED BY <2>1, <2>2, <2>3, <3>1, <3>2 DEF Undisturbed, AtRest
    <2>5. CASE p.at \notin {"check", "reload", "save"}
        BY <2>2, <2>3, <2>5 DEF Undisturbed
    <2> QED BY <2>4, <2>5
<1>9. OnePolicy' /\ Undisturbed(policy[c])'
    BY <1>7, <1>8
<1>10. ASSUME NEW d \in Clients \ {c} PROVE Undisturbed(policy[d])'
    <2>1. PICK p : p = policy[d]
        OBVIOUS
    <2>2. Undisturbed(p) /\ p = policy'[d]
        BY <1>2, <2>1 DEF CInv
    <2>3. ASSUME p.at \in {"check", "reload", "save"}
          PROVE  p.file \notin G /\ files'[p.file] = files[p.file]
        <3>1. ASSUME PolicyQueue(c) \/ PolicySave(c) PROVE p.file # policy[c].file
            BY <2>1, <2>3, <3>1 DEF CInv, OnePolicy, PolicyQueue, PolicySave
        <3>2. p.file \notin G
            BY <1>3, <3>1
        <3>3. files'[p.file] = files[p.file]
            <4>1. CASE PolicySave(c)
                BY <3>1, <4>1 DEF PolicySave
            <4>2. CASE UNCHANGED files
                BY <4>2
            <4> QED BY <4>1, <4>2 DEF PolicyLoad, Policy, PolicyCheck, PolicyReload, PolicyQueue,
                        PolicyAnswer, RequestFails
        <3> QED BY <3>2, <3>3
    <2>4. p.at \in {"check", "reload", "save"} => AtRest(p.file)'
        BY <1>2, <1>3, <2>2, <2>3, RestStays DEF Undisturbed
    <2>5. Undisturbed(p)'
        BY <2>2, <2>3, <2>4 DEF Undisturbed
    <2> QED BY <2>2, <2>5 DEF Undisturbed, AtRest
<1>11. \A d \in Clients : Undisturbed(policy[d])'
    BY <1>9, <1>10
<1> QED BY <1>5, <1>6, <1>9, <1>11 DEF CInv

LEMMA TakeJobCompleted ==
    ASSUME ReplicationAssumption, Workers <= 1, CInv, Typed, NEW r \in Runs, TakeJob(r)
    PROVE  CInv'
<1> USE DEF storageVars
<1>1. JobsTyped /\ RunsTyped
    BY DEF Typed
<1>2. PICK j \in Jobs :
         /\ jobs[j].state = "waiting"
         /\ jobs' = [jobs EXCEPT ![j].state = "active"]
         /\ runs' = [runs EXCEPT ![r] = [RunIdle EXCEPT !.at = "region", !.job = j,
                                                        !.file = jobs[j].file, !.k = 1]]
    BY DEF TakeJob
<1>q. PICK q : q = [RunIdle EXCEPT !.at = "region", !.job = j, !.file = jobs[j].file, !.k = 1]
    OBVIOUS
<1>3. Grows({}) /\ NoneCompletes
    <2>1. PICK state : state = "active"
        OBVIOUS
    <2>2. jobs' = [jobs EXCEPT ![j].state = state] /\ state # "completed"
        BY <1>2, <2>1
    <2> QED BY <1>1, <1>2, <2>2, GrowsTo
<1>4. \A s \in Runs : runs[s].job = Null
    <2> DEFINE busy == {s \in Runs : runs[s].job # Null}
    <2>1. Cardinality(busy) < Workers /\ Workers \in Nat
        BY DEF TakeJob, ReplicationAssumption
    <2>2. ASSUME NEW s \in busy PROVE FALSE
        <3>1. busy = {s}
            BY <2>2 DEF CInv, OneRun
        <3> HIDE DEF busy
        <3>2. Cardinality(busy) = 1
            BY <3>1, FS_Singleton
        <3> QED BY <2>1, <3>2
    <2> QED BY <2>2
<1>5. runs'[r] = q /\ \A s \in Runs \ {r} : runs'[s] = runs[s]
    BY <1>1, <1>2, <1>q DEF RunsTyped
<1>6. OneRun'
    BY <1>4, <1>5 DEF OneRun
<1>7. \A s \in Runs : Progress(runs[s])'
    <2>1. q.at = "region" /\ q.k = 1
        BY <1>q DEF RunIdle
    <2>2. Progress(runs[r])'
        BY <1>5, <2>1 DEF Progress
    <2>3. \A s \in Runs \ {r} : Progress(runs[s])'
        BY <1>4, <1>5 DEF Progress
    <2> QED BY <2>2, <2>3
<1>8. CompletedMeansReplicated'
    BY <1>3, CompletedStays DEF TakeJob, CInv
<1>9. OnePolicy' /\ \A c \in Clients : Undisturbed(policy[c])'
    BY <1>3, PoliciesStay DEF TakeJob
<1> QED BY <1>6, <1>7, <1>8, <1>9 DEF CInv

(* An execution ends without completing its job. *)
LEMMA EndCompleted ==
    ASSUME CInv, Typed, NEW r \in Runs, UNCHANGED <<files, ready, policy>>, RunEnds(r),
           Grows({}), NoneCompletes
    PROVE  CInv'
<1>1. PICK q : q = RunIdle
    OBVIOUS
<1>2. q.job = Null
    BY <1>1 DEF RunIdle
<1>3. Progress(q)
    BY <1>2 DEF Progress
<1>4. runs' = [runs EXCEPT ![r] = q]
    BY <1>1 DEF RunEnds
<1> QED BY <1>2, <1>3, <1>4, RunQuiet

LEMMA ThrowsCompleted ==
    ASSUME CInv, Typed, NEW r \in Runs, UNCHANGED <<files, ready, policy>>,
           runs[r].job # Null, Throws(r)
    PROVE  CInv'
<1>1. Grows({}) /\ NoneCompletes
    BY RunJob, GrowsRetried DEF Throws, Typed
<1> QED BY <1>1, EndCompleted DEF Throws

(* An execution of the same job goes on to a step other than metaSave. *)
LEMMA GoesOnCompleted ==
    ASSUME CInv, Typed, NEW r \in Runs, UNCHANGED <<files, ready, jobs, policy>>,
           NEW q, q.job = runs[r].job, q.file = runs[r].file, q.k = runs[r].k, q.at # "metaSave",
           runs' = [runs EXCEPT ![r] = q]
    PROVE  CInv'
<1>1. Progress(q)
    BY DEF CInv, Progress
<1> QED BY <1>1, RunQuiet, GrowsSame

LEMMA StartCompleted ==
    ASSUME CInv, Typed, NEW r \in Runs, FindRegion(r) \/ FindNode(r) \/ Assemble(r)
    PROVE  CInv'
<1>1. /\ runs[r] \in RunState /\ runs[r].job # Null
      /\ UNCHANGED <<files, ready, policy>>
    BY DEF Typed, RunsTyped, RunOK, FindRegion, FindNode, Assemble, RunAt
<1>2. CASE Throws(r)
    BY <1>1, <1>2, ThrowsCompleted
<1>3. ASSUME NEW q, UNCHANGED jobs, runs' = [runs EXCEPT ![r] = q], q.at # "metaSave",
             q.job = runs[r].job, q.file = runs[r].file, q.k = runs[r].k
      PROVE  CInv'
    BY <1>1, <1>3, GoesOnCompleted
<1>4. CASE FindRegion(r) /\ ~Throws(r)
    <2>1. PICK id : runs' = [runs EXCEPT ![r].at = "nodes", ![r].region = id] /\ UNCHANGED jobs
        BY <1>4 DEF FindRegion
    <2>2. PICK q : q = [runs[r] EXCEPT !.at = "nodes", !.region = id]
        OBVIOUS
    <2>3. q.at = "nodes" /\ q.job = runs[r].job /\ q.file = runs[r].file /\ q.k = runs[r].k
        BY <1>1, <2>2 DEF RunState
    <2>4. runs' = [runs EXCEPT ![r] = q]
        BY <2>1, <2>2
    <2> QED BY <1>3, <2>1, <2>3, <2>4
<1>5. CASE FindNode(r) /\ ~Throws(r)
    <2>1. PICK n : /\ runs' = [runs EXCEPT ![r].at = "assemble", ![r].node = n,
                                           ![r].target = nodes[n]]
                   /\ UNCHANGED jobs
        BY <1>5 DEF FindNode
    <2>2. PICK q : q = [runs[r] EXCEPT !.at = "assemble", !.node = n, !.target = nodes[n]]
        OBVIOUS
    <2>3. q.at = "assemble" /\ q.job = runs[r].job /\ q.file = runs[r].file /\ q.k = runs[r].k
        BY <1>1, <2>2 DEF RunState
    <2>4. runs' = [runs EXCEPT ![r] = q]
        BY <2>1, <2>2
    <2> QED BY <1>3, <2>1, <2>3, <2>4
<1>6. CASE Assemble(r) /\ ~Throws(r)
    <2>1. PICK copy : runs' = [runs EXCEPT ![r].at = "copy", ![r].copy = copy] /\ UNCHANGED jobs
        BY <1>6 DEF Assemble
    <2>2. PICK q : q = [runs[r] EXCEPT !.at = "copy", !.copy = copy]
        OBVIOUS
    <2>3. q.at = "copy" /\ q.job = runs[r].job /\ q.file = runs[r].file /\ q.k = runs[r].k
        BY <1>1, <2>2 DEF RunState
    <2>4. runs' = [runs EXCEPT ![r] = q]
        BY <2>1, <2>2
    <2> QED BY <1>3, <2>1, <2>3, <2>4
<1> QED BY <1>2, <1>4, <1>5, <1>6

LEMMA CopyCompleted ==
    ASSUME IInv, CInv, Typed, NEW r \in Runs, Copy(r) \/ DeductFile(r)
    PROVE  CInv'
<1>1. runs[r] \in RunState /\ UNCHANGED <<files, ready, jobs, policy>>
    BY DEF Typed, RunsTyped, RunOK, Copy, CopyEntry, CopyChunk, CopyNode, DeductFile
<1>2. ASSUME runs[r].at # "metaSave", NEW copy, NEW target,
             runs' = [runs EXCEPT ![r] = [runs[r] EXCEPT !.copy = copy, !.target = target]]
      PROVE  CInv'
    <2>1. PICK q : q = [runs[r] EXCEPT !.copy = copy, !.target = target]
        OBVIOUS
    <2>2. q.at = runs[r].at /\ q.job = runs[r].job /\ q.file = runs[r].file /\ q.k = runs[r].k
        BY <1>1, <2>1 DEF RunState
    <2>3. runs' = [runs EXCEPT ![r] = q]
        BY <1>2, <2>1
    <2> QED BY <1>1, <1>2, <2>2, <2>3, GoesOnCompleted
<1>3. ASSUME NEW c \in Chunks, CopyEntry(r, c) \/ CopyChunk(r, c) \/ CopyNode(r, c) PROVE CInv'
    <2>1. runs[r].at # "metaSave"
        BY <1>3, RunMemory DEF CopyEntry, CopyChunk, CopyNode
    <2>2. CASE RunEnds(r)
        BY <1>1, <2>2, EndCompleted, GrowsSame
    <2>3. CASE ~RunEnds(r)
        <3>1. PICK step, target :
                 runs' = [runs EXCEPT ![r] = [runs[r] EXCEPT !.copy[c] = step, !.target = target]]
            <4>1. ASSUME NEW step, runs' = [runs EXCEPT ![r].copy[c] = step]
                  PROVE  runs' = [runs EXCEPT ![r] = [runs[r] EXCEPT !.copy[c] = step,
                                                                   !.target = runs[r].target]]
                BY <1>1, <4>1 DEF RunState
            <4>2. CASE CopyEntry(r, c) \/ CopyChunk(r, c)
                <5>1. PICK step : runs' = [runs EXCEPT ![r].copy[c] = step]
                    BY <4>2 DEF CopyEntry, CopyChunk
                <5> QED BY Zenon, <4>1, <5>1
            <4>3. CASE CopyNode(r, c)
                BY <2>3, <4>3 DEF CopyNode, CopyDone, RunEnds
            <4> QED BY <1>3, <4>2, <4>3
        <3>2. PICK copy : copy = [runs[r].copy EXCEPT ![c] = step]
            OBVIOUS
        <3>3. runs' = [runs EXCEPT ![r] = [runs[r] EXCEPT !.copy = copy, !.target = target]]
            BY <3>1, <3>2
        <3> QED BY <1>2, <2>1, <3>3
    <2> QED BY <2>2, <2>3
<1>4. CASE DeductFile(r)
    <2>1. PICK less : runs' = [runs EXCEPT ![r].at = "metaLoad", ![r].target = less]
        BY <1>4 DEF DeductFile
    <2>2. PICK q : q = [runs[r] EXCEPT !.at = "metaLoad", !.target = less]
        OBVIOUS
    <2>3. q.at = "metaLoad" /\ q.job = runs[r].job /\ q.file = runs[r].file /\ q.k = runs[r].k
        BY <1>1, <2>2 DEF RunState
    <2>4. runs' = [runs EXCEPT ![r] = q]
        BY <2>1, <2>2
    <2> QED BY <1>1, <2>3, <2>4, GoesOnCompleted
<1> QED BY <1>3, <1>4 DEF Copy

LEMMA LoadCompleted ==
    ASSUME CInv, Typed, NEW r \in Runs, LoadMetadata(r) PROVE CInv'
<1> USE DEF storageVars
<1>1. runs[r] \in RunState /\ runs[r].job # Null /\ UNCHANGED <<files, ready, jobs, policy>>
    BY DEF Typed, RunsTyped, RunOK, LoadMetadata, RunAt
<1>2. PICK list, row :
         /\ row = [regions |-> list, replicatedTo |->
                      files[runs[r].file].replicatedTo \cup {TargetRegion(r)}]
         /\ runs' = [runs EXCEPT ![r].at = "metaSave", ![r].row = row]
    BY DEF LoadMetadata
<1>3. PICK q : q = [runs[r] EXCEPT !.at = "metaSave", !.row = row]
    OBVIOUS
<1>4. /\ q.job = runs[r].job /\ q.file = runs[r].file /\ q.k = runs[r].k
      /\ q.row.replicatedTo = files[q.file].replicatedTo \cup {Target(q)}
    BY <1>1, <1>2, <1>3 DEF RunState, Target, TargetRegion
<1>5. Progress(q)
    BY <1>4 DEF CInv, Progress
<1>6. runs' = [runs EXCEPT ![r] = q]
    BY <1>2, <1>3
<1> QED BY <1>1, <1>4, <1>5, <1>6, RunQuiet, GrowsSame

LEMMA SaveCompleted ==
    ASSUME ReplicationAssumption, CInv, Typed, NEW r \in Runs, SaveMetadata(r) PROVE CInv'
<1> DEFINE j == runs[r].job
           f == runs[r].file
           k == runs[r].k
           row == runs[r].row
<1>1. /\ RunOK(runs[r]) /\ runs[r].at = "metaSave" /\ j # Null
      /\ UNCHANGED <<ready, policy>> /\ files' = [files EXCEPT ![f] = row]
    BY DEF Typed, RunsTyped, RunOK, SaveMetadata, RunAt
<1>2. j \in Jobs /\ jobs[j] # NoJob /\ jobs[j].state = "active" /\ f = jobs[j].file /\ f \in Files
    BY <1>1, RunJob
<1>3. k \in 1..Len(jobs[j].targets) /\ jobs[j].targets \in Seq(Names)
    BY <1>1, <1>2, JobIsTyped DEF RunOK, Typed, Job
<1>4. \A s \in Runs \ {r} : runs[s].job = Null
    BY <1>1 DEF CInv, OneRun
<1>5. \A i \in 1..k : jobs[j].targets[i] \in row.replicatedTo
    <2>1. /\ \A i \in 1..(k - 1) : jobs[j].targets[i] \in files[f].replicatedTo
          /\ row.replicatedTo = files[f].replicatedTo \cup {jobs[j].targets[k]}
        BY <1>1 DEF CInv, Progress, Target
    <2> HIDE DEF j, f, k, row
    <2> QED BY <1>3, <2>1
<1>6. /\ files'[f] = row /\ files[f].replicatedTo \subseteq row.replicatedTo
      /\ \A g \in Files \ {f} : files'[g] = files[g]
    BY <1>1, <1>2 DEF Typed, RowsTyped, CInv, Progress
<1>7. /\ UNCHANGED jobs \/ jobs' = [jobs EXCEPT ![j].state = "completed"]
      /\ DOMAIN runs = Runs /\ JobsTyped
    BY DEF SaveMetadata, Typed, RunsTyped
<1>8. Grows({})
    <2>1. CASE UNCHANGED jobs
        BY <2>1, GrowsSame
    <2>2. CASE jobs' = [jobs EXCEPT ![j].state = "completed"]
        <3>1. PICK state : state = "completed"
            OBVIOUS
        <3>2. jobs' = [jobs EXCEPT ![j].state = state]
            BY <2>2, <3>1
        <3> QED BY <1>2, <1>7, <3>2, GrowsTo
    <2> QED BY <1>7, <2>1, <2>2
<1>9. OnePolicy' /\ \A c \in Clients : Undisturbed(policy[c])'
    <2>1. \A c \in Clients : policy[c].at \in {"check", "reload", "save"} =>
             policy[c].file \in Files \ {f}
        <3> SUFFICES ASSUME NEW c \in Clients, policy[c].at \in {"check", "reload", "save"}
                     PROVE  policy[c].file \in Files \ {f}
            OBVIOUS
        <3>1. policy[c].file \in Files /\ AtRest(policy[c].file)
            BY DEF Typed, PolicyTyped, CInv, Undisturbed
        <3> QED BY <1>2, <3>1 DEF AtRest, Ended
    <2>2. ready \subseteq ready' /\ UNCHANGED policy
        BY <1>1
    <2> QED BY <1>6, <1>8, <2>1, <2>2, PoliciesStay
<1>10. CASE k < Len(jobs[j].targets)
    <2>1. PICK q : q = [RunIdle EXCEPT !.at = "region", !.job = j, !.file = jobs[j].file, !.k = k + 1]
        OBVIOUS
    <2>2. UNCHANGED jobs /\ runs' = [runs EXCEPT ![r] = q]
        BY <1>10, <2>1 DEF SaveMetadata
    <2>3. q.at = "region" /\ q.job = j /\ q.file = f /\ q.k = k + 1
        BY <1>2, <2>1 DEF RunIdle
    <2>4. runs'[r] = q /\ \A s \in Runs \ {r} : runs'[s] = runs[s]
        BY <1>7, <2>2
    <2>5. q.k - 1 = k
        BY <1>3, <2>3
    <2>6. \A i \in 1..(q.k - 1) : jobs'[j].targets[i] \in files'[f].replicatedTo
        BY <1>5, <1>6, <2>2, <2>5
    <2>7. Progress(runs[r])'
        BY <2>3, <2>4, <2>6 DEF Progress
    <2>8. \A s \in Runs : Progress(runs[s])'
        BY <1>4, <2>4, <2>7 DEF Progress
    <2>9. OneRun'
        BY <1>4, <2>4 DEF OneRun
    <2>10. CompletedMeansReplicated'
        <3>1. NoneCompletes /\ \A g \in Files : files[g].replicatedTo \subseteq files'[g].replicatedTo
            BY <1>6, <2>2, GrowsSame
        <3> QED BY <1>8, <3>1, CompletedStays DEF CInv
    <2> QED BY <1>9, <2>8, <2>9, <2>10 DEF CInv
<1>11. CASE ~(k < Len(jobs[j].targets))
    <2>1. /\ runs' = [runs EXCEPT ![r] = RunIdle]
          /\ jobs' = [jobs EXCEPT ![j].state = "completed"]
        BY <1>11 DEF SaveMetadata, RunEnds
    <2>2. \A s \in Runs : runs'[s].job = Null
        BY <1>4, <1>7, <2>1 DEF RunIdle
    <2>3. OneRun' /\ \A s \in Runs : Progress(runs[s])'
        BY <2>2 DEF OneRun, Progress
    <2>4. Range(jobs[j].targets) \subseteq row.replicatedTo
        <3> HIDE DEF j, k, row
        <3>1. k = Len(jobs[j].targets)
            BY <1>3, <1>11
        <3>2. DOMAIN jobs[j].targets = 1..k
            BY <1>3, <3>1
        <3> QED BY <1>5, <3>2 DEF Range
    <2>5. jobs'[j].file = f /\ jobs'[j].targets = jobs[j].targets /\
          \A i \in Jobs \ {j} : jobs'[i] = jobs[i]
        <3>1. jobs'[j] = [jobs[j] EXCEPT !.state = "completed"]
              /\ \A i \in Jobs \ {j} : jobs'[i] = jobs[i]
            BY <1>2, <1>7, <2>1 DEF JobsTyped
        <3>2. jobs[j] \in Job
            BY <1>2, <1>7, JobIsTyped
        <3> QED BY <1>2, <3>1, <3>2 DEF Job
    <2>6. CompletedMeansReplicated'
        <3> SUFFICES ASSUME NEW i \in Jobs, jobs'[i].state = "completed"
                     PROVE  Range(jobs'[i].targets) \subseteq files'[jobs'[i].file].replicatedTo
            BY DEF CompletedMeansReplicated
        <3>1. CASE i = j
            BY <1>6, <2>4, <2>5, <3>1
        <3>2. CASE i # j
            <4>1. jobs'[i] = jobs[i] /\ jobs[i].state = "completed"
                BY <2>5, <3>2
            <4>2. jobs[i].file \in Files
                BY <1>7, <4>1, JobIsTyped DEF Job, NoJob
            <4>3. Range(jobs[i].targets) \subseteq files[jobs[i].file].replicatedTo
                BY <4>1 DEF CInv, CompletedMeansReplicated
            <4>4. files[jobs[i].file].replicatedTo \subseteq files'[jobs[i].file].replicatedTo
                BY <1>6, <4>2
            <4> QED BY <4>1, <4>3, <4>4
        <3> QED BY <3>1, <3>2
    <2> QED BY <1>9, <2>3, <2>6 DEF CInv
<1> QED BY <1>10, <1>11

LEMMA FailureCompleted ==
    ASSUME IInv, CInv, Typed, NEW r \in Runs, CallFails(r) \/ \E c \in Chunks : CopyFails(r, c)
    PROVE  CInv'
<1>1. CASE CallFails(r)
    BY <1>1, ThrowsCompleted DEF CallFails
<1>2. ASSUME NEW c \in Chunks, CopyFails(r, c) PROVE CInv'
    <2>1. UNCHANGED <<files, ready, policy>>
        BY <1>2 DEF CopyFails
    <2>2. Grows({}) /\ NoneCompletes
        <3>1. CASE runs[r].job = Null
            BY <1>2, <3>1, GrowsSame DEF CopyFails
        <3>2. CASE runs[r].job # Null
            <4>1. runs[r].job \in Jobs /\ jobs[runs[r].job].state = "active" /\ JobsTyped
                BY <3>2, RunJob DEF Typed
            <4> QED BY <1>2, <3>2, <4>1, GrowsRetried DEF CopyFails
        <3> QED BY <3>1, <3>2
    <2>3. PICK q : q = [runs[r] EXCEPT !.at = "stray", !.job = Null, !.copy[c] = "done"]
        OBVIOUS
    <2>4. runs[r] \in RunState
        BY DEF Typed, RunsTyped, RunOK
    <2>5. q.job = Null
        BY <2>3, <2>4 DEF RunState
    <2>6. Progress(q)
        BY <2>5 DEF Progress
    <2>7. runs' = [runs EXCEPT ![r] = q] \/ RunEnds(r)
        BY <1>2, <2>3 DEF CopyFails, RunEnds
    <2> QED BY <2>1, <2>2, <2>5, <2>6, <2>7, EndCompleted, RunQuiet
<1> QED BY <1>1, <1>2

LEMMA CrashCompleted ==
    ASSUME CInv, Typed, Crash PROVE CInv'
<1>1. /\ UNCHANGED <<files, ready>> /\ jobs' = StallActive(jobs)
      /\ runs' = [r \in Runs |-> RunIdle] /\ policy' = [c \in Clients |-> PolicyIdle]
    BY DEF Crash
<1>2. Grows({}) /\ NoneCompletes
    BY <1>1, GrowsStalled DEF Typed
<1>3. CompletedMeansReplicated'
    BY <1>1, <1>2, CompletedStays DEF CInv
<1>4. OneRun' /\ \A r \in Runs : Progress(runs[r])'
    BY <1>1 DEF OneRun, Progress, RunIdle
<1>5. OnePolicy' /\ \A c \in Clients : Undisturbed(policy[c])'
    BY <1>1 DEF OnePolicy, Undisturbed, PolicyIdle
<1> QED BY <1>3, <1>4, <1>5 DEF CInv

LEMMA CompletedStep ==
    ASSUME ReplicationAssumption, Workers <= 1, IInv, Typed, CInv,
           [Next]_vars, [OnePolicyAtATime]_vars
    PROVE  CInv'
<1>1. ASSUME UNCHANGED <<files, ready, jobs, runs, policy>> PROVE CInv'
    <2>1. Grows({}) /\ NoneCompletes
        BY <1>1, GrowsSame
    <2>2. OnePolicy' /\ \A c \in Clients : Undisturbed(policy[c])'
        BY <1>1, <2>1, PoliciesStay
    <2>3. OneRun' /\ \A r \in Runs : Progress(runs[r])'
        BY <1>1, <2>1, RunsStay
    <2>4. CompletedMeansReplicated'
        BY <1>1, <2>1, CompletedStays DEF CInv
    <2> QED BY <2>2, <2>3, <2>4 DEF CInv
<1>2. CASE Administration
    BY <1>1, <1>2 DEF Administration
<1>3. ASSUME NEW c \in Clients, PolicyLoad(c) PROVE OnePolicyAtATime
    <2>1. sent \in Nat /\ sent' = sent + 1
        BY <1>3 DEF PolicyLoad, Typed, RowsTyped
    <2>2. sent' # sent
        BY <2>1
    <2> QED BY <2>2 DEF vars
<1>4. ASSUME NEW c \in Clients, PolicyLoad(c) \/ Policy(c) \/ RequestFails(c) PROVE CInv'
    BY <1>3, <1>4, PolicyCompleted
<1>5. CASE UNCHANGED vars
    BY <1>1, <1>5 DEF vars
<1> QED BY <1>2, <1>4, <1>5, UploadCompleted, TakeJobCompleted, StartCompleted, CopyCompleted,
           LoadCompleted, SaveCompleted, FailureCompleted, CrashCompleted DEF Next, Run

LEMMA InitCompleted ==
    ASSUME Init PROVE CInv
BY DEF Init, CInv, OneRun, OnePolicy, Undisturbed, Progress, CompletedMeansReplicated,
       RunIdle, PolicyIdle, NoJob

(* With one worker, and policies requested one at a time for files whose   *)
(* replication is at rest, a completed job has replicated its file to all  *)
(* its targets: also one that was retried, was run again after a stop, or  *)
(* ran beside copies of an execution whose job had failed                  *)
(* (processReplicationJob, updateReplicationMetadata).                     *)
THEOREM CompletedAreReplicated ==
    ASSUME ReplicationAssumption, StorageAssumption, Workers <= 1
    PROVE  Spec /\ [][OnePolicyAtATime]_vars => []CompletedMeansReplicated
<1>1. Init => CInv
    BY InitCompleted
<1>2. ASSUME IInv, Typed, CInv, [Next]_vars, [OnePolicyAtATime]_vars PROVE CInv'
    BY <1>2, CompletedStep
<1>3. CInv => CompletedMeansReplicated
    BY DEF CInv
<1> QED BY <1>1, <1>2, <1>3, InductiveInvariant, TypedInvariant, PTL DEF Spec

-----------------------------------------------------------------------------
(* Before the first policy no file has a region to be replicated to, and   *)
(* there is no job.                                                        *)

Quiet ==
    sent = 0 =>
        /\ policy = [c \in Clients |-> PolicyIdle]
        /\ \A f \in Files : Len(files[f].regions) = 1
        /\ \A j \in Jobs : jobs[j] = NoJob
        /\ \A r \in Runs : runs[r] = RunIdle

LEMMA QuietStep ==
    ASSUME ReplicationAssumption, Typed, Quiet, [Next]_vars PROVE Quiet'
<1> USE DEF storageVars
<1> SUFFICES ASSUME sent' = 0 PROVE Quiet'
    BY DEF Quiet
<1>1. sent = 0
    <2>1. sent \in Nat
        BY DEF Typed, RowsTyped
    <2>2. ASSUME NEW c \in Clients, PolicyLoad(c) PROVE FALSE
        BY <2>1, <2>2 DEF PolicyLoad
    <2>3. ASSUME NEW c \in Clients, Policy(c) \/ RequestFails(c) PROVE sent' = sent
        BY <2>3 DEF Policy, PolicyCheck, PolicyReload, PolicySave, PolicyQueue, PolicyAnswer,
                    RequestFails
    <2>4. ASSUME NEW r \in Runs, Run(r) \/ CallFails(r) \/ \E c \in Chunks : CopyFails(r, c)
          PROVE  sent' = sent
        BY <2>4 DEF Run, TakeJob, FindRegion, FindNode, Assemble, Copy, CopyEntry, CopyChunk,
                    CopyNode, DeductFile, LoadMetadata, SaveMetadata, CallFails, CopyFails
    <2>5. ASSUME Administration \/ Crash \/ \E f \in Files : UploadFinishes(f) PROVE sent' = sent
        BY <2>5 DEF Administration, UploadFinishes, Crash
    <2>6. CASE UNCHANGED vars
        BY <2>6 DEF vars
    <2> QED BY <2>2, <2>3, <2>4, <2>5, <2>6 DEF Next
<1>2. /\ policy = [c \in Clients |-> PolicyIdle]
      /\ \A f \in Files : Len(files[f].regions) = 1
      /\ \A j \in Jobs : jobs[j] = NoJob
      /\ \A r \in Runs : runs[r] = RunIdle
      /\ DOMAIN jobs = Jobs /\ DOMAIN runs = Runs
    BY <1>1 DEF Quiet, Typed, JobsTyped, RunsTyped
<1>3. \A c \in Clients : policy[c].at = "idle"
    BY <1>2 DEF PolicyIdle
<1>4. \A j \in Jobs : jobs[j].state = "none"
    BY <1>2 DEF NoJob
<1>5. \A r \in Runs : runs[r].at = "idle" /\ runs[r].job = Null
                      /\ \A c \in Chunks : runs[r].copy[c] = "done"
    BY <1>2 DEF RunIdle
<1>6. ASSUME UNCHANGED <<policy, files, jobs, runs>> PROVE Quiet'
    BY <1>2, <1>6 DEF Quiet
<1>7. ASSUME NEW f \in Files, UploadFinishes(f) PROVE Quiet'
    <2>1. PICK n \in Nat : n = Len(files[f].regions) /\ n = 1
        BY <1>2
    <2>2. ~(Len(files[f].regions) > 1)
        BY <2>1
    <2> QED BY <1>6, <1>7, <2>2 DEF UploadFinishes
<1>8. ASSUME NEW c \in Clients, PolicyLoad(c) \/ Policy(c) \/ RequestFails(c) PROVE Quiet'
    BY <1>1, <1>3, <1>8 DEF PolicyLoad, Policy, PolicyCheck, PolicyReload, PolicySave,
                            PolicyQueue, PolicyAnswer, RequestFails
<1>9. ASSUME NEW r \in Runs, Run(r) \/ CallFails(r) \/ \E c \in Chunks : CopyFails(r, c) PROVE Quiet'
    BY <1>4, <1>5, <1>9 DEF Run, TakeJob, FindRegion, FindNode, Assemble, Copy, CopyEntry,
                            CopyChunk, CopyNode, DeductFile, LoadMetadata, SaveMetadata,
                            CallFails, CopyFails, Copying, RunAt
<1>10. CASE Crash
    <2>1. \A j \in Jobs : jobs'[j] = NoJob
        BY <1>2, <1>4, <1>10 DEF Crash, StallActive
    <2> QED BY <1>2, <1>10, <2>1 DEF Crash, Quiet
<1>11. CASE Administration
    BY <1>6, <1>11 DEF Administration
<1>12. CASE UNCHANGED vars
    BY <1>6, <1>12 DEF vars
<1> QED BY <1>7, <1>8, <1>9, <1>10, <1>11, <1>12 DEF Next

LEMMA FirstIsAtRest ==
    ASSUME ReplicationAssumption, MaxPolicies <= 1, Typed, Quiet, [Next]_vars
    PROVE  [OnePolicyAtATime]_vars
<1> SUFFICES ASSUME NEW c \in Clients, PolicyLoad(c)
             PROVE  AtRest(policy'[c].file) /\ \A d \in Clients : policy[d].file # policy'[c].file
    BY DEF OnePolicyAtATime
<1>1. sent = 0
    BY DEF PolicyLoad, Typed, RowsTyped, ReplicationAssumption
<1>2. policy'[c].file \in Files
    <2>1. PICK f \in Files : \E t : policy' = [policy EXCEPT ![c] =
             [at |-> "check", file |-> f, targets |-> t, new |-> << >>, row |-> files[f]]]
        BY DEF PolicyLoad
    <2>2. DOMAIN policy = Clients
        BY DEF Typed, PolicyTyped
    <2> QED BY <2>1, <2>2
<1>3. \A d \in Clients : policy[d].file = Null
    BY <1>1 DEF Quiet, PolicyIdle
<1> QED BY <1>1, <1>2, <1>3 DEF AtRest, Quiet, ReplicationAssumption

(* The same of the first policy, whatever the upload of its file has come  *)
(* to when it is requested, and with nothing supposed of the schedule but  *)
(* that one job runs at a time.                                            *)
THEOREM FirstPolicyIsReplicated ==
    ASSUME ReplicationAssumption, StorageAssumption, Workers <= 1, MaxPolicies <= 1
    PROVE  Spec => []CompletedMeansReplicated
<1>1. Init => Quiet
    BY DEF Init, Quiet
<1>2. ASSUME Typed, Quiet, [Next]_vars PROVE Quiet'
    BY <1>2, QuietStep
<1>3. ASSUME Typed, Quiet, [Next]_vars PROVE [OnePolicyAtATime]_vars
    BY <1>3, FirstIsAtRest
<1> QED BY <1>1, <1>2, <1>3, TypedInvariant, CompletedAreReplicated, PTL DEF Spec

-----------------------------------------------------------------------------
(* JobLife.  Nobody but the execution that has an active job moves it, and *)
(* no active job is without one; what goes on after its job has failed has *)
(* no job any more.                                                        *)

Held(j) == \E r \in Runs : runs[r].job = j

Staffed == \A j \in Jobs : jobs[j].state = "active" => Held(j)

LifeState == [j \in Jobs |-> IF Held(j) THEN "running" ELSE jobs[j].state]
LifeLeft  == [j \in Jobs |-> StartsLeft(jobs[j])]

LifeStep == [Life!Next]_<<LifeState, LifeLeft>>

LEMMA HeldIsActive ==
    ASSUME ReplicationAssumption, Typed, NEW j \in Jobs, Held(j)
    PROVE  jobs[j].state = "active"
<1>1. PICK r \in Runs : runs[r].job = j
    BY DEF Held
<1> QED BY <1>1, RunJob DEF ReplicationAssumption

LEMMA JobFields ==
    ASSUME Typed, NEW j \in Jobs, jobs[j] # NoJob
    PROVE  /\ jobs[j] \in Job /\ jobs[j].state \in JobStates
           /\ jobs[j].attempts \in 1..3 /\ jobs[j].stalls \in 0..1
BY JobIsTyped DEF Typed, Job, Attempts, Stalls

(* One job moves, to x. *)
LEMMA LifeMove ==
    ASSUME Typed, Staffed, NEW j \in Jobs, NEW x, jobs' = [jobs EXCEPT ![j] = x],
           \A k \in Jobs \ {j} : Held(k)' <=> Held(k),
           x.state = "active" <=> Held(j)'
    PROVE  /\ LifeState' = [LifeState EXCEPT ![j] = IF Held(j)' THEN "running" ELSE x.state]
           /\ LifeLeft' = [LifeLeft EXCEPT ![j] = StartsLeft(x)]
           /\ Staffed'
<1>1. jobs'[j] = x /\ \A k \in Jobs \ {j} : jobs'[k] = jobs[k]
    BY DEF Typed, JobsTyped
<1>2. LifeState' = [LifeState EXCEPT ![j] = IF Held(j)' THEN "running" ELSE x.state]
    <2>1. \A k \in Jobs \ {j} : LifeState'[k] = LifeState[k]
        BY <1>1 DEF LifeState
    <2>2. LifeState'[j] = IF Held(j)' THEN "running" ELSE x.state
        BY <1>1 DEF LifeState
    <2>3. DOMAIN LifeState = Jobs /\ DOMAIN LifeState' = Jobs
          /\ LifeState = [k \in Jobs |-> LifeState[k]]
          /\ LifeState' = [k \in Jobs |-> LifeState'[k]]
        BY DEF LifeState
    <2> QED BY <2>1, <2>2, <2>3
<1>3. LifeLeft' = [LifeLeft EXCEPT ![j] = StartsLeft(x)]
    <2>1. \A k \in Jobs \ {j} : LifeLeft'[k] = LifeLeft[k]
        BY <1>1 DEF LifeLeft
    <2>2. LifeLeft'[j] = StartsLeft(x)
        BY <1>1 DEF LifeLeft
    <2>3. DOMAIN LifeLeft = Jobs /\ DOMAIN LifeLeft' = Jobs
          /\ LifeLeft = [k \in Jobs |-> LifeLeft[k]]
          /\ LifeLeft' = [k \in Jobs |-> LifeLeft'[k]]
        BY DEF LifeLeft
    <2> QED BY <2>1, <2>2, <2>3
<1>4. Staffed'
    BY <1>1 DEF Staffed
<1> QED BY <1>2, <1>3, <1>4

LEMMA LifeSame ==
    ASSUME Staffed, jobs' = jobs, \A r \in Runs : runs'[r].job = runs[r].job
    PROVE  LifeStep /\ Staffed'
BY DEF LifeStep, LifeState, LifeLeft, Staffed, Held

LEMMA NewJobLife ==
    ASSUME ReplicationAssumption, Typed, Staffed, UNCHANGED runs,
           NEW f, NEW t, NEW a \in Attempts, NewJob(f, t, a)
    PROVE  LifeStep /\ Staffed'
<1>1. PICK x : x = [state |-> "waiting", file |-> f, targets |-> t, attempts |-> a, stalls |-> 1]
    OBVIOUS
<1>2. PICK j \in Jobs : jobs[j] = NoJob /\ jobs' = [jobs EXCEPT ![j] = x]
    BY <1>1 DEF NewJob
<1>3. x.state = "waiting" /\ StartsLeft(x) = a + 1 /\ StartsLeft(x) \in 1..4
    BY <1>1 DEF StartsLeft, Attempts
<1>4. jobs[j].state = "none" /\ StartsLeft(jobs[j]) = 0
    BY <1>2 DEF NoJob, StartsLeft
<1>5. ~Held(j) /\ \A k \in Jobs : Held(k)' <=> Held(k)
    BY <1>4, HeldIsActive DEF Held
<1>6. /\ LifeState' = [LifeState EXCEPT ![j] = "waiting"]
      /\ LifeLeft' = [LifeLeft EXCEPT ![j] = StartsLeft(x)]
      /\ Staffed'
    <2>1. ~Held(j)' /\ x.state # "active"
        BY <1>3, <1>5
    <2>2. /\ LifeState' = [LifeState EXCEPT ![j] = IF Held(j)' THEN "running" ELSE x.state]
          /\ LifeLeft' = [LifeLeft EXCEPT ![j] = StartsLeft(x)]
          /\ Staffed'
        BY <1>2, <1>5, <2>1, LifeMove
    <2> QED BY <1>3, <2>1, <2>2
<1>7. LifeState[j] = "none"
    BY <1>4, <1>5 DEF LifeState
<1>8. Life!Moves(j, "none", "waiting", StartsLeft(x))
    BY <1>6, <1>7 DEF Life!Moves, LifeState, LifeLeft, Held
<1> QED BY <1>3, <1>6, <1>8 DEF LifeStep, Life!Next, Life!Add

LEMMA TakeJobLife ==
    ASSUME ReplicationAssumption, Typed, Staffed, NEW r \in Runs, TakeJob(r)
    PROVE  LifeStep /\ Staffed'
<1>1. PICK j \in Jobs :
         /\ jobs[j].state = "waiting"
         /\ jobs' = [jobs EXCEPT ![j].state = "active"]
         /\ runs' = [runs EXCEPT ![r] = [RunIdle EXCEPT !.at = "region", !.job = j,
                                                        !.file = jobs[j].file, !.k = 1]]
    BY DEF TakeJob
<1>2. jobs[j] \in Job /\ jobs[j].attempts \in 1..3 /\ jobs[j].stalls \in 0..1
    BY <1>1, JobFields DEF NoJob
<1>3. PICK x : x = [jobs[j] EXCEPT !.state = "active"]
    OBVIOUS
<1>4. x.state = "active" /\ StartsLeft(x) = StartsLeft(jobs[j]) - 1 /\ StartsLeft(jobs[j]) > 0
    BY <1>1, <1>2, <1>3 DEF StartsLeft, Job
<1>5. jobs' = [jobs EXCEPT ![j] = x]
    BY <1>1, <1>3 DEF Typed, JobsTyped
<1>6. /\ runs[r].job = Null /\ runs'[r].job = j
      /\ \A q \in Runs \ {r} : runs'[q].job = runs[q].job
    <2>1. runs[r].job = Null
        BY DEF TakeJob, RunAt, Typed, RunsTyped, RunOK
    <2>2. /\ runs'[r] = [RunIdle EXCEPT !.at = "region", !.job = j, !.file = jobs[j].file, !.k = 1]
          /\ \A q \in Runs \ {r} : runs'[q] = runs[q]
        BY <1>1 DEF Typed, RunsTyped
    <2> QED BY <2>1, <2>2 DEF RunIdle
<1>7. ~Held(j) /\ Held(j)' /\ \A k \in Jobs \ {j} : Held(k)' <=> Held(k)
    <2>1. ~Held(j)
        BY <1>1, HeldIsActive
    <2>2. \A k \in Jobs : k # Null
        BY DEF ReplicationAssumption
    <2> QED BY <1>6, <2>1, <2>2 DEF Held
<1>8. /\ LifeState' = [LifeState EXCEPT ![j] = IF Held(j)' THEN "running" ELSE x.state]
      /\ LifeLeft' = [LifeLeft EXCEPT ![j] = StartsLeft(x)]
      /\ Staffed'
    <2>1. x.state = "active" <=> Held(j)'
        BY <1>4, <1>7
    <2> QED BY <1>5, <1>7, <2>1, LifeMove
<1>9. LifeState[j] = "waiting" /\ LifeLeft[j] = StartsLeft(jobs[j])
    BY <1>1, <1>7 DEF LifeState, LifeLeft
<1>10. Life!Start(j)
    BY <1>4, <1>7, <1>8, <1>9 DEF Life!Start, Life!Moves, LifeState, LifeLeft, Held
<1> QED BY <1>8, <1>10 DEF LifeStep, Life!Next

(* An execution is done with its job, and leaves it as x. *)
LEMMA EndLife ==
    ASSUME ReplicationAssumption, Typed, Staffed, NEW r \in Runs, runs[r].job # Null, NEW x,
           jobs' = [jobs EXCEPT ![runs[r].job] = x], runs'[r].job = Null,
           \A q \in Runs \ {r} : runs'[q].job = runs[q].job,
           x.state # "active"
    PROVE  /\ LifeState[runs[r].job] = "running"
           /\ LifeLeft[runs[r].job] = StartsLeft(jobs[runs[r].job])
           /\ LifeState' = [LifeState EXCEPT ![runs[r].job] = x.state]
           /\ LifeLeft' = [LifeLeft EXCEPT ![runs[r].job] = StartsLeft(x)]
           /\ Staffed'
<1>1. PICK j : j = runs[r].job
    OBVIOUS
<1>2. j \in Jobs /\ \A q \in Runs \ {r} : runs[q].job # j
    BY <1>1, RunJob DEF Typed, RunsTyped, Exclusive
<1>3. \A k \in Jobs : k # Null
    BY DEF ReplicationAssumption
<1>4. Held(j) /\ ~Held(j)' /\ \A k \in Jobs \ {j} : Held(k)' <=> Held(k)
    BY <1>1, <1>2, <1>3 DEF Held
<1>5. /\ LifeState' = [LifeState EXCEPT ![j] = IF Held(j)' THEN "running" ELSE x.state]
      /\ LifeLeft' = [LifeLeft EXCEPT ![j] = StartsLeft(x)]
      /\ Staffed'
    <2>1. jobs' = [jobs EXCEPT ![j] = x]
        BY <1>1
    <2> QED BY <1>2, <1>4, <2>1, LifeMove
<1>6. LifeState[j] = "running" /\ LifeLeft[j] = StartsLeft(jobs[j])
    BY <1>2, <1>4 DEF LifeState, LifeLeft
<1> QED BY <1>1, <1>4, <1>5, <1>6

LEMMA RetriedLife ==
    ASSUME ReplicationAssumption, Typed, Staffed, NEW r \in Runs, runs[r].job # Null,
           jobs' = [jobs EXCEPT ![runs[r].job] = Retried(@)], runs'[r].job = Null,
           \A q \in Runs \ {r} : runs'[q].job = runs[q].job
    PROVE  LifeStep /\ Staffed'
<1>1. PICK j : j = runs[r].job
    OBVIOUS
<1>2. PICK x : x = Retried(jobs[j])
    OBVIOUS
<1>3. /\ j \in Jobs /\ jobs[j] \in Job /\ jobs[j].state = "active"
      /\ jobs[j].attempts \in 1..3 /\ jobs[j].stalls \in 0..1
    BY <1>1, RunJob, JobFields
<1>4. StartsLeft(jobs[j]) = jobs[j].attempts + jobs[j].stalls - 1
    BY <1>3 DEF StartsLeft
<1>5. \/ x.state = "waiting" /\ StartsLeft(x) = StartsLeft(jobs[j]) /\ StartsLeft(x) > 0
      \/ x.state = "failed" /\ StartsLeft(x) = 0 /\ StartsLeft(jobs[j]) <= 1
    <2>1. CASE jobs[j].attempts > 1
        <3>1. PICK n \in 1..3 : n = jobs[j].attempts - 1
            BY <1>3, <2>1
        <3>2. x = [jobs[j] EXCEPT !.state = "waiting", !.attempts = n]
            BY <1>2, <2>1, <3>1 DEF Retried
        <3>3. x.state = "waiting" /\ x.attempts = n /\ x.stalls = jobs[j].stalls
            BY <1>3, <3>2 DEF Job
        <3> QED BY <1>3, <1>4, <3>1, <3>3 DEF StartsLeft
    <2>2. CASE ~(jobs[j].attempts > 1)
        <3>1. x.state = "failed"
            BY <1>2, <1>3, <2>2 DEF Retried, Job
        <3> QED BY <1>3, <1>4, <2>2, <3>1 DEF StartsLeft
    <2> QED BY <2>1, <2>2
<1>6. /\ LifeState[j] = "running" /\ LifeLeft[j] = StartsLeft(jobs[j])
      /\ LifeState' = [LifeState EXCEPT ![j] = x.state]
      /\ LifeLeft' = [LifeLeft EXCEPT ![j] = StartsLeft(x)]
      /\ Staffed'
    <2>1. jobs' = [jobs EXCEPT ![runs[r].job] = x]
        BY <1>1, <1>2
    <2>2. x.state # "active"
        BY <1>5
    <2> QED BY <1>1, <2>1, <2>2, EndLife
<1>7. Life!Return(j) \/ Life!GiveUp(j)
    BY <1>5, <1>6 DEF Life!Return, Life!GiveUp, Life!Moves, LifeState, LifeLeft, Held
<1> QED BY <1>3, <1>6, <1>7 DEF LifeStep, Life!Next

LEMMA RunEndsJob ==
    ASSUME Typed, NEW r \in Runs, RunEnds(r)
    PROVE  runs'[r].job = Null /\ \A q \in Runs \ {r} : runs'[q].job = runs[q].job
BY DEF RunEnds, RunIdle, Typed, RunsTyped

LEMMA ThrowsLife ==
    ASSUME ReplicationAssumption, Typed, Staffed, NEW r \in Runs, runs[r].job # Null, Throws(r)
    PROVE  LifeStep /\ Staffed'
BY RunEndsJob, RetriedLife DEF Throws

(* An execution moves on with the job it has, or with none. *)
LEMMA GoesOnLife ==
    ASSUME Typed, Staffed, NEW r \in Runs, NEW q, q.job = runs[r].job,
           runs' = [runs EXCEPT ![r] = q], UNCHANGED jobs
    PROVE  LifeStep /\ Staffed'
<1>1. \A s \in Runs : runs'[s].job = runs[s].job
    BY DEF Typed, RunsTyped
<1> QED BY <1>1, LifeSame

LEMMA StartLife ==
    ASSUME ReplicationAssumption, Typed, Staffed, NEW r \in Runs,
           FindRegion(r) \/ FindNode(r) \/ Assemble(r)
    PROVE  LifeStep /\ Staffed'
<1>1. runs[r] \in RunState /\ runs[r].job # Null
    BY DEF Typed, RunsTyped, RunOK, FindRegion, FindNode, Assemble, RunAt
<1>2. CASE Throws(r)
    BY <1>1, <1>2, ThrowsLife
<1>3. CASE FindRegion(r) /\ ~Throws(r)
    <2>1. PICK id : runs' = [runs EXCEPT ![r].at = "nodes", ![r].region = id] /\ UNCHANGED jobs
        BY <1>3 DEF FindRegion
    <2>2. PICK q : q = [runs[r] EXCEPT !.at = "nodes", !.region = id]
        OBVIOUS
    <2>3. q.job = runs[r].job /\ runs' = [runs EXCEPT ![r] = q]
        BY <1>1, <2>1, <2>2 DEF RunState, Typed, RunsTyped
    <2> QED BY <2>1, <2>3, GoesOnLife
<1>4. CASE FindNode(r) /\ ~Throws(r)
    <2>1. PICK n : /\ runs' = [runs EXCEPT ![r].at = "assemble", ![r].node = n, ![r].target = nodes[n]]
                   /\ UNCHANGED jobs
        BY <1>4 DEF FindNode
    <2>2. PICK q : q = [runs[r] EXCEPT !.at = "assemble", !.node = n, !.target = nodes[n]]
        OBVIOUS
    <2>3. q.job = runs[r].job /\ runs' = [runs EXCEPT ![r] = q]
        BY <1>1, <2>1, <2>2 DEF RunState, Typed, RunsTyped
    <2> QED BY <2>1, <2>3, GoesOnLife
<1>5. CASE Assemble(r) /\ ~Throws(r)
    <2>1. PICK copy : runs' = [runs EXCEPT ![r].at = "copy", ![r].copy = copy] /\ UNCHANGED jobs
        BY <1>5 DEF Assemble
    <2>2. PICK q : q = [runs[r] EXCEPT !.at = "copy", !.copy = copy]
        OBVIOUS
    <2>3. q.job = runs[r].job /\ runs' = [runs EXCEPT ![r] = q]
        BY <1>1, <2>1, <2>2 DEF RunState, Typed, RunsTyped
    <2> QED BY <2>1, <2>3, GoesOnLife
<1> QED BY <1>2, <1>3, <1>4, <1>5

(* Only an execution without a job ends with a copy. *)
LEMMA CopyLife ==
    ASSUME ReplicationAssumption, Typed, Staffed, NEW r \in Runs, Copy(r) \/ DeductFile(r)
    PROVE  LifeStep /\ Staffed'
<1>1. runs[r] \in RunState /\ (runs[r].at = "stray" => runs[r].job = Null)
    BY DEF Typed, RunsTyped, RunOK
<1>2. ASSUME NEW c \in Chunks, CopyEntry(r, c) \/ CopyChunk(r, c) PROVE LifeStep /\ Staffed'
    <2>1. PICK step \in {"chunk", "node"} : runs' = [runs EXCEPT ![r].copy[c] = step]
        BY <1>2 DEF CopyEntry, CopyChunk
    <2>2. PICK q : q = [runs[r] EXCEPT !.copy[c] = step]
        OBVIOUS
    <2>3. q.job = runs[r].job /\ runs' = [runs EXCEPT ![r] = q]
        BY <1>1, <2>1, <2>2 DEF RunState, Typed, RunsTyped
    <2> QED BY <1>2, <2>3, GoesOnLife DEF CopyEntry, CopyChunk
<1>3. ASSUME NEW c \in Chunks, CopyNode(r, c) PROVE LifeStep /\ Staffed'
    <2>1. PICK less : less = [runs[r].target EXCEPT !.available = @ - 1]
        OBVIOUS
    <2>2. PICK q : q = IF runs[r].at = "stray" /\ Copying(r) = {c} THEN RunIdle
                       ELSE [runs[r] EXCEPT !.copy[c] = "done", !.target = less]
        OBVIOUS
    <2>3. runs' = [runs EXCEPT ![r] = q] /\ UNCHANGED jobs
        BY <1>3, <2>1, <2>2 DEF CopyNode, CopyDone
    <2>4. q.job = runs[r].job
        BY <1>1, <2>2 DEF RunState, RunIdle
    <2> QED BY <2>3, <2>4, GoesOnLife
<1>4. CASE DeductFile(r)
    <2>1. PICK less : runs' = [runs EXCEPT ![r].at = "metaLoad", ![r].target = less]
        BY <1>4 DEF DeductFile
    <2>2. PICK q : q = [runs[r] EXCEPT !.at = "metaLoad", !.target = less]
        OBVIOUS
    <2>3. q.job = runs[r].job /\ runs' = [runs EXCEPT ![r] = q]
        BY <1>1, <2>1, <2>2 DEF RunState, Typed, RunsTyped
    <2> QED BY <1>4, <2>3, GoesOnLife DEF DeductFile
<1> QED BY <1>2, <1>3, <1>4 DEF Copy

LEMMA MetadataLife ==
    ASSUME ReplicationAssumption, Typed, Staffed, NEW r \in Runs,
           LoadMetadata(r) \/ SaveMetadata(r)
    PROVE  LifeStep /\ Staffed'
<1>1. runs[r] \in RunState /\ runs[r].job # Null
    BY DEF Typed, RunsTyped, RunOK, LoadMetadata, SaveMetadata, RunAt
<1>2. CASE LoadMetadata(r)
    <2>1. PICK row : runs' = [runs EXCEPT ![r].at = "metaSave", ![r].row = row]
        BY <1>2 DEF LoadMetadata
    <2>2. PICK q : q = [runs[r] EXCEPT !.at = "metaSave", !.row = row]
        OBVIOUS
    <2>3. q.job = runs[r].job /\ runs' = [runs EXCEPT ![r] = q]
        BY <1>1, <2>1, <2>2 DEF RunState, Typed, RunsTyped
    <2> QED BY <1>2, <2>3, GoesOnLife DEF LoadMetadata
<1>3. CASE SaveMetadata(r) /\ UNCHANGED jobs
    <2>1. PICK q : q = [RunIdle EXCEPT !.at = "region", !.job = runs[r].job,
                                       !.file = jobs[runs[r].job].file, !.k = runs[r].k + 1]
        OBVIOUS
    <2>2. q.job = runs[r].job
        BY <2>1 DEF RunIdle
    <2>3. CASE runs' = [runs EXCEPT ![r] = q]
        BY <1>3, <2>2, <2>3, GoesOnLife
    <2>4. CASE runs[r].k < Len(jobs[runs[r].job].targets)
        BY <1>3, <2>1, <2>3, <2>4 DEF SaveMetadata
    <2>5. CASE ~(runs[r].k < Len(jobs[runs[r].job].targets))
        <3>1. jobs' = [jobs EXCEPT ![runs[r].job].state = "completed"]
            BY <1>3, <2>5 DEF SaveMetadata
        <3>2. runs[r].job \in Jobs /\ jobs[runs[r].job].state = "active"
              /\ jobs[runs[r].job] \in Job
            BY <1>1, RunJob, JobFields
        <3>3. jobs'[runs[r].job].state = "completed"
            BY <3>1, <3>2 DEF Typed, JobsTyped, Job
        <3> QED BY <1>3, <3>2, <3>3
    <2> QED BY <2>4, <2>5
<1>4. CASE SaveMetadata(r) /\ jobs' # jobs
    <2>1. PICK j : j = runs[r].job
        OBVIOUS
    <2>2. j \in Jobs /\ jobs[j] \in Job
        BY <1>1, <2>1, RunJob, JobFields
    <2>3. jobs' = [jobs EXCEPT ![j].state = "completed"] /\ RunEnds(r)
        BY <1>4, <2>1 DEF SaveMetadata
    <2>4. PICK x : x = [jobs[j] EXCEPT !.state = "completed"]
        OBVIOUS
    <2>5. x.state = "completed" /\ StartsLeft(x) = 0
        BY <2>2, <2>4 DEF Job, StartsLeft
    <2>6. /\ LifeState[j] = "running"
          /\ LifeState' = [LifeState EXCEPT ![j] = x.state]
          /\ LifeLeft' = [LifeLeft EXCEPT ![j] = StartsLeft(x)]
          /\ Staffed'
        <3>1. jobs' = [jobs EXCEPT ![runs[r].job] = x]
            BY <2>1, <2>3, <2>4
        <3>2. x.state # "active"
            BY <2>5
        <3>3. runs'[r].job = Null /\ \A q \in Runs \ {r} : runs'[q].job = runs[q].job
            BY <2>3, RunEndsJob
        <3> QED BY <1>1, <2>1, <3>1, <3>2, <3>3, EndLife
    <2>7. Life!Complete(j)
        BY <2>5, <2>6 DEF Life!Complete, Life!Moves, LifeState, LifeLeft, Held
    <2> QED BY <2>2, <2>6, <2>7 DEF LifeStep, Life!Next
<1> QED BY <1>2, <1>3, <1>4

LEMMA FailureLife ==
    ASSUME ReplicationAssumption, Typed, Staffed, NEW r \in Runs,
           CallFails(r) \/ \E c \in Chunks : CopyFails(r, c)
    PROVE  LifeStep /\ Staffed'
<1>1. CASE CallFails(r)
    BY <1>1, ThrowsLife DEF CallFails
<1>2. ASSUME NEW c \in Chunks, CopyFails(r, c) PROVE LifeStep /\ Staffed'
    <2>1. PICK q : q = IF Copying(r) = {c} THEN RunIdle
                       ELSE [runs[r] EXCEPT !.at = "stray", !.job = Null, !.copy[c] = "done"]
        OBVIOUS
    <2>2. runs' = [runs EXCEPT ![r] = q]
        BY <1>2, <2>1 DEF CopyFails
    <2>3. q.job = Null
        <3>1. runs[r] \in RunState
            BY DEF Typed, RunsTyped, RunOK
        <3> QED BY <2>1, <3>1 DEF RunState, RunIdle
    <2>4. runs'[r].job = Null /\ \A s \in Runs \ {r} : runs'[s].job = runs[s].job
        BY <2>2, <2>3 DEF Typed, RunsTyped
    <2>5. CASE runs[r].job = Null
        BY <1>2, <2>4, <2>5, LifeSame DEF CopyFails
    <2>6. CASE runs[r].job # Null
        BY <1>2, <2>4, <2>6, RetriedLife DEF CopyFails
    <2> QED BY <2>5, <2>6
<1> QED BY <1>1, <1>2

(* Every active job had an execution, which is gone. *)
LEMMA CrashLife ==
    ASSUME ReplicationAssumption, Typed, Staffed, Crash
    PROVE  LifeStep /\ Staffed'
<1>1. /\ jobs' = [j \in Jobs |-> IF jobs[j].state = "active" THEN Stalled(jobs[j]) ELSE jobs[j]]
      /\ \A r \in Runs : runs'[r].job = Null
    BY DEF Crash, StallActive, Typed, JobsTyped, RunIdle
<1>2. \A j \in Jobs : ~Held(j)'
    BY <1>1 DEF Held, ReplicationAssumption
<1>3. \A j \in Jobs : jobs[j].state = "active" <=> Held(j)
    BY HeldIsActive DEF Staffed
<1>4. PICK back : back = {j \in Jobs : jobs[j].state = "active" /\ jobs[j].stalls = 1}
    OBVIOUS
<1>5. ASSUME NEW j \in Jobs
      PROVE  /\ LifeState[j] = "running" <=> jobs[j].state = "active"
             /\ j \in back => LifeLeft[j] > 0
             /\ LifeState'[j] = CASE j \in back -> "waiting"
                                  [] jobs[j].state = "active" /\ j \notin back -> "failed"
                                  [] OTHER -> LifeState[j]
             /\ LifeLeft'[j] = IF jobs[j].state = "active" /\ j \notin back
                               THEN 0 ELSE LifeLeft[j]
             /\ jobs'[j].state # "active"
    <2>1. /\ LifeState[j] = IF jobs[j].state = "active" THEN "running" ELSE jobs[j].state
          /\ LifeState'[j] = jobs'[j].state
          /\ LifeLeft[j] = StartsLeft(jobs[j]) /\ LifeLeft'[j] = StartsLeft(jobs'[j])
        BY <1>2, <1>3 DEF LifeState, LifeLeft
    <2>2. CASE jobs[j].state # "active"
        <3>1. jobs'[j] = jobs[j] /\ j \notin back
            BY <1>1, <1>4, <2>2
        <3>2. jobs[j].state # "running"
            BY JobFields DEF NoJob, JobStates
        <3> QED BY <2>1, <2>2, <3>1, <3>2
    <2>3. CASE jobs[j].state = "active"
        <3>1. /\ jobs'[j] = Stalled(jobs[j]) /\ jobs[j] \in Job
              /\ jobs[j].attempts \in 1..3 /\ jobs[j].stalls \in 0..1
            BY <1>1, <2>3, JobFields DEF NoJob
        <3>2. LifeLeft[j] = jobs[j].attempts + jobs[j].stalls - 1
            BY <2>1, <2>3 DEF StartsLeft
        <3>3. CASE jobs[j].stalls = 1
            <4>1. jobs'[j] = [jobs[j] EXCEPT !.state = "waiting", !.stalls = 0]
                <5>1. jobs[j].stalls > 0 /\ jobs[j].stalls - 1 = 0
                    BY <3>3
                <5> QED BY <3>1, <5>1 DEF Stalled
            <4>2. /\ jobs'[j].state = "waiting" /\ jobs'[j].stalls = 0
                  /\ jobs'[j].attempts = jobs[j].attempts /\ j \in back
                BY <1>4, <2>3, <3>1, <3>3, <4>1 DEF Job
            <4>3. LifeLeft'[j] = jobs[j].attempts
                BY <2>1, <3>1, <4>2 DEF StartsLeft
            <4> QED BY <2>1, <2>3, <3>1, <3>2, <3>3, <4>2, <4>3
        <3>4. CASE jobs[j].stalls = 0
            <4>1. jobs'[j].state = "failed" /\ j \notin back
                BY <1>4, <3>1, <3>4 DEF Stalled, Job
            <4>2. LifeLeft'[j] = 0
                BY <2>1, <4>1 DEF StartsLeft
            <4> QED BY <2>1, <2>3, <4>1, <4>2
        <3> QED BY <3>1, <3>3, <3>4
    <2> QED BY <2>2, <2>3
<1>6. Staffed'
    BY <1>5 DEF Staffed
<1>7. PICK running : running = {j \in Jobs : LifeState[j] = "running"}
    OBVIOUS
<1>8. \A j \in Jobs : j \in running <=> jobs[j].state = "active"
    BY <1>5, <1>7
<1>9. back \in SUBSET {j \in running : LifeLeft[j] > 0}
    BY <1>4, <1>5, <1>8
<1>10. LifeState' = [j \in Jobs |-> CASE j \in back           -> "waiting"
                                      [] j \in running \ back -> "failed"
                                      [] OTHER                -> LifeState[j]]
    <2>1. LifeState' = [j \in Jobs |-> LifeState'[j]]
        BY DEF LifeState
    <2>2. ASSUME NEW j \in Jobs
          PROVE  LifeState'[j] = CASE j \in back           -> "waiting"
                                   [] j \in running \ back -> "failed"
                                   [] OTHER                -> LifeState[j]
        BY <1>4, <1>5, <1>8
    <2> QED BY <2>1, <2>2
<1>11. LifeLeft' = [j \in Jobs |-> IF j \in running \ back THEN 0 ELSE LifeLeft[j]]
    <2>1. LifeLeft' = [j \in Jobs |-> LifeLeft'[j]]
        BY DEF LifeLeft
    <2> QED BY <1>5, <1>8, <2>1
<1>12. Life!Stop
    <2>1. Life!Running = running
        BY <1>7 DEF Life!Running, LifeState, Held
    <2>2. Life!Stop <=>
            \E b \in SUBSET {j \in Life!Running : LifeLeft[j] > 0} :
                /\ LifeState' = [j \in Jobs |-> CASE j \in b                -> "waiting"
                                                [] j \in Life!Running \ b -> "failed"
                                                [] OTHER                  -> LifeState[j]]
                /\ LifeLeft' = [j \in Jobs |-> IF j \in Life!Running \ b THEN 0 ELSE LifeLeft[j]]
        BY DEF Life!Stop, LifeState, LifeLeft, Held
    <2> QED BY <1>9, <1>10, <1>11, <2>1, <2>2, Zenon
<1> QED BY <1>6, <1>12 DEF LifeStep, Life!Next

LEMMA NextLife ==
    ASSUME ReplicationAssumption, Typed, Staffed, [Next]_vars
    PROVE  LifeStep /\ Staffed'
<1> USE DEF storageVars
<1>1. CASE UNCHANGED <<jobs, runs>>
    BY <1>1, LifeSame
<1>2. CASE Administration \/ UNCHANGED vars
    BY <1>1, <1>2 DEF Administration, vars
<1>3. 1 \in Attempts /\ 3 \in Attempts
    BY DEF Attempts
<1>4. ASSUME NEW f \in Files, UploadFinishes(f) PROVE LifeStep /\ Staffed'
    BY <1>1, <1>3, <1>4, NewJobLife DEF UploadFinishes
<1>5. ASSUME NEW c \in Clients, PolicyLoad(c) \/ Policy(c) \/ RequestFails(c)
      PROVE  LifeStep /\ Staffed'
    <2>1. CASE PolicyQueue(c)
        BY <1>3, <2>1, NewJobLife DEF PolicyQueue
    <2> QED BY <1>1, <1>5, <2>1 DEF PolicyLoad, Policy, PolicyCheck, PolicyReload, PolicySave,
                                    PolicyAnswer, RequestFails
<1>6. ASSUME NEW r \in Runs, Run(r) PROVE LifeStep /\ Staffed'
    BY <1>6, TakeJobLife, StartLife, CopyLife, MetadataLife DEF Run
<1> QED BY <1>2, <1>4, <1>5, <1>6, FailureLife, CrashLife DEF Next

(* The executions of the processor implement JobLife: retries, stops and   *)
(* copies that outlive their job start each job at most four times, and    *)
(* touch none that has ended (queueReplicationJob, processReplicationJob,  *)
(* Bull).                                                                  *)
THEOREM JobLifeImplemented ==
    ASSUME ReplicationAssumption, StorageAssumption PROVE Spec => JobLifeSpec
<1>1. Init => Staffed
    BY DEF Init, Staffed, NoJob
<1>2. Init => Life!Init
    <2>1. ASSUME Init, NEW j \in Jobs
          PROVE  ~Held(j) /\ jobs[j].state = "none" /\ StartsLeft(jobs[j]) = 0
        BY <2>1 DEF Init, Held, RunIdle, NoJob, StartsLeft, ReplicationAssumption
    <2> QED BY <2>1 DEF Life!Init, Held
<1>3. Typed /\ Staffed /\ [Next]_vars =>
         /\ [Life!Next]_<<[j \in Jobs |-> IF \E r \in Runs : runs[r].job = j THEN "running"
                                          ELSE jobs[j].state],
                          [j \in Jobs |-> StartsLeft(jobs[j])]>>
         /\ Staffed'
    BY NextLife DEF LifeStep, LifeState, LifeLeft, Held
<1> QED BY <1>1, <1>2, <1>3, TypedInvariant, PTL DEF Spec, JobLifeSpec, Life!Spec

-----------------------------------------------------------------------------
(* The copies stay.  A chunk row has one node, so that copying the chunks  *)
(* to a second region takes them away from the first.  With one target     *)
(* region for all policies this cannot happen, and everything that the     *)
(* jobs and the File rows list beyond the first region is that one.        *)

Only(name, list) == \A i \in DOMAIN list : list[i] = name

After(name, list) == list # << >> /\ \A i \in DOMAIN list : i > 1 => list[i] = name

Adds(name, row) == After(name, row.regions) /\ row.replicatedTo \subseteq {name}

PolicyAdds(name, p) ==
    p.at # "idle" => Adds(name, p.row) /\ Only(name, p.targets) /\ Only(name, p.new)

RunAdds(name, q) == q.at = "metaSave" => Adds(name, q.row)

Lists(name) ==
    /\ \A f \in Files : Adds(name, files[f])
    /\ \A j \in Jobs : jobs[j] # NoJob => Only(name, jobs[j].targets)
    /\ \A c \in Clients : PolicyAdds(name, policy[c])
    /\ \A r \in Runs : RunAdds(name, runs[r])

CopiesTo(name, q) == q.at \in {"copy", "stray"} => InRegion(q.node, name)

Places(name) ==
    /\ \A r \in Runs : CopiesTo(name, runs[r])
    /\ \A c \in Chunks : located[c] # Null => InRegion(located[c], name)
    /\ \A c \in Chunks, n \in NodeIds : <<c, n>> \in placed => located[c] # Null

LEMMA WithoutOnly ==
    ASSUME NEW name, NEW T, NEW t \in Seq(T), NEW names, Only(name, t)
    PROVE  Only(name, Without(t, names))
<1>1. Without(t, names) \in Seq(T) /\ Range(Without(t, names)) = Range(t) \ names
    BY WithoutElements
<1>2. PICK u \in Seq(T) : u = Without(t, names)
    BY <1>1
<1>3. ASSUME NEW i \in DOMAIN u PROVE u[i] = name
    <2>1. u[i] \in Range(t)
        BY <1>1, <1>2 DEF Range
    <2> QED BY <2>1 DEF Range, Only
<1> QED BY <1>2, <1>3 DEF Only

LEMMA TailOnly ==
    ASSUME NEW name, NEW T, NEW s \in Seq(T), Len(s) > 1, After(name, s)
    PROVE  Only(name, Tail(s))
<1>1. Tail(s) \in Seq(T) /\ Len(Tail(s)) = Len(s) - 1
      /\ \A i \in 1..(Len(s) - 1) : Tail(s)[i] = s[i + 1]
    BY s # << >>
<1>2. \A i \in 1..(Len(s) - 1) : i + 1 \in DOMAIN s /\ i + 1 > 1
    OBVIOUS
<1> QED BY <1>1, <1>2 DEF Only, After

LEMMA UnionAdds ==
    ASSUME NEW name, NEW T, NEW s \in Seq(T), NEW t \in Seq(T), After(name, s), Only(name, t)
    PROVE  After(name, Union(s, t))
<1>1. PICK u \in Seq(T) : u = Without(t, Range(s)) /\ Only(name, u)
    BY WithoutElements, WithoutOnly
<1>2. Union(s, t) = s \o u
    BY <1>1 DEF Union
<1>3. ASSUME NEW i \in DOMAIN (s \o u), i > 1 PROVE (s \o u)[i] = name
    <2>1. CASE i <= Len(s)
        BY <1>3, <2>1 DEF After
    <2>2. CASE ~(i <= Len(s))
        <3>1. i - Len(s) \in DOMAIN u /\ (s \o u)[i] = u[i - Len(s)]
            BY <1>3, <2>2
        <3> QED BY <1>1, <3>1 DEF Only
    <2> QED BY <2>1, <2>2
<1>4. s \o u # << >>
    BY DEF After
<1> QED BY <1>2, <1>3, <1>4 DEF After

(* A node stays in its region, and the region keeps its name. *)
LEMMA NodesStay ==
    ASSUME ReplicationAssumption, StorageAssumption, IInv, [Next]_vars,
           NEW n \in NodeIds, NEW name, InRegion(n, name)
    PROVE  InRegion(n, name)'
<1> USE DEF storageVars
<1>1. /\ regions \in [RegionIds -> Region] /\ nodes \in [NodeIds -> Live \cup {NoNode}]
      /\ nodes[n] \in Live /\ nodes[n].region \in RegionIds
      /\ regions[nodes[n].region].name = name /\ regions[nodes[n].region] # NoRegion
    BY DEF IInv, TablesInv, InRegion, NoNode, StorageAssumption
<1>2. ASSUME UNCHANGED regions,
             UNCHANGED nodes \/ \E m, row : saveStorageNode(m, row) /\ Mirrors(m, row)
      PROVE  InRegion(n, name)'
    BY <1>1, <1>2 DEF InRegion, saveStorageNode, Mirrors
<1>3. CASE CreateRegion \/ DeactivateRegion
    <2>1. regions'[nodes[n].region].name = name
        <3>1. CASE CreateRegion
            BY <1>1, <3>1 DEF CreateRegion
        <3>2. CASE DeactivateRegion
            BY <1>1, <3>2 DEF DeactivateRegion, Region, NoRegion
        <3> QED BY <1>3, <3>1, <3>2
    <2> QED BY <1>1, <1>3, <2>1 DEF CreateRegion, DeactivateRegion, InRegion
<1>4. CASE CreateStorageNode
    <2>1. PICK m, row : nodes[m] = NoNode /\ nodes' = [nodes EXCEPT ![m] = row]
        BY <1>4 DEF CreateStorageNode, saveStorageNode
    <2>2. m # n
        BY <1>1, <2>1 DEF NoNode, Live, StorageAssumption
    <2> QED BY <1>1, <1>4, <2>1, <2>2 DEF InRegion, CreateStorageNode
<1>5. ASSUME NEW a \in Admins, StatusSave(a) PROVE InRegion(n, name)'
    BY <1>2, <1>5 DEF StatusSave, IInv, AdminInv
<1>6. ASSUME NEW r \in Runs, NEW c \in Chunks, CopyNode(r, c) PROVE InRegion(n, name)'
    <2>1. PICK q : q = runs[r]
        OBVIOUS
    <2>2. Mirrors(q.node, q.target)
        BY <1>6, <2>1 DEF IInv, RunInv, CopyNode
    <2>3. Mirrors(q.node, [q.target EXCEPT !.available = @ - 1])
        BY <2>2 DEF Mirrors, Live
    <2> QED BY <1>2, <1>6, <2>1, <2>3 DEF CopyNode
<1>7. ASSUME NEW r \in Runs, DeductFile(r) PROVE InRegion(n, name)'
    <2>1. PICK q : q = runs[r]
        OBVIOUS
    <2>2. Mirrors(q.node, q.target) /\ q.file \in Files
        BY <1>7, <2>1 DEF IInv, RunInv, DeductFile, RunAt, Queued
    <2>3. PICK size \in Nat : size = Size(q.file)
        BY <2>2, SizeInt
    <2>4. Mirrors(q.node, [q.target EXCEPT !.available = @ - size])
        BY <2>2 DEF Mirrors, Live
    <2> QED BY <1>2, <1>7, <2>1, <2>3, <2>4 DEF DeductFile
<1>8. CASE Administration
    BY <1>2, <1>3, <1>4, <1>5, <1>8 DEF Administration, StorageNext, StatusLoad
<1>9. ASSUME NEW r \in Runs, Run(r) PROVE InRegion(n, name)'
    BY <1>2, <1>6, <1>7, <1>9 DEF Run, TakeJob, FindRegion, FindNode, Assemble, Copy, CopyEntry,
                                  CopyChunk, LoadMetadata, SaveMetadata
<1>10. CASE ~Administration /\ ~(\E r \in Runs : Run(r))
    <2>1. UNCHANGED <<regions, nodes>>
        BY <1>10 DEF Next, UploadFinishes, PolicyLoad, Policy, PolicyCheck, PolicyReload, PolicySave,
                     PolicyQueue, PolicyAnswer, RequestFails, CallFails, CopyFails, Crash, vars
    <2> QED BY <1>2, <2>1
<1> QED BY <1>8, <1>9, <1>10

(* The jobs of the queue, when none is new and when one is. *)
LEMMA OldJobsListed ==
    ASSUME NEW name, Lists(name), Grows({})
    PROVE  \A j \in Jobs : jobs'[j] # NoJob => Only(name, jobs'[j].targets)
BY DEF Lists, Grows, Only

LEMMA NewJobListed ==
    ASSUME NEW name, JobsTyped, Lists(name), NEW f, NEW t, NEW a, NewJob(f, t, a), Only(name, t)
    PROVE  \A j \in Jobs : jobs'[j] # NoJob => Only(name, jobs'[j].targets)
<1>1. PICK j \in Jobs :
         jobs' = [jobs EXCEPT ![j] = [state |-> "waiting", file |-> f, targets |-> t,
                                      attempts |-> a, stalls |-> 1]]
    BY DEF NewJob
<1>2. jobs'[j].targets = t /\ \A i \in Jobs \ {j} : jobs'[i] = jobs[i]
    BY <1>1 DEF JobsTyped
<1> QED BY <1>2 DEF Lists

LEMMA RunListed ==
    ASSUME NEW name, Typed, Lists(name), NEW r \in Runs, NEW q, RunAdds(name, q),
           runs' = [runs EXCEPT ![r] = q]
    PROVE  \A s \in Runs : RunAdds(name, runs'[s])
<1>1. runs'[r] = q /\ \A s \in Runs \ {r} : runs'[s] = runs[s]
    BY DEF Typed, RunsTyped
<1> QED BY <1>1 DEF Lists

LEMMA IdleListed == \A name : RunAdds(name, RunIdle) /\ PolicyAdds(name, PolicyIdle)
BY DEF RunAdds, PolicyAdds, RunIdle, PolicyIdle

LEMMA PolicyListed ==
    ASSUME NEW name, Typed, Lists(name), NEW c \in Clients, NEW p, PolicyAdds(name, p),
           policy' = [policy EXCEPT ![c] = p]
    PROVE  \A d \in Clients : PolicyAdds(name, policy'[d])
<1>1. policy'[c] = p /\ \A d \in Clients \ {c} : policy'[d] = policy[d]
    BY DEF Typed, PolicyTyped
<1> QED BY <1>1 DEF Lists

LEMMA PolicyLists ==
    ASSUME ReplicationAssumption, StorageAssumption, IInv, Typed, NEW name,
           Targets \subseteq {<<name>>}, Lists(name),
           NEW c \in Clients, PolicyLoad(c) \/ Policy(c) \/ RequestFails(c)
    PROVE  Lists(name)'
<1>1. PICK p : p = policy[c]
    OBVIOUS
<1>2. p \in PolicyState /\ PolicyAdds(name, p) /\ (p.at # "idle" => p.file \in Files)
    BY <1>1 DEF Typed, PolicyTyped, Lists
<1>3. UNCHANGED runs
    BY DEF PolicyLoad, Policy, PolicyCheck, PolicyReload, PolicySave, PolicyQueue, PolicyAnswer,
           RequestFails
<1>4. ASSUME UNCHANGED <<files, jobs>>, NEW q, PolicyAdds(name, q),
             policy' = [policy EXCEPT ![c] = q]
      PROVE  Lists(name)'
    <2>1. \A d \in Clients : PolicyAdds(name, policy'[d])
        BY <1>4, PolicyListed
    <2> QED BY <1>3, <1>4, <2>1 DEF Lists
<1>5. CASE PolicyLoad(c)
    <2>1. PICK f \in Files, targets \in Targets :
             policy' = [policy EXCEPT ![c] = [at |-> "check", file |-> f, targets |-> targets,
                                              new |-> << >>, row |-> files[f]]]
        BY <1>5 DEF PolicyLoad
    <2>2. PICK q : q = [at |-> "check", file |-> f, targets |-> targets, new |-> << >>,
                        row |-> files[f]]
        OBVIOUS
    <2>3. Only(name, targets) /\ Only(name, << >>)
        BY DEF Only
    <2>4. PolicyAdds(name, q)
        BY <2>2, <2>3 DEF PolicyAdds, Lists
    <2> QED BY <1>4, <1>5, <2>1, <2>2, <2>4 DEF PolicyLoad
<1>6. CASE PolicyCheck(c)
    <2>1. PICK q : q = [p EXCEPT !.at = "reload"]
        OBVIOUS
    <2>2. PolicyAdds(name, q)
        BY <1>1, <1>2, <1>6, <2>1 DEF PolicyAdds, PolicyCheck, PolicyState
    <2>3. policy' = [policy EXCEPT ![c] = q] \/ policy' = [policy EXCEPT ![c] = PolicyIdle]
        BY <1>1, <1>6, <2>1 DEF PolicyCheck
    <2> QED BY <1>4, <1>6, <2>2, <2>3, IdleListed DEF PolicyCheck
<1>7. CASE PolicyReload(c)
    <2>1. /\ p.at = "reload" /\ p.file \in Files
          /\ p.targets \in Seq(Names) /\ p.row.regions \in Seq(Names)
          /\ Adds(name, p.row) /\ Only(name, p.targets)
        BY <1>1, <1>2, <1>7 DEF PolicyReload, PolicyState, Row, PolicyAdds
    <2>2. PICK new : new = Without(p.targets, Range(p.row.regions) \cup p.row.replicatedTo)
                     /\ Only(name, new)
        BY <2>1, WithoutOnly
    <2>3. PICK list : list = Union(p.row.regions, p.targets) /\ After(name, list)
        BY <2>1, UnionAdds DEF Adds
    <2>4. PICK row : row = [regions |-> list, replicatedTo |-> files[p.file].replicatedTo]
        OBVIOUS
    <2>5. Adds(name, row)
        BY <2>1, <2>3, <2>4 DEF Adds, Lists
    <2>6. PICK q : q = [p EXCEPT !.at = "save", !.row = row, !.new = new]
        OBVIOUS
    <2>7. PolicyAdds(name, q)
        BY <1>2, <2>1, <2>2, <2>5, <2>6 DEF PolicyAdds, PolicyState
    <2>8. policy' = [policy EXCEPT ![c] = q]
        BY <1>1, <1>7, <2>2, <2>3, <2>4, <2>6 DEF PolicyReload
    <2> QED BY <1>4, <1>7, <2>7, <2>8 DEF PolicyReload
<1>8. ASSUME NEW step, policy' = [policy EXCEPT ![c].at = step], p.at # "idle"
      PROVE  \A d \in Clients : PolicyAdds(name, policy'[d])
    <2>1. PICK q : q = [p EXCEPT !.at = step]
        OBVIOUS
    <2>2. PolicyAdds(name, q) /\ policy' = [policy EXCEPT ![c] = q]
        BY <1>1, <1>2, <1>8, <2>1 DEF PolicyAdds, PolicyState
    <2> QED BY <2>2, PolicyListed
<1>9. CASE PolicySave(c)
    <2>1. p.at = "save" /\ Adds(name, p.row) /\ p.file \in Files
        BY <1>1, <1>2, <1>9 DEF PolicySave, PolicyAdds
    <2>2. \A f \in Files : Adds(name, files'[f])
        BY <1>1, <1>9, <2>1 DEF PolicySave, Lists, Typed, RowsTyped
    <2>3. \A d \in Clients : PolicyAdds(name, policy'[d])
        BY <1>8, <1>9, <2>1 DEF PolicySave
    <2> QED BY <1>3, <1>9, <2>2, <2>3 DEF PolicySave, Lists
<1>10. CASE PolicyQueue(c)
    <2>1. p.at = "queue" /\ Only(name, p.new)
        BY <1>1, <1>2, <1>10 DEF PolicyQueue, PolicyAdds
    <2>2. \A j \in Jobs : jobs'[j] # NoJob => Only(name, jobs'[j].targets)
        BY <1>1, <1>10, <2>1, NewJobListed DEF PolicyQueue, Typed
    <2>3. \A d \in Clients : PolicyAdds(name, policy'[d])
        BY <1>8, <1>10, <2>1 DEF PolicyQueue
    <2> QED BY <1>3, <1>10, <2>2, <2>3 DEF PolicyQueue, Lists
<1>11. CASE PolicyAnswer(c) \/ RequestFails(c)
    BY <1>4, <1>11, IdleListed DEF PolicyAnswer, RequestFails
<1> QED BY <1>5, <1>6, <1>7, <1>9, <1>10, <1>11 DEF Policy

(* What an execution's step does to its own state. *)
Moves(r, q) ==
    /\ runs' = [runs EXCEPT ![r] = q]
    /\ q.at \in {"copy", "stray"} =>
          runs[r].at \in {"assemble", "copy", "stray"} /\ q.node = runs[r].node
    /\ q.at = "metaSave" =>
          /\ runs[r].at = "metaLoad"
          /\ q.row = [regions      |-> Union(files[runs[r].file].regions, <<TargetRegion(r)>>),
                      replicatedTo |-> files[runs[r].file].replicatedTo \cup {TargetRegion(r)}]

LEMMA StartMoves ==
    ASSUME Typed, NEW r \in Runs, TakeJob(r) \/ FindRegion(r) \/ FindNode(r) \/ Assemble(r)
    PROVE  \E q : Moves(r, q)
<1>1. runs[r] \in RunState
    BY DEF Typed, RunsTyped, RunOK
<1>2. ASSUME NEW q, runs' = [runs EXCEPT ![r] = q], q.at \in {"idle", "region", "nodes", "assemble"}
      PROVE  \E u : Moves(r, u)
    <2>1. Moves(r, q)
        BY <1>2 DEF Moves
    <2> QED BY Zenon, <2>1
<1>3. CASE Throws(r)
    <2>1. PICK q : q = RunIdle
        OBVIOUS
    <2> QED BY <1>2, <1>3, <2>1 DEF Throws, RunEnds, RunIdle
<1>4. CASE TakeJob(r)
    <2>1. PICK j \in Jobs :
             runs' = [runs EXCEPT ![r] = [RunIdle EXCEPT !.at = "region", !.job = j,
                                             !.file = jobs[j].file, !.k = 1]]
        BY <1>4 DEF TakeJob
    <2>2. PICK q : q = [RunIdle EXCEPT !.at = "region", !.job = j, !.file = jobs[j].file, !.k = 1]
        OBVIOUS
    <2>3. q.at = "region"
        BY <2>2 DEF RunIdle
    <2> QED BY <1>2, <2>1, <2>2, <2>3
<1>5. CASE FindRegion(r) /\ ~Throws(r)
    <2>1. PICK id : runs' = [runs EXCEPT ![r].at = "nodes", ![r].region = id]
        BY <1>5 DEF FindRegion
    <2>2. PICK q : q = [runs[r] EXCEPT !.at = "nodes", !.region = id]
        OBVIOUS
    <2>3. q.at = "nodes"
        BY <1>1, <2>2 DEF RunState
    <2>4. runs' = [runs EXCEPT ![r] = q]
        BY <2>1, <2>2
    <2> QED BY <1>2, <2>3, <2>4
<1>6. CASE FindNode(r) /\ ~Throws(r)
    <2>1. PICK n : runs' = [runs EXCEPT ![r].at = "assemble", ![r].node = n, ![r].target = nodes[n]]
        BY <1>6 DEF FindNode
    <2>2. PICK q : q = [runs[r] EXCEPT !.at = "assemble", !.node = n, !.target = nodes[n]]
        OBVIOUS
    <2>3. q.at = "assemble"
        BY <1>1, <2>2 DEF RunState
    <2>4. runs' = [runs EXCEPT ![r] = q]
        BY <2>1, <2>2
    <2> QED BY <1>2, <2>3, <2>4
<1>7. CASE Assemble(r) /\ ~Throws(r)
    <2>1. PICK copy : runs' = [runs EXCEPT ![r].at = "copy", ![r].copy = copy]
        BY <1>7 DEF Assemble
    <2>2. PICK q : q = [runs[r] EXCEPT !.at = "copy", !.copy = copy]
        OBVIOUS
    <2>3. q.at = "copy" /\ q.node = runs[r].node /\ runs[r].at = "assemble"
        BY <1>1, <1>7, <2>2 DEF RunState, Assemble, RunAt
    <2>4. runs' = [runs EXCEPT ![r] = q]
        BY <2>1, <2>2
    <2>5. Moves(r, q)
        BY <2>3, <2>4 DEF Moves
    <2> QED BY Zenon, <2>5
<1> QED BY <1>3, <1>4, <1>5, <1>6, <1>7

LEMMA CopyingMoves ==
    ASSUME IInv, Typed, NEW r \in Runs, Copy(r) \/ \E c \in Chunks : CopyFails(r, c)
    PROVE  \E q : Moves(r, q)
<1>1. runs[r] \in RunState
    BY DEF Typed, RunsTyped, RunOK
<1>2. runs[r].at \in {"copy", "stray"}
    BY RunMemory DEF Copy, CopyEntry, CopyChunk, CopyNode, CopyFails, Copying
<1>3. ASSUME NEW q, runs' = [runs EXCEPT ![r] = q], q.at = "idle" \/ q.node = runs[r].node,
             q.at \in {"idle", "copy", "stray"}
      PROVE  \E u : Moves(r, u)
    <2>1. Moves(r, q)
        BY <1>2, <1>3 DEF Moves
    <2> QED BY Zenon, <2>1
<1>4. CASE runs' = [runs EXCEPT ![r] = RunIdle]
    <2>1. PICK q : q = RunIdle
        OBVIOUS
    <2> QED BY <1>3, <1>4, <2>1 DEF RunIdle
<1>5. ASSUME NEW c \in Chunks, CopyEntry(r, c) \/ CopyChunk(r, c) PROVE \E q : Moves(r, q)
    <2>1. PICK step : runs' = [runs EXCEPT ![r].copy[c] = step]
        BY <1>5 DEF CopyEntry, CopyChunk
    <2>2. PICK q : q = [runs[r] EXCEPT !.copy[c] = step]
        OBVIOUS
    <2>3. q.at = runs[r].at /\ q.node = runs[r].node
        BY <1>1, <2>2 DEF RunState
    <2>4. runs' = [runs EXCEPT ![r] = q]
        BY <2>1, <2>2
    <2> QED BY <1>2, <1>3, <2>3, <2>4
<1>6. ASSUME NEW c \in Chunks, CopyNode(r, c), runs' # [runs EXCEPT ![r] = RunIdle]
      PROVE  \E q : Moves(r, q)
    <2>1. PICK target : runs' = [runs EXCEPT ![r] = [runs[r] EXCEPT !.copy[c] = "done",
                                                                    !.target = target]]
        BY <1>6 DEF CopyNode, CopyDone
    <2>2. PICK q : q = [runs[r] EXCEPT !.copy[c] = "done", !.target = target]
        OBVIOUS
    <2>3. q.at = runs[r].at /\ q.node = runs[r].node
        BY <1>1, <2>2 DEF RunState
    <2> QED BY <1>2, <1>3, <2>1, <2>2, <2>3
<1>7. ASSUME NEW c \in Chunks, CopyFails(r, c), runs' # [runs EXCEPT ![r] = RunIdle]
      PROVE  \E q : Moves(r, q)
    <2>1. runs' = [runs EXCEPT ![r] = [runs[r] EXCEPT !.at = "stray", !.job = Null,
                                                      !.copy[c] = "done"]]
        BY <1>7 DEF CopyFails
    <2>2. PICK q : q = [runs[r] EXCEPT !.at = "stray", !.job = Null, !.copy[c] = "done"]
        OBVIOUS
    <2>3. q.at = "stray" /\ q.node = runs[r].node
        BY <1>1, <2>2 DEF RunState
    <2> QED BY <1>3, <2>1, <2>2, <2>3
<1> QED BY <1>4, <1>5, <1>6, <1>7 DEF Copy

LEMMA RunMovesOn ==
    ASSUME IInv, Typed, NEW r \in Runs,
           Run(r) \/ CallFails(r) \/ \E c \in Chunks : CopyFails(r, c)
    PROVE  \E q : Moves(r, q)
<1>1. runs[r] \in RunState
    BY DEF Typed, RunsTyped, RunOK
<1>2. ASSUME NEW q, runs' = [runs EXCEPT ![r] = q], q.at \in {"idle", "region", "metaLoad"}
      PROVE  \E u : Moves(r, u)
    <2>1. Moves(r, q)
        BY <1>2 DEF Moves
    <2> QED BY Zenon, <2>1
<1>3. CASE RunEnds(r)
    <2>1. PICK q : q = RunIdle
        OBVIOUS
    <2> QED BY <1>2, <1>3, <2>1 DEF RunEnds, RunIdle
<1>4. CASE DeductFile(r)
    <2>1. PICK less : runs' = [runs EXCEPT ![r].at = "metaLoad", ![r].target = less]
        BY <1>4 DEF DeductFile
    <2>2. PICK q : q = [runs[r] EXCEPT !.at = "metaLoad", !.target = less]
        OBVIOUS
    <2>3. q.at = "metaLoad"
        BY <1>1, <2>2 DEF RunState
    <2>4. runs' = [runs EXCEPT ![r] = q]
        BY <2>1, <2>2
    <2> QED BY <1>2, <2>3, <2>4
<1>5. CASE LoadMetadata(r)
    <2>1. PICK row :
             /\ row = [regions      |-> Union(files[runs[r].file].regions, <<TargetRegion(r)>>),
                       replicatedTo |-> files[runs[r].file].replicatedTo \cup {TargetRegion(r)}]
             /\ runs' = [runs EXCEPT ![r].at = "metaSave", ![r].row = row]
        BY <1>5 DEF LoadMetadata
    <2>2. PICK q : q = [runs[r] EXCEPT !.at = "metaSave", !.row = row]
        OBVIOUS
    <2>3. q.at = "metaSave" /\ q.row = row /\ runs[r].at = "metaLoad"
        BY <1>1, <1>5, <2>2 DEF RunState, LoadMetadata, RunAt
    <2>4. runs' = [runs EXCEPT ![r] = q]
        BY <2>1, <2>2
    <2>5. Moves(r, q)
        BY <2>1, <2>3, <2>4 DEF Moves
    <2> QED BY Zenon, <2>5
<1>6. CASE SaveMetadata(r) /\ ~RunEnds(r)
    <2>1. PICK q : /\ q = [RunIdle EXCEPT !.at = "region", !.job = runs[r].job,
                              !.file = jobs[runs[r].job].file, !.k = runs[r].k + 1]
                   /\ runs' = [runs EXCEPT ![r] = q]
        BY <1>6 DEF SaveMetadata
    <2>2. q.at = "region"
        BY <2>1 DEF RunIdle
    <2> QED BY <1>2, <2>1, <2>2
<1> QED BY <1>3, <1>4, <1>5, <1>6, StartMoves, CopyingMoves DEF Run, CallFails, Throws

(* It adds no job. *)
LEMMA RunAddsNoJob ==
    ASSUME IInv, Typed, NEW r \in Runs,
           Run(r) \/ CallFails(r) \/ \E c \in Chunks : CopyFails(r, c)
    PROVE  Grows({})
<1>1. JobsTyped /\ (runs[r].at \notin {"idle", "stray"} => runs[r].job # Null)
    BY DEF Typed, IInv, RunInv
<1>2. CASE Throws(r) /\ runs[r].job # Null
    BY <1>1, <1>2, RunJob, GrowsRetried DEF Throws
<1>3. CASE UNCHANGED jobs
    BY <1>3, GrowsSame
<1>4. CASE TakeJob(r)
    <2>1. PICK j \in Jobs :
             jobs[j].state = "waiting" /\ jobs' = [jobs EXCEPT ![j].state = "active"]
        BY <1>4 DEF TakeJob
    <2> QED BY <1>1, <2>1, GrowsTo
<1>5. CASE FindRegion(r) \/ FindNode(r) \/ Assemble(r)
    BY <1>1, <1>2, <1>3, <1>5 DEF FindRegion, FindNode, Assemble, RunAt
<1>6. CASE SaveMetadata(r)
    <2>1. runs[r].job \in Jobs /\ jobs[runs[r].job].state = "active"
        BY <1>1, <1>6, RunJob DEF SaveMetadata, RunAt
    <2> QED BY <1>1, <1>3, <1>6, <2>1, GrowsTo DEF SaveMetadata
<1>7. ASSUME NEW c \in Chunks, CopyFails(r, c) PROVE Grows({})
    BY <1>1, <1>3, <1>7, RunJob, GrowsRetried DEF CopyFails
<1> QED BY <1>2, <1>3, <1>4, <1>5, <1>6, <1>7
        DEF Run, Copy, CopyEntry, CopyChunk, CopyNode, DeductFile, LoadMetadata, CallFails

LEMMA RunLists ==
    ASSUME IInv, Typed, NEW name, Lists(name), NEW r \in Runs,
           Run(r) \/ CallFails(r) \/ \E c \in Chunks : CopyFails(r, c)
    PROVE  Lists(name)'
<1>1. PICK q : Moves(r, q)
    BY RunMovesOn
<1>2. UNCHANGED policy /\ (UNCHANGED files \/ SaveMetadata(r))
    BY DEF Run, TakeJob, FindRegion, FindNode, Assemble, Copy, CopyEntry, CopyChunk, CopyNode,
           DeductFile, LoadMetadata, SaveMetadata, CallFails, CopyFails
<1>3. RunAdds(name, q)
    <2> SUFFICES ASSUME q.at = "metaSave" PROVE Adds(name, q.row)
        BY DEF RunAdds
    <2>1. PICK u : u = runs[r]
        OBVIOUS
    <2>2. /\ u.at = "metaLoad"
          /\ q.row = [regions      |-> Union(files[u.file].regions, <<TargetRegion(r)>>),
                      replicatedTo |-> files[u.file].replicatedTo \cup {TargetRegion(r)}]
        BY <1>1, <2>1 DEF Moves
    <2>3. u.job # Null /\ RunOK(u) /\ u.file \in Files
        BY <2>1, <2>2 DEF Typed, RunsTyped, RunOK
    <2>4. /\ jobs[u.job].targets \in Seq(Names) /\ u.k \in DOMAIN jobs[u.job].targets
          /\ Only(name, jobs[u.job].targets)
        BY <2>3, JobIsTyped DEF RunOK, RunState, Typed, Job, Lists
    <2>5. TargetRegion(r) = name /\ name \in Names
        BY <2>1, <2>4 DEF TargetRegion, Only
    <2>6. files[u.file].regions \in Seq(Names) /\ Adds(name, files[u.file])
        BY <2>3 DEF Typed, RowsTyped, Row, Lists
    <2>7. <<name>> \in Seq(Names) /\ Only(name, <<name>>)
        BY <2>5 DEF Only
    <2>8. PICK list : list = Union(files[u.file].regions, <<name>>) /\ After(name, list)
        BY <2>6, <2>7, UnionAdds DEF Adds
    <2>9. q.row.regions = list /\ q.row.replicatedTo = files[u.file].replicatedTo \cup {name}
        BY <2>2, <2>5, <2>8
    <2> QED BY <2>6, <2>8, <2>9 DEF Adds
<1>4. \A s \in Runs : RunAdds(name, runs'[s])
    BY <1>1, <1>3, RunListed DEF Moves
<1>5. \A f \in Files : Adds(name, files'[f])
    <2>1. CASE SaveMetadata(r)
        <3>1. runs[r].at = "metaSave" /\ files' = [files EXCEPT ![runs[r].file] = runs[r].row]
            BY <2>1 DEF SaveMetadata, RunAt
        <3> QED BY <3>1 DEF Lists, RunAdds, Typed, RowsTyped
    <2> QED BY <1>2, <2>1 DEF Lists
<1>6. \A j \in Jobs : jobs'[j] # NoJob => Only(name, jobs'[j].targets)
    BY RunAddsNoJob, OldJobsListed
<1> QED BY <1>2, <1>4, <1>5, <1>6 DEF Lists

LEMMA ListsStep ==
    ASSUME ReplicationAssumption, StorageAssumption, IInv, Typed, NEW name,
           Targets \subseteq {<<name>>}, Lists(name), [Next]_vars
    PROVE  Lists(name)'
<1>1. ASSUME UNCHANGED <<files, runs, policy, jobs>> PROVE Lists(name)'
    BY <1>1 DEF Lists
<1>2. CASE Administration \/ UNCHANGED vars
    BY <1>1, <1>2 DEF Administration, vars
<1>3. ASSUME NEW f \in Files, UploadFinishes(f) PROVE Lists(name)'
    <2>1. PICK s \in Seq(Names) : s = files[f].regions /\ After(name, s)
        BY DEF Typed, RowsTyped, Row, Lists, Adds
    <2>2. CASE Len(s) > 1
        <3>1. PICK t : t = Tail(s) /\ Only(name, t)
            BY <2>1, <2>2, TailOnly
        <3>2. NewJob(f, t, 1)
            BY <1>3, <2>1, <2>2, <3>1 DEF UploadFinishes
        <3>3. \A j \in Jobs : jobs'[j] # NoJob => Only(name, jobs'[j].targets)
            BY <3>1, <3>2, NewJobListed DEF Typed
        <3> QED BY <1>3, <3>3 DEF UploadFinishes, Lists
    <2>3. CASE ~(Len(s) > 1)
        BY <1>1, <1>3, <2>1, <2>3 DEF UploadFinishes
    <2> QED BY <2>2, <2>3
<1>4. CASE Crash
    <2>1. Grows({})
        BY <1>4, GrowsStalled DEF Crash, Typed
    <2>2. \A r \in Runs : RunAdds(name, runs'[r])
        BY <1>4, IdleListed DEF Crash
    <2>3. \A c \in Clients : PolicyAdds(name, policy'[c])
        BY <1>4, IdleListed DEF Crash
    <2> QED BY <1>4, <2>1, <2>2, <2>3, OldJobsListed DEF Crash, Lists
<1> QED BY <1>2, <1>3, <1>4, PolicyLists, RunLists DEF Next

LEMMA PlacesStep ==
    ASSUME ReplicationAssumption, StorageAssumption, IInv, Typed, NEW name,
           Lists(name), Places(name), [Next]_vars
    PROVE  Places(name)'
<1>1. \A n \in NodeIds : InRegion(n, name) => InRegion(n, name)'
    BY NodesStay
<1>2. \A r \in Runs : runs[r].at \in {"assemble", "copy", "stray"} => runs[r].node \in NodeIds
    BY RunMemory
<1>3. ASSUME NEW r \in Runs, runs'[r] = runs[r] PROVE CopiesTo(name, runs[r])'
    BY <1>1, <1>2, <1>3 DEF Places, CopiesTo
<1>4. ASSUME UNCHANGED <<located, placed>>, \A r \in Runs : CopiesTo(name, runs[r])'
      PROVE  Places(name)'
    BY <1>1, <1>4 DEF Places, Typed, RowsTyped
<1>5. CASE Crash
    <2>1. \A r \in Runs : CopiesTo(name, runs[r])'
        BY <1>5 DEF Crash, RunIdle, CopiesTo
    <2> QED BY <1>4, <1>5, <2>1 DEF Crash
<1>6. ASSUME NEW r \in Runs, Run(r) \/ CallFails(r) \/ \E c \in Chunks : CopyFails(r, c)
      PROVE  Places(name)'
    <2>1. PICK q : Moves(r, q)
        BY <1>6, RunMovesOn
    <2>2. runs'[r] = q /\ \A s \in Runs \ {r} : runs'[s] = runs[s]
        BY <2>1 DEF Moves, Typed, RunsTyped
    <2>3. runs[r].at = "assemble" => InRegion(runs[r].node, name)
        <3>1. PICK u : u = runs[r]
            OBVIOUS
        <3> SUFFICES ASSUME u.at = "assemble" PROVE InRegion(u.node, name)
            BY <3>1
        <3>2. InRegion(u.node, Target(u)) /\ RunOK(u) /\ u.job # Null
            BY <3>1 DEF IInv, RunInv, Typed, RunsTyped
        <3>3. /\ jobs[u.job].targets \in Seq(Names) /\ u.k \in DOMAIN jobs[u.job].targets
              /\ Only(name, jobs[u.job].targets)
            BY <3>2, JobIsTyped DEF RunOK, RunState, Typed, Job, Lists
        <3> QED BY <3>2, <3>3 DEF Target, Only
    <2>4. q.at \in {"copy", "stray"} => q.node \in NodeIds /\ InRegion(q.node, name)
        BY <1>2, <2>1, <2>3 DEF Moves, Places, CopiesTo
    <2>5. \A s \in Runs : CopiesTo(name, runs[s])'
        BY <1>1, <1>3, <2>2, <2>4 DEF CopiesTo
    <2>6. CASE UNCHANGED <<located, placed>>
        BY <1>4, <2>5, <2>6
    <2>7. ASSUME NEW c \in Chunks, CopyChunk(r, c) PROVE Places(name)'
        <3>1. runs[r].node \in NodeIds /\ InRegion(runs[r].node, name)
            BY <2>7, RunMemory DEF CopyChunk, Places, CopiesTo
        <3>2. /\ located' = [located EXCEPT ![c] = runs[r].node]
              /\ placed' = placed \cup {<<c, runs[r].node>>}
            BY <2>7 DEF CopyChunk
        <3>3. located \in [Chunks -> NodeIds \cup {Null}] /\ Null \notin NodeIds
            BY DEF Typed, RowsTyped, StorageAssumption
        <3>4. ASSUME NEW d \in Chunks, located'[d] # Null PROVE InRegion(located[d], name)'
            <4>1. PICK n \in NodeIds : n = located'[d] /\ InRegion(n, name)
                BY <3>1, <3>2, <3>3, <3>4 DEF Places
            <4>2. InRegion(n, name)'
                BY <1>1, <4>1
            <4> QED BY <4>1, <4>2 DEF InRegion
        <3>5. \A d \in Chunks, n \in NodeIds : <<d, n>> \in placed' => located'[d] # Null
            BY <3>1, <3>2, <3>3 DEF Places
        <3> QED BY <2>5, <3>4, <3>5 DEF Places, InRegion
    <2> QED BY <1>6, <2>6, <2>7 DEF Run, TakeJob, FindRegion, FindNode, Assemble, Copy, CopyEntry,
                CopyNode, DeductFile, LoadMetadata, SaveMetadata, CallFails, CopyFails
<1>7. CASE UNCHANGED <<runs, located, placed>>
    BY <1>3, <1>4, <1>7
<1> QED BY <1>5, <1>6, <1>7
        DEF Next, Administration, UploadFinishes, PolicyLoad, Policy, PolicyCheck, PolicyReload,
            PolicySave, PolicyQueue, PolicyAnswer, RequestFails, vars

(* When all policies are for one and the same region, that region still    *)
(* has a copy of every chunk of the files that list it in replicatedTo,    *)
(* whatever jobs, requests, failures and stops there are                   *)
(* (processReplicationJob, saveChunkToNode, updateReplicationMetadata).    *)
THEOREM OneRegionStays ==
    ASSUME ReplicationAssumption, StorageAssumption, NEW name, Targets \subseteq {<<name>>}
    PROVE  Spec => []ReplicatedStillThere
<1>1. Init => Lists(name) /\ Places(name)
    <2> SUFFICES ASSUME Init PROVE Lists(name) /\ Places(name)
        OBVIOUS
    <2>1. ASSUME NEW f \in Files PROVE Adds(name, files[f])
        <3>1. PICK row : row = [regions |-> <<InitRegion>>, replicatedTo |-> {}] /\ files[f] = row
            BY DEF Init
        <3>2. row.regions = <<InitRegion>> /\ row.replicatedTo = {}
            BY <3>1
        <3>3. After(name, <<InitRegion>>)
            BY DEF After
        <3> QED BY <3>1, <3>2, <3>3 DEF Adds
    <2>2. Lists(name)
        BY <2>1, IdleListed DEF Init, Lists
    <2> QED BY <2>2 DEF Init, Places, CopiesTo, RunIdle
<1>2. IInv /\ Typed /\ Lists(name) /\ Places(name) /\ [Next]_vars
         => Lists(name)' /\ Places(name)'
    BY ListsStep, PlacesStep
<1>3. IInv /\ Typed /\ Lists(name) /\ Places(name) => ReplicatedStillThere
    <2> SUFFICES ASSUME IInv, Typed, Lists(name), Places(name), NEW f \in Files,
                        NEW region \in files[f].replicatedTo, NEW c \in ChunksOf[f]
                 PROVE  located[c] # Null /\ InRegion(located[c], region)
        BY DEF ReplicatedStillThere
    <2>1. region = name /\ c \in Chunks
        BY DEF Lists, Adds, ReplicationAssumption
    <2>2. PICK n \in NodeIds : <<c, n>> \in placed
        BY DEF IInv, TablesInv, ReplicatedHasCopies
    <2> QED BY <2>1, <2>2 DEF Places
<1> QED BY <1>1, <1>2, <1>3, InductiveInvariant, TypedInvariant, PTL DEF Spec

=============================================================================
