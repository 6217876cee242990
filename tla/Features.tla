------------------------------ MODULE Features ------------------------------
(***************************************************************************)
(* CompressionService and DeduplicationService with their processors: the  *)
(* jobs that UploadProcessor queues for a file that has become available.  *)
(* An action is the code between two awaits, with the call it resumes from *)
(* or ends in.  What requests do to the file meanwhile is at the bottom;   *)
(* Files models it in detail.                                              *)
(*                                                                         *)
(* Two members that the processors use do not exist in FilesService,       *)
(* HashUtil and saveFile: reaching one of them throws.                     *)
(***************************************************************************)
EXTENDS JobQueue, FiniteSets

CONSTANTS
    Files,       \* ids of available files
    Indices,     \* indices of the chunks of each
    Jobs,        \* ids of jobs of the two queues
    Runs,        \* executions of the two processors in progress
    MaxFaults,   \* bound on the crashes and failed calls
    Null

Queues == {"compression", "deduplication"}

ASSUME FeaturesAssumption ==
    /\ IsFiniteSet(Indices)
    /\ Null \notin Files \cup Jobs \cup Files \X Indices
    /\ MaxFaults \in Nat

VARIABLES
    files,     \* the File rows: whether there, with which features and chunks
    removed,   \* files that were deleted (history)
    jobs,      \* both queues
    starts,    \* how often each job was started (history)
    runs,      \* the local state of a processor, per execution
    faults     \* crashes and failed calls so far

vars == <<files, removed, jobs, starts, runs, faults>>

Row == [present : BOOLEAN, features : SUBSET Queues, chunks : SUBSET Indices]
Job == [state : JobStates, queue : Queues, file : Files, attempts : Attempts, stalls : Stalls]

Idle == [at |-> "idle", job |-> Null, known |-> {}]
RunState == [at : {"idle", "load", "assemble", "compress"}, job : Jobs \cup {Null},
             known : SUBSET Indices]

Init ==
    /\ files \in [Files -> [present : {TRUE}, features : SUBSET Queues, chunks : {Indices}]]
    /\ removed = {}
    /\ jobs = [j \in Jobs |-> NoJob]
    /\ starts = [j \in Jobs |-> 0]
    /\ runs = [r \in Runs |-> Idle]
    /\ faults = 0

-----------------------------------------------------------------------------

At(r, step) == runs[r].at = step

Throws(r) ==
    /\ jobs' = [jobs EXCEPT ![runs[r].job] = Retried(@)]
    /\ runs' = [runs EXCEPT ![r] = Idle]

Completes(r) ==
    /\ jobs' = [jobs EXCEPT ![runs[r].job].state = "completed"]
    /\ runs' = [runs EXCEPT ![r] = Idle]

(* UploadProcessor has read the features before it adds a job: they may    *)
(* have changed, and the file be gone.                                     *)
AddJob(f, q) ==
    /\ \E j \in Jobs :
          /\ jobs[j] = NoJob
          /\ jobs' = [jobs EXCEPT ![j] = [state |-> "waiting", queue |-> q, file |-> f,
                                          attempts |-> 3, stalls |-> 1]]
    /\ UNCHANGED <<files, removed, starts, runs, faults>>

queueCompressionJob(f)   == AddJob(f, "compression")
queueDeduplicationJob(f) == AddJob(f, "deduplication")

(* A mistake in the place of TakeJob: the job stays in the queue. *)
TakeJobKept(r) ==
    /\ At(r, "idle")
    /\ \E j \in Jobs :
          /\ jobs[j].state = "waiting"
          /\ starts' = [starts EXCEPT ![j] = @ + 1]
          /\ runs' = [runs EXCEPT ![r] = [Idle EXCEPT !.at = "load", !.job = j]]
    /\ UNCHANGED <<files, removed, jobs, faults>>

TakeJob(r) ==
    /\ At(r, "idle")
    /\ \E j \in Jobs :
          /\ jobs[j].state = "waiting"
          /\ jobs' = [jobs EXCEPT ![j].state = "active"]
          /\ starts' = [starts EXCEPT ![j] = @ + 1]
          /\ runs' = [runs EXCEPT ![r] = [Idle EXCEPT !.at = "load", !.job = j]]
    /\ UNCHANGED <<files, removed, faults>>

-----------------------------------------------------------------------------
(* Deduplication: no duplicate is ever found.  A file's hash is told apart *)
(* by the file, a chunk's by the chunk.                                    *)

findDuplicateByHash(hash) == Null

IsDuplicate(id, hash) == findDuplicateByHash(hash) \notin {Null, id}

checkFileDeduplication(f) == IsDuplicate(f, f)

performChunkDeduplication(f) == {i \in files[f].chunks : IsDuplicate(<<f, i>>, <<f, i>>)}

(* It ends in saveFile, which throws. *)
updateFileForDeduplication(r) == Throws(r)

Deduplicate(r, f) ==
    IF checkFileDeduplication(f) \/ performChunkDeduplication(f) # {}
    THEN updateFileForDeduplication(r) ELSE Completes(r)

Compress(r, f) ==
    /\ runs' = [runs EXCEPT ![r].at = "assemble", ![r].known = files[f].chunks]
    /\ UNCHANGED jobs

(* A mistake in the place of LoadFile: a feature switched off is an error. *)
LoadFileStrict(r) ==
    LET q == jobs[runs[r].job].queue
        f == jobs[runs[r].job].file
    IN  /\ At(r, "load")
        /\ IF ~files[f].present \/ q \notin files[f].features THEN Throws(r)
           ELSE IF q = "compression" THEN Compress(r, f) ELSE Deduplicate(r, f)
        /\ UNCHANGED <<files, removed, starts, faults>>

(* findOne, which throws for a file that is gone, and the check whether    *)
(* the feature is still wanted.                                            *)
LoadFile(r) ==
    LET q == jobs[runs[r].job].queue
        f == jobs[runs[r].job].file
    IN  /\ At(r, "load")
        /\ CASE ~files[f].present -> Throws(r)
             [] files[f].present /\ q \notin files[f].features -> Completes(r)
             [] OTHER -> IF q = "compression" THEN Compress(r, f) ELSE Deduplicate(r, f)
        /\ UNCHANGED <<files, removed, starts, faults>>

(* assembleFileFromChunks reads the chunks again. *)
Assemble(r) ==
    LET f == jobs[runs[r].job].file
    IN  /\ At(r, "assemble")
        /\ IF Cardinality(files[f].chunks) # Cardinality(runs[r].known) THEN Throws(r)
           ELSE /\ runs' = [runs EXCEPT ![r].at = "compress"]
                /\ UNCHANGED jobs
        /\ UNCHANGED <<files, removed, starts, faults>>

(* compressData returns after half a second, and the first chunk fails for *)
(* want of HashUtil; a file without chunks fails at chunks[0].             *)
CompressChunks(r) ==
    /\ At(r, "compress")
    /\ Throws(r)
    /\ UNCHANGED <<files, removed, starts, faults>>

-----------------------------------------------------------------------------
(* The file meanwhile.  A PATCH in flight saves the row it loaded, and     *)
(* inserts it again when it is gone.                                       *)

UpdateFile(f) ==
    /\ \E features \in SUBSET Queues :
          files' = [files EXCEPT ![f].present = TRUE, ![f].features = features]
    /\ UNCHANGED <<removed, jobs, starts, runs, faults>>

RemoveChunks(f) ==
    /\ files[f].present
    /\ files' = [files EXCEPT ![f].chunks = {}]
    /\ UNCHANGED <<removed, jobs, starts, runs, faults>>

RemoveFile(f) ==
    /\ files[f].present
    /\ files[f].chunks = {}
    /\ files' = [files EXCEPT ![f].present = FALSE]
    /\ removed' = removed \cup {f}
    /\ UNCHANGED <<jobs, starts, runs, faults>>

-----------------------------------------------------------------------------

CallFails(r) ==
    /\ faults < MaxFaults
    /\ ~At(r, "idle")
    /\ Throws(r)
    /\ faults' = faults + 1
    /\ UNCHANGED <<files, removed, starts>>

Crash ==
    /\ faults < MaxFaults
    /\ runs' = [r \in Runs |-> Idle]
    /\ jobs' = StallActive(jobs)
    /\ faults' = faults + 1
    /\ UNCHANGED <<files, removed, starts>>

Run(r) == TakeJob(r) \/ LoadFile(r) \/ Assemble(r) \/ CompressChunks(r)

Next ==
    \/ \E f \in Files : \/ queueCompressionJob(f) \/ queueDeduplicationJob(f)
                        \/ UpdateFile(f) \/ RemoveChunks(f) \/ RemoveFile(f)
    \/ \E r \in Runs : Run(r) \/ CallFails(r)
    \/ Crash

Spec == Init /\ [][Next]_vars

(* A worker takes the jobs that wait, and goes on with what it started. *)
Fairness == \A r \in Runs : WF_vars(Run(r))

FairSpec == Spec /\ Fairness

-----------------------------------------------------------------------------
(* Properties *)

(* Rows, jobs and executions have the shape the actions rely on: an        *)
(* execution has an active job that no other execution has.                *)
TypeOK ==
    /\ files \in [Files -> Row]
    /\ removed \in SUBSET Files
    /\ jobs \in [Jobs -> Job \cup {NoJob}]
    /\ starts \in [Jobs -> Nat]
    /\ runs \in [Runs -> RunState]
    /\ \A r \in Runs :
          IF At(r, "idle") THEN runs[r] = Idle
          ELSE /\ runs[r].job # Null /\ jobs[runs[r].job].state = "active"
               /\ \A q \in Runs \ {r} : runs[q].job # runs[r].job
    /\ faults \in 0..MaxFaults

(* A job is tried as often as it was queued for (`attempts: 3`), once more *)
(* if its worker was gone, and not less often before it is given up while  *)
(* nothing fails.                                                          *)
TriedThreeTimes ==
    \A j \in Jobs :
        /\ starts[j] <= 4
        /\ jobs[j].state = "failed" /\ faults = 0 => starts[j] = 3

(* A deduplication job comes to nothing only if its file was deleted or a  *)
(* call failed: switching the feature off, deleting chunks under it and    *)
(* stale rows do not hurt it (processDeduplicationJob).                    *)
DeduplicationCompletes ==
    \A j \in Jobs :
        jobs[j] # NoJob /\ jobs[j].queue = "deduplication" /\ jobs[j].state = "failed" =>
            faults > 0 \/ jobs[j].file \in removed

(* A queued job comes to an end, whatever becomes of its file, also when   *)
(* the server stops under it.                                              *)
JobSettles ==
    \A j \in Jobs : jobs[j].state = "waiting" ~> jobs[j].state \in {"completed", "failed"}

(* The job that an execution has is running; what the queue calls active,   *)
(* and nobody executes, is not a state of JobLife.                         *)
Life == INSTANCE JobLife WITH
    MaxStarts <- 4,
    state     <- [j \in Jobs |-> IF \E r \in Runs : runs[r].job = j THEN "running"
                                                               ELSE jobs[j].state],
    left      <- [j \in Jobs |-> StartsLeft(jobs[j])]

(* The executions of both processors treat each job as JobLife says        *)
(* (queueCompressionJob, queueDeduplicationJob, both processors, Bull).    *)
JobLifeSpec == Life!Spec

=============================================================================
