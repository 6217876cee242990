--------------------------- MODULE FeaturesProofs ---------------------------
(***************************************************************************)
(* Theorems about Features, for any number of files, chunks, jobs,         *)
(* executions and failures.                                                *)
(***************************************************************************)
EXTENDS Features, TLAPS

(* The tries that a job has used up and those it has left add up.  Before  *)
(* the first failure nothing has stalled; a job given up has no tries left *)
(* or has stalled.                                                         *)
TriesInv ==
    \A j \in Jobs :
        IF jobs[j] = NoJob THEN starts[j] = 0
        ELSE /\ starts[j] = (IF jobs[j].state = "waiting" THEN 4 ELSE 5)
                                - jobs[j].attempts - jobs[j].stalls
             /\ faults = 0 => jobs[j].stalls = 1
             /\ jobs[j].state = "failed" => jobs[j].attempts = 1 \/ jobs[j].stalls = 0

(* A file that is gone was deleted. *)
AbsentInv == \A f \in Files : files[f].present \/ f \in removed

Excused(j) == faults > 0 \/ jobs[j].file \in removed

(* A deduplication job that has thrown or failed has an excuse, and it     *)
(* never gets to the steps of compression.                                 *)
DedupInv ==
    /\ \A j \in Jobs :
          jobs[j] # NoJob /\ jobs[j].queue = "deduplication"
              /\ (jobs[j].attempts < 3 \/ jobs[j].state = "failed") => Excused(j)
    /\ \A r \in Runs :
          runs[r].at \in {"assemble", "compress"} => jobs[runs[r].job].queue = "compression"

IInv == TypeOK /\ TriesInv /\ AbsentInv /\ DedupInv

-----------------------------------------------------------------------------
(* Jobs *)

LEMMA JobKinds ==
    \A x \in Job : /\ x # NoJob
                   /\ x.state \in JobStates /\ x.attempts \in Attempts /\ x.stalls \in Stalls
                   /\ x.queue \in Queues /\ x.file \in Files
<1>1. SUFFICES ASSUME NEW x \in Job PROVE x # NoJob
    BY DEF Job
<1>2. DOMAIN x = {"state", "queue", "file", "attempts", "stalls"}
    BY DEF Job
<1>3. DOMAIN NoJob = {"state"}
    BY DEF NoJob
<1> QED BY <1>2, <1>3

(* A job that throws keeps its file and queue, and either waits with one   *)
(* attempt less or has failed with none left.                              *)
LEMMA RetriedJob ==
    ASSUME NEW x \in Job
    PROVE  /\ Retried(x) \in Job
           /\ Retried(x).queue = x.queue /\ Retried(x).file = x.file
           /\ Retried(x).stalls = x.stalls
           /\ \/ /\ x.attempts > 1 /\ Retried(x).state = "waiting"
                 /\ Retried(x).attempts = x.attempts - 1
              \/ /\ x.attempts = 1 /\ Retried(x).state = "failed"
                 /\ Retried(x).attempts = 1
<1>1. x.attempts \in 1..3 /\ x.stalls \in 0..1 /\ x.queue \in Queues /\ x.file \in Files
    BY DEF Job, Attempts, Stalls
<1>2. x = [state |-> x.state, queue |-> x.queue, file |-> x.file,
           attempts |-> x.attempts, stalls |-> x.stalls]
    BY DEF Job
<1>3. CASE x.attempts > 1
    <2>1. Retried(x) = [state |-> "waiting", queue |-> x.queue, file |-> x.file,
                        attempts |-> x.attempts - 1, stalls |-> x.stalls]
        BY <1>2, <1>3, Zenon DEF Retried
    <2>2. x.attempts - 1 \in 1..3
        BY <1>1, <1>3
    <2> QED BY <1>1, <1>3, <2>1, <2>2 DEF Job, JobStates, Attempts, Stalls
<1>4. CASE x.attempts = 1
    <2>1. Retried(x) = [state |-> "failed", queue |-> x.queue, file |-> x.file,
                        attempts |-> x.attempts, stalls |-> x.stalls]
        BY <1>2, <1>4 DEF Retried
    <2> QED BY <1>1, <1>4, <2>1 DEF Job, JobStates, Attempts, Stalls
<1> QED BY <1>1, <1>3, <1>4

(* A job whose worker is gone keeps its attempts. *)
LEMMA StalledJob ==
    ASSUME NEW x \in Job
    PROVE  /\ Stalled(x) \in Job
           /\ Stalled(x).queue = x.queue /\ Stalled(x).file = x.file
           /\ Stalled(x).attempts = x.attempts
           /\ \/ x.stalls = 1 /\ Stalled(x).state = "waiting" /\ Stalled(x).stalls = 0
              \/ x.stalls = 0 /\ Stalled(x).state = "failed" /\ Stalled(x).stalls = 0
<1>1. x.attempts \in 1..3 /\ x.stalls \in 0..1 /\ x.queue \in Queues /\ x.file \in Files
    BY DEF Job, Attempts, Stalls
<1>2. x = [state |-> x.state, queue |-> x.queue, file |-> x.file,
           attempts |-> x.attempts, stalls |-> x.stalls]
    BY DEF Job
<1>3. CASE x.stalls = 1
    <2>1. Stalled(x) = [state |-> "waiting", queue |-> x.queue, file |-> x.file,
                        attempts |-> x.attempts, stalls |-> x.stalls - 1]
        <3>1. x.stalls > 0
            BY <1>3
        <3> QED BY <1>2, <3>1, Zenon DEF Stalled
    <2>2. x.stalls - 1 = 0
        BY <1>3
    <2> QED BY <1>1, <1>3, <2>1, <2>2 DEF Job, JobStates, Attempts, Stalls
<1>4. CASE x.stalls = 0
    <2>1. Stalled(x) = [state |-> "failed", queue |-> x.queue, file |-> x.file,
                        attempts |-> x.attempts, stalls |-> x.stalls]
        BY <1>2, <1>4 DEF Stalled
    <2> QED BY <1>1, <1>4, <2>1 DEF Job, JobStates, Attempts, Stalls
<1> QED BY <1>1, <1>3, <1>4

(* An execution that is not idle has an active job to itself. *)
LEMMA RunHasJob ==
    ASSUME TypeOK, NEW r \in Runs, ~At(r, "idle")
    PROVE  /\ runs[r].job \in Jobs /\ jobs[runs[r].job] \in Job
           /\ jobs[runs[r].job].state = "active"
           /\ \A q \in Runs \ {r} : runs[q].job # runs[r].job
<1>1. runs[r].job \in Jobs /\ jobs[runs[r].job].state = "active"
    BY DEF TypeOK, RunState
<1>2. jobs[runs[r].job] # NoJob
    BY <1>1 DEF NoJob
<1> QED BY <1>1, <1>2 DEF TypeOK

-----------------------------------------------------------------------------
(* The two ways an execution ends *)

LEMMA ThrowsInv ==
    ASSUME FeaturesAssumption, IInv, NEW r \in Runs, ~At(r, "idle"), Throws(r),
           files' = files, removed' = removed, starts' = starts,
           faults' \in 0..MaxFaults, faults' \in {faults, faults + 1},
           jobs[runs[r].job].queue = "deduplication" =>
               faults' > 0 \/ jobs[runs[r].job].file \in removed
    PROVE  IInv'
<1> DEFINE j == runs[r].job
<1>1. /\ j \in Jobs /\ jobs[j] \in Job /\ jobs[j].state = "active"
      /\ \A q \in Runs \ {r} : runs[q].job # j
    BY RunHasJob DEF IInv
<1> HIDE DEF j
<1>2. /\ jobs' = [jobs EXCEPT ![j] = Retried(jobs[j])]
      /\ runs' = [runs EXCEPT ![r] = Idle]
    BY DEF Throws, j
<1>3. /\ jobs' \in [Jobs -> Job \cup {NoJob}] /\ jobs'[j] = Retried(jobs[j])
      /\ \A k \in Jobs \ {j} : jobs'[k] = jobs[k]
    BY <1>1, <1>2, RetriedJob DEF IInv, TypeOK
<1>4. /\ runs' \in [Runs -> RunState] /\ runs'[r] = Idle
      /\ \A q \in Runs \ {r} : runs'[q] = runs[q]
    BY <1>2 DEF IInv, TypeOK, RunState, Idle
<1>5. TypeOK'
    <2>1. ASSUME NEW q \in Runs, ~At(q, "idle")' 
          PROVE  /\ runs'[q].job # Null /\ jobs'[runs'[q].job].state = "active"
                 /\ \A o \in Runs \ {q} : runs'[o].job # runs'[q].job
        <3>1. q # r /\ runs'[q] = runs[q] /\ ~At(q, "idle")
            BY <1>4, <2>1 DEF At, Idle
        <3>2. /\ runs[q].job \in Jobs /\ jobs[runs[q].job].state = "active" /\ runs[q].job # j
              /\ \A o \in Runs \ {q} : runs[o].job # runs[q].job
            BY <1>1, <3>1, RunHasJob DEF IInv
        <3>3. runs[q].job # Null
            BY <3>1 DEF IInv, TypeOK
        <3> QED BY <1>3, <1>4, <3>1, <3>2, <3>3 DEF Idle
    <2>2. ASSUME NEW q \in Runs, At(q, "idle")' PROVE runs'[q] = Idle
        BY <1>4, <2>2 DEF At, IInv, TypeOK
    <2> QED BY <1>3, <1>4, <2>1, <2>2 DEF IInv, TypeOK
<1>6. TriesInv'
    <2> SUFFICES ASSUME NEW k \in Jobs
                 PROVE IF jobs'[k] = NoJob THEN starts'[k] = 0
                       ELSE /\ starts'[k] = (IF jobs'[k].state = "waiting" THEN 4 ELSE 5)
                                                - jobs'[k].attempts - jobs'[k].stalls
                            /\ faults' = 0 => jobs'[k].stalls = 1
                            /\ jobs'[k].state = "failed" =>
                                  jobs'[k].attempts = 1 \/ jobs'[k].stalls = 0
        BY DEF TriesInv
    <2>0. faults' = 0 => faults = 0
        BY DEF IInv, TypeOK
    <2>1. CASE k # j
        BY <1>3, <2>0, <2>1 DEF IInv, TriesInv
    <2>2. CASE k = j
        <3>1. /\ jobs[j] # NoJob /\ jobs'[j] # NoJob /\ Retried(jobs[j]) \in Job
              /\ jobs[j].attempts \in 1..3 /\ jobs[j].stalls \in 0..1 /\ starts[j] \in Nat
            BY <1>1, <1>3, JobKinds, RetriedJob DEF Attempts, Stalls, IInv, TypeOK
        <3>2. /\ starts[j] = 5 - jobs[j].attempts - jobs[j].stalls
              /\ faults = 0 => jobs[j].stalls = 1
            BY <1>1, <3>1 DEF IInv, TriesInv
        <3> QED BY <1>1, <1>3, <2>0, <2>2, <3>1, <3>2, RetriedJob
    <2> QED BY <2>1, <2>2
<1>7. AbsentInv'
    BY DEF IInv, AbsentInv
<1>8. DedupInv'
    <2>0. faults > 0 => faults' > 0
        BY DEF IInv, TypeOK
    <2>1. ASSUME NEW k \in Jobs, jobs'[k] # NoJob, jobs'[k].queue = "deduplication",
                 jobs'[k].attempts < 3 \/ jobs'[k].state = "failed"
          PROVE  Excused(k)'
        <3>1. CASE k # j
            BY <1>3, <2>0, <2>1, <3>1 DEF IInv, DedupInv, Excused
        <3>2. CASE k = j
            BY <1>1, <1>3, <2>1, <3>2, RetriedJob DEF Excused, j
        <3> QED BY <3>1, <3>2
    <2>2. ASSUME NEW q \in Runs, runs'[q].at \in {"assemble", "compress"}
          PROVE  jobs'[runs'[q].job].queue = "compression"
        <3>1. q # r /\ runs'[q] = runs[q] /\ ~At(q, "idle")
            BY <1>4, <2>2 DEF At, Idle
        <3>2. runs[q].job \in Jobs /\ runs[q].job # j
            BY <1>1, <3>1, RunHasJob DEF IInv
        <3> QED BY <1>3, <2>2, <3>1, <3>2 DEF IInv, DedupInv
    <2> QED BY <2>1, <2>2 DEF DedupInv
<1> QED BY <1>5, <1>6, <1>7, <1>8 DEF IInv

LEMMA CompletesInv ==
    ASSUME FeaturesAssumption, IInv, NEW r \in Runs, ~At(r, "idle"), Completes(r),
           UNCHANGED <<files, removed, starts, faults>>
    PROVE  IInv'
<1> DEFINE j == runs[r].job
<1>1. /\ j \in Jobs /\ jobs[j] \in Job /\ jobs[j].state = "active"
      /\ \A q \in Runs \ {r} : runs[q].job # j
    BY RunHasJob DEF IInv
<1> HIDE DEF j
<1>2. /\ jobs' = [jobs EXCEPT ![j] = [jobs[j] EXCEPT !.state = "completed"]]
      /\ runs' = [runs EXCEPT ![r] = Idle]
    BY DEF Completes, j
<1>3. /\ jobs' \in [Jobs -> Job \cup {NoJob}] /\ jobs'[j] \in Job
      /\ jobs'[j] = [jobs[j] EXCEPT !.state = "completed"]
      /\ \A k \in Jobs \ {j} : jobs'[k] = jobs[k]
    BY <1>1, <1>2 DEF IInv, TypeOK, Job, JobStates
<1>4. /\ jobs[j] # NoJob /\ jobs'[j] # NoJob /\ jobs'[j].state = "completed"
      /\ jobs'[j].attempts = jobs[j].attempts /\ jobs'[j].stalls = jobs[j].stalls
      /\ jobs'[j].queue = jobs[j].queue /\ jobs'[j].file = jobs[j].file
    BY <1>1, <1>3, JobKinds DEF Job
<1>5. /\ runs' \in [Runs -> RunState] /\ runs'[r] = Idle
      /\ \A q \in Runs \ {r} : runs'[q] = runs[q]
    BY <1>2 DEF IInv, TypeOK, RunState, Idle
<1>6. TypeOK'
    <2>1. ASSUME NEW q \in Runs, ~At(q, "idle")'
          PROVE  /\ runs'[q].job # Null /\ jobs'[runs'[q].job].state = "active"
                 /\ \A o \in Runs \ {q} : runs'[o].job # runs'[q].job
        <3>1. q # r /\ runs'[q] = runs[q] /\ ~At(q, "idle")
            BY <1>5, <2>1 DEF At, Idle
        <3>2. /\ runs[q].job \in Jobs /\ jobs[runs[q].job].state = "active" /\ runs[q].job # j
              /\ \A o \in Runs \ {q} : runs[o].job # runs[q].job
            BY <1>1, <3>1, RunHasJob DEF IInv
        <3>3. runs[q].job # Null
            BY <3>1 DEF IInv, TypeOK
        <3> QED BY <1>3, <1>5, <3>1, <3>2, <3>3 DEF Idle
    <2>2. ASSUME NEW q \in Runs, At(q, "idle")' PROVE runs'[q] = Idle
        BY <1>5, <2>2 DEF At, IInv, TypeOK
    <2> QED BY <1>3, <1>5, <2>1, <2>2 DEF IInv, TypeOK
<1>7. TriesInv'
    <2>1. /\ starts[j] = 5 - jobs[j].attempts - jobs[j].stalls
          /\ faults = 0 => jobs[j].stalls = 1
        BY <1>1, <1>4 DEF IInv, TriesInv
    <2>2. /\ starts'[j] = 5 - jobs'[j].attempts - jobs'[j].stalls
          /\ faults' = 0 => jobs'[j].stalls = 1
        BY <1>4, <2>1
    <2>3. ASSUME NEW k \in Jobs, k # j
          PROVE  jobs'[k] = jobs[k] /\ starts'[k] = starts[k] /\ faults' = faults
        BY <1>3, <2>3
    <2>4. jobs'[j].state \notin {"waiting", "failed"}
        BY <1>4
    <2> QED BY <1>4, <2>2, <2>3, <2>4 DEF IInv, TriesInv
<1>8. AbsentInv'
    BY DEF IInv, AbsentInv
<1>9. DedupInv'
    <2>1. ASSUME NEW k \in Jobs, jobs'[k] # NoJob, jobs'[k].queue = "deduplication",
                 jobs'[k].attempts < 3 \/ jobs'[k].state = "failed"
          PROVE  Excused(k)'
        BY ZenonT(30), <1>1, <1>3, <1>4, <2>1 DEF IInv, DedupInv, Excused
    <2>2. ASSUME NEW q \in Runs, runs'[q].at \in {"assemble", "compress"}
          PROVE  jobs'[runs'[q].job].queue = "compression"
        <3>1. q # r /\ runs'[q] = runs[q] /\ ~At(q, "idle")
            BY <1>5, <2>2 DEF At, Idle
        <3>2. runs[q].job \in Jobs /\ runs[q].job # j
            BY <1>1, <3>1, RunHasJob DEF IInv
        <3> QED BY <1>3, <2>2, <3>1, <3>2 DEF IInv, DedupInv
    <2> QED BY <2>1, <2>2 DEF DedupInv
<1> QED BY <1>6, <1>7, <1>8, <1>9 DEF IInv

(* An execution that only moves on, to a step of compression only when its *)
(* job is one.                                                             *)
LEMMA MovesInv ==
    ASSUME IInv, NEW r \in Runs, ~At(r, "idle"), NEW step \in {"assemble", "compress"},
           NEW known \in SUBSET Indices, jobs[runs[r].job].queue = "compression",
           runs' = [runs EXCEPT ![r] = [runs[r] EXCEPT !.at = step, !.known = known]],
           UNCHANGED <<files, removed, jobs, starts, faults>>
    PROVE  IInv'
<1>1. /\ runs' \in [Runs -> RunState]
      /\ runs'[r].at = step /\ \A q \in Runs : runs'[q].job = runs[q].job
      /\ \A q \in Runs \ {r} : runs'[q] = runs[q]
    BY DEF IInv, TypeOK, RunState
<1>2. TypeOK'
    BY <1>1 DEF IInv, TypeOK, At
<1>3. TriesInv' /\ AbsentInv'
    BY DEF IInv, TriesInv, AbsentInv
<1>4. DedupInv'
    BY <1>1 DEF IInv, DedupInv, Excused
<1> QED BY <1>2, <1>3, <1>4 DEF IInv

-----------------------------------------------------------------------------
(* The actions *)

LEMMA AddJobInv ==
    ASSUME FeaturesAssumption, IInv, NEW f \in Files, NEW q \in Queues, AddJob(f, q)
    PROVE  IInv'
<1>1. PICK j \in Jobs :
          /\ jobs[j] = NoJob
          /\ jobs' = [jobs EXCEPT ![j] = [state |-> "waiting", queue |-> q, file |-> f,
                                          attempts |-> 3, stalls |-> 1]]
    BY DEF AddJob
<1>2. UNCHANGED <<files, removed, starts, runs, faults>>
    BY DEF AddJob
<1>3. /\ jobs'[j] \in Job /\ jobs'[j].state = "waiting" /\ jobs'[j].attempts = 3
      /\ jobs'[j].stalls = 1 /\ jobs' \in [Jobs -> Job \cup {NoJob}]
      /\ \A k \in Jobs \ {j} : jobs'[k] = jobs[k]
    BY <1>1 DEF IInv, TypeOK, Job, JobStates, Attempts, Stalls
<1>4. \A r \in Runs : ~At(r, "idle") => runs[r].job \in Jobs /\ runs[r].job # j
    BY <1>1, JobKinds, RunHasJob DEF IInv
<1>5. TypeOK'
    BY <1>2, <1>3, <1>4 DEF IInv, TypeOK, At
<1>6. TriesInv'
    BY <1>1, <1>2, <1>3, JobKinds DEF IInv, TriesInv
<1>7. AbsentInv'
    BY <1>2 DEF IInv, AbsentInv
<1>8. DedupInv'
    BY <1>2, <1>3, <1>4 DEF IInv, DedupInv, Excused, At
<1> QED BY <1>5, <1>6, <1>7, <1>8 DEF IInv

LEMMA TakeJobInv ==
    ASSUME FeaturesAssumption, IInv, NEW r \in Runs, TakeJob(r) PROVE IInv'
<1>1. PICK j \in Jobs :
          /\ jobs[j].state = "waiting"
          /\ jobs' = [jobs EXCEPT ![j] = [jobs[j] EXCEPT !.state = "active"]]
          /\ starts' = [starts EXCEPT ![j] = starts[j] + 1]
          /\ runs' = [runs EXCEPT ![r] = [Idle EXCEPT !.at = "load", !.job = j]]
    BY DEF TakeJob
<1>2. UNCHANGED <<files, removed, faults>> /\ At(r, "idle")
    BY DEF TakeJob
<1>3. jobs[j] \in Job
    <2>1. jobs[j] # NoJob
        BY <1>1 DEF NoJob
    <2> QED BY <2>1 DEF IInv, TypeOK
<1>4. /\ jobs' \in [Jobs -> Job \cup {NoJob}] /\ jobs'[j] \in Job
      /\ jobs'[j] = [jobs[j] EXCEPT !.state = "active"]
      /\ \A k \in Jobs \ {j} : jobs'[k] = jobs[k]
    BY <1>1, <1>3 DEF IInv, TypeOK, Job, JobStates
<1>5. /\ jobs[j] # NoJob /\ jobs'[j] # NoJob /\ jobs'[j].state = "active"
      /\ jobs'[j].attempts = jobs[j].attempts /\ jobs'[j].stalls = jobs[j].stalls
      /\ jobs'[j].queue = jobs[j].queue /\ jobs'[j].file = jobs[j].file
      /\ jobs[j].attempts \in 1..3 /\ jobs[j].stalls \in 0..1
    BY <1>3, <1>4, JobKinds DEF Job, Attempts, Stalls
<1>6. /\ runs' \in [Runs -> RunState]
      /\ runs'[r].at = "load" /\ runs'[r].job = j
      /\ \A q \in Runs \ {r} : runs'[q] = runs[q]
    BY <1>1 DEF IInv, TypeOK, RunState, Idle
<1>7. \A q \in Runs : ~At(q, "idle") =>
          runs[q].job \in Jobs /\ runs[q].job # j /\ jobs[runs[q].job].state = "active"
    BY <1>1, RunHasJob DEF IInv
<1>8. \A q \in Runs \ {r} : runs'[q].job # j
    <2> SUFFICES ASSUME NEW q \in Runs \ {r} PROVE runs[q].job # j
        BY <1>6
    <2>1. CASE At(q, "idle")
        BY <2>1 DEF IInv, TypeOK, Idle, FeaturesAssumption
    <2>2. CASE ~At(q, "idle")
        BY <1>7, <2>2
    <2> QED BY <2>1, <2>2
<1>9. TypeOK'
    <2>1. ASSUME NEW q \in Runs, ~At(q, "idle")'
          PROVE  /\ runs'[q].job # Null /\ jobs'[runs'[q].job].state = "active"
                 /\ \A o \in Runs \ {q} : runs'[o].job # runs'[q].job
        <3>1. CASE q = r
            BY <1>5, <1>6, <1>8, <3>1 DEF FeaturesAssumption
        <3>2. CASE q # r
            <4>1. ~At(q, "idle") /\ runs'[q] = runs[q]
                BY <1>6, <2>1, <3>2 DEF At
            <4>2. /\ runs[q].job # Null
                  /\ \A o \in Runs \ {q} : runs[o].job # runs[q].job
                BY <4>1 DEF IInv, TypeOK
            <4> QED BY <1>4, <1>6, <1>7, <4>1, <4>2
        <3> QED BY <3>1, <3>2
    <2>2. ASSUME NEW q \in Runs, At(q, "idle")' PROVE runs'[q] = Idle
        BY <1>6, <2>2 DEF At, IInv, TypeOK
    <2>3. starts' \in [Jobs -> Nat]
        BY <1>1 DEF IInv, TypeOK
    <2> QED BY <1>2, <1>4, <1>6, <2>1, <2>2, <2>3 DEF IInv, TypeOK
<1>10. TriesInv'
    <2>1. starts'[j] = starts[j] + 1 /\ \A k \in Jobs \ {j} : starts'[k] = starts[k]
        BY <1>1 DEF IInv, TypeOK
    <2> QED BY <1>1, <1>2, <1>4, <1>5, <2>1 DEF IInv, TriesInv
<1>11. AbsentInv'
    BY <1>2 DEF IInv, AbsentInv
<1>12. DedupInv'
    <2>1. ASSUME NEW k \in Jobs, jobs'[k] # NoJob, jobs'[k].queue = "deduplication",
                 jobs'[k].attempts < 3 \/ jobs'[k].state = "failed"
          PROVE  Excused(k)'
        BY <1>2, <1>4, <1>5, <2>1 DEF IInv, DedupInv, Excused
    <2>2. ASSUME NEW q \in Runs, runs'[q].at \in {"assemble", "compress"}
          PROVE  jobs'[runs'[q].job].queue = "compression"
        <3>1. q # r /\ runs'[q] = runs[q] /\ ~At(q, "idle")
            BY <1>6, <2>2 DEF At
        <3> QED BY <1>4, <1>7, <2>2, <3>1 DEF IInv, DedupInv
    <2> QED BY <2>1, <2>2 DEF DedupInv
<1> QED BY <1>9, <1>10, <1>11, <1>12 DEF IInv

LEMMA LoadFileInv ==
    ASSUME FeaturesAssumption, IInv, NEW r \in Runs, LoadFile(r) PROVE IInv'
<1> DEFINE q == jobs[runs[r].job].queue
           f == jobs[runs[r].job].file
<1>1. At(r, "load") /\ UNCHANGED <<files, removed, starts, faults>>
    BY DEF LoadFile
<1>2. ~At(r, "idle")
    BY <1>1 DEF At
<1>3. /\ runs[r].job \in Jobs /\ f \in Files /\ q \in Queues
    BY <1>2, RunHasJob, JobKinds DEF IInv
<1>4. faults \in 0..MaxFaults
    BY DEF IInv, TypeOK
<1>5. CASE ~files[f].present
    <2>1. Throws(r)
        BY <1>5 DEF LoadFile
    <2>2. f \in removed
        BY <1>3, <1>5 DEF IInv, AbsentInv
    <2> QED BY <1>1, <1>2, <1>4, <2>1, <2>2, ThrowsInv
<1>6. CASE files[f].present /\ q \notin files[f].features
    <2>1. Completes(r)
        BY <1>6 DEF LoadFile
    <2> QED BY <1>1, <1>2, <2>1, CompletesInv
<1>7. CASE files[f].present /\ q \in files[f].features /\ q = "compression"
    <2>1. Compress(r, f)
        BY <1>7 DEF LoadFile
    <2>2. /\ runs' = [runs EXCEPT ![r] = [runs[r] EXCEPT !.at = "assemble",
                                                         !.known = files[f].chunks]]
          /\ jobs' = jobs
        BY <2>1, <1>3 DEF Compress, IInv, TypeOK, RunState
    <2>3. files[f].chunks \in SUBSET Indices
        BY <1>3 DEF IInv, TypeOK, Row
    <2> QED BY <1>1, <1>2, <1>7, <2>2, <2>3, MovesInv
<1>8. CASE files[f].present /\ q \in files[f].features /\ q # "compression"
    <2>1. Deduplicate(r, f)
        BY <1>8 DEF LoadFile
    <2>2. Completes(r)
        BY <2>1 DEF Deduplicate, checkFileDeduplication, performChunkDeduplication,
                    IsDuplicate, findDuplicateByHash
    <2> QED BY <1>1, <1>2, <2>2, CompletesInv
<1> QED BY <1>5, <1>6, <1>7, <1>8

LEMMA AssembleInv ==
    ASSUME FeaturesAssumption, IInv, NEW r \in Runs, Assemble(r) PROVE IInv'
<1>1. /\ ~At(r, "idle") /\ UNCHANGED <<files, removed, starts, faults>>
      /\ jobs[runs[r].job].queue = "compression"
      /\ faults \in 0..MaxFaults
    BY DEF Assemble, At, IInv, TypeOK, DedupInv
<1>2. CASE Throws(r)
    BY <1>1, <1>2, ThrowsInv
<1>3. CASE runs' = [runs EXCEPT ![r].at = "compress"] /\ jobs' = jobs
    <2>1. /\ runs' = [runs EXCEPT ![r] = [runs[r] EXCEPT !.at = "compress",
                                                         !.known = runs[r].known]]
          /\ runs[r].known \in SUBSET Indices
        BY <1>3 DEF IInv, TypeOK, RunState
    <2> QED BY <1>1, <1>3, <2>1, MovesInv
<1> QED BY <1>2, <1>3 DEF Assemble

LEMMA CompressChunksInv ==
    ASSUME FeaturesAssumption, IInv, NEW r \in Runs, CompressChunks(r) PROVE IInv'
<1>1. /\ ~At(r, "idle") /\ UNCHANGED <<files, removed, starts, faults>> /\ Throws(r)
      /\ jobs[runs[r].job].queue = "compression"
      /\ faults \in 0..MaxFaults
    BY DEF CompressChunks, At, IInv, TypeOK, DedupInv
<1> QED BY <1>1, ThrowsInv

LEMMA CallFailsInv ==
    ASSUME FeaturesAssumption, IInv, NEW r \in Runs, CallFails(r) PROVE IInv'
<1>1. /\ ~At(r, "idle") /\ UNCHANGED <<files, removed, starts>> /\ Throws(r)
      /\ faults' = faults + 1 /\ faults < MaxFaults /\ faults \in 0..MaxFaults
    BY DEF CallFails, IInv, TypeOK
<1>2. faults' \in 0..MaxFaults /\ faults' > 0
    BY <1>1 DEF FeaturesAssumption
<1> QED BY <1>1, <1>2, ThrowsInv

(* The row of a file changes: it stays there or is listed as removed.      *)
LEMMA FileChangesInv ==
    ASSUME IInv, NEW f \in Files, NEW row \in Row, files' = [files EXCEPT ![f] = row],
           removed' \in SUBSET Files, removed \subseteq removed',
           row.present \/ f \in removed' \/ ~files[f].present,
           UNCHANGED <<jobs, starts, runs, faults>>
    PROVE  IInv'
<1>1. TypeOK'
    BY DEF IInv, TypeOK, At
<1>2. TriesInv' /\ DedupInv'
    BY DEF IInv, TriesInv, DedupInv, Excused
<1>3. AbsentInv'
    BY DEF IInv, AbsentInv, TypeOK
<1> QED BY <1>1, <1>2, <1>3 DEF IInv

LEMMA FileInv ==
    ASSUME IInv, NEW f \in Files, UpdateFile(f) \/ RemoveChunks(f) \/ RemoveFile(f)
    PROVE  IInv'
<1>1. CASE UpdateFile(f)
    <2>1. PICK features \in SUBSET Queues :
              files' = [files EXCEPT ![f] = [files[f] EXCEPT !.present = TRUE,
                                                             !.features = features]]
        BY <1>1 DEF UpdateFile, IInv, TypeOK, Row
    <2>2. [files[f] EXCEPT !.present = TRUE, !.features = features] \in Row
        BY DEF IInv, TypeOK, Row
    <2>3. [files[f] EXCEPT !.present = TRUE, !.features = features].present
        BY DEF IInv, TypeOK, Row
    <2> QED BY <1>1, <2>1, <2>2, <2>3, FileChangesInv DEF UpdateFile, IInv, TypeOK
<1>2. CASE RemoveChunks(f)
    <2>1. files' = [files EXCEPT ![f] = [files[f] EXCEPT !.chunks = {}]]
        BY <1>2 DEF RemoveChunks, IInv, TypeOK
    <2>2. /\ [files[f] EXCEPT !.chunks = {}] \in Row
          /\ [files[f] EXCEPT !.chunks = {}].present = files[f].present
        BY DEF IInv, TypeOK, Row
    <2> QED BY <1>2, <2>1, <2>2, FileChangesInv DEF RemoveChunks, IInv, TypeOK
<1>3. CASE RemoveFile(f)
    <2>1. files' = [files EXCEPT ![f] = [files[f] EXCEPT !.present = FALSE]]
        BY <1>3 DEF RemoveFile, IInv, TypeOK
    <2>2. [files[f] EXCEPT !.present = FALSE] \in Row
        BY DEF IInv, TypeOK, Row
    <2> QED BY ZenonT(30), <1>3, <2>1, <2>2, FileChangesInv DEF RemoveFile, IInv, TypeOK
<1> QED BY <1>1, <1>2, <1>3

LEMMA CrashInv ==
    ASSUME FeaturesAssumption, IInv, Crash PROVE IInv'
<1>1. /\ runs' = [r \in Runs |-> Idle] /\ UNCHANGED <<files, removed, starts>>
      /\ faults' = faults + 1 /\ faults' \in 0..MaxFaults /\ faults' > 0
    BY DEF Crash, IInv, TypeOK, FeaturesAssumption
<1>2. jobs' = [j \in Jobs |-> IF jobs[j].state = "active" THEN Stalled(jobs[j]) ELSE jobs[j]]
    <2>1. DOMAIN jobs = Jobs
        BY DEF IInv, TypeOK
    <2> QED BY <2>1 DEF Crash, StallActive
<1>3. \A j \in Jobs : jobs[j].state = "active" => jobs[j] \in Job
    BY DEF IInv, TypeOK, NoJob
<1>4. TypeOK'
    BY <1>1, <1>2, <1>3, StalledJob DEF IInv, TypeOK, At, Idle, RunState
<1>5. TriesInv'
    <2> SUFFICES ASSUME NEW j \in Jobs
                 PROVE IF jobs'[j] = NoJob THEN starts[j] = 0
                       ELSE /\ starts[j] = (IF jobs'[j].state = "waiting" THEN 4 ELSE 5)
                                               - jobs'[j].attempts - jobs'[j].stalls
                            /\ jobs'[j].state = "failed" =>
                                  jobs'[j].attempts = 1 \/ jobs'[j].stalls = 0
        BY <1>1 DEF TriesInv
    <2>1. CASE jobs[j].state # "active"
        BY <1>2, <2>1 DEF IInv, TriesInv
    <2>2. CASE jobs[j].state = "active"
        <3>1. /\ jobs[j] \in Job /\ jobs'[j] = Stalled(jobs[j]) /\ Stalled(jobs[j]) # NoJob
              /\ jobs[j] # NoJob /\ jobs[j].attempts \in 1..3
            BY <1>2, <1>3, <2>2, StalledJob, JobKinds DEF Attempts
        <3>2. starts[j] = 5 - jobs[j].attempts - jobs[j].stalls
            BY <2>2, <3>1 DEF IInv, TriesInv
        <3> QED BY <3>1, <3>2, StalledJob
    <2> QED BY <2>1, <2>2
<1>6. AbsentInv'
    BY <1>1 DEF IInv, AbsentInv
<1>7. DedupInv'
    BY <1>1 DEF DedupInv, Excused, Idle
<1> QED BY <1>4, <1>5, <1>6, <1>7 DEF IInv

-----------------------------------------------------------------------------
(* The invariant and what follows from it *)

LEMMA InitInv == ASSUME FeaturesAssumption, Init PROVE IInv
<1>1. /\ \A f \in Files : files[f] \in Row /\ files[f].present
      /\ files \in [Files -> Row]
    BY DEF Init, Row
<1>2. TypeOK
    BY <1>1 DEF Init, TypeOK, RunState, Idle, At, FeaturesAssumption
<1>3. TriesInv /\ AbsentInv /\ DedupInv
    BY <1>1 DEF Init, TriesInv, AbsentInv, DedupInv, Idle
<1> QED BY <1>2, <1>3 DEF IInv

LEMMA NextInv == ASSUME FeaturesAssumption, IInv, [Next]_vars PROVE IInv'
<1>1. CASE \E f \in Files : queueCompressionJob(f) \/ queueDeduplicationJob(f)
    BY <1>1, AddJobInv DEF queueCompressionJob, queueDeduplicationJob, Queues
<1>2. CASE \E f \in Files : UpdateFile(f) \/ RemoveChunks(f) \/ RemoveFile(f)
    BY <1>2, FileInv
<1>3. CASE \E r \in Runs : Run(r) \/ CallFails(r)
    BY <1>3, TakeJobInv, LoadFileInv, AssembleInv, CompressChunksInv, CallFailsInv DEF Run
<1>4. CASE Crash
    BY <1>4, CrashInv
<1>5. CASE UNCHANGED vars
    BY <1>5 DEF vars, IInv, TypeOK, TriesInv, AbsentInv, DedupInv, Excused, At
<1> QED BY <1>1, <1>2, <1>3, <1>4, <1>5 DEF Next

(* The invariant behind the theorems below holds in every state, whatever  *)
(* executions, PATCHes, deletions and failures do (both processors, Bull). *)
THEOREM InductiveInvariant == ASSUME FeaturesAssumption PROVE Spec => []IInv
<1>1. Init => IInv
    BY InitInv
<1>2. IInv /\ [Next]_vars => IInv'
    BY NextInv
<1> QED BY <1>1, <1>2, PTL DEF Spec

(* TypeOK holds: no two executions share a job, and the job of each is     *)
(* active (processors, Bull).                                              *)
THEOREM TypeCorrect == ASSUME FeaturesAssumption PROVE Spec => []TypeOK
<1>1. IInv => TypeOK
    BY DEF IInv
<1> QED BY <1>1, InductiveInvariant, PTL

(* Jobs are tried as often as they were queued for (`attempts: 3`).        *)
THEOREM TriesCounted == ASSUME FeaturesAssumption PROVE Spec => []TriedThreeTimes
<1>1. ASSUME IInv, NEW j \in Jobs
      PROVE  /\ starts[j] <= 4
             /\ jobs[j].state = "failed" /\ faults = 0 => starts[j] = 3
    <2>1. CASE jobs[j] = NoJob
        BY <1>1, <2>1 DEF IInv, TriesInv, NoJob
    <2>2. CASE jobs[j] # NoJob
        <3>1. /\ jobs[j] \in Job
              /\ jobs[j].attempts \in 1..3 /\ jobs[j].stalls \in 0..1
            BY <1>1, <2>2, JobKinds DEF IInv, TypeOK, Attempts, Stalls
        <3> QED BY <1>1, <2>2, <3>1 DEF IInv, TriesInv
    <2> QED BY <2>1, <2>2
<1>2. IInv => TriedThreeTimes
    BY <1>1 DEF TriedThreeTimes
<1> QED BY <1>2, InductiveInvariant, PTL

(* A deduplication job comes to nothing only if its file was deleted or a  *)
(* call failed (processDeduplicationJob).                                  *)
THEOREM DeduplicationSafe == ASSUME FeaturesAssumption PROVE Spec => []DeduplicationCompletes
<1>1. IInv => DeduplicationCompletes
    BY DEF IInv, DedupInv, Excused, DeduplicationCompletes
<1> QED BY <1>1, InductiveInvariant, PTL

-----------------------------------------------------------------------------
(* JobLife.  Nobody but the execution that has an active job moves it, and *)
(* no active job is without one.                                           *)

Held(j) == \E r \in Runs : runs[r].job = j

Staffed == \A j \in Jobs : jobs[j].state = "active" => Held(j)

LifeState == [j \in Jobs |-> IF Held(j) THEN "running" ELSE jobs[j].state]
LifeLeft  == [j \in Jobs |-> StartsLeft(jobs[j])]

LifeStep == [Life!Next]_<<LifeState, LifeLeft>>

LEMMA HeldIsActive ==
    ASSUME FeaturesAssumption, IInv, NEW j \in Jobs, Held(j)
    PROVE  jobs[j] \in Job /\ jobs[j].state = "active"
<1>1. PICK r \in Runs : runs[r].job = j
    BY DEF Held
<1>2. ~At(r, "idle")
    BY <1>1 DEF IInv, TypeOK, Idle, FeaturesAssumption
<1> QED BY <1>1, <1>2, RunHasJob DEF IInv

(* One job moves, to x. *)
LEMMA LifeMove ==
    ASSUME IInv, Staffed, NEW j \in Jobs, NEW x, jobs' = [jobs EXCEPT ![j] = x],
           \A k \in Jobs \ {j} : Held(k)' <=> Held(k),
           x.state = "active" <=> Held(j)'
    PROVE  /\ LifeState' = [LifeState EXCEPT ![j] = IF Held(j)' THEN "running" ELSE x.state]
           /\ LifeLeft' = [LifeLeft EXCEPT ![j] = StartsLeft(x)]
           /\ Staffed'
<1>1. jobs'[j] = x /\ \A k \in Jobs \ {j} : jobs'[k] = jobs[k]
    BY DEF IInv, TypeOK
<1>2. LifeState' = [LifeState EXCEPT ![j] = IF Held(j)' THEN "running" ELSE x.state]
    <2>1. \A k \in Jobs \ {j} : LifeState'[k] = LifeState[k]
        BY <1>1 DEF LifeState
    <2>2. LifeState'[j] = IF Held(j)' THEN "running" ELSE x.state
        BY <1>1 DEF LifeState
    <2>3. DOMAIN LifeState = Jobs /\ DOMAIN LifeState' = Jobs
          /\ LifeState = [k \in Jobs |-> LifeState[k]]
          /\ LifeState' = [k \in Jobs |-> LifeState'[k]]
        BY DEF LifeState
    <2> QED BY <2>1, <2>2, <2>3
<1>3. LifeLeft' = [LifeLeft EXCEPT ![j] = StartsLeft(x)]
    <2>1. \A k \in Jobs \ {j} : LifeLeft'[k] = LifeLeft[k]
        BY <1>1 DEF LifeLeft
    <2>2. LifeLeft'[j] = StartsLeft(x)
        BY <1>1 DEF LifeLeft
    <2>3. DOMAIN LifeLeft = Jobs /\ DOMAIN LifeLeft' = Jobs
          /\ LifeLeft = [k \in Jobs |-> LifeLeft[k]]
          /\ LifeLeft' = [k \in Jobs |-> LifeLeft'[k]]
        BY DEF LifeLeft
    <2> QED BY <2>1, <2>2, <2>3
<1>4. Staffed'
    BY <1>1 DEF Staffed
<1> QED BY <1>2, <1>3, <1>4

LEMMA LifeSame ==
    ASSUME Staffed, jobs' = jobs, \A r \in Runs : runs'[r].job = runs[r].job
    PROVE  LifeStep /\ Staffed'
BY DEF LifeStep, LifeState, LifeLeft, Staffed, Held

LEMMA AddJobLife ==
    ASSUME FeaturesAssumption, IInv, Staffed, NEW f \in Files, NEW q \in Queues, AddJob(f, q)
    PROVE  LifeStep /\ Staffed'
<1>1. PICK j \in Jobs :
         /\ jobs[j] = NoJob
         /\ jobs' = [jobs EXCEPT ![j] = [state |-> "waiting", queue |-> q, file |-> f,
                                         attempts |-> 3, stalls |-> 1]]
    BY DEF AddJob
<1>2. PICK x : x = [state |-> "waiting", queue |-> q, file |-> f, attempts |-> 3, stalls |-> 1]
    OBVIOUS
<1>3. x.state = "waiting" /\ StartsLeft(x) = 4
    BY <1>2 DEF StartsLeft
<1>4. jobs[j].state = "none" /\ StartsLeft(jobs[j]) = 0
    BY <1>1 DEF NoJob, StartsLeft
<1>5. ~Held(j) /\ \A k \in Jobs : Held(k)' <=> Held(k)
    BY <1>4, HeldIsActive DEF AddJob, Held
<1>6. /\ LifeState' = [LifeState EXCEPT ![j] = "waiting"]
      /\ LifeLeft' = [LifeLeft EXCEPT ![j] = 4]
      /\ Staffed'
    <2>1. jobs' = [jobs EXCEPT ![j] = x]
        BY <1>1, <1>2
    <2>2. ~Held(j)' /\ x.state # "active"
        BY <1>3, <1>5
    <2>3. /\ LifeState' = [LifeState EXCEPT ![j] = IF Held(j)' THEN "running" ELSE x.state]
          /\ LifeLeft' = [LifeLeft EXCEPT ![j] = StartsLeft(x)]
          /\ Staffed'
        BY <1>5, <2>1, <2>2, LifeMove
    <2> QED BY <1>3, <2>2, <2>3
<1>7. LifeState[j] = "none"
    BY <1>4, <1>5 DEF LifeState
<1>8. Life!Moves(j, "none", "waiting", 4)
    BY <1>6, <1>7 DEF Life!Moves, LifeState, LifeLeft, Held
<1> QED BY <1>6, <1>8 DEF LifeStep, Life!Next, Life!Add

LEMMA TakeJobLife ==
    ASSUME FeaturesAssumption, IInv, Staffed, NEW r \in Runs, TakeJob(r)
    PROVE  LifeStep /\ Staffed'
<1>1. PICK j \in Jobs :
         /\ jobs[j].state = "waiting"
         /\ jobs' = [jobs EXCEPT ![j].state = "active"]
         /\ runs' = [runs EXCEPT ![r] = [Idle EXCEPT !.at = "load", !.job = j]]
    BY DEF TakeJob
<1>2. jobs[j] \in Job /\ jobs[j].attempts \in 1..3 /\ jobs[j].stalls \in 0..1
    BY <1>1, JobKinds DEF IInv, TypeOK, NoJob, Attempts, Stalls
<1>3. PICK x : x = [jobs[j] EXCEPT !.state = "active"]
    OBVIOUS
<1>4. x.state = "active" /\ StartsLeft(x) = StartsLeft(jobs[j]) - 1 /\ StartsLeft(jobs[j]) > 0
    BY <1>1, <1>2, <1>3 DEF StartsLeft, Job
<1>5. jobs' = [jobs EXCEPT ![j] = x]
    BY <1>1, <1>3 DEF IInv, TypeOK
<1>6. /\ runs[r].job = Null /\ runs'[r].job = j
      /\ \A q \in Runs \ {r} : runs'[q].job = runs[q].job
    <2>1. runs[r] = Idle
        BY DEF TakeJob, IInv, TypeOK
    <2>2. runs'[r] = [Idle EXCEPT !.at = "load", !.job = j] /\ \A q \in Runs \ {r} : runs'[q] = runs[q]
        BY <1>1 DEF IInv, TypeOK
    <2> QED BY <2>1, <2>2 DEF Idle
<1>7. ~Held(j) /\ Held(j)' /\ \A k \in Jobs \ {j} : Held(k)' <=> Held(k)
    <2>1. ~Held(j)
        BY <1>1, HeldIsActive
    <2>2. \A k \in Jobs : k # Null
        BY DEF FeaturesAssumption
    <2> QED BY <1>6, <2>1, <2>2 DEF Held
<1>8. /\ LifeState' = [LifeState EXCEPT ![j] = IF Held(j)' THEN "running" ELSE x.state]
      /\ LifeLeft' = [LifeLeft EXCEPT ![j] = StartsLeft(x)]
      /\ Staffed'
    <2>1. x.state = "active" <=> Held(j)'
        BY <1>4, <1>7
    <2> QED BY <1>5, <1>7, <2>1, LifeMove
<1>9. LifeState[j] = "waiting" /\ LifeLeft[j] = StartsLeft(jobs[j])
    BY <1>1, <1>7 DEF LifeState, LifeLeft
<1>10. Life!Start(j)
    BY <1>4, <1>7, <1>8, <1>9 DEF Life!Start, Life!Moves, LifeState, LifeLeft, Held
<1> QED BY <1>8, <1>10 DEF LifeStep, Life!Next

(* An execution ends, and leaves its job as x. *)
LEMMA EndLife ==
    ASSUME FeaturesAssumption, IInv, Staffed, NEW r \in Runs, ~At(r, "idle"), NEW x,
           jobs' = [jobs EXCEPT ![runs[r].job] = x], runs' = [runs EXCEPT ![r] = Idle],
           x.state # "active"
    PROVE  /\ LifeState[runs[r].job] = "running"
           /\ LifeLeft[runs[r].job] = StartsLeft(jobs[runs[r].job])
           /\ LifeState' = [LifeState EXCEPT ![runs[r].job] = x.state]
           /\ LifeLeft' = [LifeLeft EXCEPT ![runs[r].job] = StartsLeft(x)]
           /\ Staffed'
<1>1. PICK j : j = runs[r].job
    OBVIOUS
<1>2. j \in Jobs /\ \A q \in Runs \ {r} : runs[q].job # j
    BY <1>1, RunHasJob DEF IInv
<1>3. runs'[r].job = Null /\ \A q \in Runs \ {r} : runs'[q].job = runs[q].job
    BY DEF IInv, TypeOK, Idle
<1>4. \A k \in Jobs : k # Null
    BY DEF FeaturesAssumption
<1>5. Held(j) /\ ~Held(j)' /\ \A k \in Jobs \ {j} : Held(k)' <=> Held(k)
    BY <1>1, <1>2, <1>3, <1>4 DEF Held
<1>6. /\ LifeState' = [LifeState EXCEPT ![j] = IF Held(j)' THEN "running" ELSE x.state]
      /\ LifeLeft' = [LifeLeft EXCEPT ![j] = StartsLeft(x)]
      /\ Staffed'
    <2>1. jobs' = [jobs EXCEPT ![j] = x]
        BY <1>1
    <2> QED BY <1>2, <1>5, <2>1, LifeMove
<1>7. LifeState[j] = "running" /\ LifeLeft[j] = StartsLeft(jobs[j])
    BY <1>2, <1>5 DEF LifeState, LifeLeft
<1> QED BY <1>1, <1>5, <1>6, <1>7

LEMMA ThrowsLife ==
    ASSUME FeaturesAssumption, IInv, Staffed, NEW r \in Runs, ~At(r, "idle"), Throws(r)
    PROVE  LifeStep /\ Staffed'
<1>1. PICK j : j = runs[r].job
    OBVIOUS
<1>2. PICK x : x = Retried(jobs[j])
    OBVIOUS
<1>3. /\ j \in Jobs /\ jobs[j] \in Job /\ jobs[j].state = "active"
      /\ jobs[j].attempts \in 1..3 /\ jobs[j].stalls \in 0..1
    BY <1>1, RunHasJob, JobKinds DEF IInv, Attempts, Stalls
<1>4. StartsLeft(jobs[j]) = jobs[j].attempts + jobs[j].stalls - 1
    BY <1>3 DEF StartsLeft
<1>5. \/ x.state = "waiting" /\ StartsLeft(x) = StartsLeft(jobs[j]) /\ StartsLeft(x) > 0
      \/ x.state = "failed" /\ StartsLeft(x) = 0 /\ StartsLeft(jobs[j]) <= 1
    <2>1. x.stalls = jobs[j].stalls
        BY <1>2, <1>3, RetriedJob
    <2>2. CASE jobs[j].attempts > 1 /\ x.state = "waiting" /\ x.attempts = jobs[j].attempts - 1
        BY <1>3, <1>4, <2>1, <2>2 DEF StartsLeft
    <2>3. CASE jobs[j].attempts = 1 /\ x.state = "failed"
        BY <1>3, <1>4, <2>1, <2>3 DEF StartsLeft
    <2> QED BY <1>2, <1>3, <2>2, <2>3, RetriedJob
<1>6. /\ LifeState[j] = "running" /\ LifeLeft[j] = StartsLeft(jobs[j])
      /\ LifeState' = [LifeState EXCEPT ![j] = x.state]
      /\ LifeLeft' = [LifeLeft EXCEPT ![j] = StartsLeft(x)]
      /\ Staffed'
    <2>1. jobs' = [jobs EXCEPT ![runs[r].job] = x] /\ runs' = [runs EXCEPT ![r] = Idle]
        BY <1>1, <1>2 DEF Throws
    <2>2. x.state # "active"
        BY <1>5
    <2> QED BY <1>1, <2>1, <2>2, EndLife
<1>7. Life!Return(j) \/ Life!GiveUp(j)
    BY <1>5, <1>6 DEF Life!Return, Life!GiveUp, Life!Moves, LifeState, LifeLeft, Held
<1> QED BY <1>3, <1>6, <1>7 DEF LifeStep, Life!Next

LEMMA CompletesLife ==
    ASSUME FeaturesAssumption, IInv, Staffed, NEW r \in Runs, ~At(r, "idle"), Completes(r)
    PROVE  LifeStep /\ Staffed'
<1>1. PICK j : j = runs[r].job
    OBVIOUS
<1>2. j \in Jobs /\ jobs[j] \in Job
    BY <1>1, RunHasJob DEF IInv
<1>3. PICK x : x = [jobs[j] EXCEPT !.state = "completed"]
    OBVIOUS
<1>4. x.state = "completed" /\ StartsLeft(x) = 0
    BY <1>2, <1>3 DEF Job, StartsLeft
<1>5. /\ LifeState[j] = "running"
      /\ LifeState' = [LifeState EXCEPT ![j] = x.state]
      /\ LifeLeft' = [LifeLeft EXCEPT ![j] = StartsLeft(x)]
      /\ Staffed'
    <2>1. jobs' = [jobs EXCEPT ![runs[r].job] = x] /\ runs' = [runs EXCEPT ![r] = Idle]
        BY <1>1, <1>2, <1>3 DEF Completes, IInv, TypeOK
    <2>2. x.state # "active"
        BY <1>4
    <2> QED BY <1>1, <2>1, <2>2, EndLife
<1>6. Life!Complete(j)
    BY <1>4, <1>5 DEF Life!Complete, Life!Moves, LifeState, LifeLeft, Held
<1> QED BY <1>2, <1>5, <1>6 DEF LifeStep, Life!Next

LEMMA LoadFileLife ==
    ASSUME FeaturesAssumption, IInv, Staffed, NEW r \in Runs, LoadFile(r)
    PROVE  LifeStep /\ Staffed'
<1>1. ~At(r, "idle")
    BY DEF LoadFile, At
<1>2. PICK f : f = jobs[runs[r].job].file
    OBVIOUS
<1>3. Throws(r) \/ Completes(r) \/ Compress(r, f)
    BY <1>2 DEF LoadFile, Deduplicate, updateFileForDeduplication
<1>4. CASE Compress(r, f)
    <2>1. jobs' = jobs /\ \A q \in Runs : runs'[q].job = runs[q].job
        BY <1>4 DEF Compress, IInv, TypeOK, RunState
    <2> QED BY <2>1, LifeSame
<1> QED BY <1>1, <1>3, <1>4, ThrowsLife, CompletesLife

LEMMA CompressionLife ==
    ASSUME FeaturesAssumption, IInv, Staffed, NEW r \in Runs, Assemble(r) \/ CompressChunks(r)
    PROVE  LifeStep /\ Staffed'
<1>1. ~At(r, "idle")
    BY DEF Assemble, CompressChunks, At
<1>2. CASE Throws(r)
    BY <1>1, <1>2, ThrowsLife
<1>3. CASE jobs' = jobs /\ runs' = [runs EXCEPT ![r].at = "compress"]
    <2>1. \A q \in Runs : runs'[q].job = runs[q].job
        BY <1>3 DEF IInv, TypeOK, RunState
    <2> QED BY <1>3, <2>1, LifeSame
<1> QED BY <1>2, <1>3 DEF Assemble, CompressChunks

(* Every active job had an execution, which is gone. *)
LEMMA CrashLife ==
    ASSUME FeaturesAssumption, IInv, Staffed, Crash
    PROVE  LifeStep /\ Staffed'
<1>1. /\ jobs' = [j \in Jobs |-> IF jobs[j].state = "active" THEN Stalled(jobs[j]) ELSE jobs[j]]
      /\ \A r \in Runs : runs'[r].job = Null
    BY DEF Crash, StallActive, IInv, TypeOK, Idle
<1>2. \A j \in Jobs : ~Held(j)'
    BY <1>1 DEF Held, FeaturesAssumption
<1>3. \A j \in Jobs : jobs[j].state = "active" <=> Held(j)
    BY HeldIsActive DEF Staffed
<1>4. PICK back : back = {j \in Jobs : jobs[j].state = "active" /\ jobs[j].stalls = 1}
    OBVIOUS
<1>5. ASSUME NEW j \in Jobs
      PROVE  /\ LifeState[j] = "running" <=> jobs[j].state = "active"
             /\ j \in back => LifeLeft[j] > 0
             /\ LifeState'[j] = CASE j \in back -> "waiting"
                                  [] jobs[j].state = "active" /\ j \notin back -> "failed"
                                  [] OTHER -> LifeState[j]
             /\ LifeLeft'[j] = IF jobs[j].state = "active" /\ j \notin back
                               THEN 0 ELSE LifeLeft[j]
             /\ jobs'[j].state # "active"
    <2>1. /\ LifeState[j] = IF jobs[j].state = "active" THEN "running" ELSE jobs[j].state
          /\ LifeState'[j] = jobs'[j].state
          /\ LifeLeft[j] = StartsLeft(jobs[j]) /\ LifeLeft'[j] = StartsLeft(jobs'[j])
        BY <1>2, <1>3 DEF LifeState, LifeLeft
    <2>2. CASE jobs[j].state # "active"
        <3>1. jobs'[j] = jobs[j] /\ j \notin back
            BY <1>1, <1>4, <2>2
        <3>2. jobs[j].state # "running"
            BY JobKinds DEF IInv, TypeOK, NoJob, JobStates
        <3> QED BY <2>1, <2>2, <3>1, <3>2
    <2>3. CASE jobs[j].state = "active"
        <3>1. /\ jobs'[j] = Stalled(jobs[j]) /\ jobs[j] \in Job
              /\ jobs[j].attempts \in 1..3 /\ jobs[j].stalls \in 0..1
            BY <1>1, <2>3, JobKinds DEF IInv, TypeOK, NoJob, Attempts, Stalls
        <3>2. LifeLeft[j] = jobs[j].attempts + jobs[j].stalls - 1
            BY <2>1, <2>3 DEF StartsLeft
        <3>3. jobs'[j].attempts = jobs[j].attempts
            BY <3>1, StalledJob
        <3>4. CASE jobs[j].stalls = 1
            <4>1. jobs'[j].state = "waiting" /\ jobs'[j].stalls = 0 /\ j \in back
                BY <1>4, <2>3, <3>1, <3>4, StalledJob
            <4>2. LifeLeft'[j] = jobs[j].attempts
                BY <2>1, <3>1, <3>3, <4>1 DEF StartsLeft
            <4> QED BY <2>1, <2>3, <3>1, <3>2, <3>4, <4>1, <4>2
        <3>5. CASE jobs[j].stalls = 0
            <4>1. jobs'[j].state = "failed" /\ j \notin back
                BY <1>4, <3>1, <3>5, StalledJob
            <4>2. LifeLeft'[j] = 0
                BY <2>1, <4>1 DEF StartsLeft
            <4> QED BY <2>1, <2>3, <4>1, <4>2
        <3> QED BY <3>1, <3>4, <3>5
    <2> QED BY <2>2, <2>3
<1>6. Staffed'
    BY <1>5 DEF Staffed
<1>7. PICK running : running = {j \in Jobs : LifeState[j] = "running"}
    OBVIOUS
<1>8. \A j \in Jobs : j \in running <=> jobs[j].state = "active"
    BY <1>5, <1>7
<1>9. back \in SUBSET {j \in running : LifeLeft[j] > 0}
    BY <1>4, <1>5, <1>8
<1>10. LifeState' = [j \in Jobs |-> CASE j \in back           -> "waiting"
                                      [] j \in running \ back -> "failed"
                                      [] OTHER                -> LifeState[j]]
    <2>1. LifeState' = [j \in Jobs |-> LifeState'[j]]
        BY DEF LifeState
    <2>2. ASSUME NEW j \in Jobs
          PROVE  LifeState'[j] = CASE j \in back           -> "waiting"
                                   [] j \in running \ back -> "failed"
                                   [] OTHER                -> LifeState[j]
        BY <1>4, <1>5, <1>8
    <2> QED BY <2>1, <2>2
<1>11. LifeLeft' = [j \in Jobs |-> IF j \in running \ back THEN 0 ELSE LifeLeft[j]]
    <2>1. LifeLeft' = [j \in Jobs |-> LifeLeft'[j]]
        BY DEF LifeLeft
    <2> QED BY <1>5, <1>8, <2>1
<1>12. Life!Stop
    <2>1. Life!Running = running
        BY <1>7 DEF Life!Running, LifeState, Held
    <2>2. Life!Stop <=>
            \E b \in SUBSET {j \in Life!Running : LifeLeft[j] > 0} :
                /\ LifeState' = [j \in Jobs |-> CASE j \in b                -> "waiting"
                                                [] j \in Life!Running \ b -> "failed"
                                                [] OTHER                  -> LifeState[j]]
                /\ LifeLeft' = [j \in Jobs |-> IF j \in Life!Running \ b THEN 0 ELSE LifeLeft[j]]
        BY DEF Life!Stop, LifeState, LifeLeft, Held
    <2> QED BY <1>9, <1>10, <1>11, <2>1, <2>2, Zenon
<1> QED BY <1>6, <1>12 DEF LifeStep, Life!Next

LEMMA NextLife ==
    ASSUME FeaturesAssumption, IInv, Staffed, [Next]_vars
    PROVE  LifeStep /\ Staffed'
<1>1. CASE \E f \in Files : queueCompressionJob(f) \/ queueDeduplicationJob(f)
    BY <1>1, AddJobLife DEF queueCompressionJob, queueDeduplicationJob, Queues
<1>2. CASE jobs' = jobs /\ runs' = runs
    BY <1>2, LifeSame
<1>3. CASE \E f \in Files : UpdateFile(f) \/ RemoveChunks(f) \/ RemoveFile(f)
    BY <1>2, <1>3 DEF UpdateFile, RemoveChunks, RemoveFile
<1>4. CASE \E r \in Runs : Run(r)
    BY <1>4, TakeJobLife, LoadFileLife, CompressionLife DEF Run
<1>5. CASE \E r \in Runs : CallFails(r)
    BY <1>5, ThrowsLife DEF CallFails
<1>6. CASE UNCHANGED vars
    BY <1>2, <1>6 DEF vars
<1> QED BY <1>1, <1>3, <1>4, <1>5, <1>6, CrashLife DEF Next

(* The executions of both processors implement JobLife: they start each    *)
(* job at most four times and leave none behind, also when the server      *)
(* stops (queueCompressionJob, queueDeduplicationJob, processors, Bull).   *)
THEOREM JobLifeImplemented == ASSUME FeaturesAssumption PROVE Spec => JobLifeSpec
<1>1. Init => Staffed
    BY DEF Init, Staffed, NoJob
<1>2. Init => Life!Init
    <2>1. ASSUME Init, NEW j \in Jobs
          PROVE  ~Held(j) /\ jobs[j].state = "none" /\ StartsLeft(jobs[j]) = 0
        BY <2>1 DEF Init, Held, Idle, NoJob, StartsLeft, FeaturesAssumption
    <2> QED BY <2>1 DEF Life!Init, Held
<1>3. IInv /\ Staffed /\ [Next]_vars =>
         /\ [Life!Next]_<<[j \in Jobs |-> IF \E r \in Runs : runs[r].job = j THEN "running"
                                          ELSE jobs[j].state],
                          [j \in Jobs |-> StartsLeft(jobs[j])]>>
         /\ Staffed'
    BY NextLife DEF LifeStep, LifeState, LifeLeft, Held
<1> QED BY <1>1, <1>2, <1>3, InductiveInvariant, PTL DEF Spec, JobLifeSpec, Life!Spec

=============================================================================
