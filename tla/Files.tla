------------------------------- MODULE Files -------------------------------
(***************************************************************************)
(* The life of an uploaded file: FilesService (the request handlers of     *)
(* FilesController) and UploadProcessor (the worker of the upload queue).  *)
(*                                                                         *)
(* Node runs one handler up to its next await, so an action is the code    *)
(* between two awaits together with the database or Redis call it ends in  *)
(* or resumes from.  A handler works on the row it loaded, which may be    *)
(* out of date by the time it is saved.  The database and Bull are         *)
(* external; what their calls do to the state is gathered in the operators *)
(* of the section "TypeORM and Bull".                                      *)
(***************************************************************************)
EXTENDS Naturals, FiniteSets, Sequences

CONSTANTS
    FileIds,         \* the uuids create() may draw
    Slots,           \* requests in flight, each served by one handler
    Workers,         \* jobs of the upload queue that may run at a time
    Indices,         \* chunk indices
    ChunkCounts,     \* the results of calculateChunks(size) considered
    Payloads,        \* contents of one chunk
    Features,        \* {"compression", "deduplication"}, or fewer
    Regions,         \* names of storage regions
    DefaultRegion,   \* the one create() puts a file in
    Patches,         \* bodies of PATCH, Null for a member that is not sent
    Ops,             \* the requests that clients send
    SameBytes,       \* TRUE: requests in flight for one chunk carry the same bytes
    MaxFaults,       \* bound on the crashes and failed calls of a behaviour
    Null             \* SQL NULL

AllOps == {"create", "upload", "update", "remove", "download"}

Contents == UNION {[S -> Payloads] : S \in SUBSET Indices}

ASSUME FilesAssumption ==
    /\ Slots \cap Workers = {}
    /\ IsFiniteSet(Workers)
    /\ Indices \subseteq Nat
    /\ \A n \in ChunkCounts : n \in Nat /\ 0..(n - 1) \subseteq Indices
    /\ Null \notin Payloads \cup Contents \cup FileIds \cup Indices
    /\ Features \subseteq {"compression", "deduplication"}
    /\ DefaultRegion \in Regions
    /\ Patches \subseteq [regions  : Seq(Regions) \cup {Null},
                         features : (SUBSET Features) \cup {Null}]
    /\ Ops \subseteq AllOps
    /\ SameBytes \in BOOLEAN
    /\ MaxFaults \in Nat

VARIABLES
    files,      \* the File rows, by id; status "absent" when there is none
    chunks,     \* the Chunk rows, by file and index
    born,       \* ids drawn so far: uuidv4 never draws one twice
    deleted,    \* ids whose DELETE has completed (history)
    waiting,    \* upload jobs waiting, by file and number of times stalled
    outbox,     \* jobs handed to the other queues: <<queue, file>>
    proc,       \* the handlers' local state
    faults      \* crashes and failed calls so far

vars == <<files, chunks, born, deleted, waiting, outbox, proc, faults>>

FileStatus == {"uploading", "processing", "available", "failed"}

(* The columns of file.entity.ts that the handlers read or write.  A hash  *)
(* is modelled by the content it was computed from.                        *)
Row == [status : FileStatus \cup {"absent"}, hash : Contents \cup {Null},
        regions : Seq(Regions), features : SUBSET Features]

NoRow == [status |-> "absent", hash |-> Null, regions |-> << >>, features |-> {}]

(* chunk.entity.ts; the hash column is written together with data, and the *)
(* handlers of this module never read it.                                  *)
Chunk == [status : {"absent", "uploading", "uploaded"}, data : Payloads \cup {Null}]

NoChunk == [status |-> "absent", data |-> Null]

(* A handler: where it is, the row it loaded with the indices of the       *)
(* chunks relation, the chunk it is to write, how often its job stalled.   *)
Idle == [at |-> "idle", file |-> Null, row |-> NoRow, known |-> {},
         index |-> Null, data |-> Null, stalls |-> 0]

Procs == Slots \cup Workers

SlotSteps == {"createChunks", "saveChunk", "count", "mark", "enqueue", "update",
              "removeChunks", "removeFile", "assemble", "respond"}
JobSteps  == {"jobAssemble", "jobPublish", "jobReplicate", "jobFail",
              "jobFeatures", "jobCompress", "jobDeduplicate"}

Process == [at : SlotSteps \cup JobSteps \cup {"idle"}, file : FileIds \cup {Null},
            row : Row, known : SUBSET Indices, index : Indices \cup {Null},
            data : Payloads \cup Contents \cup {Null}, stalls : 0..1]

-----------------------------------------------------------------------------
(* TypeORM and Bull *)

Present(f)   == {i \in Indices : chunks[f][i].status # "absent"}
Uploading(f) == {i \in Indices : chunks[f][i].status = "uploading"}

(* repository.save(file) writes the whole row in memory, and inserts it    *)
(* when the table has none with its id.  A loaded `chunks` relation that   *)
(* lacks a row of the table makes TypeORM null that row's fileId, which    *)
(* the NOT NULL column refuses: the save then fails as a whole.            *)
SaveFileOk(f, known) == files[f].status = "absent" \/ Present(f) \subseteq known
SaveFile(f, row) == files' = [files EXCEPT ![f] = row]

(* A chunk row references its file. *)
InsertChunksOk(f, indices) == indices = {} \/ files[f].status # "absent"

(* The rows of assembleFileFromChunks(file): as many as file.chunks, each  *)
(* with data.                                                              *)
AssembleOk(f, known) ==
    /\ Cardinality(Present(f)) = Cardinality(known)
    /\ \A i \in Present(f) : chunks[f][i].data # Null
Content(f) == [i \in Present(f) |-> chunks[f][i].data]

Enqueue(f, stalls) == waiting' = [waiting EXCEPT ![f][stalls] = @ + 1]

-----------------------------------------------------------------------------
(* Handlers' local state *)

At(p, step)   == proc[p].at = step
Goto(p, step) == proc' = [proc EXCEPT ![p].at = step]
Finish(p)     == proc' = [proc EXCEPT ![p] = Idle]

(* findOne: the row with its chunks relation. *)
Load(p, f, step) ==
    proc' = [proc EXCEPT ![p] = [Idle EXCEPT !.at = step, !.file = f,
                                    !.row = files[f], !.known = Present(f)]]

Init ==
    /\ files = [f \in FileIds |-> NoRow]
    /\ chunks = [f \in FileIds |-> [i \in Indices |-> NoChunk]]
    /\ born = {}
    /\ deleted = {}
    /\ waiting = [f \in FileIds |-> [k \in 0..1 |-> 0]]
    /\ outbox = {}
    /\ proc = [p \in Procs |-> Idle]
    /\ faults = 0

-----------------------------------------------------------------------------
(* Variants of actions below, each with a plausible mistake in it.  No     *)
(* action uses them: putting one in the place of its original shows which  *)
(* property notices the mistake.                                           *)

(* The chunk's own status is not looked at. *)
UploadLoadAnyChunk(s) ==
    /\ "upload" \in Ops
    /\ At(s, "idle")
    /\ \E f \in FileIds, i \in Indices, d \in Payloads :
        /\ files[f].status = "uploading"
        /\ i < Cardinality(Present(f))
        /\ proc' = [proc EXCEPT ![s] = [Idle EXCEPT !.at = "saveChunk", !.file = f,
                        !.row = files[f], !.known = Present(f), !.index = i, !.data = d]]
    /\ UNCHANGED <<files, chunks, born, deleted, waiting, outbox, faults>>

(* The count of chunks to come is not looked at. *)
UploadCountAlways(s) ==
    /\ At(s, "count")
    /\ Goto(s, "mark")
    /\ UNCHANGED <<files, chunks, born, deleted, waiting, outbox, faults>>

(* Off by one: as if this chunk were still among those to come. *)
UploadCountOne(s) ==
    /\ At(s, "count")
    /\ IF Cardinality(Uploading(proc[s].file)) = 1 THEN Goto(s, "mark") ELSE Finish(s)
    /\ UNCHANGED <<files, chunks, born, deleted, waiting, outbox, faults>>

(* The chunk's status constant is written to the file. *)
UploadMarkUploaded(s) ==
    /\ At(s, "mark")
    /\ SaveFile(proc[s].file, [proc[s].row EXCEPT !.status = "uploaded"])
    /\ Goto(s, "enqueue")
    /\ UNCHANGED <<chunks, born, deleted, waiting, outbox, faults>>

(* The job is not queued. *)
UploadMarkOnly(s) ==
    /\ At(s, "mark")
    /\ SaveFile(proc[s].file, [proc[s].row EXCEPT !.status = "processing"])
    /\ Finish(s)
    /\ UNCHANGED <<chunks, born, deleted, waiting, outbox, faults>>

(* The hash is not stored. *)
JobAssembleNoHash(w) ==
    /\ At(w, "jobAssemble")
    /\ IF AssembleOk(proc[w].file, proc[w].known)
       THEN proc' = [proc EXCEPT ![w].at = "jobPublish", ![w].row.status = "available"]
       ELSE Goto(w, "jobFail")
    /\ UNCHANGED <<files, chunks, born, deleted, waiting, outbox, faults>>

(* The catch block only throws. *)
JobFailThrows(w) ==
    /\ At(w, "jobFail")
    /\ Finish(w)
    /\ UNCHANGED <<files, chunks, born, deleted, waiting, outbox, faults>>

-----------------------------------------------------------------------------
(* POST /files *)

CreateFile(s) ==
    /\ "create" \in Ops
    /\ At(s, "idle")
    /\ \E f \in FileIds \ born, n \in ChunkCounts, features \in SUBSET Features :
        /\ SaveFile(f, [status |-> "uploading", hash |-> Null,
                        regions |-> <<DefaultRegion>>, features |-> features])
        /\ born' = born \cup {f}
        /\ proc' = [proc EXCEPT ![s] = [Idle EXCEPT !.at = "createChunks", !.file = f,
                                           !.known = 0..(n - 1)]]
    /\ UNCHANGED <<chunks, deleted, waiting, outbox, faults>>

CreateChunks(s) ==
    LET f == proc[s].file
        new == proc[s].known
    IN  /\ At(s, "createChunks")
        /\ IF InsertChunksOk(f, new)
           THEN chunks' = [chunks EXCEPT ![f] = [i \in Indices |->
                             IF i \in new THEN [status |-> "uploading", data |-> Null]
                             ELSE @[i]]]
           ELSE UNCHANGED chunks
        /\ Finish(s)
        /\ UNCHANGED <<files, born, deleted, waiting, outbox, faults>>

(* POST /files/:id/chunks/:index.  A request one of the guards refuses     *)
(* changes nothing.                                                        *)

ClientSends(f, i, d) ==
    SameBytes => \A t \in Slots :
        At(t, "saveChunk") /\ proc[t].file = f /\ proc[t].index = i => proc[t].data = d

UploadLoad(s) ==
    /\ "upload" \in Ops
    /\ At(s, "idle")
    /\ \E f \in FileIds, i \in Indices, d \in Payloads :
        /\ files[f].status = "uploading"
        /\ i < Cardinality(Present(f))
        /\ chunks[f][i].status = "uploading"
        /\ ClientSends(f, i, d)
        /\ proc' = [proc EXCEPT ![s] = [Idle EXCEPT !.at = "saveChunk", !.file = f,
                        !.row = files[f], !.known = Present(f), !.index = i, !.data = d]]
    /\ UNCHANGED <<files, chunks, born, deleted, waiting, outbox, faults>>

UploadSave(s) ==
    LET f == proc[s].file
    IN  /\ At(s, "saveChunk")
        /\ IF files[f].status # "absent"
           THEN /\ chunks' = [chunks EXCEPT ![f][proc[s].index] =
                                [status |-> "uploaded", data |-> proc[s].data]]
                /\ Goto(s, "count")
           ELSE Finish(s) /\ UNCHANGED chunks
        /\ UNCHANGED <<files, born, deleted, waiting, outbox, faults>>

UploadCount(s) ==
    /\ At(s, "count")
    /\ IF Uploading(proc[s].file) = {} THEN Goto(s, "mark") ELSE Finish(s)
    /\ UNCHANGED <<files, chunks, born, deleted, waiting, outbox, faults>>

UploadMark(s) ==
    LET f == proc[s].file
    IN  /\ At(s, "mark")
        /\ IF SaveFileOk(f, proc[s].known)
           THEN /\ SaveFile(f, [proc[s].row EXCEPT !.status = "processing"])
                /\ Goto(s, "enqueue")
           ELSE Finish(s) /\ UNCHANGED files
        /\ UNCHANGED <<chunks, born, deleted, waiting, outbox, faults>>

UploadEnqueue(s) ==
    /\ At(s, "enqueue")
    /\ Enqueue(proc[s].file, 0)
    /\ Finish(s)
    /\ UNCHANGED <<files, chunks, born, deleted, outbox, faults>>

(* PATCH /files/:id *)

(* {...file, ...updateFileDto} *)
Patched(row, patch) ==
    [row EXCEPT !.regions  = IF patch.regions = Null THEN @ ELSE patch.regions,
                !.features = IF patch.features = Null THEN @ ELSE patch.features]

UpdateLoad(s) ==
    /\ "update" \in Ops
    /\ At(s, "idle")
    /\ \E f \in FileIds, patch \in Patches :
        /\ files[f].status # "absent"
        /\ proc' = [proc EXCEPT ![s] = [Idle EXCEPT !.at = "update", !.file = f,
                        !.row = Patched(files[f], patch), !.known = Present(f)]]
    /\ UNCHANGED <<files, chunks, born, deleted, waiting, outbox, faults>>

UpdateSave(s) ==
    LET f == proc[s].file
    IN  /\ At(s, "update")
        /\ IF SaveFileOk(f, proc[s].known) THEN SaveFile(f, proc[s].row)
                                           ELSE UNCHANGED files
        /\ Finish(s)
        /\ UNCHANGED <<chunks, born, deleted, waiting, outbox, faults>>

(* DELETE /files/:id *)

RemoveLoad(s) ==
    /\ "remove" \in Ops
    /\ At(s, "idle")
    /\ \E f \in FileIds : files[f].status # "absent" /\ Load(s, f, "removeChunks")
    /\ UNCHANGED <<files, chunks, born, deleted, waiting, outbox, faults>>

RemoveChunks(s) ==
    /\ At(s, "removeChunks")
    /\ chunks' = [chunks EXCEPT ![proc[s].file] = [i \in Indices |-> NoChunk]]
    /\ Goto(s, "removeFile")
    /\ UNCHANGED <<files, born, deleted, waiting, outbox, faults>>

(* Chunk rows that appeared since keep the row of their file: the foreign  *)
(* key makes the DELETE fail.                                              *)
RemoveFile(s) ==
    LET f == proc[s].file
    IN  /\ At(s, "removeFile")
        /\ IF Present(f) = {}
           THEN SaveFile(f, NoRow) /\ deleted' = deleted \cup {f}
           ELSE UNCHANGED <<files, deleted>>
        /\ Finish(s)
        /\ UNCHANGED <<chunks, born, waiting, outbox, faults>>

(* GET /files/download/:signedUrl, with a URL whose signature is valid *)

DownloadLoad(s) ==
    /\ "download" \in Ops
    /\ At(s, "idle")
    /\ \E f \in FileIds : files[f].status = "available" /\ Load(s, f, "assemble")
    /\ UNCHANGED <<files, chunks, born, deleted, waiting, outbox, faults>>

DownloadAssemble(s) ==
    LET f == proc[s].file
    IN  /\ At(s, "assemble")
        /\ IF AssembleOk(f, proc[s].known)
           THEN proc' = [proc EXCEPT ![s].at = "respond", ![s].data = Content(f)]
           ELSE Finish(s)
        /\ UNCHANGED <<files, chunks, born, deleted, waiting, outbox, faults>>

DownloadRespond(s) ==
    /\ At(s, "respond")
    /\ Finish(s)
    /\ UNCHANGED <<files, chunks, born, deleted, waiting, outbox, faults>>

-----------------------------------------------------------------------------
(* processUpload, the handler of the upload queue.  Its jobs have one      *)
(* attempt: a job that throws is failed and does not run again.            *)

JobStart(w) ==
    /\ At(w, "idle")
    /\ \E f \in FileIds, stalls \in 0..1 :
        /\ waiting[f][stalls] > 0
        /\ waiting' = [waiting EXCEPT ![f][stalls] = @ - 1]
        /\ proc' = [proc EXCEPT ![w] =
             IF files[f].status = "absent" THEN Idle
             ELSE [Idle EXCEPT
                    !.at = IF files[f].status = "processing" THEN "jobAssemble"
                                                             ELSE "jobFeatures",
                    !.file = f, !.row = files[f], !.known = Present(f),
                    !.stalls = stalls]]
    /\ UNCHANGED <<files, chunks, born, deleted, outbox, faults>>

JobAssemble(w) ==
    LET f == proc[w].file
    IN  /\ At(w, "jobAssemble")
        /\ IF AssembleOk(f, proc[w].known)
           THEN proc' = [proc EXCEPT ![w].at = "jobPublish", ![w].row =
                           [@ EXCEPT !.status = "available", !.hash = Content(f)]]
           ELSE Goto(w, "jobFail")
        /\ UNCHANGED <<files, chunks, born, deleted, waiting, outbox, faults>>

JobPublish(w) ==
    LET f == proc[w].file
        row == proc[w].row
    IN  /\ At(w, "jobPublish")
        /\ IF SaveFileOk(f, proc[w].known)
           THEN /\ SaveFile(f, row)
                /\ Goto(w, IF Len(row.regions) > 1 THEN "jobReplicate" ELSE "jobFeatures")
           ELSE Goto(w, "jobFail") /\ UNCHANGED files
        /\ UNCHANGED <<chunks, born, deleted, waiting, outbox, faults>>

JobReplicate(w) ==
    /\ At(w, "jobReplicate")
    /\ outbox' = outbox \cup {<<"replication", proc[w].file>>}
    /\ Goto(w, "jobFeatures")
    /\ UNCHANGED <<files, chunks, born, deleted, waiting, faults>>

JobFail(w) ==
    LET f == proc[w].file
    IN  /\ At(w, "jobFail")
        /\ IF SaveFileOk(f, proc[w].known)
           THEN SaveFile(f, [proc[w].row EXCEPT !.status = "failed"])
           ELSE UNCHANGED files
        /\ Finish(w)
        /\ UNCHANGED <<chunks, born, deleted, waiting, outbox, faults>>

(* The second findOne: its row decides which jobs are queued. *)
JobFeatures(w) ==
    LET row == files[proc[w].file]
    IN  /\ At(w, "jobFeatures")
        /\ proc' = [proc EXCEPT ![w] =
             IF "compression" \in row.features
             THEN [@ EXCEPT !.at = "jobCompress", !.row = row]
             ELSE IF "deduplication" \in row.features
             THEN [@ EXCEPT !.at = "jobDeduplicate", !.row = row]
             ELSE Idle]
        /\ UNCHANGED <<files, chunks, born, deleted, waiting, outbox, faults>>

JobCompress(w) ==
    /\ At(w, "jobCompress")
    /\ outbox' = outbox \cup {<<"compression", proc[w].file>>}
    /\ IF "deduplication" \in proc[w].row.features THEN Goto(w, "jobDeduplicate")
                                                   ELSE Finish(w)
    /\ UNCHANGED <<files, chunks, born, deleted, waiting, faults>>

JobDeduplicate(w) ==
    /\ At(w, "jobDeduplicate")
    /\ outbox' = outbox \cup {<<"deduplication", proc[w].file>>}
    /\ Finish(w)
    /\ UNCHANGED <<files, chunks, born, deleted, waiting, faults>>

-----------------------------------------------------------------------------
(* Failures *)

(* The call a handler waits for fails (database or Redis): it has no       *)
(* effect.  A request ends there; a job ends too, after the catch block of *)
(* processUploadedFile when it is inside its try block.                    *)
CallFails(p) ==
    /\ faults < MaxFaults
    /\ ~At(p, "idle")
    /\ faults' = faults + 1
    /\ IF proc[p].at \in {"jobAssemble", "jobPublish", "jobReplicate"}
       THEN Goto(p, "jobFail") ELSE Finish(p)
    /\ UNCHANGED <<files, chunks, born, deleted, waiting, outbox>>

(* The server stops and is started again.  Bull gives a job that was       *)
(* running to a worker once more (maxStalledCount is 1), and fails it the  *)
(* second time.                                                            *)
Crash ==
    /\ faults < MaxFaults
    /\ faults' = faults + 1
    /\ proc' = [p \in Procs |-> Idle]
    /\ waiting' = [f \in FileIds |-> [waiting[f] EXCEPT ![1] =
          @ + Cardinality({w \in Workers : proc[w].file = f /\ proc[w].stalls = 0})]]
    /\ UNCHANGED <<files, chunks, born, deleted, outbox>>

-----------------------------------------------------------------------------

Request(s) == CreateFile(s) \/ UploadLoad(s) \/ UpdateLoad(s) \/ RemoveLoad(s)

Handle(s) ==
    \/ CreateChunks(s)
    \/ UploadSave(s) \/ UploadCount(s) \/ UploadMark(s) \/ UploadEnqueue(s)
    \/ UpdateSave(s)
    \/ RemoveChunks(s) \/ RemoveFile(s)
    \/ DownloadAssemble(s) \/ DownloadRespond(s)

Work(w) ==
    \/ JobStart(w) \/ JobAssemble(w) \/ JobPublish(w) \/ JobReplicate(w) \/ JobFail(w)
    \/ JobFeatures(w) \/ JobCompress(w) \/ JobDeduplicate(w)

Step ==
    \/ \E s \in Slots : Request(s) \/ Handle(s)
    \/ \E w \in Workers : Work(w)
    \/ \E p \in Procs : CallFails(p)
    \/ Crash

(* The requests that need a signed URL are apart for Downloads. *)
Next == Step \/ \E s \in Slots : DownloadLoad(s)

Spec == Init /\ [][Next]_vars

(* Clients need not send anything; a handler that has started goes on, and *)
(* a worker takes the jobs that wait for it.                               *)
Fairness ==
    /\ \A s \in Slots : WF_vars(Handle(s))
    /\ \A w \in Workers : WF_vars(Work(w))

FairSpec == Spec /\ Fairness

-----------------------------------------------------------------------------
(* Properties *)

TablesOK ==
    /\ files \in [FileIds -> Row]
    /\ chunks \in [FileIds -> [Indices -> Chunk]]
    /\ born \in SUBSET FileIds
    /\ deleted \in SUBSET FileIds
    /\ waiting \in [FileIds -> [0..1 -> Nat]]
    /\ outbox \in SUBSET ({"replication", "compression", "deduplication"} \X FileIds)
    /\ faults \in Nat

HandlerOK(p, r) ==
    /\ r \in Process
    /\ p \in Slots => r.at \in SlotSteps \cup {"idle"}
    /\ p \in Workers => r.at \in JobSteps \cup {"idle"}
    /\ IF r.at = "idle" THEN r.file = Null ELSE r.file \in FileIds
    /\ r.at = "saveChunk" => r.index \in Indices /\ r.data \in Payloads

HandlersOK ==
    /\ proc \in [Procs -> Process]
    /\ \A p \in Procs : HandlerOK(p, proc[p])

(* Tables, queues and handlers have the shape the actions rely on: a       *)
(* handler that runs has a file, one about to save a chunk its data.       *)
TypeOK == TablesOK /\ HandlersOK

(* A file that clients may download has been hashed, and none of its       *)
(* chunks is still to come: whichever handlers saved a stale copy of its   *)
(* row, in whatever order, and wherever a call failed or the server        *)
(* stopped (uploadChunk, processUploadedFile, update, remove).             *)
AvailableIsSettled ==
    \A f \in FileIds : files[f].status = "available" =>
        files[f].hash # Null /\ Uploading(f) = {}

(* The worker never meets a chunk row without data: the error 'Some chunks *)
(* have no data' of assembleFileFromChunks cannot be the outcome of an     *)
(* upload job, from the time the job is queued to the time it assembles.   *)
ProcessedChunksHaveData ==
    \A f \in FileIds :
        \/ \E k \in 0..1 : waiting[f][k] > 0
        \/ \E w \in Workers : At(w, "jobAssemble") /\ proc[w].file = f
        => \A i \in Present(f) : chunks[f][i].data # Null

(* A file that was deleted does not come back.                             *)
DeletedStaysDeleted == \A f \in deleted : files[f].status = "absent"

(* A file in status PROCESSING is in somebody's hands, unless a call       *)
(* failed: the request that has set the status and is about to queue the   *)
(* job, the queue, or a worker.  Nothing else ever looks for such a file.  *)
ProcessingHasJob ==
    \A f \in FileIds : files[f].status = "processing" =>
        \/ faults > 0
        \/ \E s \in Slots : At(s, "enqueue") /\ proc[s].file = f
        \/ \E k \in 0..1 : waiting[f][k] > 0
        \/ \E w \in Workers : proc[w].file = f
                            /\ proc[w].at \in {"jobAssemble", "jobPublish", "jobFail"}

(* Once every chunk of a file is stored, by requests in whatever order,    *)
(* the file becomes available and stays so, unless a call fails            *)
(* (uploadChunk, processUploadedFile).                                     *)
Stored(f) == Present(f) # {} /\ Uploading(f) = {}
UploadCompletes ==
    \A f \in FileIds : Stored(f) ~> (faults > 0 \/ [](files[f].status = "available"))

(* The same in spite of a crash: "persistence of job queues ensure data    *)
(* integrity and easy recovery" (README.md:455).                           *)
UploadSurvivesCrash ==
    \A f \in FileIds : Stored(f) ~> [](files[f].status = "available")

(* A queued upload job ends with the file available or failed, also when   *)
(* the server stops under it (Bull's stalled jobs, the catch block of      *)
(* processUploadedFile).                                                   *)
QueuedJobSettles ==
    \A f \in FileIds : (\E k \in 0..1 : waiting[f][k] > 0)
        ~> files[f].status \in {"available", "failed"}

=============================================================================
