-------------------------- MODULE ProcessingProofs --------------------------
(***************************************************************************)
(* As long as clients only create, upload and download, a file in status   *)
(* PROCESSING is in somebody's hands.  A PATCH or a DELETE in flight       *)
(* breaks that, as the README shows: a PATCH saves PROCESSING from a stale *)
(* row over the AVAILABLE the worker has written, and after a DELETE of    *)
(* the chunk rows the catch block of the worker may fail to save.          *)
(***************************************************************************)
EXTENDS StoreProofs

OnlyUploads == "update" \notin Ops /\ "remove" \notin Ops

(* What a handler that is in state r goes by is true of the chunk rows c:  *)
(* the row it is about to fill exists, and the worker's copy of the file   *)
(* knows all chunks there are, so that saving it succeeds.                 *)
FreshOK(c, r) ==
    /\ r.at \notin {"update", "removeChunks", "removeFile"}
    /\ r.at = "saveChunk" => c[r.file][r.index].status # "absent"
    /\ r.at \in {"jobAssemble", "jobPublish", "jobReplicate", "jobFail"} =>
          \A i \in Indices : c[r.file][i].status # "absent" => i \in r.known
    /\ r.at = "jobPublish" => r.row.status = "available"

Fresh == \A p \in Procs : FreshOK(chunks, proc[p])

(* A handler in state r holds file f, should f be PROCESSING. *)
Holds(r, f) ==
    r.file = f /\ r.at \in {"enqueue", "jobAssemble", "jobPublish", "jobFail"}

InHands(f) ==
    \/ faults > 0
    \/ \E k \in 0..1 : waiting[f][k] > 0
    \/ \E p \in Procs : Holds(proc[p], f)

Processed == \A f \in FileIds : files[f].status = "processing" => InHands(f)

PInv == IInv /\ Fresh /\ Processed

-----------------------------------------------------------------------------
(* Fresh *)

LEMMA FreshMove ==
    ASSUME IInv, Fresh, NEW p \in Procs, NEW r, proc' = [proc EXCEPT ![p] = r],
           FreshOK(chunks', r),
           \A q \in Procs \ {p} : FreshOK(chunks, proc[q]) => FreshOK(chunks', proc[q])
    PROVE  Fresh'
<1>1. proc'[p] = r /\ \A q \in Procs \ {p} : proc'[q] = proc[q]
    BY DEF IInv, TypeOK, HandlersOK
<1>2. \A q \in Procs \ {p} : FreshOK(chunks', proc'[q])
    BY <1>1 DEF Fresh
<1> QED BY <1>1, <1>2 DEF Fresh

LEMMA FreshIdle == ASSUME NEW c PROVE FreshOK(c, Idle)
BY DEF FreshOK, Idle

(* The chunk rows stay. *)
LEMMA FreshQuiet ==
    ASSUME IInv, Fresh, NEW p \in Procs, NEW r, proc' = [proc EXCEPT ![p] = r],
           FreshOK(chunks, r), chunks' = chunks
    PROVE  Fresh'
BY FreshMove

(* Only steps of the worker itself lead into its try block. *)
LEMMA FreshGoto ==
    ASSUME IInv, Fresh, NEW p \in Procs, NEW step, proc[p].at # "idle", Goto(p, step),
           chunks' = chunks,
           step \notin {"update", "removeChunks", "removeFile", "saveChunk",
                        "jobAssemble", "jobPublish"},
           step \in {"jobReplicate", "jobFail"} =>
              proc[p].at \in {"jobAssemble", "jobPublish", "jobReplicate"}
    PROVE  Fresh'
<1> DEFINE r == [proc[p] EXCEPT !.at = step]
<1>1. proc' = [proc EXCEPT ![p] = r] /\ proc[p] \in Process
    BY Working
<1>2. FreshOK(chunks, proc[p])
    BY DEF Fresh
<1>3. r.at = step /\ r.file = proc[p].file /\ r.known = proc[p].known
    BY <1>1 DEF Process
<1>4. FreshOK(chunks, r)
    BY <1>2, <1>3 DEF FreshOK
<1> HIDE DEF r
<1> QED BY <1>1, <1>4, FreshQuiet

LEMMA FreshFinish ==
    ASSUME IInv, Fresh, NEW p \in Procs, Finish(p), chunks' = chunks
    PROVE  Fresh'
BY FreshIdle, FreshQuiet DEF Finish

LEMMA CreateChunksFresh ==
    ASSUME FilesAssumption, IInv, Fresh, NEW s \in Slots, CreateChunks(s)
    PROVE  Fresh'
<1> DEFINE f == proc[s].file
<1>1. s \in Procs /\ proc[s].at = "createChunks" /\ s \notin Workers
    BY FilesAssumption DEF CreateChunks, At, Procs, FilesAssumption
<1>2. f \in FileIds
    BY <1>1, Working
<1>3. Unsettled(f)
    BY <1>1 DEF Unsettled, Creating, At
<1>4. /\ \A g \in FileIds \ {f} : chunks'[g] = chunks[g]
      /\ \A i \in Indices : chunks[f][i].status # "absent" => chunks'[f][i].status # "absent"
    <2>1. CASE InsertChunksOk(f, proc[s].known)
        <3> DEFINE new == [i \in Indices |->
                             IF i \in proc[s].known
                             THEN [status |-> "uploading", data |-> Null]
                             ELSE chunks[f][i]]
        <3>1. chunks' = [chunks EXCEPT ![f] = new]
            BY <2>1 DEF CreateChunks
        <3>2. chunks'[f] = new /\ \A g \in FileIds \ {f} : chunks'[g] = chunks[g]
            BY <1>2, <3>1 DEF IInv, TypeOK, TablesOK
        <3> QED BY <3>2
    <2>2. CASE ~InsertChunksOk(f, proc[s].known)
        BY <2>2 DEF CreateChunks
    <2> QED BY <2>1, <2>2
<1>5. ASSUME NEW q \in Procs \ {s}, FreshOK(chunks, proc[q])
      PROVE  FreshOK(chunks', proc[q])
    <2>1. CASE proc[q].at \in {"jobAssemble", "jobPublish", "jobReplicate", "jobFail"}
        <3>1. q \in Workers
            BY <2>1 DEF IInv, TypeOK, HandlersOK, HandlerOK, Procs, SlotSteps
        <3>2. proc[q].file # f
            BY <1>3, <2>1, <3>1, SettledWhenWorked
        <3>3. proc[q].file \in FileIds
            BY <2>1, Working
        <3> QED BY <1>4, <1>5, <2>1, <3>2, <3>3 DEF FreshOK
    <2>2. CASE proc[q].at = "saveChunk"
        <3>1. proc[q].file \in FileIds /\ proc[q].index \in Indices
            BY <2>2 DEF IInv, TypeOK, HandlersOK, HandlerOK
        <3> QED BY <1>4, <1>5, <2>2, <3>1 DEF FreshOK
    <2>3. CASE proc[q].at \notin {"saveChunk", "jobAssemble", "jobPublish",
                                  "jobReplicate", "jobFail"}
        BY <1>5, <2>3 DEF FreshOK
    <2> QED BY <2>1, <2>2, <2>3
<1> HIDE DEF f
<1> QED BY <1>1, <1>5, FreshIdle, FreshMove DEF CreateChunks, Finish

LEMMA UploadSaveFresh ==
    ASSUME FilesAssumption, IInv, Fresh, NEW s \in Slots, UploadSave(s)
    PROVE  Fresh'
<1> DEFINE f == proc[s].file
           c == [status |-> "uploaded", data |-> proc[s].data]
           r == [proc[s] EXCEPT !.at = "count"]
<1>1. s \in Procs /\ proc[s].at = "saveChunk"
    BY DEF UploadSave, At, Procs
<1>2. f \in FileIds /\ proc[s].index \in Indices /\ proc[s] \in Process
      /\ chunks[f][proc[s].index].status # "absent"
    BY <1>1 DEF IInv, TypeOK, HandlersOK, HandlerOK, Fresh, FreshOK
<1>3. CASE files[f].status # "absent"
    <2>1. chunks' = [chunks EXCEPT ![f][proc[s].index] = c]
        BY <1>3 DEF UploadSave
    <2>2. c.status # "absent"
        OBVIOUS
    <2> HIDE DEF c
    <2>3. \A g \in FileIds, i \in Indices :
            chunks'[g][i].status # "absent" <=> chunks[g][i].status # "absent"
        BY <1>2, <2>1, <2>2 DEF IInv, TypeOK, TablesOK
    <2>4. ASSUME NEW q \in Procs \ {s}, FreshOK(chunks, proc[q])
          PROVE  FreshOK(chunks', proc[q])
        <3>1. proc[q].at # "idle" => proc[q].file \in FileIds
            BY DEF IInv, TypeOK, HandlersOK, HandlerOK
        <3>2. proc[q].at = "saveChunk" => proc[q].index \in Indices
            BY DEF IInv, TypeOK, HandlersOK, HandlerOK
        <3> QED BY <2>3, <2>4, <3>1, <3>2 DEF FreshOK
    <2>5. FreshOK(chunks', r)
        BY <1>2 DEF FreshOK, Process
    <2>6. proc' = [proc EXCEPT ![s] = r]
        BY <1>1, <1>3, Working DEF UploadSave
    <2> HIDE DEF r
    <2> QED BY <1>1, <2>4, <2>5, <2>6, FreshMove
<1>4. CASE files[f].status = "absent"
    BY <1>1, <1>4, FreshFinish DEF UploadSave
<1> QED BY <1>3, <1>4

LEMMA RequestFresh ==
    ASSUME FilesAssumption, OnlyUploads, IInv, Fresh, NEW s \in Slots,
           Request(s) \/ DownloadLoad(s)
    PROVE  Fresh'
<1>0. s \in Procs /\ chunks' = chunks
    BY DEF Procs, Request, CreateFile, UploadLoad, UpdateLoad, RemoveLoad, DownloadLoad
<1>1. CASE CreateFile(s)
    <2>1. PICK f \in FileIds \ born, n \in ChunkCounts :
            proc' = [proc EXCEPT ![s] = [Idle EXCEPT !.at = "createChunks", !.file = f,
                                            !.known = 0..(n - 1)]]
        BY <1>1 DEF CreateFile
    <2> DEFINE r == [Idle EXCEPT !.at = "createChunks", !.file = f, !.known = 0..(n - 1)]
    <2>2. r.at = "createChunks"
        BY DEF Idle
    <2> HIDE DEF r
    <2>3. FreshOK(chunks, r)
        BY <2>2 DEF FreshOK
    <2>4. proc' = [proc EXCEPT ![s] = r]
        BY <2>1 DEF r
    <2> QED BY <1>0, <2>3, <2>4, FreshQuiet
<1>2. CASE UploadLoad(s)
    <2>1. PICK f \in FileIds, i \in Indices, d \in Payloads :
            /\ chunks[f][i].status = "uploading"
            /\ proc' = [proc EXCEPT ![s] = [Idle EXCEPT !.at = "saveChunk", !.file = f,
                        !.row = files[f], !.known = Present(f), !.index = i, !.data = d]]
        BY <1>2 DEF UploadLoad
    <2> DEFINE r == [Idle EXCEPT !.at = "saveChunk", !.file = f,
                        !.row = files[f], !.known = Present(f), !.index = i, !.data = d]
    <2>2. r.at = "saveChunk" /\ r.file = f /\ r.index = i
        BY DEF Idle
    <2> HIDE DEF r
    <2>3. FreshOK(chunks, r)
        BY <2>1, <2>2 DEF FreshOK
    <2>4. proc' = [proc EXCEPT ![s] = r]
        BY <2>1 DEF r
    <2> QED BY <1>0, <2>3, <2>4, FreshQuiet
<1>3. CASE DownloadLoad(s)
    <2>1. PICK f \in FileIds : Load(s, f, "assemble")
        BY <1>3 DEF DownloadLoad
    <2> DEFINE r == [Idle EXCEPT !.at = "assemble", !.file = f, !.row = files[f],
                                 !.known = Present(f)]
    <2>2. r.at = "assemble"
        BY DEF Idle
    <2>3. proc' = [proc EXCEPT ![s] = r]
        BY <2>1 DEF Load
    <2> HIDE DEF r
    <2>4. FreshOK(chunks, r)
        BY <2>2 DEF FreshOK
    <2> QED BY <1>0, <2>3, <2>4, FreshQuiet
<1>4. ~UpdateLoad(s) /\ ~RemoveLoad(s)
    BY DEF UpdateLoad, RemoveLoad, OnlyUploads
<1> QED BY <1>1, <1>2, <1>3, <1>4 DEF Request

LEMMA NotRewriting ==
    ASSUME Fresh, NEW s \in Slots
    PROVE  ~UpdateSave(s) /\ ~RemoveChunks(s) /\ ~RemoveFile(s)
BY DEF Fresh, FreshOK, UpdateSave, RemoveChunks, RemoveFile, At, Procs

LEMMA HandleFresh ==
    ASSUME FilesAssumption, IInv, Fresh, NEW s \in Slots, Handle(s) PROVE Fresh'
<1>0. s \in Procs
    BY DEF Procs
<1>1. CASE UploadCount(s)
    BY <1>0, <1>1, FreshGoto, FreshFinish DEF UploadCount, At
<1>2. CASE UploadMark(s)
    BY <1>0, <1>2, FreshGoto, FreshFinish DEF UploadMark, At
<1>3. CASE UploadEnqueue(s)
    BY <1>0, <1>3, FreshFinish DEF UploadEnqueue
<1>4. CASE DownloadAssemble(s)
    <2>1. chunks' = chunks /\ proc[s].at = "assemble" /\ proc[s] \in Process
        BY <1>0, <1>4 DEF DownloadAssemble, At, IInv, TypeOK, HandlersOK
    <2>2. CASE AssembleOk(proc[s].file, proc[s].known)
        <3> DEFINE r == [proc[s] EXCEPT !.at = "respond", !.data = Content(proc[s].file)]
        <3>1. proc' = [proc EXCEPT ![s] = r]
            BY <1>4, <2>2 DEF DownloadAssemble, IInv, TypeOK, HandlersOK
        <3>2. r.at = "respond"
            BY <2>1 DEF Process
        <3> HIDE DEF r
        <3>3. FreshOK(chunks, r)
            BY <3>2 DEF FreshOK
        <3> QED BY <1>0, <2>1, <3>1, <3>3, FreshQuiet
    <2>3. CASE ~AssembleOk(proc[s].file, proc[s].known)
        BY <1>0, <1>4, <2>3, FreshFinish DEF DownloadAssemble
    <2> QED BY <2>2, <2>3
<1>5. CASE DownloadRespond(s)
    BY <1>0, <1>5, FreshFinish DEF DownloadRespond
<1> QED
    BY <1>1, <1>2, <1>3, <1>4, <1>5, NotRewriting, CreateChunksFresh, UploadSaveFresh
    DEF Handle

LEMMA WorkFresh ==
    ASSUME FilesAssumption, IInv, Fresh, NEW w \in Workers, Work(w) PROVE Fresh'
<1>0. w \in Procs /\ chunks' = chunks
    BY DEF Procs, Work, JobStart, JobAssemble, JobPublish, JobReplicate, JobFail,
           JobFeatures, JobCompress, JobDeduplicate
<1>1. FreshOK(chunks, proc[w]) /\ proc[w] \in Process
    BY <1>0 DEF Fresh, IInv, TypeOK, HandlersOK
<1>2. CASE JobStart(w)
    <2>1. PICK f \in FileIds, stalls \in 0..1 :
            proc' = [proc EXCEPT ![w] =
                 IF files[f].status = "absent" THEN Idle
                 ELSE [Idle EXCEPT
                        !.at = IF files[f].status = "processing" THEN "jobAssemble"
                                                                 ELSE "jobFeatures",
                        !.file = f, !.row = files[f], !.known = Present(f),
                        !.stalls = stalls]]
        BY <1>2 DEF JobStart
    <2>2. CASE files[f].status = "absent"
        BY <1>0, <2>1, <2>2, FreshIdle, FreshQuiet
    <2>3. CASE files[f].status # "absent"
        <3> DEFINE r == [Idle EXCEPT
                          !.at = IF files[f].status = "processing" THEN "jobAssemble"
                                                                   ELSE "jobFeatures",
                          !.file = f, !.row = files[f], !.known = Present(f),
                          !.stalls = stalls]
        <3>1. r.at \in {"jobAssemble", "jobFeatures"} /\ r.file = f /\ r.known = Present(f)
            BY DEF Idle
        <3>2. proc' = [proc EXCEPT ![w] = r]
            BY <2>1, <2>3
        <3> HIDE DEF r
        <3>3. FreshOK(chunks, r)
            BY <3>1 DEF FreshOK, Present
        <3> QED BY <1>0, <3>2, <3>3, FreshQuiet
    <2> QED BY <2>2, <2>3
<1>3. CASE JobAssemble(w)
    <2>1. CASE AssembleOk(proc[w].file, proc[w].known)
        <3> DEFINE r == [proc[w] EXCEPT !.at = "jobPublish", !.row =
                           [@ EXCEPT !.status = "available", !.hash = Content(proc[w].file)]]
        <3>1. proc' = [proc EXCEPT ![w] = r]
            BY <1>3, <2>1 DEF JobAssemble, IInv, TypeOK, HandlersOK
        <3>2. /\ r.at = "jobPublish" /\ r.file = proc[w].file /\ r.known = proc[w].known
              /\ r.row.status = "available"
            BY <1>1 DEF Process, Row
        <3> HIDE DEF r
        <3>3. FreshOK(chunks, r)
            BY <1>1, <1>3, <3>2 DEF FreshOK, JobAssemble, At
        <3> QED BY <1>0, <3>1, <3>3, FreshQuiet
    <2>2. CASE ~AssembleOk(proc[w].file, proc[w].known)
        BY <1>0, <1>3, <2>2, FreshGoto DEF JobAssemble, At
    <2> QED BY <2>1, <2>2
<1>4. CASE JobPublish(w)
    BY <1>0, <1>4, FreshGoto DEF JobPublish, At
<1>5. CASE JobReplicate(w)
    BY <1>0, <1>5, FreshGoto DEF JobReplicate, At
<1>6. CASE JobFail(w)
    BY <1>0, <1>6, FreshFinish DEF JobFail
<1>7. CASE JobFeatures(w)
    <2> DEFINE row == files[proc[w].file]
               r == IF "compression" \in row.features
                    THEN [proc[w] EXCEPT !.at = "jobCompress", !.row = row]
                    ELSE IF "deduplication" \in row.features
                    THEN [proc[w] EXCEPT !.at = "jobDeduplicate", !.row = row]
                    ELSE Idle
    <2>1. proc' = [proc EXCEPT ![w] = r]
        BY <1>7 DEF JobFeatures, IInv, TypeOK, HandlersOK
    <2>2. r.at \in {"jobCompress", "jobDeduplicate", "idle"}
        BY <1>1 DEF Process, Idle
    <2> HIDE DEF r
    <2>3. FreshOK(chunks, r)
        BY <2>2 DEF FreshOK
    <2> QED BY <1>0, <2>1, <2>3, FreshQuiet
<1>8. CASE JobCompress(w)
    BY <1>0, <1>8, FreshGoto, FreshFinish DEF JobCompress, At
<1>9. CASE JobDeduplicate(w)
    BY <1>0, <1>9, FreshFinish DEF JobDeduplicate
<1> QED
    BY <1>2, <1>3, <1>4, <1>5, <1>6, <1>7, <1>8, <1>9 DEF Work

LEMMA StepFresh ==
    ASSUME FilesAssumption, OnlyUploads, IInv, Fresh, [Next]_vars PROVE Fresh'
<1>1. ASSUME NEW p \in Procs, CallFails(p) PROVE Fresh'
    BY <1>1, FreshGoto, FreshFinish DEF CallFails, At
<1>2. CASE Crash
    <2>1. \A p \in Procs : proc'[p] = Idle
        BY <1>2 DEF Crash
    <2> QED BY <2>1, FreshIdle DEF Fresh
<1>3. CASE UNCHANGED vars
    BY <1>3 DEF vars, Fresh
<1> QED
    BY <1>1, <1>2, <1>3, RequestFresh, HandleFresh, WorkFresh DEF Next, Step

-----------------------------------------------------------------------------
(* Processed *)

(* A handler moves that does not let go of a file that stays PROCESSING,   *)
(* and no file becomes PROCESSING.                                         *)
LEMMA ProcessedMove ==
    ASSUME IInv, Processed, NEW p \in Procs, NEW r, proc' = [proc EXCEPT ![p] = r],
           faults' = faults,
           \A f \in FileIds, k \in 0..1 : waiting[f][k] > 0 => waiting'[f][k] > 0,
           \A f \in FileIds : files'[f].status = "processing" =>
              files[f].status = "processing" /\ (Holds(proc[p], f) => Holds(r, f))
    PROVE  Processed'
<1> SUFFICES ASSUME NEW f \in FileIds, files'[f].status = "processing"
             PROVE  InHands(f)'
    BY DEF Processed
<1>1. InHands(f)
    BY DEF Processed
<1>2. proc'[p] = r /\ \A q \in Procs \ {p} : proc'[q] = proc[q]
    BY DEF IInv, TypeOK, HandlersOK
<1>3. \A q \in Procs : Holds(proc[q], f) => Holds(proc'[q], f)
    BY <1>2
<1> QED BY <1>1, <1>3 DEF InHands

(* The tables stay, and the handler holds nothing, or goes on holding it. *)
LEMMA ProcessedQuiet ==
    ASSUME IInv, Processed, NEW p \in Procs, NEW r, proc' = [proc EXCEPT ![p] = r],
           UNCHANGED <<files, waiting, faults>>,
           \A f \in FileIds : Holds(proc[p], f) => Holds(r, f)
    PROVE  Processed'
BY ProcessedMove

LEMMA ProcessedGoto ==
    ASSUME IInv, Processed, NEW p \in Procs, NEW step, proc[p].at # "idle", Goto(p, step),
           UNCHANGED <<files, waiting, faults>>,
           \/ proc[p].at \notin {"enqueue", "jobAssemble", "jobPublish", "jobFail"}
           \/ step \in {"jobPublish", "jobFail"}
    PROVE  Processed'
<1> DEFINE r == [proc[p] EXCEPT !.at = step]
<1>1. proc' = [proc EXCEPT ![p] = r] /\ proc[p] \in Process
    BY Working
<1>2. r.at = step /\ r.file = proc[p].file
    BY <1>1 DEF Process
<1> HIDE DEF r
<1>3. \A f \in FileIds : Holds(proc[p], f) => Holds(r, f)
    BY <1>2 DEF Holds
<1> QED BY <1>1, <1>3, ProcessedQuiet

LEMMA ProcessedFinish ==
    ASSUME IInv, Processed, NEW p \in Procs, Finish(p),
           UNCHANGED <<files, waiting, faults>>,
           proc[p].at \notin {"enqueue", "jobAssemble", "jobPublish", "jobFail"}
    PROVE  Processed'
BY ProcessedQuiet DEF Finish, Holds

LEMMA RequestProcessed ==
    ASSUME FilesAssumption, IInv, Processed, NEW s \in Slots,
           Request(s) \/ DownloadLoad(s)
    PROVE  Processed'
<1>1. s \in Procs /\ proc[s].at = "idle" /\ waiting' = waiting /\ faults' = faults
    BY DEF Procs, Request, CreateFile, UploadLoad, UpdateLoad, RemoveLoad, DownloadLoad, At
<1>2. \A f \in FileIds : ~Holds(proc[s], f)
    BY <1>1 DEF Holds
<1>3. CASE CreateFile(s)
    <2>1. PICK f \in FileIds \ born, n \in ChunkCounts, features \in SUBSET Features :
            /\ SaveFile(f, [status |-> "uploading", hash |-> Null,
                            regions |-> <<DefaultRegion>>, features |-> features])
            /\ proc' = [proc EXCEPT ![s] = [Idle EXCEPT !.at = "createChunks", !.file = f,
                                               !.known = 0..(n - 1)]]
        BY <1>3 DEF CreateFile
    <2>2. /\ files'[f].status = "uploading"
          /\ \A g \in FileIds \ {f} : files'[g] = files[g]
        BY <2>1 DEF SaveFile, IInv, TypeOK, TablesOK
    <2>3. \A g \in FileIds : files'[g].status = "processing" =>
            files[g].status = "processing" /\ ~Holds(proc[s], g)
        BY <1>2, <2>2
    <2>4. PICK r : proc' = [proc EXCEPT ![s] = r]
        BY <2>1
    <2> QED BY <1>1, <2>3, <2>4, ProcessedMove
<1>4. CASE files' = files /\ \E r : proc' = [proc EXCEPT ![s] = r]
    BY <1>1, <1>2, <1>4, ProcessedQuiet
<1> QED
    BY <1>3, <1>4 DEF Request, UploadLoad, UpdateLoad, RemoveLoad, DownloadLoad, Load

LEMMA HandleProcessed ==
    ASSUME FilesAssumption, IInv, Fresh, Processed, NEW s \in Slots, Handle(s)
    PROVE  Processed'
<1>0. s \in Procs
    BY DEF Procs
<1>1. CASE CreateChunks(s)
    BY <1>0, <1>1, ProcessedFinish DEF CreateChunks, At
<1>2. CASE UploadSave(s)
    BY <1>0, <1>2, ProcessedGoto, ProcessedFinish DEF UploadSave, At
<1>3. CASE UploadCount(s)
    BY <1>0, <1>3, ProcessedGoto, ProcessedFinish DEF UploadCount, At
<1>4. CASE UploadMark(s)
    <2> DEFINE f == proc[s].file
    <2>1. proc[s].at = "mark" /\ waiting' = waiting /\ faults' = faults
        BY <1>4 DEF UploadMark, At
    <2>2. f \in FileIds /\ proc[s] \in Process
        BY <1>0, <2>1, Working
    <2>3. CASE SaveFileOk(f, proc[s].known)
        <3>1. /\ \A g \in FileIds \ {f} : files'[g] = files[g]
              /\ Goto(s, "enqueue")
            BY <1>4, <2>2, <2>3 DEF UploadMark, SaveFile, IInv, TypeOK, TablesOK
        <3>2. proc'[s] = [proc[s] EXCEPT !.at = "enqueue"]
              /\ \A q \in Procs \ {s} : proc'[q] = proc[q]
            BY <1>0, <3>1 DEF Goto, IInv, TypeOK, HandlersOK
        <3>3. Holds(proc'[s], f)
            BY <2>2, <3>2 DEF Holds, Process
        <3>4. \A q \in Procs, g \in FileIds : Holds(proc[q], g) => Holds(proc'[q], g)
            BY <2>1, <3>2 DEF Holds
        <3> HIDE DEF f
        <3> QED BY <1>0, <2>1, <3>1, <3>3, <3>4 DEF Processed, InHands
    <2>4. CASE ~SaveFileOk(f, proc[s].known)
        BY <1>0, <1>4, <2>1, <2>4, ProcessedFinish DEF UploadMark
    <2> QED BY <2>3, <2>4
<1>5. CASE UploadEnqueue(s)
    <2> DEFINE f == proc[s].file
    <2>1. proc[s].at = "enqueue" /\ files' = files /\ faults' = faults
        BY <1>5 DEF UploadEnqueue, At
    <2>2. f \in FileIds
        BY <1>0, <2>1, Working
    <2>3. waiting'[f][0] > 0 /\ \A g \in FileIds, k \in 0..1 :
            waiting[g][k] > 0 => waiting'[g][k] > 0
        BY <1>5, <2>2 DEF UploadEnqueue, Enqueue, IInv, TypeOK, TablesOK
    <2>4. \A q \in Procs \ {s} : proc'[q] = proc[q]
        BY <1>5 DEF UploadEnqueue, Finish, IInv, TypeOK, HandlersOK
    <2>5. \A g \in FileIds : Holds(proc[s], g) => g = f
        BY DEF Holds
    <2> HIDE DEF f
    <2> QED BY <2>1, <2>2, <2>3, <2>4, <2>5 DEF Processed, InHands
<1>6. CASE DownloadAssemble(s)
    <2>1. proc[s].at = "assemble"
        BY <1>6 DEF DownloadAssemble, At
    <2>2. \A f \in FileIds : ~Holds(proc[s], f)
        BY <2>1 DEF Holds
    <2>3. \E r : proc' = [proc EXCEPT ![s] = r]
        BY <1>6 DEF DownloadAssemble, Finish, IInv, TypeOK, HandlersOK
    <2> QED BY <1>0, <1>6, <2>2, <2>3, ProcessedQuiet DEF DownloadAssemble
<1>7. CASE DownloadRespond(s)
    BY <1>0, <1>7, ProcessedFinish DEF DownloadRespond, At
<1> QED
    BY <1>1, <1>2, <1>3, <1>4, <1>5, <1>6, <1>7, NotRewriting DEF Handle

(* The worker lets go of a file only when it has saved another status: it  *)
(* knows all chunks, so the save succeeds.                                 *)
LEMMA WorkProcessed ==
    ASSUME FilesAssumption, IInv, Fresh, Processed, NEW w \in Workers, Work(w)
    PROVE  Processed'
<1>0. w \in Procs
    BY DEF Procs
<1>1. FreshOK(chunks, proc[w]) /\ proc[w] \in Process
    BY <1>0 DEF Fresh, IInv, TypeOK, HandlersOK
<1>2. CASE JobStart(w)
    <2>1. PICK f \in FileIds, stalls \in 0..1 :
            /\ waiting[f][stalls] > 0
            /\ waiting' = [waiting EXCEPT ![f][stalls] = @ - 1]
            /\ proc' = [proc EXCEPT ![w] =
                 IF files[f].status = "absent" THEN Idle
                 ELSE [Idle EXCEPT
                        !.at = IF files[f].status = "processing" THEN "jobAssemble"
                                                                 ELSE "jobFeatures",
                        !.file = f, !.row = files[f], !.known = Present(f),
                        !.stalls = stalls]]
        BY <1>2 DEF JobStart
    <2>2. files' = files /\ faults' = faults /\ proc[w].at = "idle"
        BY <1>2 DEF JobStart, At
    <2>3. \A g \in FileIds \ {f} : waiting'[g] = waiting[g]
        BY <2>1 DEF IInv, TypeOK, TablesOK
    <2>4. \A q \in Procs \ {w} : proc'[q] = proc[q]
        BY <2>1 DEF IInv, TypeOK, HandlersOK
    <2>5. \A q \in Procs, g \in FileIds : Holds(proc[q], g) => Holds(proc'[q], g)
        BY <2>2, <2>4 DEF Holds
    <2>6. ASSUME files[f].status = "processing" PROVE Holds(proc'[w], f)
        <3> DEFINE r == [Idle EXCEPT !.at = "jobAssemble", !.file = f, !.row = files[f],
                                     !.known = Present(f), !.stalls = stalls]
        <3>1. Holds(r, f)
            BY DEF Holds, Idle
        <3>2. proc'[w] = r
            BY <1>0, <2>1, <2>6 DEF IInv, TypeOK, HandlersOK
        <3> HIDE DEF r
        <3> QED BY <3>1, <3>2
    <2> QED BY <1>0, <2>2, <2>3, <2>5, <2>6 DEF Processed, InHands
<1>3. CASE JobAssemble(w)
    <2>1. UNCHANGED <<files, waiting, faults>> /\ proc[w].at = "jobAssemble"
        BY <1>3 DEF JobAssemble, At
    <2>2. CASE AssembleOk(proc[w].file, proc[w].known)
        <3> DEFINE r == [proc[w] EXCEPT !.at = "jobPublish", !.row =
                           [@ EXCEPT !.status = "available", !.hash = Content(proc[w].file)]]
        <3>1. proc' = [proc EXCEPT ![w] = r]
            BY <1>3, <2>2 DEF JobAssemble, IInv, TypeOK, HandlersOK
        <3>2. r.at = "jobPublish" /\ r.file = proc[w].file
            BY <1>1 DEF Process
        <3> HIDE DEF r
        <3>3. \A f \in FileIds : Holds(proc[w], f) => Holds(r, f)
            BY <3>2 DEF Holds
        <3> QED BY <1>0, <2>1, <3>1, <3>3, ProcessedQuiet
    <2>3. CASE ~AssembleOk(proc[w].file, proc[w].known)
        BY <1>0, <1>3, <2>1, <2>3, ProcessedGoto DEF JobAssemble
    <2> QED BY <2>2, <2>3
<1>4. ASSUME NEW status \in {"available", "failed"}, NEW row, row.status = status,
             proc[w].at \in {"jobPublish", "jobFail"},
             SaveFileOk(proc[w].file, proc[w].known) => SaveFile(proc[w].file, row),
             NEW r, proc' = [proc EXCEPT ![w] = r],
             waiting' = waiting, faults' = faults
      PROVE  Processed'
    <2>1. proc[w].file \in FileIds
        BY <1>0, <1>4, Working
    <2>2. SaveFileOk(proc[w].file, proc[w].known)
        BY <1>1, <1>4 DEF SaveFileOk, FreshOK, Present
    <2>3. /\ files'[proc[w].file] = row
          /\ \A g \in FileIds \ {proc[w].file} : files'[g] = files[g]
        BY <1>4, <2>1, <2>2 DEF SaveFile, IInv, TypeOK, TablesOK
    <2>4. \A g \in FileIds : files'[g].status = "processing" =>
            files[g].status = "processing" /\ ~Holds(proc[w], g)
        BY <1>4, <2>3 DEF Holds
    <2> QED BY <1>0, <1>4, <2>4, ProcessedMove
<1>5. CASE JobPublish(w)
    <2>1. proc[w].at = "jobPublish" /\ proc[w].row.status = "available"
        BY <1>1, <1>5 DEF JobPublish, At, FreshOK
    <2>2. PICK step : Goto(w, step)
        BY <1>5 DEF JobPublish
    <2>3. PICK r : proc' = [proc EXCEPT ![w] = r]
        BY <1>0, <2>1, <2>2, Working
    <2> QED BY <1>4, <1>5, <2>1, <2>3 DEF JobPublish
<1>6. CASE JobFail(w)
    <2> DEFINE row == [proc[w].row EXCEPT !.status = "failed"]
    <2>1. proc[w].at = "jobFail" /\ row.status = "failed"
        BY <1>1, <1>6 DEF JobFail, At, Process, Row
    <2>2. SaveFileOk(proc[w].file, proc[w].known) => SaveFile(proc[w].file, row)
        BY <1>6 DEF JobFail
    <2> HIDE DEF row
    <2> QED BY <1>4, <1>6, <2>1, <2>2 DEF JobFail, Finish
<1>7. CASE JobReplicate(w)
    BY <1>0, <1>7, ProcessedGoto DEF JobReplicate, At
<1>8. CASE JobFeatures(w)
    <2>1. proc[w].at = "jobFeatures" /\ UNCHANGED <<files, waiting, faults>>
        BY <1>8 DEF JobFeatures, At
    <2>2. \E r : proc' = [proc EXCEPT ![w] = r]
        BY <1>8 DEF JobFeatures, IInv, TypeOK, HandlersOK
    <2>3. \A f \in FileIds : ~Holds(proc[w], f)
        BY <2>1 DEF Holds
    <2> QED BY <1>0, <2>1, <2>2, <2>3, ProcessedQuiet
<1>9. CASE JobCompress(w)
    BY <1>0, <1>9, ProcessedGoto, ProcessedFinish DEF JobCompress, At
<1>10. CASE JobDeduplicate(w)
    BY <1>0, <1>10, ProcessedFinish DEF JobDeduplicate, At
<1> QED
    BY <1>2, <1>3, <1>5, <1>6, <1>7, <1>8, <1>9, <1>10 DEF Work

LEMMA StepProcessed ==
    ASSUME FilesAssumption, IInv, Fresh, Processed, [Next]_vars PROVE Processed'
<1>1. ASSUME \/ \E p \in Procs : CallFails(p)
             \/ Crash
      PROVE  Processed'
    <2>1. faults' = faults + 1 /\ faults \in Nat
        BY <1>1 DEF CallFails, Crash, IInv, TypeOK, TablesOK
    <2> QED BY <2>1 DEF Processed, InHands
<1>2. CASE UNCHANGED vars
    BY <1>2 DEF vars, Processed, InHands
<1> QED
    BY <1>1, <1>2, RequestProcessed, HandleProcessed, WorkProcessed DEF Next, Step

LEMMA InHandsIsJob == ASSUME IInv, Processed PROVE ProcessingHasJob
<1> SUFFICES ASSUME NEW f \in FileIds, NEW p \in Procs, Holds(proc[p], f)
             PROVE  \/ \E s \in Slots : At(s, "enqueue") /\ proc[s].file = f
                    \/ \E w \in Workers : /\ proc[w].file = f
                                         /\ proc[w].at \in {"jobAssemble", "jobPublish", "jobFail"}
    BY DEF Processed, InHands, ProcessingHasJob
<1>1. CASE p \in Slots
    BY <1>1 DEF Holds, At, IInv, TypeOK, HandlersOK, HandlerOK, SlotSteps
<1>2. CASE p \in Workers
    BY <1>2 DEF Holds, At, IInv, TypeOK, HandlersOK, HandlerOK, JobSteps
<1> QED BY <1>1, <1>2 DEF Procs

LEMMA InitProcessed == ASSUME FilesAssumption, Init PROVE PInv
<1>1. IInv
    BY InitIInv
<1>2. Fresh
    BY FreshIdle DEF Init, Fresh
<1>3. \A f \in FileIds : files[f].status = "absent"
    BY DEF Init, NoRow
<1> QED BY <1>1, <1>2, <1>3 DEF PInv, Processed

(* Whatever the uploads and the worker do, and in whatever order, a file   *)
(* whose status is PROCESSING is about to be queued, queued, or being      *)
(* worked on, or a call has failed (uploadChunk, processUploadedFile).     *)
THEOREM ProcessingIsHandled ==
    ASSUME FilesAssumption, OnlyUploads PROVE Spec => []ProcessingHasJob
<1>1. PInv /\ [Next]_vars => PInv'
    BY StepIInv, StepFresh, StepProcessed DEF PInv
<1>2. PInv => ProcessingHasJob
    BY InHandsIsJob DEF PInv
<1> QED BY <1>1, <1>2, InitProcessed, PTL DEF Spec

(* The same with signed URLs (generateSignedUrl, getFileBySignedUrl).      *)
THEOREM ProcessingIsHandledWithUrls ==
    ASSUME FilesAssumption, OnlyUploads PROVE DownloadsSpec => []ProcessingHasJob
BY ProcessingIsHandled, UrlsLeaveFiles DEF FairSpec

=============================================================================
