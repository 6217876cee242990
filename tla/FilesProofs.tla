----------------------------- MODULE FilesProofs -----------------------------
(***************************************************************************)
(* Proofs about Files, for any sets of files, requests, workers, chunk     *)
(* indices and payloads, any requests sent by the clients, and any number  *)
(* of crashes and failed calls.                                            *)
(***************************************************************************)
EXTENDS Files, TLAPS, FiniteSetTheorems

(* What assembleFileFromChunks returns is a content. *)
LEMMA ContentType ==
    ASSUME TypeOK, NEW f \in FileIds, \A i \in Present(f) : chunks[f][i].data # Null
    PROVE  Content(f) \in Contents
<1>1. Present(f) \in SUBSET Indices
    BY DEF Present
<1>2. \A i \in Present(f) : chunks[f][i].data \in Payloads
    BY DEF TypeOK, TablesOK, Present, Chunk
<1>3. Content(f) \in [Present(f) -> Payloads]
    BY <1>2 DEF Content
<1> QED BY <1>1, <1>3 DEF Contents

(* Idle and the snapshot findOne takes are handler states. *)
LEMMA LoadType ==
    ASSUME TypeOK, NEW f \in FileIds
    PROVE  Present(f) \in SUBSET Indices /\ files[f] \in Row
BY DEF TypeOK, TablesOK, Present

LEMMA IdleType == Idle \in Process /\ NoRow \in Row
BY DEF Idle, Process, NoRow, Row

LEMMA InitType == Init => TypeOK
<1> SUFFICES ASSUME Init PROVE TypeOK
    OBVIOUS
<1>1. NoChunk \in Chunk
    BY DEF NoChunk, Chunk
<1>2. Idle.at = "idle"
    BY DEF Idle
<1> QED BY <1>1, <1>2, IdleType
    DEF Init, TypeOK, TablesOK, HandlersOK, HandlerOK, Idle, Procs

(* One handler moves: its new state has the shape that TypeOK asks for. *)

LEMMA MoveOne ==
    ASSUME HandlersOK, NEW p \in Procs, NEW r, HandlerOK(p, r),
           proc' = [proc EXCEPT ![p] = r]
    PROVE  HandlersOK'
BY DEF HandlersOK, HandlerOK

LEMMA FinishOK ==
    ASSUME HandlersOK, NEW p \in Procs, Finish(p)
    PROVE  HandlersOK'
<1>1. HandlerOK(p, Idle)
    BY IdleType DEF HandlerOK, Idle
<1> QED BY <1>1, MoveOne DEF Finish

LEMMA GotoOK ==
    ASSUME HandlersOK, NEW p \in Procs, NEW step, Goto(p, step), proc[p].at # "idle",
           p \in Slots => step \in SlotSteps, p \in Workers => step \in JobSteps,
           step # "saveChunk"
    PROVE  HandlersOK'
<1> DEFINE r == [proc[p] EXCEPT !.at = step]
<1>1. proc' = [proc EXCEPT ![p] = r]
    BY DEF Goto, HandlersOK
<1>2. HandlerOK(p, r)
    BY DEF HandlersOK, HandlerOK, Process, Procs, SlotSteps, JobSteps
<1> HIDE DEF r
<1> QED BY <1>1, <1>2, MoveOne

(* Each action keeps TypeOK; the requests first.                           *)

LEMMA CreateFileType ==
    ASSUME FilesAssumption, TypeOK, NEW s \in Slots, CreateFile(s) PROVE TypeOK'
<1>1. PICK f \in FileIds \ born, n \in ChunkCounts, features \in SUBSET Features :
        /\ SaveFile(f, [status |-> "uploading", hash |-> Null,
                        regions |-> <<DefaultRegion>>, features |-> features])
        /\ born' = born \cup {f}
        /\ proc' = [proc EXCEPT ![s] = [Idle EXCEPT !.at = "createChunks", !.file = f,
                                           !.known = 0..(n - 1)]]
    BY DEF CreateFile
<1>2. [status |-> "uploading", hash |-> Null,
       regions |-> <<DefaultRegion>>, features |-> features] \in Row
    BY FilesAssumption DEF Row, FilesAssumption, FileStatus
<1>3. HandlerOK(s, [Idle EXCEPT !.at = "createChunks", !.file = f, !.known = 0..(n - 1)])
    BY FilesAssumption, IdleType
    DEF FilesAssumption, HandlerOK, Idle, Process, SlotSteps, JobSteps
<1>4. HandlersOK'
    BY <1>1, <1>3, MoveOne DEF Procs, TypeOK
<1> QED
    BY <1>1, <1>2, <1>4 DEF CreateFile, SaveFile, TypeOK, TablesOK

LEMMA LoadOK ==
    ASSUME TypeOK, NEW p \in Procs, NEW f \in FileIds, NEW step, Load(p, f, step),
           p \in Slots => step \in SlotSteps, p \in Workers => step \in JobSteps,
           step # "saveChunk"
    PROVE  HandlersOK'
<1> DEFINE r == [Idle EXCEPT !.at = step, !.file = f, !.row = files[f], !.known = Present(f)]
<1>1. HandlerOK(p, r)
    BY IdleType, LoadType DEF HandlerOK, Idle, Process, Procs, SlotSteps, JobSteps
<1> QED BY <1>1, MoveOne DEF Load, TypeOK

LEMMA UploadLoadType ==
    ASSUME FilesAssumption, TypeOK, NEW s \in Slots, UploadLoad(s) PROVE TypeOK'
<1>1. PICK f \in FileIds, i \in Indices, d \in Payloads :
        proc' = [proc EXCEPT ![s] = [Idle EXCEPT !.at = "saveChunk", !.file = f,
                    !.row = files[f], !.known = Present(f), !.index = i, !.data = d]]
    BY DEF UploadLoad
<1>2. HandlerOK(s, [Idle EXCEPT !.at = "saveChunk", !.file = f, !.row = files[f],
                       !.known = Present(f), !.index = i, !.data = d])
    BY FilesAssumption, IdleType, LoadType
    DEF FilesAssumption, HandlerOK, Idle, Process, SlotSteps, JobSteps
<1>3. HandlersOK'
    BY <1>1, <1>2, MoveOne DEF Procs, TypeOK
<1> QED BY <1>3 DEF UploadLoad, TypeOK, TablesOK

LEMMA PatchedType ==
    ASSUME NEW row \in Row, NEW patch \in Patches, FilesAssumption
    PROVE  Patched(row, patch) \in Row
BY FilesAssumption DEF FilesAssumption, Patched, Row

LEMMA UpdateLoadType ==
    ASSUME FilesAssumption, TypeOK, NEW s \in Slots, UpdateLoad(s) PROVE TypeOK'
<1>1. PICK f \in FileIds, patch \in Patches :
        proc' = [proc EXCEPT ![s] = [Idle EXCEPT !.at = "update", !.file = f,
                    !.row = Patched(files[f], patch), !.known = Present(f)]]
    BY DEF UpdateLoad
<1>2. HandlerOK(s, [Idle EXCEPT !.at = "update", !.file = f,
                       !.row = Patched(files[f], patch), !.known = Present(f)])
    BY FilesAssumption, IdleType, LoadType, PatchedType
    DEF FilesAssumption, HandlerOK, Idle, Process, SlotSteps, JobSteps
<1>3. HandlersOK'
    BY <1>1, <1>2, MoveOne DEF Procs, TypeOK
<1> QED BY <1>3 DEF UpdateLoad, TypeOK, TablesOK

LEMMA RequestType ==
    ASSUME FilesAssumption, TypeOK, NEW s \in Slots, Request(s) \/ DownloadLoad(s)
    PROVE  TypeOK'
<1>1. CASE RemoveLoad(s)
    <2>1. HandlersOK'
        BY <1>1, LoadOK, FilesAssumption
        DEF RemoveLoad, Procs, SlotSteps, JobSteps, FilesAssumption
    <2> QED BY <1>1, <2>1 DEF RemoveLoad, TypeOK, TablesOK
<1>2. CASE DownloadLoad(s)
    <2>1. HandlersOK'
        BY <1>2, LoadOK, FilesAssumption
        DEF DownloadLoad, Procs, SlotSteps, JobSteps, FilesAssumption
    <2> QED BY <1>2, <2>1 DEF DownloadLoad, TypeOK, TablesOK
<1> QED
    BY <1>1, <1>2, CreateFileType, UploadLoadType, UpdateLoadType DEF Request

(* The steps of the request handlers. *)

LEMMA HandleType ==
    ASSUME FilesAssumption, TypeOK, NEW s \in Slots, Handle(s) PROVE TypeOK'
<1> USE DEF At
<1>0. /\ s \in Procs /\ s \notin Workers
      /\ proc[s].at # "idle" => proc[s].file \in FileIds
      /\ proc[s] \in Process
      /\ proc[s].at = "saveChunk" => proc[s].index \in Indices /\ proc[s].data \in Payloads
    BY FilesAssumption DEF FilesAssumption, Procs, TypeOK, HandlersOK, HandlerOK
<1>1. CASE CreateChunks(s)
    <2>1. HandlersOK'
        BY <1>0, <1>1, FinishOK DEF CreateChunks, TypeOK
    <2>2. [status |-> "uploading", data |-> Null] \in Chunk
        BY DEF Chunk
    <2>3. chunks' \in [FileIds -> [Indices -> Chunk]]
        <3>1. CASE InsertChunksOk(proc[s].file, proc[s].known)
            <4> DEFINE f == proc[s].file
                       new == [i \in Indices |->
                                 IF i \in proc[s].known
                                 THEN [status |-> "uploading", data |-> Null]
                                 ELSE chunks[f][i]]
            <4>1. f \in FileIds
                BY <1>0, <1>1 DEF CreateChunks
            <4>2. new \in [Indices -> Chunk]
                BY <2>2, <4>1 DEF TypeOK, TablesOK
            <4>3. chunks' = [chunks EXCEPT ![f] = new]
                BY <1>1, <3>1 DEF CreateChunks
            <4> HIDE DEF new
            <4> QED BY <4>1, <4>2, <4>3 DEF TypeOK, TablesOK
        <3>2. CASE ~InsertChunksOk(proc[s].file, proc[s].known)
            BY <1>1, <3>2 DEF CreateChunks, TypeOK, TablesOK
        <3> QED BY <3>1, <3>2
    <2> QED BY <1>1, <2>1, <2>3 DEF CreateChunks, TypeOK, TablesOK
<1>2. CASE UploadSave(s)
    <2>1. HandlersOK'
        BY <1>0, <1>2, FinishOK, GotoOK DEF UploadSave, TypeOK, SlotSteps
    <2>2. [status |-> "uploaded", data |-> proc[s].data] \in Chunk
        BY <1>0, <1>2 DEF UploadSave, Chunk
    <2>3. chunks' \in [FileIds -> [Indices -> Chunk]]
        <3>1. CASE files[proc[s].file].status # "absent"
            <4> DEFINE f == proc[s].file
                       c == [status |-> "uploaded", data |-> proc[s].data]
            <4>1. f \in FileIds /\ proc[s].index \in Indices
                BY <1>0, <1>2 DEF UploadSave
            <4>2. chunks' = [chunks EXCEPT ![f][proc[s].index] = c]
                BY <1>2, <3>1 DEF UploadSave
            <4> HIDE DEF c
            <4>3. c \in Chunk
                BY <2>2 DEF c
            <4> QED BY <4>1, <4>2, <4>3 DEF TypeOK, TablesOK
        <3>2. CASE files[proc[s].file].status = "absent"
            BY <1>2, <3>2 DEF UploadSave, TypeOK, TablesOK
        <3> QED BY <3>1, <3>2
    <2> QED BY <1>2, <2>1, <2>3 DEF UploadSave, TypeOK, TablesOK
<1>3. CASE UploadCount(s)
    <2>1. HandlersOK'
        BY <1>0, <1>3, FinishOK, GotoOK DEF UploadCount, TypeOK, SlotSteps
    <2> QED BY <1>3, <2>1 DEF UploadCount, TypeOK, TablesOK
<1>4. CASE UploadMark(s)
    <2>1. HandlersOK'
        BY <1>0, <1>4, FinishOK, GotoOK DEF UploadMark, TypeOK, SlotSteps
    <2>2. [proc[s].row EXCEPT !.status = "processing"] \in Row
        BY <1>0 DEF Process, Row, FileStatus
    <2>3. files' \in [FileIds -> Row]
        <3>1. CASE SaveFileOk(proc[s].file, proc[s].known)
            BY <1>0, <1>4, <2>2, <3>1 DEF UploadMark, SaveFile, TypeOK, TablesOK
        <3>2. CASE ~SaveFileOk(proc[s].file, proc[s].known)
            BY <1>4, <3>2 DEF UploadMark, TypeOK, TablesOK
        <3> QED BY <3>1, <3>2
    <2> QED BY <1>4, <2>1, <2>3 DEF UploadMark, TypeOK, TablesOK
<1>5. CASE UploadEnqueue(s)
    <2>1. HandlersOK'
        BY <1>0, <1>5, FinishOK DEF UploadEnqueue, TypeOK
    <2>2. waiting' \in [FileIds -> [0..1 -> Nat]]
        BY <1>0, <1>5 DEF UploadEnqueue, Enqueue, TypeOK, TablesOK
    <2> QED BY <1>5, <2>1, <2>2 DEF UploadEnqueue, TypeOK, TablesOK
<1>6. CASE UpdateSave(s)
    <2>1. HandlersOK'
        BY <1>0, <1>6, FinishOK DEF UpdateSave, TypeOK
    <2>2. proc[s].row \in Row
        BY <1>0 DEF Process
    <2> QED BY <1>0, <1>6, <2>1, <2>2 DEF UpdateSave, SaveFile, TypeOK, TablesOK
<1>7. CASE RemoveChunks(s)
    <2>1. HandlersOK'
        BY <1>0, <1>7, GotoOK DEF RemoveChunks, TypeOK, SlotSteps
    <2>2. NoChunk \in Chunk
        BY DEF NoChunk, Chunk
    <2> QED BY <1>0, <1>7, <2>1, <2>2 DEF RemoveChunks, TypeOK, TablesOK
<1>8. CASE RemoveFile(s)
    <2>1. HandlersOK'
        BY <1>0, <1>8, FinishOK DEF RemoveFile, TypeOK
    <2>2. files' \in [FileIds -> Row] /\ deleted' \in SUBSET FileIds
        <3>1. CASE Present(proc[s].file) = {}
            <4>1. files' = [files EXCEPT ![proc[s].file] = NoRow]
                BY <1>8, <3>1 DEF RemoveFile, SaveFile
            <4>2. deleted' = deleted \cup {proc[s].file} /\ proc[s].file \in FileIds
                BY <1>0, <1>8, <3>1 DEF RemoveFile
            <4>3. files' \in [FileIds -> Row]
                BY <4>1, IdleType DEF TypeOK, TablesOK
            <4> QED BY <4>2, <4>3 DEF TypeOK, TablesOK
        <3>2. CASE Present(proc[s].file) # {}
            BY <1>8, <3>2 DEF RemoveFile, TypeOK, TablesOK
        <3> QED BY <3>1, <3>2
    <2> QED BY <1>8, <2>1, <2>2 DEF RemoveFile, TypeOK, TablesOK
<1>9. CASE DownloadAssemble(s)
    <2>1. HandlersOK'
        <3>1. CASE AssembleOk(proc[s].file, proc[s].known)
            <4> DEFINE r == [proc[s] EXCEPT !.at = "respond", !.data = Content(proc[s].file)]
            <4>1. Content(proc[s].file) \in Contents
                BY <1>0, <1>9, <3>1, ContentType DEF DownloadAssemble, AssembleOk
            <4>2. HandlerOK(s, r)
                BY <1>0, <1>9, <4>1 DEF DownloadAssemble, HandlerOK, Process, SlotSteps
            <4>3. proc' = [proc EXCEPT ![s] = r]
                BY <1>9, <3>1 DEF DownloadAssemble, TypeOK, HandlersOK
            <4> HIDE DEF r
            <4> QED BY <1>0, <4>2, <4>3, MoveOne DEF TypeOK
        <3>2. CASE ~AssembleOk(proc[s].file, proc[s].known)
            BY <1>0, <1>9, <3>2, FinishOK DEF DownloadAssemble, TypeOK
        <3> QED BY <3>1, <3>2
    <2> QED BY <1>9, <2>1 DEF DownloadAssemble, TypeOK, TablesOK
<1>10. CASE DownloadRespond(s)
    <2>1. HandlersOK'
        BY <1>0, <1>10, FinishOK DEF DownloadRespond, TypeOK
    <2> QED BY <1>10, <2>1 DEF DownloadRespond, TypeOK, TablesOK
<1> QED
    BY <1>1, <1>2, <1>3, <1>4, <1>5, <1>6, <1>7, <1>8, <1>9, <1>10 DEF Handle

(* The steps of the worker. *)

LEMMA WorkType ==
    ASSUME FilesAssumption, TypeOK, NEW w \in Workers, Work(w) PROVE TypeOK'
<1> USE DEF At
<1>0. /\ w \in Procs /\ w \notin Slots
      /\ proc[w].at # "idle" => proc[w].file \in FileIds
      /\ proc[w] \in Process
    BY FilesAssumption DEF FilesAssumption, Procs, TypeOK, HandlersOK, HandlerOK
<1>1. CASE JobStart(w)
    <2>1. PICK f \in FileIds, stalls \in 0..1 :
            /\ waiting[f][stalls] > 0
            /\ waiting' = [waiting EXCEPT ![f][stalls] = @ - 1]
            /\ proc' = [proc EXCEPT ![w] =
                 IF files[f].status = "absent" THEN Idle
                 ELSE [Idle EXCEPT
                        !.at = IF files[f].status = "processing" THEN "jobAssemble"
                                                                 ELSE "jobFeatures",
                        !.file = f, !.row = files[f], !.known = Present(f),
                        !.stalls = stalls]]
        BY <1>1 DEF JobStart
    <2>2. \A step \in {"jobAssemble", "jobFeatures"} :
            HandlerOK(w, [Idle EXCEPT !.at = step, !.file = f, !.row = files[f],
                             !.known = Present(f), !.stalls = stalls])
        BY ZenonT(30), <1>0, IdleType, LoadType DEF HandlerOK, Idle, Process, JobSteps
    <2>3. HandlersOK'
        <3>1. CASE files[f].status = "absent"
            BY <1>0, <2>1, <3>1, FinishOK DEF Finish, TypeOK
        <3>2. CASE files[f].status # "absent"
            BY <1>0, <2>1, <2>2, <3>2, MoveOne DEF TypeOK
        <3> QED BY <3>1, <3>2
    <2>4. waiting' \in [FileIds -> [0..1 -> Nat]]
        BY <2>1 DEF TypeOK, TablesOK
    <2> QED BY <1>1, <2>3, <2>4 DEF JobStart, TypeOK, TablesOK
<1>2. CASE JobAssemble(w)
    <2>1. HandlersOK'
        <3>1. CASE AssembleOk(proc[w].file, proc[w].known)
            <4> DEFINE r == [proc[w] EXCEPT !.at = "jobPublish", !.row =
                               [@ EXCEPT !.status = "available", !.hash = Content(proc[w].file)]]
            <4>1. Content(proc[w].file) \in Contents
                BY <1>0, <1>2, <3>1, ContentType DEF JobAssemble, AssembleOk
            <4>2. HandlerOK(w, r)
                BY <1>0, <1>2, <4>1 DEF JobAssemble, HandlerOK, Process, Row, FileStatus, JobSteps
            <4>3. proc' = [proc EXCEPT ![w] = r]
                BY <1>2, <3>1 DEF JobAssemble, TypeOK, HandlersOK
            <4> HIDE DEF r
            <4> QED BY <1>0, <4>2, <4>3, MoveOne DEF TypeOK
        <3>2. CASE ~AssembleOk(proc[w].file, proc[w].known)
            BY <1>0, <1>2, <3>2, GotoOK DEF JobAssemble, TypeOK, JobSteps
        <3> QED BY <3>1, <3>2
    <2> QED BY <1>2, <2>1 DEF JobAssemble, TypeOK, TablesOK
<1>3. CASE JobPublish(w)
    <2>1. HandlersOK'
        BY <1>0, <1>3, GotoOK DEF JobPublish, TypeOK, JobSteps
    <2>2. proc[w].row \in Row
        BY <1>0 DEF Process
    <2> QED BY <1>0, <1>3, <2>1, <2>2 DEF JobPublish, SaveFile, TypeOK, TablesOK
<1>4. CASE JobReplicate(w)
    <2>1. HandlersOK'
        BY <1>0, <1>4, GotoOK DEF JobReplicate, TypeOK, JobSteps
    <2> QED BY <1>0, <1>4, <2>1 DEF JobReplicate, TypeOK, TablesOK
<1>5. CASE JobFail(w)
    <2>1. HandlersOK'
        BY <1>0, <1>5, FinishOK DEF JobFail, TypeOK
    <2>2. [proc[w].row EXCEPT !.status = "failed"] \in Row
        BY <1>0 DEF Process, Row, FileStatus
    <2>3. files' \in [FileIds -> Row]
        <3>1. CASE SaveFileOk(proc[w].file, proc[w].known)
            BY <1>0, <1>5, <2>2, <3>1 DEF JobFail, SaveFile, TypeOK, TablesOK
        <3>2. CASE ~SaveFileOk(proc[w].file, proc[w].known)
            BY <1>5, <3>2 DEF JobFail, TypeOK, TablesOK
        <3> QED BY <3>1, <3>2
    <2> QED BY <1>5, <2>1, <2>3 DEF JobFail, TypeOK, TablesOK
<1>6. CASE JobFeatures(w)
    <2> DEFINE row == files[proc[w].file]
               r == IF "compression" \in row.features
                    THEN [proc[w] EXCEPT !.at = "jobCompress", !.row = row]
                    ELSE IF "deduplication" \in row.features
                    THEN [proc[w] EXCEPT !.at = "jobDeduplicate", !.row = row]
                    ELSE Idle
    <2>1. row \in Row
        BY <1>0, <1>6 DEF JobFeatures, TypeOK, TablesOK
    <2>2. HandlerOK(w, r)
        BY <1>0, <1>6, <2>1, IdleType DEF JobFeatures, HandlerOK, Process, JobSteps, Idle
    <2>3. proc' = [proc EXCEPT ![w] = r]
        BY <1>6 DEF JobFeatures, TypeOK, HandlersOK
    <2>4. HandlersOK'
        <3> HIDE DEF r
        <3> QED BY <1>0, <2>2, <2>3, MoveOne DEF TypeOK
    <2> QED BY <1>6, <2>4 DEF JobFeatures, TypeOK, TablesOK
<1>7. CASE JobCompress(w)
    <2>1. HandlersOK'
        BY <1>0, <1>7, GotoOK, FinishOK DEF JobCompress, TypeOK, JobSteps
    <2> QED BY <1>0, <1>7, <2>1 DEF JobCompress, TypeOK, TablesOK
<1>8. CASE JobDeduplicate(w)
    <2>1. HandlersOK'
        BY <1>0, <1>8, FinishOK DEF JobDeduplicate, TypeOK
    <2> QED BY <1>0, <1>8, <2>1 DEF JobDeduplicate, TypeOK, TablesOK
<1> QED
    BY <1>1, <1>2, <1>3, <1>4, <1>5, <1>6, <1>7, <1>8 DEF Work

(* A failed call and a crash. *)

LEMMA CallFailsType ==
    ASSUME FilesAssumption, TypeOK, NEW p \in Procs, CallFails(p) PROVE TypeOK'
<1>1. HandlersOK'
    <2>1. CASE proc[p].at \in {"jobAssemble", "jobPublish", "jobReplicate"}
        <3>1. p \notin Slots
            BY <2>1 DEF TypeOK, HandlersOK, HandlerOK, SlotSteps
        <3> QED BY <2>1, <3>1, GotoOK DEF CallFails, TypeOK, JobSteps
    <2>2. CASE proc[p].at \notin {"jobAssemble", "jobPublish", "jobReplicate"}
        BY <2>2, FinishOK DEF CallFails, TypeOK
    <2> QED BY <2>1, <2>2
<1> QED BY <1>1 DEF CallFails, TypeOK, TablesOK

LEMMA CrashType ==
    ASSUME FilesAssumption, TypeOK, Crash PROVE TypeOK'
<1>1. \A p \in Procs : HandlerOK(p, Idle)
    BY IdleType DEF HandlerOK, Idle
<1>2. HandlersOK'
    BY <1>1, IdleType DEF Crash, HandlersOK
<1> DEFINE Stalled(f) == {w \in Workers : proc[w].file = f /\ proc[w].stalls = 0}
<1>3. \A f \in FileIds : Cardinality(Stalled(f)) \in Nat
    BY FilesAssumption, FS_Subset, FS_CardinalityType DEF FilesAssumption
<1> HIDE DEF Stalled
<1>4. waiting' = [f \in FileIds |-> [waiting[f] EXCEPT ![1] = @ + Cardinality(Stalled(f))]]
    BY DEF Crash, Stalled
<1>5. waiting' \in [FileIds -> [0..1 -> Nat]]
    BY <1>3, <1>4 DEF TypeOK, TablesOK
<1> QED BY <1>2, <1>5 DEF Crash, TypeOK, TablesOK

LEMMA TypeStep ==
    ASSUME FilesAssumption, TypeOK, [Next]_vars PROVE TypeOK'
<1>1. CASE UNCHANGED vars
    BY <1>1 DEF vars, TypeOK, TablesOK, HandlersOK
<1> QED
    BY <1>1, RequestType, HandleType, WorkType, CallFailsType, CrashType DEF Next, Step

(* The tables, the queue and the handlers always have their shape.         *)
THEOREM TypeCorrect ==
    ASSUME FilesAssumption PROVE Spec => []TypeOK
BY InitType, TypeStep, PTL DEF Spec

-----------------------------------------------------------------------------
(***************************************************************************)
(* The inductive invariant.  AvailableIsSettled is not inductive: a row    *)
(* gets its status from a copy that a handler loaded long before, and the  *)
(* copies must therefore be constrained as the rows are.  A file is        *)
(* unsettled from the time create() inserts its row to the time its last   *)
(* chunk is stored or deleted; as long as it is, every copy of its row     *)
(* still says UPLOADING and no job exists for it, and once it is not, it   *)
(* never is again, because an id is drawn only once.                       *)
(***************************************************************************)

Creating(f)  == \E s \in Slots : At(s, "createChunks") /\ proc[s].file = f
Unsettled(f) == Creating(f) \/ Uploading(f) # {}

Early(row)  == row.status \in {"absent", "uploading"}
Hashed(row) == row.status = "available" => row.hash # Null

(* An id that was never drawn is mentioned nowhere. *)
UnbornInv ==
    \A f \in FileIds \ born :
        /\ files[f] = NoRow
        /\ Present(f) = {}
        /\ \A k \in 0..1 : waiting[f][k] = 0
        /\ \A p \in Procs : proc[p].file # f

(* While create() is about to insert the chunks of a file, there are none, *)
(* and nobody uploads one.                                                 *)
CreatingInv ==
    \A s \in Slots : At(s, "createChunks") =>
        /\ Present(proc[s].file) = {}
        /\ \A p \in Procs \ {s} : proc[p].file = proc[s].file =>
              proc[p].at \notin {"createChunks", "saveChunk", "count"}

UnsettledInv ==
    \A f \in FileIds : Unsettled(f) =>
        /\ Early(files[f])
        /\ \A k \in 0..1 : waiting[f][k] = 0
        /\ \A s \in Slots : proc[s].file = f =>
              Early(proc[s].row) /\ proc[s].at \notin {"mark", "enqueue"}
        /\ \A w \in Workers : proc[w].file # f

HashInv ==
    /\ \A f \in FileIds : Hashed(files[f])
    /\ \A p \in Procs : Hashed(proc[p].row)

DataInv ==
    \A f \in FileIds, i \in Indices :
        chunks[f][i].status = "uploaded" => chunks[f][i].data # Null

IInv == TypeOK /\ UnbornInv /\ CreatingInv /\ UnsettledInv /\ HashInv /\ DataInv

LEMMA InitIInv ==
    ASSUME FilesAssumption, Init PROVE IInv
<1>1. TypeOK
    BY InitType
<1>2. \A f \in FileIds : Present(f) = {} /\ Uploading(f) = {}
    BY DEF Init, Present, Uploading, NoChunk
<1>3. \A p \in Procs : proc[p].at = "idle" /\ proc[p].file = Null /\ Hashed(proc[p].row)
    BY DEF Init, Idle, Hashed, NoRow
<1>4. \A f \in FileIds : ~Unsettled(f)
    BY <1>2, <1>3 DEF Unsettled, Creating, At, Procs
<1>5. UnbornInv
    BY FilesAssumption, <1>2, <1>3 DEF UnbornInv, Init, FilesAssumption
<1>6. CreatingInv
    BY <1>3 DEF CreatingInv, At, Procs
<1>7. HashInv
    BY <1>3 DEF HashInv, Init, Hashed, NoRow
<1>8. DataInv
    BY DEF DataInv, Init, NoChunk
<1> QED BY <1>1, <1>4, <1>5, <1>6, <1>7, <1>8 DEF IInv, UnsettledInv

(***************************************************************************)
(* All steps of a handler but the two of create() have the same form: p    *)
(* moves to the state r and touches the tables only at the file f it works *)
(* on.  The lemma states what such a step must show.                       *)
(***************************************************************************)
KeepsOthers(f) ==
    \A g \in FileIds \ {f} :
        files'[g] = files[g] /\ chunks'[g] = chunks[g] /\ waiting'[g] = waiting[g]

MoveOK(p, r, f) ==
    /\ r.file \in {f, Null}
    /\ r.at # "createChunks"
    /\ r.at \in {"saveChunk", "count"} => ~Creating(f)
    /\ Unsettled(f) /\ r.file = f =>
          p \in Slots /\ Early(r.row) /\ r.at \notin {"mark", "enqueue"}
    /\ Hashed(r.row)

TablesMoveOK(f) ==
    /\ \A i \in Indices : chunks'[f][i].status = "uploading" =>
                           chunks[f][i].status = "uploading"
    /\ \A i \in Indices : chunks'[f][i].status = "uploaded" => chunks'[f][i].data # Null
    /\ Creating(f) => Present(f)' = {}
    /\ Unsettled(f) => Early(files'[f]) /\ \A k \in 0..1 : waiting'[f][k] = 0
    /\ Hashed(files'[f])

LEMMA MoveInv ==
    ASSUME FilesAssumption, IInv, TypeOK', NEW p \in Procs, NEW f \in born, NEW r,
           proc' = [proc EXCEPT ![p] = r], born' = born,
           KeepsOthers(f), MoveOK(p, r, f), TablesMoveOK(f)
    PROVE  IInv'
<1> f \in FileIds /\ p \in DOMAIN proc
    BY DEF IInv, TypeOK, TablesOK, HandlersOK
<1>1. proc'[p] = r /\ \A q \in Procs \ {p} : proc'[q] = proc[q]
    BY DEF IInv, TypeOK, HandlersOK
<1>2. \A g \in FileIds \ {f} : Present(g)' = Present(g) /\ Uploading(g)' = Uploading(g)
    BY DEF KeepsOthers, Present, Uploading
<1>3. Uploading(f)' \subseteq Uploading(f)
    BY DEF TablesMoveOK, Uploading
<1>4. \A g \in FileIds : Creating(g)' => Creating(g)
    BY <1>1 DEF Creating, At, MoveOK, Procs
<1>5. \A g \in FileIds : Unsettled(g)' => Unsettled(g)
    BY <1>2, <1>3, <1>4 DEF Unsettled
<1>6. UnbornInv'
    <2> SUFFICES ASSUME NEW g \in FileIds \ born
                 PROVE  /\ files'[g] = NoRow
                        /\ Present(g)' = {}
                        /\ \A k \in 0..1 : waiting'[g][k] = 0
                        /\ \A q \in Procs : proc'[q].file # g
        BY DEF UnbornInv
    <2>1. g # f
        OBVIOUS
    <2>2. r.file # g
        BY FilesAssumption, <2>1 DEF MoveOK, FilesAssumption
    <2> QED
        BY <1>1, <1>2, <2>1, <2>2 DEF IInv, UnbornInv, KeepsOthers
<1>7. CreatingInv'
    <2> SUFFICES ASSUME NEW s \in Slots, At(s, "createChunks")'
                 PROVE  /\ Present(proc[s].file)' = {}
                        /\ \A q \in Procs \ {s} : proc'[q].file = proc'[s].file =>
                              proc'[q].at \notin {"createChunks", "saveChunk", "count"}
        BY DEF CreatingInv
    <2>1. s # p /\ proc'[s] = proc[s] /\ At(s, "createChunks") /\ s \in Procs
        BY <1>1 DEF MoveOK, At, Procs
    <2>2. /\ proc[s].file \in FileIds
          /\ Present(proc[s].file) = {}
          /\ \A q \in Procs \ {s} : proc[q].file = proc[s].file =>
                proc[q].at \notin {"createChunks", "saveChunk", "count"}
        BY <2>1 DEF IInv, CreatingInv, TypeOK, HandlersOK, HandlerOK, At
    <2>3. Present(proc[s].file)' = {}
        <3>1. CASE proc[s].file = f
            BY <2>1, <3>1 DEF TablesMoveOK, Creating
        <3>2. CASE proc[s].file # f
            BY <1>2, <2>1, <2>2, <3>2
        <3> QED BY <3>1, <3>2
    <2>4. r.file = proc[s].file => r.at \notin {"createChunks", "saveChunk", "count"}
        BY FilesAssumption, <2>1, <2>2 DEF MoveOK, Creating, FilesAssumption
    <2> QED BY <1>1, <2>1, <2>2, <2>3, <2>4
<1>8. UnsettledInv'
    <2> SUFFICES ASSUME NEW g \in FileIds, Unsettled(g)'
                 PROVE  /\ Early(files'[g])
                        /\ \A k \in 0..1 : waiting'[g][k] = 0
                        /\ \A s \in Slots : proc'[s].file = g =>
                              Early(proc'[s].row) /\ proc'[s].at \notin {"mark", "enqueue"}
                        /\ \A w \in Workers : proc'[w].file # g
        BY DEF UnsettledInv, Early
    <2>1. Unsettled(g)
        BY <1>5
    <2>2. /\ Early(files[g])
          /\ \A k \in 0..1 : waiting[g][k] = 0
          /\ \A s \in Slots : proc[s].file = g =>
                Early(proc[s].row) /\ proc[s].at \notin {"mark", "enqueue"}
          /\ \A w \in Workers : proc[w].file # g
        BY <2>1 DEF IInv, UnsettledInv
    <2>3. Early(files'[g]) /\ \A k \in 0..1 : waiting'[g][k] = 0
        BY <2>1, <2>2 DEF KeepsOthers, TablesMoveOK
    <2>4. r.file = g => p \in Slots /\ Early(r.row) /\ r.at \notin {"mark", "enqueue"}
        BY FilesAssumption, <2>1 DEF MoveOK, FilesAssumption
    <2>5. \A s \in Slots : proc'[s].file = g =>
              Early(proc'[s].row) /\ proc'[s].at \notin {"mark", "enqueue"}
        BY <1>1, <2>2, <2>4 DEF Procs
    <2>6. \A w \in Workers : proc'[w].file # g
        BY FilesAssumption, <1>1, <2>2, <2>4 DEF Procs, FilesAssumption
    <2> QED BY <2>3, <2>5, <2>6
<1>9. HashInv'
    BY <1>1 DEF IInv, HashInv, KeepsOthers, TablesMoveOK, MoveOK, Hashed
<1>10. DataInv'
    BY DEF IInv, DataInv, KeepsOthers, TablesMoveOK
<1> QED BY <1>6, <1>7, <1>8, <1>9, <1>10 DEF IInv

(* What the parts of a step contribute. *)

LEMMA SameTables ==
    ASSUME IInv, NEW f \in FileIds, UNCHANGED <<files, chunks, waiting>>
    PROVE  KeepsOthers(f) /\ TablesMoveOK(f)
<1>1. Creating(f) => Present(f) = {}
    BY DEF IInv, CreatingInv, Creating
<1>2. Present(f)' = Present(f)
    BY DEF Present
<1> QED BY <1>1, <1>2
        DEF KeepsOthers, TablesMoveOK, IInv, UnsettledInv, HashInv, DataInv

LEMMA SavedFile ==
    ASSUME IInv, NEW f \in FileIds, NEW row, SaveFile(f, row), UNCHANGED <<chunks, waiting>>,
           Hashed(row), Unsettled(f) => Early(row)
    PROVE  KeepsOthers(f) /\ TablesMoveOK(f)
<1>1. Creating(f) => Present(f) = {}
    BY DEF IInv, CreatingInv, Creating
<1>2. Present(f)' = Present(f)
    BY DEF Present
<1>3. files'[f] = row /\ \A g \in FileIds \ {f} : files'[g] = files[g]
    BY DEF SaveFile, IInv, TypeOK, TablesOK
<1> QED BY <1>1, <1>2, <1>3
        DEF KeepsOthers, TablesMoveOK, IInv, UnsettledInv, DataInv

LEMMA FinishMove ==
    ASSUME FilesAssumption, NEW p, NEW f \in FileIds PROVE MoveOK(p, Idle, f)
BY DEF FilesAssumption, MoveOK, Idle, Hashed, NoRow, Early

LEMMA GotoMove ==
    ASSUME IInv, NEW p \in Procs, NEW step, proc[p].at # "idle",
           step \notin {"createChunks", "saveChunk", "count"},
           step \notin {"mark", "enqueue"} \/ ~Unsettled(proc[p].file)
    PROVE  MoveOK(p, [proc[p] EXCEPT !.at = step], proc[p].file)
<1>1. proc[p] \in Process /\ proc[p].file \in FileIds
    BY DEF IInv, TypeOK, HandlersOK, HandlerOK
<1>2. Hashed(proc[p].row)
    BY DEF IInv, HashInv
<1>3. Unsettled(proc[p].file) => p \in Slots /\ Early(proc[p].row)
    BY <1>1 DEF IInv, UnsettledInv, Procs
<1> QED BY <1>1, <1>2, <1>3 DEF MoveOK, Process, Hashed, Early

LEMMA Working ==
    ASSUME IInv, NEW p \in Procs, proc[p].at # "idle"
    PROVE  /\ proc[p].file \in born
           /\ proc[p].file \in FileIds
           /\ Hashed(proc[p].row)
           /\ proc[p] \in Process
           /\ \A step : Goto(p, step) =>
                 proc' = [proc EXCEPT ![p] = [proc[p] EXCEPT !.at = step]]
<1>1. proc[p].file \in FileIds /\ proc[p] \in Process
    BY DEF IInv, TypeOK, HandlersOK, HandlerOK
<1>2. proc[p].file \in born
    BY <1>1 DEF IInv, UnbornInv
<1>3. Hashed(proc[p].row)
    BY DEF IInv, HashInv
<1>4. \A step : Goto(p, step) =>
        proc' = [proc EXCEPT ![p] = [proc[p] EXCEPT !.at = step]]
    BY DEF Goto, IInv, TypeOK, HandlersOK
<1> QED BY <1>1, <1>2, <1>3, <1>4

(* A step that only ends the handler, or only moves it on. *)
LEMMA FinishInv ==
    ASSUME FilesAssumption, IInv, TypeOK', NEW p \in Procs, proc[p].at # "idle", Finish(p),
           NEW f \in FileIds, f = proc[p].file,
           born' = born, KeepsOthers(f), TablesMoveOK(f)
    PROVE  IInv'
BY Working, FinishMove, MoveInv DEF Finish

LEMMA GotoInv ==
    ASSUME FilesAssumption, IInv, TypeOK', NEW p \in Procs, proc[p].at # "idle",
           NEW step, Goto(p, step), NEW f \in FileIds, f = proc[p].file,
           step \notin {"createChunks", "saveChunk", "count"},
           step \notin {"mark", "enqueue"} \/ ~Unsettled(f),
           born' = born, KeepsOthers(f), TablesMoveOK(f)
    PROVE  IInv'
<1> DEFINE r == [proc[p] EXCEPT !.at = step]
<1>1. MoveOK(p, r, f)
    BY GotoMove
<1>2. f \in born /\ proc' = [proc EXCEPT ![p] = r]
    BY Working
<1> HIDE DEF r
<1> QED BY <1>1, <1>2, MoveInv

(* A chunk is uploaded only to a file that is not being created. *)
LEMMA UploadNotCreating ==
    ASSUME IInv, FilesAssumption, NEW s \in Slots, proc[s].at \in {"saveChunk", "count"}
    PROVE  ~Creating(proc[s].file)
BY DEF IInv, CreatingInv, Creating, At, Procs

LEMMA SettledWhenMarked ==
    ASSUME IInv, NEW s \in Slots, proc[s].at \in {"mark", "enqueue"}
    PROVE  ~Unsettled(proc[s].file)
<1>1. proc[s].file \in FileIds
    BY DEF IInv, TypeOK, HandlersOK, HandlerOK, Procs
<1> QED BY <1>1 DEF IInv, UnsettledInv

LEMMA SettledWhenWorked ==
    ASSUME IInv, NEW w \in Workers, proc[w].at # "idle"
    PROVE  ~Unsettled(proc[w].file)
<1>1. proc[w].file \in FileIds
    BY DEF IInv, TypeOK, HandlersOK, HandlerOK, Procs
<1> QED BY <1>1 DEF IInv, UnsettledInv

-----------------------------------------------------------------------------
(* Each action keeps the invariant. *)

LEMMA CreateFileInv ==
    ASSUME FilesAssumption, IInv, TypeOK', NEW s \in Slots, CreateFile(s) PROVE IInv'
<1>1. PICK f \in FileIds \ born, n \in ChunkCounts, features \in SUBSET Features :
        /\ SaveFile(f, [status |-> "uploading", hash |-> Null,
                        regions |-> <<DefaultRegion>>, features |-> features])
        /\ born' = born \cup {f}
        /\ proc' = [proc EXCEPT ![s] = [Idle EXCEPT !.at = "createChunks", !.file = f,
                                           !.known = 0..(n - 1)]]
    BY DEF CreateFile
<1> DEFINE r == [Idle EXCEPT !.at = "createChunks", !.file = f, !.known = 0..(n - 1)]
<1>2. r.at = "createChunks" /\ r.file = f /\ r.row = NoRow
    BY DEF Idle
<1>3. s \in Procs /\ s \notin Workers
    BY FilesAssumption DEF FilesAssumption, Procs
<1>4. proc'[s] = r /\ \A p \in Procs \ {s} : proc'[p] = proc[p]
    BY <1>1, <1>3 DEF IInv, TypeOK, HandlersOK
<1> HIDE DEF r
<1>5. /\ files'[f].status = "uploading"
      /\ \A g \in FileIds \ {f} : files'[g] = files[g]
      /\ chunks' = chunks /\ waiting' = waiting
    BY <1>1 DEF CreateFile, SaveFile, IInv, TypeOK, TablesOK
<1>6. \A g \in FileIds : Present(g)' = Present(g) /\ Uploading(g)' = Uploading(g)
    BY <1>5 DEF Present, Uploading
<1>7. /\ Present(f) = {}
      /\ \A k \in 0..1 : waiting[f][k] = 0
      /\ \A p \in Procs : proc[p].file # f
    BY DEF IInv, UnbornInv
<1>8. UnbornInv'
    BY <1>1, <1>2, <1>4, <1>5, <1>6 DEF IInv, UnbornInv
<1>9. CreatingInv'
    <2> SUFFICES ASSUME NEW t \in Slots, At(t, "createChunks")'
                 PROVE  /\ Present(proc[t].file)' = {}
                        /\ \A q \in Procs \ {t} : proc'[q].file = proc'[t].file =>
                              proc'[q].at \notin {"createChunks", "saveChunk", "count"}
        BY DEF CreatingInv
    <2>1. CASE t = s
        BY <1>2, <1>4, <1>6, <1>7, <2>1
    <2>2. CASE t # s
        <3>1. t \in Procs /\ proc'[t] = proc[t] /\ At(t, "createChunks")
            BY <1>4, <2>2 DEF At, Procs
        <3>2. /\ proc[t].file \in FileIds
              /\ Present(proc[t].file) = {}
              /\ \A q \in Procs \ {t} : proc[q].file = proc[t].file =>
                    proc[q].at \notin {"createChunks", "saveChunk", "count"}
            BY <3>1 DEF IInv, CreatingInv, TypeOK, HandlersOK, HandlerOK, At
        <3>3. proc[t].file # f
            BY <1>7, <3>1
        <3> QED BY <1>2, <1>4, <1>6, <3>1, <3>2, <3>3
    <2> QED BY <2>1, <2>2
<1>10. UnsettledInv'
    <2> SUFFICES ASSUME NEW g \in FileIds, Unsettled(g)'
                 PROVE  /\ Early(files'[g])
                        /\ \A k \in 0..1 : waiting'[g][k] = 0
                        /\ \A t \in Slots : proc'[t].file = g =>
                              Early(proc'[t].row) /\ proc'[t].at \notin {"mark", "enqueue"}
                        /\ \A w \in Workers : proc'[w].file # g
        BY DEF UnsettledInv, Early
    <2>1. CASE g = f
        BY <1>2, <1>3, <1>4, <1>5, <1>7, <2>1 DEF Early, Procs, NoRow
    <2>2. CASE g # f
        <3>1. Unsettled(g)
            BY <1>2, <1>4, <1>6, <2>2 DEF Unsettled, Creating, At, Procs
        <3>2. /\ Early(files[g])
              /\ \A k \in 0..1 : waiting[g][k] = 0
              /\ \A t \in Slots : proc[t].file = g =>
                    Early(proc[t].row) /\ proc[t].at \notin {"mark", "enqueue"}
              /\ \A w \in Workers : proc[w].file # g
            BY <3>1 DEF IInv, UnsettledInv
        <3> QED BY <1>2, <1>3, <1>4, <1>5, <2>2, <3>2 DEF Procs
    <2> QED BY <2>1, <2>2
<1>11. HashInv'
    BY <1>2, <1>4, <1>5 DEF IInv, HashInv, Hashed, NoRow
<1>12. DataInv'
    BY <1>5 DEF IInv, DataInv
<1> QED BY <1>8, <1>9, <1>10, <1>11, <1>12 DEF IInv

LEMMA CreateChunksInv ==
    ASSUME FilesAssumption, IInv, TypeOK', NEW s \in Slots, CreateChunks(s) PROVE IInv'
<1> DEFINE f == proc[s].file
<1>1. s \in Procs /\ s \notin Workers /\ proc[s].at = "createChunks"
    BY FilesAssumption DEF CreateChunks, At, FilesAssumption, Procs
<1>2. f \in FileIds /\ f \in born /\ Null \notin FileIds
    BY FilesAssumption, <1>1, Working DEF FilesAssumption
<1>3. proc'[s] = Idle /\ \A p \in Procs \ {s} : proc'[p] = proc[p]
    BY <1>1 DEF CreateChunks, Finish, IInv, TypeOK, HandlersOK
<1>4. files' = files /\ waiting' = waiting /\ born' = born
    BY DEF CreateChunks
<1>5. /\ \A g \in FileIds \ {f} : chunks'[g] = chunks[g]
      /\ \A i \in Indices : chunks'[f][i].status = "uploaded" =>
                             chunks'[f][i] = chunks[f][i]
    <2>1. CASE InsertChunksOk(f, proc[s].known)
        <3> DEFINE new == [i \in Indices |->
                             IF i \in proc[s].known
                             THEN [status |-> "uploading", data |-> Null]
                             ELSE chunks[f][i]]
        <3>1. chunks' = [chunks EXCEPT ![f] = new]
            BY <2>1 DEF CreateChunks
        <3>2. chunks'[f] = new /\ \A g \in FileIds \ {f} : chunks'[g] = chunks[g]
            BY <1>2, <3>1 DEF IInv, TypeOK, TablesOK
        <3> QED BY <3>2
    <2>2. CASE ~InsertChunksOk(f, proc[s].known)
        BY <2>2 DEF CreateChunks
    <2> QED BY <2>1, <2>2
<1>6. \A g \in FileIds \ {f} : Present(g)' = Present(g) /\ Uploading(g)' = Uploading(g)
    BY <1>5 DEF Present, Uploading
<1>7. \A p \in Procs \ {s} : proc[p].file = f =>
          proc[p].at \notin {"createChunks", "saveChunk", "count"}
    BY <1>1 DEF IInv, CreatingInv, At
<1>8. Unsettled(f)
    BY <1>1 DEF Unsettled, Creating, At
<1>9. Idle.at = "idle" /\ Idle.file = Null /\ Idle.row = NoRow
    BY DEF Idle
<1> HIDE DEF f
<1>10. \A g \in FileIds : Unsettled(g)' => Unsettled(g)
    BY <1>3, <1>6, <1>8, <1>9 DEF Unsettled, Creating, At, Procs
<1>11. UnbornInv'
    BY <1>2, <1>3, <1>4, <1>5, <1>6, <1>9 DEF IInv, UnbornInv
<1>12. CreatingInv'
    <2> SUFFICES ASSUME NEW t \in Slots, At(t, "createChunks")'
                 PROVE  /\ Present(proc[t].file)' = {}
                        /\ \A q \in Procs \ {t} : proc'[q].file = proc'[t].file =>
                              proc'[q].at \notin {"createChunks", "saveChunk", "count"}
        BY DEF CreatingInv
    <2>1. t \in Procs /\ t # s /\ proc'[t] = proc[t] /\ At(t, "createChunks")
        BY <1>3, <1>9 DEF At, Procs
    <2>2. proc[t].file # f
        BY <1>7, <2>1 DEF At
    <2>3. /\ proc[t].file \in FileIds
          /\ Present(proc[t].file) = {}
          /\ \A q \in Procs \ {t} : proc[q].file = proc[t].file =>
                proc[q].at \notin {"createChunks", "saveChunk", "count"}
        BY <2>1 DEF IInv, CreatingInv, TypeOK, HandlersOK, HandlerOK, At
    <2> QED BY <1>3, <1>6, <1>9, <2>1, <2>2, <2>3
<1>13. UnsettledInv'
    <2> SUFFICES ASSUME NEW g \in FileIds, Unsettled(g)'
                 PROVE  /\ Early(files'[g])
                        /\ \A k \in 0..1 : waiting'[g][k] = 0
                        /\ \A t \in Slots : proc'[t].file = g =>
                              Early(proc'[t].row) /\ proc'[t].at \notin {"mark", "enqueue"}
                        /\ \A w \in Workers : proc'[w].file # g
        BY DEF UnsettledInv, Early
    <2>1. /\ Early(files[g])
          /\ \A k \in 0..1 : waiting[g][k] = 0
          /\ \A t \in Slots : proc[t].file = g =>
                Early(proc[t].row) /\ proc[t].at \notin {"mark", "enqueue"}
          /\ \A w \in Workers : proc[w].file # g
        BY <1>10 DEF IInv, UnsettledInv
    <2> QED BY <1>1, <1>2, <1>3, <1>4, <1>9, <2>1 DEF Procs
<1>14. HashInv'
    BY <1>3, <1>4, <1>9 DEF IInv, HashInv, Hashed, NoRow
<1>15. DataInv'
    BY <1>5 DEF IInv, DataInv
<1> QED BY <1>11, <1>12, <1>13, <1>14, <1>15 DEF IInv

(* The snapshot that findOne takes of a file that exists. *)
LEMMA LoadMove ==
    ASSUME FilesAssumption, IInv, NEW p \in Procs, NEW f \in FileIds,
           files[f].status # "absent", NEW r, r.file = f, Hashed(r.row),
           r.at \notin {"createChunks", "mark", "enqueue"},
           r.at \in {"saveChunk", "count"} => ~Creating(f),
           Unsettled(f) => p \in Slots /\ Early(r.row)
    PROVE  f \in born /\ MoveOK(p, r, f)
<1>1. f \in born
    BY DEF IInv, UnbornInv, NoRow
<1> QED BY <1>1 DEF MoveOK

LEMMA SnapshotIsSafe ==
    ASSUME IInv, NEW f \in FileIds
    PROVE  Hashed(files[f]) /\ (Unsettled(f) => Early(files[f]))
BY DEF IInv, HashInv, UnsettledInv

LEMMA RequestInv ==
    ASSUME FilesAssumption, IInv, TypeOK', NEW s \in Slots, Request(s) \/ DownloadLoad(s)
    PROVE  IInv'
<1>0. s \in Procs
    BY DEF Procs
<1>1. CASE UploadLoad(s)
    <2>1. PICK f \in FileIds, i \in Indices, d \in Payloads :
            /\ files[f].status = "uploading"
            /\ chunks[f][i].status = "uploading"
            /\ proc' = [proc EXCEPT ![s] = [Idle EXCEPT !.at = "saveChunk", !.file = f,
                        !.row = files[f], !.known = Present(f), !.index = i, !.data = d]]
        BY <1>1 DEF UploadLoad
    <2> DEFINE r == [Idle EXCEPT !.at = "saveChunk", !.file = f,
                        !.row = files[f], !.known = Present(f), !.index = i, !.data = d]
    <2>2. r.at = "saveChunk" /\ r.file = f /\ r.row = files[f]
        BY DEF Idle
    <2> HIDE DEF r
    <2>3. ~Creating(f)
        BY <2>1 DEF IInv, CreatingInv, Creating, Present
    <2>4. f \in born /\ MoveOK(s, r, f)
        BY <1>0, <2>1, <2>2, <2>3, LoadMove, SnapshotIsSafe
    <2>5. KeepsOthers(f) /\ TablesMoveOK(f) /\ born' = born
        BY <1>1, SameTables DEF UploadLoad
    <2>6. proc' = [proc EXCEPT ![s] = r]
        BY <2>1 DEF r
    <2> QED BY <1>0, <2>4, <2>5, <2>6, MoveInv
<1>2. CASE UpdateLoad(s)
    <2>1. PICK f \in FileIds, patch \in Patches :
            /\ files[f].status # "absent"
            /\ proc' = [proc EXCEPT ![s] = [Idle EXCEPT !.at = "update", !.file = f,
                        !.row = Patched(files[f], patch), !.known = Present(f)]]
        BY <1>2 DEF UpdateLoad
    <2> DEFINE r == [Idle EXCEPT !.at = "update", !.file = f,
                        !.row = Patched(files[f], patch), !.known = Present(f)]
    <2>2. r.at = "update" /\ r.file = f /\ r.row = Patched(files[f], patch)
        BY DEF Idle
    <2>3. files[f] \in Row
        BY DEF IInv, TypeOK, TablesOK
    <2>4. r.row.status = files[f].status /\ r.row.hash = files[f].hash
        BY ZenonT(30), <2>2, <2>3 DEF Patched, Row
    <2> HIDE DEF r
    <2>5. Hashed(r.row) /\ (Unsettled(f) => Early(r.row))
        BY <2>4, SnapshotIsSafe DEF Hashed, Early
    <2>6. f \in born /\ MoveOK(s, r, f)
        BY <1>0, <2>1, <2>2, <2>5, LoadMove
    <2>7. KeepsOthers(f) /\ TablesMoveOK(f) /\ born' = born
        BY <1>2, SameTables DEF UpdateLoad
    <2>8. proc' = [proc EXCEPT ![s] = r]
        BY <2>1 DEF r
    <2> QED BY <1>0, <2>6, <2>7, <2>8, MoveInv
<1>3. ASSUME NEW f \in FileIds, files[f].status # "absent",
             NEW step \in {"removeChunks", "assemble"}, Load(s, f, step),
             UNCHANGED <<files, chunks, born, waiting>>
      PROVE  IInv'
    <2> DEFINE r == [Idle EXCEPT !.at = step, !.file = f, !.row = files[f],
                                 !.known = Present(f)]
    <2>1. r.at = step /\ r.file = f /\ r.row = files[f]
        BY DEF Idle
    <2>2. proc' = [proc EXCEPT ![s] = r]
        BY <1>3 DEF Load
    <2> HIDE DEF r
    <2>3. f \in born /\ MoveOK(s, r, f)
        BY <1>0, <1>3, <2>1, LoadMove, SnapshotIsSafe
    <2>4. KeepsOthers(f) /\ TablesMoveOK(f) /\ born' = born
        BY <1>3, SameTables
    <2> QED BY <1>0, <2>2, <2>3, <2>4, MoveInv
<1>4. CASE RemoveLoad(s)
    BY <1>3, <1>4 DEF RemoveLoad
<1>5. CASE DownloadLoad(s)
    BY <1>3, <1>5 DEF DownloadLoad
<1> QED
    BY <1>1, <1>2, <1>4, <1>5, CreateFileInv DEF Request

LEMMA HandleInv ==
    ASSUME FilesAssumption, IInv, TypeOK', NEW s \in Slots, Handle(s) PROVE IInv'
<1>0. s \in Procs
    BY DEF Procs
<1>01. proc[s].at # "idle"
    BY DEF Handle, CreateChunks, UploadSave, UploadCount, UploadMark, UploadEnqueue,
           UpdateSave, RemoveChunks, RemoveFile, DownloadAssemble, DownloadRespond, At
<1> SUFFICES ASSUME NEW f \in FileIds, f = proc[s].file
             PROVE  IInv'
    BY <1>0, <1>01, Working
<1>1. CASE UploadSave(s)
    <2>1. proc[s].at = "saveChunk"
        BY <1>1 DEF UploadSave, At
    <2>2. /\ f \in born /\ f \in FileIds /\ Hashed(proc[s].row) /\ proc[s] \in Process
          /\ \A step : Goto(s, step) =>
                proc' = [proc EXCEPT ![s] = [proc[s] EXCEPT !.at = step]]
        BY <1>0, <2>1, Working
    <2>3. ~Creating(f)
        BY <2>1, UploadNotCreating
    <2>4. CASE files[f].status = "absent"
        BY <1>0, <1>1, <2>1, <2>2, <2>4, FinishInv, SameTables DEF UploadSave
    <2>5. CASE files[f].status # "absent"
        <3> DEFINE c == [status |-> "uploaded", data |-> proc[s].data]
                   r == [proc[s] EXCEPT !.at = "count"]
        <3>1. chunks' = [chunks EXCEPT ![f][proc[s].index] = c]
            BY <1>1, <2>5 DEF UploadSave
        <3>2. c.status = "uploaded" /\ c.data # Null /\ proc[s].index \in Indices
            BY <1>0, <2>1, FilesAssumption
            DEF IInv, TypeOK, HandlersOK, HandlerOK, FilesAssumption
        <3> HIDE DEF c
        <3>3. /\ \A g \in FileIds \ {f} : chunks'[g] = chunks[g]
              /\ \A i \in Indices : chunks'[f][i] = c \/ chunks'[f][i] = chunks[f][i]
            BY <2>2, <3>1 DEF IInv, TypeOK, TablesOK
        <3>4. files' = files /\ waiting' = waiting /\ born' = born /\ Goto(s, "count")
            BY <1>1, <2>5 DEF UploadSave
        <3>5. KeepsOthers(f) /\ TablesMoveOK(f)
            BY SMTT(30), <2>2, <2>3, <3>2, <3>3, <3>4
            DEF KeepsOthers, TablesMoveOK, IInv, DataInv, UnsettledInv, HashInv
        <3>6. Unsettled(f) => Early(proc[s].row)
            BY <2>2 DEF IInv, UnsettledInv
        <3>7. MoveOK(s, r, f)
            BY <2>2, <2>3, <3>6 DEF MoveOK, Process, Hashed, Early
        <3>8. proc' = [proc EXCEPT ![s] = r]
            BY <2>2, <3>4
        <3> HIDE DEF r
        <3> QED BY <1>0, <2>2, <3>4, <3>5, <3>7, <3>8, MoveInv
    <2> QED BY <2>4, <2>5
<1>2. CASE UploadCount(s)
    <2>1. proc[s].at = "count" /\ f \in FileIds
        BY <1>0, <1>2, Working DEF UploadCount, At
    <2>2. KeepsOthers(f) /\ TablesMoveOK(f) /\ born' = born
        BY <1>2, <2>1, SameTables DEF UploadCount
    <2>3. CASE Uploading(f) = {}
        <3>1. ~Unsettled(f)
            BY <2>1, <2>3, UploadNotCreating DEF Unsettled
        <3> QED BY <1>0, <1>2, <2>1, <2>2, <2>3, <3>1, GotoInv DEF UploadCount
    <2>4. CASE Uploading(f) # {}
        BY <1>0, <1>2, <2>1, <2>2, <2>4, FinishInv DEF UploadCount
    <2> QED BY <2>3, <2>4
<1>3. CASE UploadMark(s)
    <2>1. proc[s].at = "mark" /\ f \in FileIds /\ proc[s] \in Process
        BY <1>0, <1>3, Working DEF UploadMark, At
    <2>2. ~Unsettled(f)
        BY <2>1, SettledWhenMarked
    <2>3. CASE SaveFileOk(f, proc[s].known)
        <3> DEFINE row == [proc[s].row EXCEPT !.status = "processing"]
        <3>1. Hashed(row)
            BY <2>1 DEF Hashed, Process, Row
        <3>2. KeepsOthers(f) /\ TablesMoveOK(f)
            BY <1>3, <2>1, <2>2, <2>3, <3>1, SavedFile DEF UploadMark
        <3> QED BY <1>0, <1>3, <2>1, <2>2, <2>3, <3>2, GotoInv DEF UploadMark
    <2>4. CASE ~SaveFileOk(f, proc[s].known)
        BY <1>0, <1>3, <2>1, <2>4, FinishInv, SameTables DEF UploadMark
    <2> QED BY <2>3, <2>4
<1>4. CASE UploadEnqueue(s)
    <2>1. proc[s].at = "enqueue" /\ f \in FileIds
        BY <1>0, <1>4, Working DEF UploadEnqueue, At
    <2>2. ~Unsettled(f)
        BY <2>1, SettledWhenMarked
    <2>3. files' = files /\ chunks' = chunks /\ born' = born
          /\ \A g \in FileIds \ {f} : waiting'[g] = waiting[g]
        BY <1>4, <2>1 DEF UploadEnqueue, Enqueue, IInv, TypeOK, TablesOK
    <2>4. Present(f)' = Present(f)
        BY <2>3 DEF Present
    <2>5. KeepsOthers(f) /\ TablesMoveOK(f)
        BY <2>1, <2>2, <2>3
        DEF KeepsOthers, TablesMoveOK, IInv, DataInv, HashInv, Unsettled
    <2> QED BY <1>0, <1>4, <2>1, <2>3, <2>5, FinishInv DEF UploadEnqueue
<1>5. CASE UpdateSave(s)
    <2>1. proc[s].at = "update" /\ f \in FileIds /\ Hashed(proc[s].row)
        BY <1>0, <1>5, Working DEF UpdateSave, At
    <2>2. Unsettled(f) => Early(proc[s].row)
        BY <2>1 DEF IInv, UnsettledInv
    <2>3. KeepsOthers(f) /\ TablesMoveOK(f)
        <3>1. CASE SaveFileOk(f, proc[s].known)
            BY <1>5, <2>1, <2>2, <3>1, SavedFile DEF UpdateSave
        <3>2. CASE ~SaveFileOk(f, proc[s].known)
            BY <1>5, <2>1, <3>2, SameTables DEF UpdateSave
        <3> QED BY <3>1, <3>2
    <2> QED BY <1>0, <1>5, <2>1, <2>3, FinishInv DEF UpdateSave
<1>6. CASE RemoveChunks(s)
    <2>1. proc[s].at = "removeChunks" /\ f \in FileIds
        BY <1>0, <1>6, Working DEF RemoveChunks, At
    <2>2. /\ \A g \in FileIds \ {f} : chunks'[g] = chunks[g]
          /\ \A i \in Indices : chunks'[f][i] = NoChunk
        <3>1. chunks' = [chunks EXCEPT ![f] = [i \in Indices |-> NoChunk]]
            BY <1>6 DEF RemoveChunks
        <3> QED BY <3>1 DEF IInv, TypeOK, TablesOK
    <2>3. Present(f)' = {}
        <3>1. NoChunk.status = "absent"
            BY DEF NoChunk
        <3>2. \A i \in Indices : chunks'[f][i].status = "absent"
            BY <2>2, <3>1
        <3> QED BY <3>2 DEF Present
    <2>4. KeepsOthers(f) /\ TablesMoveOK(f)
        BY <1>6, <2>1, <2>2, <2>3
        DEF RemoveChunks, KeepsOthers, TablesMoveOK, IInv, UnsettledInv, HashInv, NoChunk
    <2> QED BY <1>0, <1>6, <2>1, <2>4, GotoInv DEF RemoveChunks
<1>7. CASE RemoveFile(s)
    <2>1. proc[s].at = "removeFile" /\ f \in FileIds
        BY <1>0, <1>7, Working DEF RemoveFile, At
    <2>2. KeepsOthers(f) /\ TablesMoveOK(f)
        <3>1. CASE Present(f) = {}
            <4>1. Hashed(NoRow) /\ Early(NoRow)
                BY DEF Hashed, Early, NoRow
            <4> QED BY <1>7, <2>1, <3>1, <4>1, SavedFile DEF RemoveFile
        <3>2. CASE Present(f) # {}
            BY <1>7, <2>1, <3>2, SameTables DEF RemoveFile
        <3> QED BY <3>1, <3>2
    <2> QED BY <1>0, <1>7, <2>1, <2>2, FinishInv DEF RemoveFile
<1>8. CASE DownloadAssemble(s)
    <2>1. proc[s].at = "assemble" /\ f \in FileIds /\ f \in born /\ proc[s] \in Process
          /\ Hashed(proc[s].row)
        BY <1>0, <1>8, Working DEF DownloadAssemble, At
    <2>2. KeepsOthers(f) /\ TablesMoveOK(f) /\ born' = born
        BY <1>8, <2>1, SameTables DEF DownloadAssemble
    <2>3. CASE AssembleOk(f, proc[s].known)
        <3> DEFINE r == [proc[s] EXCEPT !.at = "respond", !.data = Content(f)]
        <3>1. proc' = [proc EXCEPT ![s] = r]
            BY <1>8, <2>3 DEF DownloadAssemble, IInv, TypeOK, HandlersOK
        <3>2. Unsettled(f) => Early(proc[s].row)
            BY <2>1 DEF IInv, UnsettledInv
        <3>3. MoveOK(s, r, f)
            BY <2>1, <3>2 DEF MoveOK, Process, Hashed, Early
        <3> HIDE DEF r
        <3> QED BY <1>0, <2>1, <2>2, <3>1, <3>3, MoveInv
    <2>4. CASE ~AssembleOk(f, proc[s].known)
        BY <1>0, <1>8, <2>1, <2>2, <2>4, FinishInv DEF DownloadAssemble
    <2> QED BY <2>3, <2>4
<1>9. CASE DownloadRespond(s)
    <2>1. proc[s].at = "respond" /\ f \in FileIds
        BY <1>0, <1>9, Working DEF DownloadRespond, At
    <2> QED BY <1>0, <1>9, <2>1, FinishInv, SameTables DEF DownloadRespond
<1> QED
    BY <1>1, <1>2, <1>3, <1>4, <1>5, <1>6, <1>7, <1>8, <1>9, CreateChunksInv DEF Handle

LEMMA WorkInv ==
    ASSUME FilesAssumption, IInv, TypeOK', NEW w \in Workers, Work(w) PROVE IInv'
<1>0. w \in Procs
    BY DEF Procs
<1>1. CASE JobStart(w)
    <2>1. PICK f \in FileIds, stalls \in 0..1 :
            /\ waiting[f][stalls] > 0
            /\ waiting' = [waiting EXCEPT ![f][stalls] = @ - 1]
            /\ proc' = [proc EXCEPT ![w] =
                 IF files[f].status = "absent" THEN Idle
                 ELSE [Idle EXCEPT
                        !.at = IF files[f].status = "processing" THEN "jobAssemble"
                                                                 ELSE "jobFeatures",
                        !.file = f, !.row = files[f], !.known = Present(f),
                        !.stalls = stalls]]
        BY <1>1 DEF JobStart
    <2>2. ~Unsettled(f) /\ f \in born
        BY <2>1 DEF IInv, UnsettledInv, UnbornInv
    <2>3. files' = files /\ chunks' = chunks /\ born' = born
          /\ \A g \in FileIds \ {f} : waiting'[g] = waiting[g]
        BY <1>1, <2>1 DEF JobStart, IInv, TypeOK, TablesOK
    <2>4. KeepsOthers(f) /\ TablesMoveOK(f)
        BY <2>2, <2>3
        DEF KeepsOthers, TablesMoveOK, IInv, DataInv, HashInv, Unsettled
    <2>5. CASE files[f].status = "absent"
        BY <1>0, <2>1, <2>2, <2>3, <2>4, <2>5, FinishMove, MoveInv
    <2>6. CASE files[f].status # "absent"
        <3> DEFINE r == [Idle EXCEPT
                          !.at = IF files[f].status = "processing" THEN "jobAssemble"
                                                                   ELSE "jobFeatures",
                          !.file = f, !.row = files[f], !.known = Present(f),
                          !.stalls = stalls]
        <3>1. r.at \in {"jobAssemble", "jobFeatures"} /\ r.file = f /\ r.row = files[f]
            BY DEF Idle
        <3>2. proc' = [proc EXCEPT ![w] = r]
            BY <2>1, <2>6
        <3> HIDE DEF r
        <3>3. MoveOK(w, r, f)
            BY <2>2, <3>1, SnapshotIsSafe DEF MoveOK
        <3> QED BY <1>0, <2>2, <2>3, <2>4, <3>2, <3>3, MoveInv
    <2> QED BY <2>5, <2>6
<1>2. ASSUME ~JobStart(w) PROVE IInv'
    <2>1. proc[w].at # "idle"
        BY <1>2 DEF Work, JobAssemble, JobPublish, JobReplicate, JobFail, JobFeatures,
                    JobCompress, JobDeduplicate, At
    <2> SUFFICES ASSUME NEW f \in FileIds, f = proc[w].file
                 PROVE  IInv'
        BY <1>0, <2>1, Working
    <2>2. ~Unsettled(f)
        BY <2>1, SettledWhenWorked
    <2>3. f \in born /\ Hashed(proc[w].row) /\ proc[w] \in Process
        BY <1>0, <2>1, Working
    <2>4. ASSUME UNCHANGED <<files, chunks, waiting>>
          PROVE  KeepsOthers(f) /\ TablesMoveOK(f)
        BY <2>4, SameTables
    <2>5. CASE JobAssemble(w)
        <3>1. CASE AssembleOk(f, proc[w].known)
            <4> DEFINE r == [proc[w] EXCEPT !.at = "jobPublish", !.row =
                               [@ EXCEPT !.status = "available", !.hash = Content(f)]]
            <4>1. Content(f) # Null
                BY <3>1, ContentType, FilesAssumption DEF AssembleOk, IInv, FilesAssumption
            <4>2. Hashed(r.row) /\ r.at = "jobPublish" /\ r.file = f
                BY <2>3, <4>1 DEF Process, Row, Hashed
            <4>3. proc' = [proc EXCEPT ![w] = r]
                BY <2>5, <3>1 DEF JobAssemble, IInv, TypeOK, HandlersOK
            <4> HIDE DEF r
            <4>4. MoveOK(w, r, f)
                BY <2>2, <4>2 DEF MoveOK
            <4> QED BY <1>0, <2>3, <2>4, <2>5, <4>3, <4>4, MoveInv DEF JobAssemble
        <3>2. CASE ~AssembleOk(f, proc[w].known)
            BY <1>0, <2>1, <2>4, <2>5, <3>2, GotoInv DEF JobAssemble
        <3> QED BY <3>1, <3>2
    <2>6. CASE JobPublish(w)
        <3>1. CASE SaveFileOk(f, proc[w].known)
            <4>1. KeepsOthers(f) /\ TablesMoveOK(f)
                BY <2>2, <2>3, <2>6, <3>1, SavedFile DEF JobPublish
            <4>2. PICK step \in {"jobReplicate", "jobFeatures"} : Goto(w, step)
                BY <2>6, <3>1 DEF JobPublish
            <4> QED BY <1>0, <2>1, <2>6, <4>1, <4>2, GotoInv DEF JobPublish
        <3>2. CASE ~SaveFileOk(f, proc[w].known)
            BY <1>0, <2>1, <2>4, <2>6, <3>2, GotoInv DEF JobPublish
        <3> QED BY <3>1, <3>2
    <2>7. CASE JobReplicate(w)
        BY <1>0, <2>1, <2>4, <2>7, GotoInv DEF JobReplicate
    <2>8. CASE JobFail(w)
        <3>1. KeepsOthers(f) /\ TablesMoveOK(f)
            <4>1. CASE SaveFileOk(f, proc[w].known)
                <5>1. Hashed([proc[w].row EXCEPT !.status = "failed"])
                    BY <2>3 DEF Hashed, Process, Row
                <5> QED BY <2>2, <2>8, <4>1, <5>1, SavedFile DEF JobFail
            <4>2. CASE ~SaveFileOk(f, proc[w].known)
                BY <2>4, <2>8, <4>2 DEF JobFail
            <4> QED BY <4>1, <4>2
        <3> QED BY <1>0, <2>1, <2>8, <3>1, FinishInv DEF JobFail
    <2>9. CASE JobFeatures(w)
        <3> DEFINE row == files[f]
                   r == IF "compression" \in row.features
                        THEN [proc[w] EXCEPT !.at = "jobCompress", !.row = row]
                        ELSE IF "deduplication" \in row.features
                        THEN [proc[w] EXCEPT !.at = "jobDeduplicate", !.row = row]
                        ELSE Idle
        <3>1. proc' = [proc EXCEPT ![w] = r]
            BY <2>9 DEF JobFeatures, IInv, TypeOK, HandlersOK
        <3>2. Hashed(row)
            BY SnapshotIsSafe
        <3>3. MoveOK(w, r, f)
            BY <2>2, <2>3, <3>2 DEF MoveOK, Process, Idle, Hashed, NoRow
        <3> HIDE DEF r
        <3> QED BY <1>0, <2>3, <2>4, <2>9, <3>1, <3>3, MoveInv DEF JobFeatures
    <2>10. CASE JobCompress(w)
        BY <1>0, <2>1, <2>4, <2>10, GotoInv, FinishInv DEF JobCompress
    <2>11. CASE JobDeduplicate(w)
        BY <1>0, <2>1, <2>4, <2>11, FinishInv DEF JobDeduplicate
    <2> QED
        BY <1>2, <2>5, <2>6, <2>7, <2>8, <2>9, <2>10, <2>11 DEF Work
<1> QED BY <1>1, <1>2

LEMMA CallFailsInv ==
    ASSUME FilesAssumption, IInv, TypeOK', NEW p \in Procs, CallFails(p) PROVE IInv'
<1>1. proc[p].at # "idle"
    BY DEF CallFails, At
<1> SUFFICES ASSUME NEW f \in FileIds, f = proc[p].file
             PROVE  IInv'
    BY <1>1, Working
<1>2. KeepsOthers(f) /\ TablesMoveOK(f) /\ born' = born
    BY SameTables DEF CallFails
<1>3. Finish(p) \/ Goto(p, "jobFail")
    BY DEF CallFails
<1> QED BY <1>1, <1>2, <1>3, FinishInv, GotoInv

LEMMA CrashInv ==
    ASSUME FilesAssumption, IInv, TypeOK', Crash PROVE IInv'
<1> DEFINE Stalled(f) == {w \in Workers : proc[w].file = f /\ proc[w].stalls = 0}
<1>1. /\ files' = files /\ chunks' = chunks /\ born' = born
      /\ \A p \in Procs : proc'[p] = Idle
    BY DEF Crash, Procs
<1>2. \A f \in FileIds : Stalled(f) = {} =>
        \A k \in 0..1 : waiting[f][k] = 0 => waiting'[f][k] = 0
    <2> SUFFICES ASSUME NEW f \in FileIds, Stalled(f) = {},
                        NEW k \in 0..1, waiting[f][k] = 0
                 PROVE  waiting'[f][k] = 0
        OBVIOUS
    <2>1. waiting'[f] = [waiting[f] EXCEPT ![1] = @ + Cardinality(Stalled(f))]
        BY DEF Crash
    <2>2. Cardinality(Stalled(f)) = 0
        BY FS_EmptySet
    <2>3. waiting[f] \in [0..1 -> Nat]
        BY DEF IInv, TypeOK, TablesOK
    <2> HIDE DEF Stalled
    <2> QED BY <2>1, <2>2, <2>3
<1>3. \A f \in FileIds : Present(f)' = Present(f) /\ Uploading(f)' = Uploading(f)
    BY <1>1 DEF Present, Uploading
<1>4. Idle.at = "idle" /\ Idle.file = Null /\ Idle.row = NoRow /\ Null \notin FileIds
    BY FilesAssumption DEF Idle, FilesAssumption
<1>5. UnbornInv'
    BY <1>1, <1>2, <1>3, <1>4 DEF IInv, UnbornInv, Procs
<1>6. CreatingInv'
    BY <1>1, <1>4 DEF CreatingInv, At, Procs
<1>7. UnsettledInv'
    <2> SUFFICES ASSUME NEW f \in FileIds, Unsettled(f)'
                 PROVE  /\ Early(files'[f])
                        /\ \A k \in 0..1 : waiting'[f][k] = 0
                        /\ \A s \in Slots : proc'[s].file = f =>
                              Early(proc'[s].row) /\ proc'[s].at \notin {"mark", "enqueue"}
                        /\ \A w \in Workers : proc'[w].file # f
        BY DEF UnsettledInv, Early
    <2>1. Unsettled(f)
        BY <1>1, <1>3, <1>4 DEF Unsettled, Creating, At, Procs
    <2>2. Stalled(f) = {} /\ Early(files[f]) /\ \A k \in 0..1 : waiting[f][k] = 0
        BY <2>1 DEF IInv, UnsettledInv
    <2>3. \A k \in 0..1 : waiting'[f][k] = 0
        BY <1>2, <2>2
    <2> QED BY <1>1, <1>4, <2>2, <2>3 DEF Procs
<1>8. HashInv'
    BY <1>1, <1>4 DEF IInv, HashInv, Hashed, NoRow
<1>9. DataInv'
    BY <1>1 DEF IInv, DataInv
<1> QED BY <1>5, <1>6, <1>7, <1>8, <1>9 DEF IInv

LEMMA StepIInv ==
    ASSUME FilesAssumption, IInv, [Next]_vars PROVE IInv'
<1>1. TypeOK'
    BY TypeStep DEF IInv
<1>2. CASE UNCHANGED vars
    <2>1. \A f \in FileIds : /\ Present(f)' = Present(f)
                             /\ Uploading(f)' = Uploading(f)
                             /\ Creating(f)' = Creating(f)
        BY <1>2 DEF vars, Present, Uploading, Creating, At
    <2> QED BY <1>1, <1>2, <2>1
            DEF vars, IInv, UnbornInv, CreatingInv, UnsettledInv, Unsettled, HashInv,
                DataInv, At, Early, Hashed, Present
<1> QED
    BY <1>1, <1>2, RequestInv, HandleInv, WorkInv, CallFailsInv, CrashInv DEF Next, Step

(* The invariant behind the theorems below holds in every state, whatever  *)
(* the handlers, workers and failures do (FilesService, UploadProcessor).  *)
THEOREM InductiveInvariant ==
    ASSUME FilesAssumption PROVE Spec => []IInv
BY InitIInv, StepIInv, PTL DEF Spec

(* A file offered for download has a hash and no chunk still to come.      *)
THEOREM AvailableSettled ==
    ASSUME FilesAssumption PROVE Spec => []AvailableIsSettled
<1>1. IInv => AvailableIsSettled
    BY DEF IInv, HashInv, Hashed, UnsettledInv, Unsettled, Early, AvailableIsSettled
<1> QED BY <1>1, InductiveInvariant, PTL

(* An upload job, from the queue to the moment it assembles the file,      *)
(* finds data in every chunk row.                                          *)
THEOREM ProcessedHaveData ==
    ASSUME FilesAssumption PROVE Spec => []ProcessedChunksHaveData
<1>1. IInv => ProcessedChunksHaveData
    <2> SUFFICES ASSUME IInv, NEW f \in FileIds, NEW i \in Present(f),
                        \/ \E k \in 0..1 : waiting[f][k] > 0
                        \/ \E w \in Workers : At(w, "jobAssemble") /\ proc[w].file = f
                 PROVE  chunks[f][i].data # Null
        BY DEF ProcessedChunksHaveData
    <2>1. ~Unsettled(f)
        BY DEF IInv, UnsettledInv, At
    <2>2. i \in Indices /\ chunks[f][i].status = "uploaded"
        <3>1. i \in Indices /\ chunks[f][i].status # "absent"
            BY DEF Present
        <3>2. chunks[f][i] \in Chunk
            BY <3>1 DEF IInv, TypeOK, TablesOK
        <3>3. chunks[f][i].status # "uploading"
            BY <2>1, <3>1 DEF Unsettled, Uploading
        <3> QED BY <3>1, <3>2, <3>3 DEF Chunk
    <2> QED BY <2>2 DEF IInv, DataInv
<1> QED BY <1>1, InductiveInvariant, PTL

-----------------------------------------------------------------------------
(* Deletion.  A file comes back only through a handler that had loaded its *)
(* row before the row was deleted: save() inserts it again.  Once no such  *)
(* handler is left there will be none, for a file that is gone cannot be   *)
(* loaded, and its id is not drawn again.                                  *)

Saving == {"count", "mark", "update",
           "jobAssemble", "jobPublish", "jobReplicate", "jobFail"}

DeletedAlone ==
    \A f \in deleted' \ deleted :
        \A p \in Procs : proc[p].file = f => proc[p].at \notin Saving

GoneInv ==
    \A f \in deleted :
        /\ f \in born /\ files[f].status = "absent"
        /\ \A p \in Procs : proc[p].file = f => proc[p].at \notin Saving

(* A handler that works on a file moves on with it, or with another that   *)
(* is there, and saves no file that is gone.                               *)
LEMMA GoneMove ==
    ASSUME IInv, GoneInv, NEW p \in Procs, NEW r, proc' = [proc EXCEPT ![p] = r],
           r.at \in Saving => \/ r.file = proc[p].file /\ proc[p].at \in Saving
                             \/ files[r.file].status # "absent",
           deleted' = deleted, born \subseteq born',
           \A f \in FileIds : files[f].status = "absent" =>
              \/ files'[f].status = "absent"
              \/ f \notin born
              \/ proc[p].file = f /\ proc[p].at \in Saving
    PROVE  GoneInv'
<1> SUFFICES ASSUME NEW f \in deleted
             PROVE  /\ f \in born' /\ files'[f].status = "absent"
                    /\ \A q \in Procs : proc'[q].file = f => proc'[q].at \notin Saving
    BY DEF GoneInv
<1>1. /\ f \in FileIds /\ f \in born /\ files[f].status = "absent"
      /\ \A q \in Procs : proc[q].file = f => proc[q].at \notin Saving
    BY DEF GoneInv, IInv, TypeOK, TablesOK
<1>2. proc'[p] = r /\ \A q \in Procs \ {p} : proc'[q] = proc[q]
    BY DEF IInv, TypeOK, HandlersOK
<1> QED BY <1>1, <1>2

(* The tables of files stay. *)
LEMMA GoneQuiet ==
    ASSUME IInv, GoneInv, NEW p \in Procs, NEW r, proc' = [proc EXCEPT ![p] = r],
           r.at \in Saving => \/ r.file = proc[p].file /\ proc[p].at \in Saving
                             \/ files[r.file].status # "absent",
           UNCHANGED <<files, deleted, born>>
    PROVE  GoneInv'
BY GoneMove

LEMMA GoneGoto ==
    ASSUME IInv, GoneInv, NEW p \in Procs, NEW step, proc[p].at # "idle", Goto(p, step),
           step \in Saving => proc[p].at \in Saving, UNCHANGED <<deleted, born>>,
           \A f \in FileIds : files[f].status = "absent" =>
              \/ files'[f].status = "absent"
              \/ proc[p].file = f /\ proc[p].at \in Saving
    PROVE  GoneInv'
<1>1. PICK r : r = [proc[p] EXCEPT !.at = step]
    OBVIOUS
<1>2. proc' = [proc EXCEPT ![p] = r] /\ r.at = step /\ r.file = proc[p].file
    BY <1>1, Working DEF Process
<1> QED BY <1>2, GoneMove

LEMMA GoneFinish ==
    ASSUME IInv, GoneInv, NEW p \in Procs, Finish(p), UNCHANGED <<deleted, born>>,
           \A f \in FileIds : files[f].status = "absent" =>
              \/ files'[f].status = "absent"
              \/ proc[p].file = f /\ proc[p].at \in Saving
    PROVE  GoneInv'
<1>1. Idle.at \notin Saving
    BY DEF Idle, Saving
<1> QED BY <1>1, GoneMove DEF Finish

LEMMA SavesOwn ==
    ASSUME IInv, NEW f \in FileIds, NEW row, SaveFile(f, row) \/ UNCHANGED files
    PROVE  \A g \in FileIds \ {f} : files'[g] = files[g]
BY DEF SaveFile, IInv, TypeOK, TablesOK

LEMMA RequestGone ==
    ASSUME FilesAssumption, IInv, GoneInv, NEW s \in Slots, Request(s) \/ DownloadLoad(s)
    PROVE  GoneInv'
<1>1. s \in Procs
    BY DEF Procs
<1>2. CASE CreateFile(s)
    <2>1. PICK f \in FileIds \ born, n \in ChunkCounts, features \in SUBSET Features :
             /\ SaveFile(f, [status |-> "uploading", hash |-> Null,
                             regions |-> <<DefaultRegion>>, features |-> features])
             /\ born' = born \cup {f}
             /\ proc' = [proc EXCEPT ![s] = [Idle EXCEPT !.at = "createChunks", !.file = f,
                                                !.known = 0..(n - 1)]]
        BY <1>2 DEF CreateFile
    <2>2. PICK r : r = [Idle EXCEPT !.at = "createChunks", !.file = f, !.known = 0..(n - 1)]
        OBVIOUS
    <2>3. r.at \notin Saving
        BY <2>2 DEF Idle, Saving
    <2>4. \A g \in FileIds \ {f} : files'[g] = files[g]
        BY <2>1, SavesOwn
    <2>5. proc' = [proc EXCEPT ![s] = r]
        BY <2>1, <2>2
    <2>6. deleted' = deleted
        BY <1>2 DEF CreateFile
    <2> QED BY <1>1, <2>1, <2>3, <2>4, <2>5, <2>6, GoneMove
<1>3. CASE UploadLoad(s)
    <2>1. PICK f \in FileIds, i \in Indices, d \in Payloads :
             /\ files[f].status = "uploading"
             /\ proc' = [proc EXCEPT ![s] = [Idle EXCEPT !.at = "saveChunk", !.file = f,
                             !.row = files[f], !.known = Present(f), !.index = i, !.data = d]]
        BY <1>3 DEF UploadLoad
    <2>2. PICK r : r = [Idle EXCEPT !.at = "saveChunk", !.file = f, !.row = files[f],
                                    !.known = Present(f), !.index = i, !.data = d]
        OBVIOUS
    <2>3. r.file = f
        BY <2>2 DEF Idle
    <2> QED BY <1>1, <1>3, <2>1, <2>2, <2>3, GoneQuiet DEF UploadLoad
<1>4. CASE UpdateLoad(s)
    <2>1. PICK f \in FileIds, patch \in Patches :
             /\ files[f].status # "absent"
             /\ proc' = [proc EXCEPT ![s] = [Idle EXCEPT !.at = "update", !.file = f,
                             !.row = Patched(files[f], patch), !.known = Present(f)]]
        BY <1>4 DEF UpdateLoad
    <2>2. PICK r : r = [Idle EXCEPT !.at = "update", !.file = f,
                                    !.row = Patched(files[f], patch), !.known = Present(f)]
        OBVIOUS
    <2>3. r.file = f
        BY <2>2 DEF Idle
    <2> QED BY <1>1, <1>4, <2>1, <2>2, <2>3, GoneQuiet DEF UpdateLoad
<1>5. CASE RemoveLoad(s) \/ DownloadLoad(s)
    <2>1. PICK f \in FileIds, step \in {"removeChunks", "assemble"} : Load(s, f, step)
        BY <1>5 DEF RemoveLoad, DownloadLoad
    <2>2. PICK r : r = [Idle EXCEPT !.at = step, !.file = f, !.row = files[f],
                                    !.known = Present(f)]
        OBVIOUS
    <2>3. r.at \notin Saving
        BY <2>2 DEF Idle, Saving
    <2> QED BY <1>1, <1>5, <2>1, <2>2, <2>3, GoneQuiet DEF RemoveLoad, DownloadLoad, Load
<1> QED BY <1>2, <1>3, <1>4, <1>5 DEF Request

LEMMA HandleGone ==
    ASSUME FilesAssumption, IInv, GoneInv, NEW s \in Slots, Handle(s), DeletedAlone
    PROVE  GoneInv'
<1>1. s \in Procs
    BY DEF Procs
<1>2. proc[s].at # "idle"
    BY DEF Handle, CreateChunks, UploadSave, UploadCount, UploadMark, UploadEnqueue,
           UpdateSave, RemoveChunks, RemoveFile, DownloadAssemble, DownloadRespond, At
<1>3. PICK f \in FileIds : f = proc[s].file /\ f \in born
    BY <1>1, <1>2, Working
<1>4. CASE CreateChunks(s)
    BY <1>1, <1>4, GoneFinish DEF CreateChunks
<1>5. CASE UploadSave(s)
    <2>1. CASE files[f].status # "absent"
        <3>1. Goto(s, "count") /\ UNCHANGED <<files, deleted, born>>
            BY <1>3, <1>5, <2>1 DEF UploadSave
        <3>2. PICK r : r = [proc[s] EXCEPT !.at = "count"]
            OBVIOUS
        <3>3. proc' = [proc EXCEPT ![s] = r] /\ r.file = f
            BY <1>1, <1>2, <1>3, <3>1, <3>2, Working DEF Process
        <3> QED BY <1>1, <2>1, <3>1, <3>3, GoneQuiet
    <2>2. CASE files[f].status = "absent"
        BY <1>1, <1>3, <1>5, <2>2, GoneFinish DEF UploadSave
    <2> QED BY <2>1, <2>2
<1>6. CASE UploadCount(s)
    <2>1. /\ Goto(s, "mark") \/ Finish(s)
          /\ proc[s].at \in Saving
          /\ UNCHANGED <<files, deleted, born>>
        BY <1>6 DEF UploadCount, At, Saving
    <2> QED BY <1>1, <1>2, <2>1, GoneFinish, GoneGoto
<1>7. CASE UploadMark(s)
    <2>1. /\ Goto(s, "enqueue") \/ Finish(s)
          /\ proc[s].at \in Saving /\ "enqueue" \notin Saving
          /\ UNCHANGED <<deleted, born>>
          /\ \A g \in FileIds \ {f} : files'[g] = files[g]
        BY <1>3, <1>7, SavesOwn DEF UploadMark, At, Saving
    <2> QED BY <1>1, <1>2, <1>3, <2>1, GoneFinish, GoneGoto
<1>8. CASE UpdateSave(s)
    <2>1. /\ Finish(s)
          /\ proc[s].at \in Saving
          /\ UNCHANGED <<deleted, born>>
          /\ \A g \in FileIds \ {f} : files'[g] = files[g]
        BY <1>3, <1>8, SavesOwn DEF UpdateSave, At, Saving
    <2> QED BY <1>1, <1>3, <2>1, GoneFinish
<1>9. CASE UploadEnqueue(s) \/ RemoveChunks(s) \/ DownloadAssemble(s) \/ DownloadRespond(s)
    <2>1. UNCHANGED <<files, deleted, born>>
        BY <1>9 DEF UploadEnqueue, RemoveChunks, DownloadAssemble, DownloadRespond
    <2>2. \/ Finish(s) \/ Goto(s, "removeFile")
          \/ proc' = [proc EXCEPT ![s].at = "respond", ![s].data = Content(f)]
        BY <1>3, <1>9 DEF UploadEnqueue, RemoveChunks, DownloadAssemble, DownloadRespond
    <2>3. CASE Finish(s) \/ Goto(s, "removeFile")
        <3>1. "removeFile" \notin Saving
            BY DEF Saving
        <3> QED BY <1>1, <1>2, <2>1, <2>3, <3>1, GoneFinish, GoneGoto
    <2>4. CASE proc' = [proc EXCEPT ![s].at = "respond", ![s].data = Content(f)]
        <3>1. PICK r : r = [proc[s] EXCEPT !.at = "respond", !.data = Content(f)]
            OBVIOUS
        <3>2. proc[s] \in Process /\ proc \in [Procs -> Process]
            BY <1>1, <1>2, Working DEF IInv, TypeOK, HandlersOK
        <3>3. r.at = "respond"
            BY <3>1, <3>2 DEF Process
        <3>4. proc' = [proc EXCEPT ![s] = r]
            BY <1>1, <2>4, <3>1, <3>2 DEF Process
        <3>5. r.at \notin Saving
            BY <3>3 DEF Saving
        <3> QED BY <1>1, <2>1, <3>5, <3>4, GoneQuiet
    <2> QED BY <2>2, <2>3, <2>4
<1>10. CASE RemoveFile(s)
    <2>1. CASE UNCHANGED <<files, deleted>>
        BY <1>1, <1>10, <2>1, GoneFinish DEF RemoveFile
    <2>2. CASE SaveFile(f, NoRow) /\ deleted' = deleted \cup {f}
        <3> SUFFICES ASSUME NEW g \in deleted \cup {f}
                     PROVE  /\ g \in born' /\ files'[g].status = "absent"
                            /\ \A q \in Procs : proc'[q].file = g => proc'[q].at \notin Saving
            BY <2>2 DEF GoneInv
        <3>1. g \in FileIds /\ g \in born /\ born' = born
            BY <1>3, <1>10 DEF GoneInv, IInv, TypeOK, TablesOK, RemoveFile
        <3>2. files'[g].status = "absent"
            BY <2>2, <3>1 DEF GoneInv, SaveFile, NoRow, IInv, TypeOK, TablesOK
        <3>3. \A q \in Procs : proc[q].file = g => proc[q].at \notin Saving
            BY <2>2 DEF GoneInv, DeletedAlone
        <3>4. /\ proc'[s].at \notin Saving
              /\ \A q \in Procs \ {s} : proc'[q] = proc[q]
            BY <1>1, <1>10 DEF RemoveFile, Finish, Idle, Saving, IInv, TypeOK, HandlersOK
        <3> QED BY <3>1, <3>2, <3>3, <3>4
    <2> QED BY <1>3, <1>10, <2>1, <2>2 DEF RemoveFile
<1> QED
    BY <1>4, <1>5, <1>6, <1>7, <1>8, <1>9, <1>10 DEF Handle

LEMMA WorkGone ==
    ASSUME FilesAssumption, IInv, GoneInv, NEW w \in Workers, Work(w)
    PROVE  GoneInv'
<1>1. w \in Procs
    BY DEF Procs
<1>2. UNCHANGED <<deleted, born>>
    BY DEF Work, JobStart, JobAssemble, JobPublish, JobReplicate, JobFail, JobFeatures,
           JobCompress, JobDeduplicate
<1>3. CASE JobStart(w)
    <2>1. PICK f \in FileIds, stalls \in 0..1 :
             proc' = [proc EXCEPT ![w] =
                IF files[f].status = "absent" THEN Idle
                ELSE [Idle EXCEPT
                       !.at = IF files[f].status = "processing" THEN "jobAssemble"
                                                                ELSE "jobFeatures",
                       !.file = f, !.row = files[f], !.known = Present(f),
                       !.stalls = stalls]]
        BY <1>3 DEF JobStart
    <2>2. PICK r : r = IF files[f].status = "absent" THEN Idle
                       ELSE [Idle EXCEPT
                              !.at = IF files[f].status = "processing" THEN "jobAssemble"
                                                                       ELSE "jobFeatures",
                              !.file = f, !.row = files[f], !.known = Present(f),
                              !.stalls = stalls]
        OBVIOUS
    <2>3. r.at \in Saving => files[r.file].status # "absent"
        BY <2>2 DEF Idle, Saving
    <2>4. proc' = [proc EXCEPT ![w] = r] /\ files' = files
        BY <1>3, <2>1, <2>2 DEF JobStart
    <2> QED BY <1>1, <1>2, <2>3, <2>4, GoneQuiet
<1>4. ASSUME proc[w].at # "idle" PROVE GoneInv'
    <2>1. PICK f \in FileIds : f = proc[w].file
        BY <1>1, <1>4, Working
    <2>2. CASE JobAssemble(w)
        <3>1. proc[w].at \in Saving /\ "jobFail" \in Saving /\ UNCHANGED files
            BY <2>2 DEF JobAssemble, At, Saving
        <3>2. CASE Goto(w, "jobFail")
            BY <1>1, <1>2, <1>4, <3>1, <3>2, GoneGoto
        <3>3. CASE proc' = [proc EXCEPT ![w].at = "jobPublish", ![w].row =
                              [@ EXCEPT !.status = "available", !.hash = Content(f)]]
            <4>1. PICK r : r = [proc[w] EXCEPT !.at = "jobPublish", !.row =
                                   [@ EXCEPT !.status = "available", !.hash = Content(f)]]
                OBVIOUS
            <4>2. proc[w] \in Process /\ proc \in [Procs -> Process]
                BY <1>1, <1>4, Working DEF IInv, TypeOK, HandlersOK
            <4>3. r.file = proc[w].file
                BY <4>1, <4>2 DEF Process
            <4>4. proc' = [proc EXCEPT ![w] = r]
                BY <1>1, <3>3, <4>1, <4>2 DEF Process
            <4> QED BY <1>1, <1>2, <3>1, <4>3, <4>4, GoneQuiet
        <3> QED BY <2>1, <2>2, <3>2, <3>3 DEF JobAssemble
    <2>3. CASE JobPublish(w) \/ JobFail(w)
        <3>1. /\ \/ Finish(w)
                 \/ \E step \in {"jobReplicate", "jobFeatures", "jobFail"} : Goto(w, step)
              /\ proc[w].at \in Saving
            BY <2>3 DEF JobPublish, JobFail, At, Saving
        <3>2. \A g \in FileIds \ {f} : files'[g] = files[g]
            BY <2>1, <2>3, SavesOwn DEF JobPublish, JobFail
        <3> QED BY <1>1, <1>2, <1>4, <2>1, <3>1, <3>2, GoneFinish, GoneGoto
    <2>4. CASE JobReplicate(w) \/ JobCompress(w) \/ JobDeduplicate(w)
        <3>1. /\ \/ Finish(w)
                 \/ \E step \in {"jobFeatures", "jobDeduplicate"} : Goto(w, step)
              /\ UNCHANGED files
            BY <2>4 DEF JobReplicate, JobCompress, JobDeduplicate
        <3>2. "jobFeatures" \notin Saving /\ "jobDeduplicate" \notin Saving
            BY DEF Saving
        <3> QED BY <1>1, <1>2, <1>4, <3>1, <3>2, GoneFinish, GoneGoto
    <2>5. CASE JobFeatures(w)
        <3> DEFINE row == files[f]
        <3>1. PICK r : /\ r = IF "compression" \in row.features
                              THEN [proc[w] EXCEPT !.at = "jobCompress", !.row = row]
                              ELSE IF "deduplication" \in row.features
                              THEN [proc[w] EXCEPT !.at = "jobDeduplicate", !.row = row]
                              ELSE Idle
                       /\ proc' = [proc EXCEPT ![w] = r]
            BY <1>1, <2>1, <2>5 DEF JobFeatures, IInv, TypeOK, HandlersOK
        <3>2. r.at \in {"jobCompress", "jobDeduplicate", "idle"}
            BY <1>1, <1>4, <3>1, Working DEF Process, Idle
        <3>3. r.at \notin Saving /\ files' = files
            BY <2>5, <3>2 DEF Saving, JobFeatures
        <3> QED BY <1>1, <1>2, <3>1, <3>3, GoneQuiet
    <2> QED BY <1>4, <2>2, <2>3, <2>4, <2>5 DEF Work, JobStart, At
<1>5. ~JobStart(w) => proc[w].at # "idle"
    BY DEF Work, JobAssemble, JobPublish, JobReplicate, JobFail, JobFeatures,
           JobCompress, JobDeduplicate, At
<1> QED BY <1>3, <1>4, <1>5

LEMMA CallFailsGone ==
    ASSUME FilesAssumption, IInv, GoneInv, NEW p \in Procs, CallFails(p)
    PROVE  GoneInv'
<1>1. proc[p].at # "idle" /\ UNCHANGED <<files, deleted, born>>
    BY DEF CallFails, At
<1>2. CASE Finish(p)
    BY <1>1, <1>2, GoneFinish
<1>3. CASE Goto(p, "jobFail") /\ proc[p].at \in {"jobAssemble", "jobPublish", "jobReplicate"}
    <2>1. proc[p].at \in Saving
        BY <1>3 DEF Saving
    <2> QED BY <1>1, <1>3, <2>1, GoneGoto
<1> QED BY <1>2, <1>3 DEF CallFails

LEMMA GoneStep ==
    ASSUME FilesAssumption, IInv, GoneInv, [Next]_vars, [DeletedAlone]_vars
    PROVE  GoneInv'
<1>1. CASE UNCHANGED vars
    BY <1>1 DEF vars, GoneInv
<1>2. CASE Crash
    <2>1. \A p \in Procs : proc'[p].at \notin Saving
        BY <1>2 DEF Crash, Idle, Saving
    <2> QED BY <1>2, <2>1 DEF Crash, GoneInv
<1>3. CASE \E s \in Slots : Handle(s)
    <2>1. PICK s \in Slots : Handle(s)
        BY <1>3
    <2>2. CASE UNCHANGED vars
        BY <1>1, <2>2
    <2> QED BY <2>1, <2>2, HandleGone
<1> QED BY <1>1, <1>2, <1>3, RequestGone, WorkGone, CallFailsGone DEF Next, Step

(* A deleted file stays deleted (remove(), FilesService), provided that no *)
(* other handler that will save the file's row has loaded it by the time   *)
(* DELETE takes effect: neither PATCH nor the end of an upload nor the     *)
(* worker of its upload job.  Handlers that start later may do anything,   *)
(* and calls may fail.                                                     *)
THEOREM DeletedStay ==
    ASSUME FilesAssumption
    PROVE  Spec /\ [][DeletedAlone]_vars => []DeletedStaysDeleted
<1>1. Init => GoneInv
    BY DEF Init, GoneInv
<1>2. GoneInv => DeletedStaysDeleted
    BY DEF GoneInv, DeletedStaysDeleted
<1> QED BY <1>1, <1>2, GoneStep, InductiveInvariant, PTL DEF Spec

=============================================================================
