----------------------------- MODULE StoreProofs -----------------------------
(***************************************************************************)
(* Files implements ObjectStore, and signed URLs serve what was signed, if *)
(* no client sends a DELETE and repeated requests carry the same bytes.    *)
(* PATCHes, crashes and failed calls are unlimited.                        *)
(***************************************************************************)
EXTENDS Downloads, FilesProofs

NothingDeleted == "remove" \notin Ops /\ SameBytes

Uploads == {"saveChunk", "count", "mark", "enqueue"}

(* A request has come past the guards of uploadChunk for this file. *)
Touched(f) ==
    \/ \E k \in 0..1 : waiting[f][k] > 0
    \/ \E p \in Procs : proc[p].file = f /\ (p \in Workers \/ proc[p].at \in Uploads)

NoRemoval == \A p \in Procs : proc[p].at \notin {"removeChunks", "removeFile"}

EmptyInv ==
    \A f \in FileIds, i \in Indices : chunks[f][i].status # "uploaded" => chunks[f][i].data = Null

TouchedInv == \A f \in FileIds : Touched(f) => Present(f) # {}

(* Requests that are about to save a chunk all have the bytes that may be  *)
(* there already.                                                          *)
SameData(r, q) ==
    q.at = "saveChunk" /\ q.file = r.file /\ q.index = r.index => q.data = r.data

SavingOK(r) ==
    /\ chunks[r.file][r.index].status # "absent"
    /\ chunks[r.file][r.index].status = "uploaded" => chunks[r.file][r.index].data = r.data
    /\ \A q \in Procs : SameData(r, proc[q])

SavingInv == \A p \in Procs : At(p, "saveChunk") => SavingOK(proc[p])

(* The content of a file that has all its chunks does not change any more. *)
Complete(f) == Present(f) # {} /\ ~Unsettled(f)

(* Every hash in circulation is that of the chunks as they are. *)
Right(f, hash) == hash # Null => Complete(f) /\ hash = Content(f)
ContentInv ==
    \A f \in FileIds : /\ Right(f, files[f].hash)
                       /\ \A p \in Procs : proc[p].file = f => Right(f, proc[p].row.hash)

SInv == IInv /\ NoRemoval /\ EmptyInv /\ TouchedInv /\ SavingInv /\ ContentInv

LEMMA InitSInv == ASSUME FilesAssumption, Init PROVE SInv
<1>1. IInv
    BY InitIInv
<1>2. \A p \in Procs : proc[p] = Idle
    BY DEF Init
<1>3. NoRemoval /\ SavingInv
    BY <1>2 DEF NoRemoval, SavingInv, At, Idle
<1>4. EmptyInv
    BY DEF EmptyInv, Init, NoChunk
<1>5. Null \notin FileIds
    BY DEF FilesAssumption
<1>6. TouchedInv
    BY <1>2, <1>5 DEF TouchedInv, Touched, Init, Idle
<1>7. ContentInv
    BY <1>2, <1>5 DEF ContentInv, Right, Init, Idle, NoRow
<1> QED BY <1>1, <1>3, <1>4, <1>6, <1>7 DEF SInv

-----------------------------------------------------------------------------
(***************************************************************************)
(* Most steps leave the chunks alone and move one handler p, to the state  *)
(* r, at the file f it works on.                                           *)
(***************************************************************************)
TablesMove(f) ==
    /\ chunks' = chunks
    /\ \A g \in FileIds \ {f} : files'[g] = files[g] /\ waiting'[g] = waiting[g]
    /\ Right(f, files'[f].hash)
    /\ \A k \in 0..1 : waiting'[f][k] > 0 => Touched(f)

HandlerMoves(p, f, r) ==
    /\ p \in Procs /\ f \in FileIds
    /\ proc' = [proc EXCEPT ![p] = r]
    /\ r.file \in {f, Null}
    /\ Right(f, r.row.hash)
    /\ r.at \notin {"createChunks", "removeChunks", "removeFile"}
    /\ r.at = "saveChunk" => SavingOK(r)
    /\ r.file = f /\ (p \in Workers \/ r.at \in Uploads) => Touched(f) \/ Present(f) # {}

Moves(p, f, r) == TablesMove(f) /\ HandlerMoves(p, f, r)

LEMMA MoveContent ==
    ASSUME FilesAssumption, SInv, IInv', NEW p, NEW f, NEW r, Moves(p, f, r)
    PROVE  SInv' /\ \A g \in FileIds : Unsettled(g)' => Unsettled(g)
<1> USE DEF Moves, TablesMove, HandlerMoves
<1>1. proc'[p] = r /\ \A q \in Procs \ {p} : proc'[q] = proc[q]
    BY DEF SInv, IInv, TypeOK, HandlersOK
<1>2. Null \notin FileIds
    BY DEF FilesAssumption
<1>3. \A g \in FileIds : /\ Present(g)' = Present(g) /\ Uploading(g)' = Uploading(g)
                         /\ Content(g)' = Content(g)
    BY DEF Present, Uploading, Content
<1>4. \A g \in FileIds : Creating(g)' => Creating(g)
    BY <1>1 DEF Creating, At, Procs
<1>5. \A g \in FileIds : Unsettled(g)' => Unsettled(g)
    BY <1>3, <1>4 DEF Unsettled
<1>6. NoRemoval' /\ EmptyInv'
    BY <1>1 DEF SInv, NoRemoval, EmptyInv
<1>7. TouchedInv'
    <2>1. ASSUME NEW g \in FileIds, Touched(g)' PROVE Touched(g) \/ Present(g) # {}
        <3>1. CASE \E k \in 0..1 : waiting'[g][k] > 0
            BY <3>1 DEF Touched
        <3>2. CASE \E q \in Procs : proc'[q].file = g /\ (q \in Workers \/ proc'[q].at \in Uploads)
            BY <1>1, <1>2, <3>2 DEF Touched
        <3> QED BY <2>1, <3>1, <3>2 DEF Touched
    <2> QED BY <1>3, <2>1 DEF SInv, TouchedInv
<1>8. SavingInv'
    <2>1. ASSUME NEW q \in Procs, proc'[q].at = "saveChunk" PROVE SavingOK(proc[q])'
        <3>1. SavingOK(proc'[q])
            BY <1>1, <2>1 DEF SInv, SavingInv, At
        <3>2. ASSUME NEW o \in Procs PROVE SameData(proc'[q], proc'[o])
            <4>1. CASE o # p
                BY <1>1, <3>1, <4>1 DEF SavingOK
            <4>2. CASE o = p /\ q # p
                <5>1. r.at = "saveChunk" => SameData(r, proc[q])
                    BY DEF SavingOK
                <5> QED BY <1>1, <2>1, <4>2, <5>1 DEF SameData
            <4>3. CASE o = p /\ q = p
                BY <4>3 DEF SameData
            <4> QED BY <4>1, <4>2, <4>3
        <3> QED BY <3>1, <3>2 DEF SavingOK, SameData
    <2> QED BY <2>1 DEF SavingInv, At
<1>9. ContentInv'
    <2>1. ASSUME NEW g \in FileIds, NEW h, Right(g, h) PROVE Right(g, h)'
        BY <1>3, <1>5, <2>1 DEF Complete, Right
    <2>2. ASSUME NEW g \in FileIds PROVE Right(g, files'[g].hash)
        BY DEF SInv, ContentInv
    <2>3. ASSUME NEW g \in FileIds, NEW q \in Procs, proc'[q].file = g
          PROVE  Right(g, proc'[q].row.hash)
        BY <1>1, <1>2, <2>3 DEF SInv, ContentInv
    <2> QED BY <2>1, <2>2, <2>3 DEF ContentInv
<1> QED BY <1>5, <1>6, <1>7, <1>8, <1>9 DEF SInv

(* What the parts of a step contribute. *)

LEMMA TablesSame ==
    ASSUME SInv, NEW f \in FileIds, UNCHANGED <<files, chunks, waiting>>
    PROVE  TablesMove(f)
BY DEF TablesMove, SInv, ContentInv, Touched

LEMMA TablesSaved ==
    ASSUME SInv, NEW f \in FileIds, NEW row, SaveFile(f, row), UNCHANGED <<chunks, waiting>>,
           Right(f, row.hash)
    PROVE  TablesMove(f)
BY DEF TablesMove, SInv, IInv, TypeOK, TablesOK, SaveFile, Touched

LEMMA AtWork ==
    ASSUME SInv, NEW p \in Procs, proc[p].at # "idle"
    PROVE  /\ proc[p].file \in FileIds
           /\ Right(proc[p].file, proc[p].row.hash)
           /\ p \in Workers \/ proc[p].at \in Uploads => Touched(proc[p].file)
BY DEF SInv, IInv, TypeOK, HandlersOK, HandlerOK, ContentInv, Touched

LEMMA FinishMoves ==
    ASSUME FilesAssumption, SInv, NEW p \in Procs, Finish(p), NEW f \in FileIds
    PROVE  HandlerMoves(p, f, Idle)
BY DEF HandlerMoves, Finish, Idle, NoRow, Right, FilesAssumption

LEMMA GotoMoves ==
    ASSUME SInv, NEW p \in Procs, proc[p].at # "idle", NEW step, Goto(p, step),
           step \notin {"createChunks", "saveChunk", "removeChunks", "removeFile"},
           step \in Uploads => proc[p].at \in Uploads
    PROVE  HandlerMoves(p, proc[p].file, [proc[p] EXCEPT !.at = step])
<1>1. proc[p] \in Process /\ proc' = [proc EXCEPT ![p] = [proc[p] EXCEPT !.at = step]]
    BY DEF Goto, SInv, IInv, TypeOK, HandlersOK
<1> QED BY <1>1, AtWork DEF HandlerMoves, Process

LEMMA LoadMoves ==
    ASSUME SInv, NEW p \in Slots, NEW f \in FileIds, Load(p, f, "assemble"), p \notin Workers
    PROVE  \E r : HandlerMoves(p, f, r)
<1> DEFINE r == [Idle EXCEPT !.at = "assemble", !.file = f, !.row = files[f],
                             !.known = Present(f)]
<1>1. r.at = "assemble" /\ r.file = f /\ r.row = files[f]
    BY DEF Idle
<1>2. proc' = [proc EXCEPT ![p] = r]
    BY DEF Load
<1> HIDE DEF r
<1>3. HandlerMoves(p, f, r)
    BY <1>1, <1>2 DEF HandlerMoves, SInv, ContentInv, Procs, Uploads
<1> QED BY <1>3

-----------------------------------------------------------------------------
(* The steps of that kind.  All but the save of a chunk and the two steps  *)
(* of create() are, if nothing is deleted, and a stop is a step of its own.*)

Moving == \E p, f, r : Moves(p, f, r)

LEMMA FinishMoving ==
    ASSUME FilesAssumption, SInv, NEW p \in Procs, proc[p].at # "idle", Finish(p),
           TablesMove(proc[p].file)
    PROVE  Moving
BY AtWork, FinishMoves DEF Moves, Moving

LEMMA GotoMoving ==
    ASSUME SInv, NEW p \in Procs, proc[p].at # "idle", NEW step, Goto(p, step),
           step \notin {"createChunks", "saveChunk", "removeChunks", "removeFile"},
           step \in Uploads => proc[p].at \in Uploads,
           TablesMove(proc[p].file)
    PROVE  Moving
BY GotoMoves DEF Moves, Moving

LEMMA SaveMoving ==
    ASSUME SInv, NEW p \in Procs, proc[p].at # "idle", NEW row, row.hash = proc[p].row.hash,
           \/ SaveFile(proc[p].file, row)
           \/ UNCHANGED files,
           UNCHANGED <<chunks, waiting>>
    PROVE  TablesMove(proc[p].file)
BY AtWork, TablesSaved, TablesSame

LEMMA UpdateLoadMoving ==
    ASSUME FilesAssumption, SInv, NEW s \in Slots, UpdateLoad(s) PROVE Moving
<1>1. PICK f \in FileIds, patch \in Patches :
         proc' = [proc EXCEPT ![s] = [Idle EXCEPT !.at = "update", !.file = f,
                        !.row = Patched(files[f], patch), !.known = Present(f)]]
    BY DEF UpdateLoad
<1> DEFINE r == [Idle EXCEPT !.at = "update", !.file = f,
                             !.row = Patched(files[f], patch), !.known = Present(f)]
<1>2. r.at = "update" /\ r.file = f /\ r.row = Patched(files[f], patch)
    BY DEF Idle
<1> HIDE DEF r
<1>3. r.row.hash = files[f].hash
    <2>1. files[f] \in Row
        BY DEF SInv, IInv, TypeOK, TablesOK
    <2>2. Patched(files[f], patch).hash = files[f].hash
        BY <2>1 DEF Patched, Row
    <2> QED BY <1>2, <2>2
<1>4. s \in Procs /\ s \notin Workers
    BY DEF Procs, FilesAssumption
<1>5. HandlerMoves(s, f, r)
    BY <1>1, <1>2, <1>3, <1>4 DEF r, HandlerMoves, SInv, ContentInv, Uploads
<1>6. TablesMove(f)
    BY TablesSame DEF UpdateLoad
<1> QED BY <1>5, <1>6 DEF Moves, Moving

(* A chunk still to come has no bytes, and whoever is about to save it has *)
(* the bytes of this request.                                              *)
LEMMA UploadLoadMoving ==
    ASSUME FilesAssumption, NothingDeleted, SInv, NEW s \in Slots, UploadLoad(s)
    PROVE  Moving
<1>1. PICK f \in FileIds, i \in Indices, d \in Payloads :
         /\ chunks[f][i].status = "uploading"
         /\ ClientSends(f, i, d)
         /\ proc' = [proc EXCEPT ![s] = [Idle EXCEPT !.at = "saveChunk", !.file = f,
                        !.row = files[f], !.known = Present(f), !.index = i, !.data = d]]
    BY DEF UploadLoad
<1> DEFINE r == [Idle EXCEPT !.at = "saveChunk", !.file = f,
                        !.row = files[f], !.known = Present(f), !.index = i, !.data = d]
<1>2. /\ r.at = "saveChunk" /\ r.file = f /\ r.row = files[f]
      /\ r.index = i /\ r.data = d
    BY DEF Idle
<1>3. proc' = [proc EXCEPT ![s] = r]
    BY <1>1
<1> HIDE DEF r
<1>4. i \in Present(f) /\ s \in Procs
    BY <1>1 DEF Present, Procs
<1>5. \A q \in Procs : SameData(r, proc[q])
    <2>1. \A q \in Procs : proc[q].at = "saveChunk" => q \in Slots
        BY DEF SInv, IInv, TypeOK, HandlersOK, HandlerOK, JobSteps, Procs
    <2> QED BY <1>1, <1>2, <2>1 DEF SameData, ClientSends, NothingDeleted, At
<1>6. SavingOK(r)
    BY <1>1, <1>2, <1>5 DEF SavingOK
<1>7. HandlerMoves(s, f, r)
    BY <1>2, <1>3, <1>4, <1>6 DEF HandlerMoves, SInv, ContentInv
<1>8. TablesMove(f)
    BY TablesSame DEF UploadLoad
<1> QED BY <1>7, <1>8 DEF Moves, Moving

LEMMA SlotMoving ==
    ASSUME FilesAssumption, SInv, NEW s \in Slots,
           \/ UpdateLoad(s) \/ DownloadLoad(s)
           \/ UploadCount(s) \/ UploadMark(s) \/ UploadEnqueue(s)
           \/ UpdateSave(s) \/ DownloadAssemble(s) \/ DownloadRespond(s)
    PROVE  Moving
<1>0. s \in Procs /\ s \notin Workers
    BY DEF Procs, FilesAssumption
<1>1. CASE UpdateLoad(s)
    BY <1>1, UpdateLoadMoving
<1>2. CASE DownloadLoad(s)
    <2>1. PICK f \in FileIds : Load(s, f, "assemble")
        BY <1>2 DEF DownloadLoad
    <2> QED BY <1>0, <1>2, <2>1, LoadMoves, TablesSame DEF DownloadLoad, Moves, Moving
<1>3. CASE UploadCount(s)
    <2>1. proc[s].at = "count" /\ TablesMove(proc[s].file)
        BY <1>0, <1>3, AtWork, TablesSame DEF UploadCount, At
    <2> QED BY <1>0, <1>3, <2>1, FinishMoving, GotoMoving DEF UploadCount, Uploads
<1>4. CASE UploadMark(s)
    <2>1. proc[s].at = "mark" /\ TablesMove(proc[s].file)
        <3>1. [proc[s].row EXCEPT !.status = "processing"].hash = proc[s].row.hash
            BY <1>0 DEF SInv, IInv, TypeOK, HandlersOK, Process, Row
        <3> QED BY <1>0, <1>4, <3>1, SaveMoving DEF UploadMark, At
    <2> QED BY <1>0, <1>4, <2>1, FinishMoving, GotoMoving DEF UploadMark, Uploads
<1>5. CASE UploadEnqueue(s)
    <2>1. proc[s].at = "enqueue" /\ proc[s].file \in FileIds /\ Touched(proc[s].file)
        BY <1>0, <1>5, AtWork DEF UploadEnqueue, At, Uploads
    <2>2. \A g \in FileIds \ {proc[s].file} : waiting'[g] = waiting[g]
        BY <1>5, <2>1 DEF UploadEnqueue, Enqueue, SInv, IInv, TypeOK, TablesOK
    <2>3. TablesMove(proc[s].file)
        BY <1>5, <2>1, <2>2 DEF UploadEnqueue, TablesMove, SInv, ContentInv
    <2> QED BY <1>0, <1>5, <2>1, <2>3, FinishMoving DEF UploadEnqueue
<1>6. CASE UpdateSave(s)
    <2>1. proc[s].at = "update" /\ TablesMove(proc[s].file)
        BY <1>0, <1>6, SaveMoving DEF UpdateSave, At
    <2> QED BY <1>0, <1>6, <2>1, FinishMoving DEF UpdateSave
<1>7. CASE DownloadAssemble(s)
    <2>1. /\ proc[s].at = "assemble" /\ proc[s].file \in FileIds
          /\ TablesMove(proc[s].file) /\ Right(proc[s].file, proc[s].row.hash)
        BY <1>0, <1>7, AtWork, TablesSame DEF DownloadAssemble, At
    <2>2. CASE Finish(s)
        BY <1>0, <2>1, <2>2, FinishMoving
    <2>3. CASE ~Finish(s)
        <3> DEFINE r == [proc[s] EXCEPT !.at = "respond", !.data = Content(proc[s].file)]
        <3>1. proc' = [proc EXCEPT ![s] = r]
            BY <1>0, <1>7, <2>3 DEF DownloadAssemble, SInv, IInv, TypeOK, HandlersOK
        <3>2. r.at = "respond" /\ r.file = proc[s].file /\ r.row = proc[s].row
            BY <1>0 DEF SInv, IInv, TypeOK, HandlersOK, Process
        <3> HIDE DEF r
        <3>3. HandlerMoves(s, proc[s].file, r)
            BY <1>0, <2>1, <3>1, <3>2 DEF HandlerMoves, Uploads
        <3> QED BY <2>1, <3>3 DEF Moves, Moving
    <2> QED BY <2>2, <2>3
<1>8. CASE DownloadRespond(s)
    <2>1. proc[s].at = "respond" /\ TablesMove(proc[s].file)
        BY <1>0, <1>8, AtWork, TablesSame DEF DownloadRespond, At
    <2> QED BY <1>0, <1>8, <2>1, FinishMoving DEF DownloadRespond
<1> QED BY <1>1, <1>2, <1>3, <1>4, <1>5, <1>6, <1>7, <1>8

LEMMA JobStartMoving ==
    ASSUME FilesAssumption, SInv, NEW w \in Workers, JobStart(w) PROVE Moving
<1>1. PICK f \in FileIds, stalls \in 0..1 :
         /\ waiting[f][stalls] > 0
         /\ waiting' = [waiting EXCEPT ![f][stalls] = @ - 1]
         /\ proc' = [proc EXCEPT ![w] =
               IF files[f].status = "absent" THEN Idle
               ELSE [Idle EXCEPT
                      !.at = IF files[f].status = "processing" THEN "jobAssemble"
                                                               ELSE "jobFeatures",
                      !.file = f, !.row = files[f], !.known = Present(f),
                      !.stalls = stalls]]
    BY DEF JobStart
<1> DEFINE r == IF files[f].status = "absent" THEN Idle
                ELSE [Idle EXCEPT
                      !.at = IF files[f].status = "processing" THEN "jobAssemble"
                                                               ELSE "jobFeatures",
                      !.file = f, !.row = files[f], !.known = Present(f),
                      !.stalls = stalls]
<1>2. \/ r = Idle
      \/ /\ r.at \in {"jobAssemble", "jobFeatures"} /\ r.file = f
         /\ r.row = files[f]
    BY DEF Idle
<1>3. proc' = [proc EXCEPT ![w] = r]
    BY <1>1
<1> HIDE DEF r
<1>4. Touched(f)
    BY <1>1 DEF Touched
<1>5. HandlerMoves(w, f, r)
    BY <1>2, <1>3, <1>4
    DEF HandlerMoves, SInv, ContentInv, Procs, Idle, NoRow, Right
<1>6. \A g \in FileIds \ {f} : waiting'[g] = waiting[g]
    BY <1>1 DEF SInv, IInv, TypeOK, TablesOK
<1>7. TablesMove(f)
    BY <1>4, <1>6 DEF JobStart, TablesMove, SInv, ContentInv
<1> QED BY <1>5, <1>7 DEF Moves, Moving

LEMMA JobAssembleMoving ==
    ASSUME FilesAssumption, SInv, NEW w \in Workers, JobAssemble(w) PROVE Moving
<1> DEFINE f == proc[w].file
           r == [proc[w] EXCEPT !.at = "jobPublish",
                     !.row = [@ EXCEPT !.status = "available", !.hash = Content(f)]]
<1>1. w \in Procs /\ proc[w].at = "jobAssemble" /\ proc[w] \in Process
    BY DEF JobAssemble, At, Procs, SInv, IInv, TypeOK, HandlersOK
<1>2. f \in FileIds /\ Touched(f) /\ TablesMove(f)
    BY <1>1, AtWork, TablesSame DEF JobAssemble
<1>3. Complete(f)
    BY <1>1, <1>2, SettledWhenWorked DEF Complete, SInv, TouchedInv
<1>4. CASE Goto(w, "jobFail")
    BY <1>1, <1>2, <1>4, GotoMoving DEF Uploads
<1>5. CASE ~Goto(w, "jobFail")
    <2>1. proc' = [proc EXCEPT ![w] = r]
        BY <1>5 DEF JobAssemble, SInv, IInv, TypeOK, HandlersOK
    <2>2. r.at = "jobPublish" /\ r.file = f /\ r.row.hash = Content(f)
        BY <1>1 DEF Process, Row
    <2> HIDE DEF r, f
    <2>3. HandlerMoves(w, f, r)
        BY <1>1, <1>2, <1>3, <2>1, <2>2 DEF HandlerMoves, Right
    <2> QED BY <1>2, <2>3 DEF Moves, Moving
<1> QED BY <1>4, <1>5

LEMMA JobFeaturesMoving ==
    ASSUME FilesAssumption, SInv, NEW w \in Workers, JobFeatures(w) PROVE Moving
<1> DEFINE f == proc[w].file
<1>1. w \in Procs /\ proc[w].at = "jobFeatures" /\ proc[w] \in Process
    BY DEF JobFeatures, At, Procs, SInv, IInv, TypeOK, HandlersOK
<1>2. f \in FileIds /\ Touched(f) /\ TablesMove(f)
    BY <1>1, AtWork, TablesSame DEF JobFeatures
<1>3. CASE Finish(w)
    BY <1>1, <1>2, <1>3, FinishMoving
<1>4. ASSUME NEW step \in {"jobCompress", "jobDeduplicate"},
             proc' = [proc EXCEPT ![w] = [@ EXCEPT !.at = step, !.row = files[f]]]
      PROVE  Moving
    <2> DEFINE r == [proc[w] EXCEPT !.at = step, !.row = files[f]]
    <2>1. r.at = step /\ r.file = f /\ r.row = files[f]
        BY <1>1 DEF Process
    <2>2. proc' = [proc EXCEPT ![w] = r]
        BY <1>1, <1>4 DEF SInv, IInv, TypeOK, HandlersOK
    <2> HIDE DEF r, f
    <2>3. HandlerMoves(w, f, r)
        BY <1>1, <1>2, <2>1, <2>2 DEF HandlerMoves, SInv, ContentInv
    <2> QED BY <1>2, <2>3 DEF Moves, Moving
<1> QED BY <1>3, <1>4 DEF JobFeatures, Finish

LEMMA WorkMoving ==
    ASSUME FilesAssumption, SInv, NEW w \in Workers, Work(w) PROVE Moving
<1>0. w \in Procs
    BY DEF Procs
<1>1. CASE JobPublish(w)
    <2>1. proc[w].at = "jobPublish" /\ TablesMove(proc[w].file)
        BY <1>0, <1>1, SaveMoving DEF JobPublish, At
    <2> QED BY <1>0, <1>1, <2>1, GotoMoving DEF JobPublish, Uploads
<1>2. CASE JobFail(w)
    <2>1. proc[w].at = "jobFail" /\ TablesMove(proc[w].file)
        <3>1. [proc[w].row EXCEPT !.status = "failed"].hash = proc[w].row.hash
            BY <1>0 DEF SInv, IInv, TypeOK, HandlersOK, Process, Row
        <3> QED BY <1>0, <1>2, <3>1, SaveMoving DEF JobFail, At
    <2> QED BY <1>0, <1>2, <2>1, FinishMoving DEF JobFail
<1>3. CASE JobReplicate(w) \/ JobCompress(w) \/ JobDeduplicate(w)
    <2>1. proc[w].at # "idle" /\ TablesMove(proc[w].file)
        BY <1>0, <1>3, AtWork, TablesSame DEF JobReplicate, JobCompress, JobDeduplicate, At
    <2> QED BY <1>0, <1>3, <2>1, GotoMoving, FinishMoving
            DEF JobReplicate, JobCompress, JobDeduplicate, Uploads
<1> QED BY <1>1, <1>2, <1>3, JobStartMoving, JobAssembleMoving, JobFeaturesMoving DEF Work

LEMMA CallFailsMoving ==
    ASSUME FilesAssumption, SInv, NEW p \in Procs, CallFails(p) PROVE Moving
<1>1. proc[p].at # "idle" /\ TablesMove(proc[p].file)
    BY AtWork, TablesSame DEF CallFails, At
<1> QED BY <1>1, FinishMoving, GotoMoving DEF CallFails, Uploads

-----------------------------------------------------------------------------
(* The other steps. *)

(* The content of a complete file stays. *)
Stable == \A f \in FileIds : Complete(f) => Complete(f)' /\ Content(f)' = Content(f)

LEMMA MovingStable ==
    ASSUME FilesAssumption, SInv, IInv', Moving PROVE SInv' /\ Stable
<1>1. PICK p, f, r : Moves(p, f, r)
    BY DEF Moving
<1>2. SInv' /\ \A g \in FileIds : Unsettled(g)' => Unsettled(g)
    BY <1>1, MoveContent
<1>3. \A g \in FileIds : Present(g)' = Present(g) /\ Content(g)' = Content(g)
    BY <1>1 DEF Moves, TablesMove, Present, Content
<1> QED BY <1>2, <1>3 DEF Stable, Complete

LEMMA CreateFileStable ==
    ASSUME FilesAssumption, SInv, IInv', NEW s \in Slots, CreateFile(s)
    PROVE  SInv' /\ Stable
<1>1. PICK f \in FileIds \ born, n \in ChunkCounts, features \in SUBSET Features :
        /\ SaveFile(f, [status |-> "uploading", hash |-> Null,
                        regions |-> <<DefaultRegion>>, features |-> features])
        /\ proc' = [proc EXCEPT ![s] = [Idle EXCEPT !.at = "createChunks", !.file = f,
                                           !.known = 0..(n - 1)]]
    BY DEF CreateFile
<1> DEFINE r == [Idle EXCEPT !.at = "createChunks", !.file = f, !.known = 0..(n - 1)]
<1>2. r.at = "createChunks" /\ r.file = f /\ r.row.hash = Null
    BY DEF Idle, NoRow
<1>3. s \in Procs /\ s \notin Workers
    BY DEF FilesAssumption, Procs
<1>4. proc'[s] = r /\ \A p \in Procs \ {s} : proc'[p] = proc[p]
    BY <1>1, <1>3 DEF SInv, IInv, TypeOK, HandlersOK
<1> HIDE DEF r
<1>5. /\ files'[f].hash = Null
      /\ \A g \in FileIds \ {f} : files'[g] = files[g]
      /\ chunks' = chunks /\ waiting' = waiting
    BY <1>1 DEF CreateFile, SaveFile, SInv, IInv, TypeOK, TablesOK
<1>6. \A g \in FileIds : Present(g)' = Present(g) /\ Uploading(g)' = Uploading(g)
                          /\ Content(g)' = Content(g)
    BY <1>5 DEF Present, Uploading, Content
<1>7. /\ Present(f) = {}
      /\ \A k \in 0..1 : waiting[f][k] = 0
      /\ \A p \in Procs : proc[p].file # f
    BY DEF SInv, IInv, UnbornInv
<1>8. \A g \in FileIds \ {f} : Unsettled(g)' => Unsettled(g)
    BY <1>2, <1>4, <1>6 DEF Unsettled, Creating, At, Procs
<1>9. Stable
    BY <1>6, <1>7, <1>8 DEF Stable, Complete
<1>10. NoRemoval' /\ EmptyInv'
    BY <1>2, <1>4, <1>5 DEF SInv, NoRemoval, EmptyInv
<1>11. TouchedInv'
    <2>1. \A g \in FileIds : Touched(g)' => g # f /\ Touched(g)
        BY <1>2, <1>3, <1>4, <1>5, <1>7 DEF Touched, Uploads
    <2> QED BY <1>6, <2>1 DEF SInv, TouchedInv
<1>12. SavingInv'
    <2>1. ASSUME NEW p \in Procs, At(p, "saveChunk")' PROVE SavingOK(proc[p])'
        <3>1. proc'[p] = proc[p] /\ SavingOK(proc[p])
            BY <1>2, <1>4, <2>1 DEF At, SInv, SavingInv
        <3> QED BY <1>2, <1>4, <1>5, <3>1 DEF SavingOK, SameData
    <2> QED BY <2>1 DEF SavingInv
<1>13. ContentInv'
    BY <1>2, <1>4, <1>5, <1>7, <1>9 DEF SInv, ContentInv, Right, Stable
<1> QED BY <1>9, <1>10, <1>11, <1>12, <1>13 DEF SInv

LEMMA ChunkTyped ==
    ASSUME SInv, NEW f \in FileIds, NEW i \in Indices
    PROVE  chunks[f][i] \in Chunk
<1>1. chunks \in [FileIds -> [Indices -> Chunk]]
    BY DEF SInv, IInv, TypeOK, TablesOK
<1>2. chunks[f] \in [Indices -> Chunk]
    BY <1>1
<1> QED BY <1>2

LEMMA CreateChunksStable ==
    ASSUME FilesAssumption, SInv, IInv', NEW s \in Slots, CreateChunks(s)
    PROVE  /\ SInv' /\ Stable
           /\ files' = files
           /\ \A g \in FileIds \ {proc[s].file} : chunks'[g] = chunks[g]
           /\ \A i \in Indices : chunks'[proc[s].file][i] = NoChunk
                                 \/ /\ chunks'[proc[s].file][i].status = "uploading"
                                    /\ chunks'[proc[s].file][i].data = Null
<1>1. s \in Procs /\ s \notin Workers /\ proc[s].at = "createChunks"
    BY DEF CreateChunks, At, FilesAssumption, Procs
<1>f. PICK f \in FileIds : f = proc[s].file
    BY <1>1, AtWork
<1>2. proc'[s] = Idle /\ \A p \in Procs \ {s} : proc'[p] = proc[p]
    BY <1>1 DEF CreateChunks, Finish, SInv, IInv, TypeOK, HandlersOK
<1>3. files' = files /\ waiting' = waiting /\ Idle.at = "idle" /\ Idle.file = Null
        /\ Null \notin FileIds
    BY DEF CreateChunks, Idle, FilesAssumption
<1>4. /\ Present(f) = {} /\ Unsettled(f)
      /\ \A p \in Procs \ {s} : proc[p].file = f =>
            proc[p].at \notin {"createChunks", "saveChunk", "count"}
    BY <1>1, <1>f DEF SInv, IInv, CreatingInv, At, Unsettled, Creating
<1>5. \A i \in Indices : chunks[f][i] = NoChunk
    <2>1. \A i \in Indices : chunks[f][i] \in Chunk
        BY ChunkTyped
    <2>2. \A i \in Indices : chunks[f][i].status = "absent"
        BY <1>4 DEF Present
    <2>3. \A i \in Indices : chunks[f][i].data = Null
        BY <2>2 DEF SInv, EmptyInv
    <2> QED BY <2>1, <2>2, <2>3 DEF Chunk, NoChunk
<1>6. /\ \A g \in FileIds \ {f} : chunks'[g] = chunks[g]
      /\ \A i \in Indices : chunks'[f][i] = NoChunk
                            \/ chunks'[f][i] = [status |-> "uploading", data |-> Null]
    <2>1. CASE InsertChunksOk(f, proc[s].known)
        <3> DEFINE new == [i \in Indices |->
                             IF i \in proc[s].known
                             THEN [status |-> "uploading", data |-> Null]
                             ELSE chunks[f][i]]
        <3>1. chunks' = [chunks EXCEPT ![f] = new]
            BY <1>f, <2>1 DEF CreateChunks
        <3>2. chunks'[f] = new /\ \A g \in FileIds \ {f} : chunks'[g] = chunks[g]
            BY <3>1 DEF SInv, IInv, TypeOK, TablesOK
        <3> QED BY <1>5, <3>2
    <2>2. CASE ~InsertChunksOk(f, proc[s].known)
        BY <1>f, <1>5, <2>2 DEF CreateChunks
    <2> QED BY <2>1, <2>2
<1>7. \A g \in FileIds \ {f} : /\ Present(g)' = Present(g) /\ Uploading(g)' = Uploading(g)
                               /\ Content(g)' = Content(g)
    BY <1>6 DEF Present, Uploading, Content
<1>8. \A g \in FileIds \ {f} : Unsettled(g)' => Unsettled(g)
    BY <1>2, <1>3, <1>7 DEF Unsettled, Creating, At, Procs
<1>9. Stable
    BY <1>4, <1>7, <1>8 DEF Stable, Complete
<1>10. NoRemoval' /\ EmptyInv'
    BY <1>2, <1>3, <1>6 DEF SInv, NoRemoval, EmptyInv, NoChunk
<1>11. TouchedInv'
    <2>1. \A g \in FileIds : Touched(g)' => Touched(g)
        BY <1>2, <1>3 DEF Touched
    <2> QED BY <1>4, <1>7, <2>1 DEF SInv, TouchedInv
<1>12. SavingInv'
    <2>1. ASSUME NEW p \in Procs, At(p, "saveChunk")' PROVE SavingOK(proc[p])'
        <3>1. p # s /\ proc'[p] = proc[p] /\ SavingOK(proc[p])
            BY <1>2, <1>3, <2>1 DEF At, SInv, SavingInv
        <3>2. proc[p].file # f /\ proc[p].file \in FileIds
            BY <1>4, <2>1, <3>1, AtWork DEF At
        <3>3. chunks'[proc[p].file] = chunks[proc[p].file]
            BY <1>6, <3>2
        <3>4. \A q \in Procs : SameData(proc'[p], proc'[q])
            BY <1>2, <1>3, <3>1 DEF SavingOK, SameData
        <3> QED BY <3>1, <3>3, <3>4 DEF SavingOK, SameData
    <2> QED BY <2>1 DEF SavingInv
<1>13. ContentInv'
    BY <1>2, <1>3, <1>4, <1>9 DEF SInv, ContentInv, Right, Stable, Complete
<1> QED BY <1>f, <1>3, <1>6, <1>9, <1>10, <1>11, <1>12, <1>13 DEF SInv

LEMMA CrashStable ==
    ASSUME FilesAssumption, SInv, IInv', Crash PROVE SInv' /\ Stable
<1> DEFINE Back(f) == {w \in Workers : proc[w].file = f /\ proc[w].stalls = 0}
<1>1. /\ files' = files /\ chunks' = chunks
      /\ \A p \in Procs : proc'[p] = Idle
    BY DEF Crash
<1>2. Idle.at = "idle" /\ Idle.file = Null /\ Null \notin FileIds
    BY DEF Idle, FilesAssumption
<1>3. \A g \in FileIds : /\ Present(g)' = Present(g) /\ Uploading(g)' = Uploading(g)
                         /\ Content(g)' = Content(g) /\ ~Creating(g)'
    BY <1>1, <1>2 DEF Present, Uploading, Content, Creating, At, Procs
<1>4. Stable
    BY <1>3 DEF Stable, Complete, Unsettled
<1>5. NoRemoval' /\ EmptyInv' /\ SavingInv'
    BY <1>1, <1>2 DEF SInv, NoRemoval, EmptyInv, SavingInv, At
<1>6. ASSUME NEW g \in FileIds, Touched(g)' PROVE Touched(g)
    <2>1. PICK k \in 0..1 : waiting'[g][k] > 0
        BY <1>1, <1>2, <1>6 DEF Touched
    <2>2. waiting'[g] = [waiting[g] EXCEPT ![1] = @ + Cardinality(Back(g))]
        BY DEF Crash
    <2>3. CASE Back(g) = {}
        <3>1. Cardinality(Back(g)) = 0
            BY <2>3, FS_EmptySet
        <3> HIDE DEF Back
        <3>2. waiting[g] \in [0..1 -> Nat]
            BY DEF SInv, IInv, TypeOK, TablesOK
        <3>3. waiting'[g][k] = waiting[g][k]
            BY <2>2, <3>1, <3>2
        <3> QED BY <2>1, <3>3 DEF Touched
    <2>4. CASE Back(g) # {}
        BY <2>4 DEF Touched, Procs
    <2> QED BY <2>3, <2>4
<1>7. TouchedInv'
    BY <1>3, <1>6 DEF SInv, TouchedInv
<1>8. ContentInv'
    BY <1>1, <1>2, <1>4 DEF SInv, ContentInv, Right, Stable
<1> QED BY <1>4, <1>5, <1>7, <1>8 DEF SInv

(* The chunk had these bytes already, or the file was not complete. *)
LEMMA UploadSaveStable ==
    ASSUME FilesAssumption, SInv, IInv', NEW s \in Slots, UploadSave(s),
           files[proc[s].file].status # "absent"
    PROVE  SInv' /\ Stable
<1>1. s \in Procs /\ proc[s].at = "saveChunk" /\ proc[s] \in Process
    BY DEF UploadSave, At, Procs, SInv, IInv, TypeOK, HandlersOK
<1>f. PICK f \in FileIds : f = proc[s].file
    BY <1>1, AtWork
<1>i. PICK i \in Indices : i = proc[s].index
    BY <1>1 DEF SInv, IInv, TypeOK, HandlersOK, HandlerOK
<1>d. PICK d \in Payloads : d = proc[s].data
    BY <1>1 DEF SInv, IInv, TypeOK, HandlersOK, HandlerOK
<1>2. /\ chunks' = [chunks EXCEPT ![f][i] = [status |-> "uploaded", data |-> d]]
      /\ Goto(s, "count") /\ files' = files /\ waiting' = waiting
    BY <1>f, <1>i, <1>d DEF UploadSave
<1>3. /\ chunks'[f][i].status = "uploaded" /\ chunks'[f][i].data = d
      /\ \A j \in Indices \ {i} : chunks'[f][j] = chunks[f][j]
      /\ \A g \in FileIds \ {f} : chunks'[g] = chunks[g]
    BY <1>2 DEF SInv, IInv, TypeOK, TablesOK
<1>4. /\ proc'[s].at = "count" /\ proc'[s].file = f /\ proc'[s].row = proc[s].row
      /\ \A p \in Procs \ {s} : proc'[p] = proc[p]
    BY <1>1, <1>2, <1>f DEF Goto, Process, SInv, IInv, TypeOK, HandlersOK
<1>5. /\ chunks[f][i].status # "absent"
      /\ chunks[f][i].status = "uploaded" => chunks[f][i].data = d
      /\ \A q \in Procs : SameData(proc[s], proc[q])
    BY <1>1, <1>f, <1>i, <1>d DEF SInv, SavingInv, SavingOK, At
<1>6. /\ Present(f)' = Present(f) /\ Uploading(f)' \subseteq Uploading(f)
      /\ \A g \in FileIds \ {f} : /\ Present(g)' = Present(g) /\ Uploading(g)' = Uploading(g)
                                  /\ Content(g)' = Content(g)
    <2>1. Present(f)' = Present(f) /\ Uploading(f)' \subseteq Uploading(f)
        BY <1>3, <1>5 DEF Present, Uploading
    <2>2. ASSUME NEW g \in FileIds \ {f}
          PROVE  /\ Present(g)' = Present(g) /\ Uploading(g)' = Uploading(g)
                 /\ Content(g)' = Content(g)
        BY <1>3 DEF Present, Uploading, Content
    <2> QED BY <2>1, <2>2
<1>7. \A g \in FileIds : Unsettled(g)' => Unsettled(g)
    BY <1>4, <1>6 DEF Unsettled, Creating, At, Procs
<1>8. ASSUME ~Unsettled(f) PROVE Content(f)' = Content(f)
    <2>1. chunks[f][i].status = "uploaded"
        <3>1. chunks[f][i].status \in {"absent", "uploading", "uploaded"}
            BY ChunkTyped DEF Chunk
        <3>2. chunks[f][i].status # "uploading"
            BY <1>8 DEF Unsettled, Uploading
        <3> QED BY <1>5, <3>1, <3>2
    <2>2. \A j \in Indices : chunks'[f][j].data = chunks[f][j].data
        BY <1>3, <1>5, <2>1
    <2> QED BY <1>6, <2>2 DEF Content, Present
<1>9. Stable
    BY <1>6, <1>7, <1>8 DEF Stable, Complete
<1>10. NoRemoval' /\ EmptyInv'
    BY <1>3, <1>4 DEF SInv, NoRemoval, EmptyInv
<1>11. TouchedInv'
    <2>1. \A g \in FileIds : Touched(g)' => Touched(g)
        BY <1>1, <1>2, <1>4, <1>f DEF Touched, Uploads
    <2> QED BY <1>6, <2>1 DEF SInv, TouchedInv
<1>12. SavingInv'
    <2>1. ASSUME NEW p \in Procs, At(p, "saveChunk")' PROVE SavingOK(proc[p])'
        <3>1. p # s /\ proc'[p] = proc[p] /\ SavingOK(proc[p]) /\ proc[p].at = "saveChunk"
            BY <1>4, <2>1 DEF At, SInv, SavingInv
        <3>2. proc[p].file \in FileIds /\ proc[p].index \in Indices
            BY <3>1, AtWork DEF SInv, IInv, TypeOK, HandlersOK, HandlerOK
        <3>3. proc[p].file = f /\ proc[p].index = i => proc[p].data = d
            BY <1>5, <1>f, <1>i, <1>d, <3>1 DEF SameData
        <3>4. \A q \in Procs : SameData(proc'[p], proc'[q])
            BY <1>4, <3>1 DEF SavingOK, SameData
        <3>5. /\ chunks'[proc[p].file][proc[p].index].status # "absent"
              /\ chunks'[proc[p].file][proc[p].index].status = "uploaded" =>
                    chunks'[proc[p].file][proc[p].index].data = proc[p].data
            <4>1. CASE proc[p].file = f /\ proc[p].index = i
                BY <1>3, <3>3, <4>1
            <4>2. CASE ~(proc[p].file = f /\ proc[p].index = i)
                BY ZenonT(30), <1>3, <3>1, <3>2, <4>2 DEF SavingOK
            <4> QED BY <4>1, <4>2
        <3> QED BY <3>1, <3>4, <3>5 DEF SavingOK, SameData
    <2> QED BY <2>1 DEF SavingInv
<1>13. ContentInv'
    BY <1>1, <1>2, <1>4, <1>9, <1>f DEF SInv, ContentInv, Right, Stable
<1> QED BY <1>9, <1>10, <1>11, <1>12, <1>13 DEF SInv

-----------------------------------------------------------------------------
(* Every step. *)

LEMMA UploadSaveMoving ==
    ASSUME FilesAssumption, SInv, NEW s \in Slots, UploadSave(s),
           files[proc[s].file].status = "absent"
    PROVE  Moving
<1>1. s \in Procs /\ proc[s].at = "saveChunk" /\ TablesMove(proc[s].file)
    BY AtWork, TablesSame DEF UploadSave, At, Procs
<1> QED BY <1>1, FinishMoving DEF UploadSave

(* A step moves a handler, or is one of four others. *)
LEMMA StepKinds ==
    ASSUME FilesAssumption, NothingDeleted, SInv, Next
    PROVE  \/ Moving \/ Crash
           \/ \E s \in Slots : CreateFile(s) \/ CreateChunks(s)
           \/ \E s \in Slots : UploadSave(s) /\ files[proc[s].file].status # "absent"
<1>1. ASSUME NEW s \in Slots
      PROVE  ~RemoveLoad(s) /\ ~RemoveChunks(s) /\ ~RemoveFile(s)
    BY DEF RemoveLoad, RemoveChunks, RemoveFile, NothingDeleted, At, Procs, SInv, NoRemoval
<1> QED BY <1>1, UploadLoadMoving, SlotMoving, UploadSaveMoving, WorkMoving, CallFailsMoving
        DEF Next, Step, Request, Handle

LEMMA StepSInv ==
    ASSUME FilesAssumption, NothingDeleted, SInv, [Next]_vars PROVE SInv' /\ Stable
<1>1. IInv'
    BY StepIInv DEF SInv
<1>2. CASE Next
    BY <1>1, <1>2, StepKinds, MovingStable, CreateFileStable, CreateChunksStable,
       UploadSaveStable, CrashStable
<1>3. CASE UNCHANGED vars
    BY <1>1, <1>3 DEF vars, SInv, NoRemoval, EmptyInv, TouchedInv, Touched, SavingInv, SavingOK,
       SameData, At, ContentInv, Right, Complete, Unsettled, Creating, Present, Uploading,
       Content, Stable
<1> QED BY <1>2, <1>3

-----------------------------------------------------------------------------
(* The refinement. *)

Offered(f) == IF files[f].status = "available" THEN files[f].hash ELSE Null

LEMMA InitStore == Init => Store!Init
<1> SUFFICES ASSUME Init PROVE Store!Init
    OBVIOUS
<1>1. \A f \in FileIds : Present(f) = {}
    BY DEF Init, Present, NoChunk
<1>2. \A f \in FileIds : Content(f) = Store!NoParts
    BY <1>1 DEF Content, Store!NoParts
<1> QED BY <1>2 DEF Init, NoRow, Store!Init

(* A row is saved: its file is put on offer, or taken off. *)
LEMMA MovingStore ==
    ASSUME FilesAssumption, SInv, SInv', Moving
    PROVE  [Store!Next]_<<[f \in FileIds |-> Content(f)], [f \in FileIds |-> Offered(f)]>>
<1>1. PICK p, f, r : Moves(p, f, r)
    BY DEF Moving
<1>2. /\ f \in FileIds /\ chunks' = chunks
      /\ \A g \in FileIds \ {f} : files'[g] = files[g]
      /\ Right(f, files'[f].hash)
    BY <1>1 DEF Moves, TablesMove, HandlerMoves
<1>3. [g \in FileIds |-> Content(g)]' = [g \in FileIds |-> Content(g)]
    BY <1>2 DEF Content, Present
<1>4. [g \in FileIds |-> Offered(g)]' =
         [[g \in FileIds |-> Offered(g)] EXCEPT ![f] = Offered(f)']
    BY <1>2 DEF Offered
<1>5. CASE Offered(f)' = Null
    <2>1. Store!Withdraw(f)
        BY <1>3, <1>4, <1>5 DEF Store!Withdraw, Offered
    <2> QED BY <1>2, <2>1 DEF Store!Next
<1>6. CASE Offered(f)' # Null
    <2>1. Complete(f) /\ Offered(f)' = Content(f)
        BY <1>2, <1>6 DEF Offered, Right
    <2>2. Present(f) # {} /\ \A i \in Present(f) : chunks[f][i].data # Null
        <3>1. \A i \in Present(f) : chunks[f][i].status = "uploaded"
            BY <1>2, <2>1 DEF Complete, Unsettled, Uploading, Present, SInv, IInv, TypeOK,
                              TablesOK, Chunk
        <3> QED BY <1>2, <2>1, <3>1 DEF Complete, Present, SInv, IInv, DataInv
    <2>3. DOMAIN Content(f) = Present(f) /\ \A i \in Present(f) : Content(f)[i] = chunks[f][i].data
        BY DEF Content
    <2>4. Store!Offer(f)
        BY <1>2, <1>3, <1>4, <2>1, <2>2, <2>3 DEF Store!Offer, Offered
    <2> QED BY <1>2, <2>4 DEF Store!Next
<1> QED BY <1>5, <1>6

(* The chunks of a new file are announced, unless it has none. *)
LEMMA CreateChunksStore ==
    ASSUME FilesAssumption, SInv, NEW s \in Slots, CreateChunks(s)
    PROVE  [Store!Next]_<<[f \in FileIds |-> Content(f)], [f \in FileIds |-> Offered(f)]>>
<1>1. s \in Procs /\ proc[s].at = "createChunks" /\ proc[s].known \in SUBSET Indices
    BY DEF CreateChunks, At, Procs, SInv, IInv, TypeOK, HandlersOK, Process
<1>f. PICK f \in FileIds : f = proc[s].file
    BY <1>1, AtWork
<1>2. [g \in FileIds |-> Offered(g)]' = [g \in FileIds |-> Offered(g)]
    BY DEF Offered, CreateChunks
<1>3. Present(f) = {} /\ DOMAIN Content(f) = Present(f)
    BY <1>1, <1>f DEF SInv, IInv, CreatingInv, At, Content
<1>4. CASE UNCHANGED chunks
    BY <1>2, <1>4 DEF Content, Present
<1>5. CASE ~UNCHANGED chunks
    <2> DEFINE new == [i \in Indices |->
                         IF i \in proc[s].known
                         THEN [status |-> "uploading", data |-> Null] ELSE chunks[f][i]]
               S == proc[s].known
    <2>1. chunks' = [chunks EXCEPT ![f] = new]
        BY <1>f, <1>5 DEF CreateChunks
    <2>2. chunks'[f] = new /\ \A g \in FileIds \ {f} : chunks'[g] = chunks[g]
        BY <2>1 DEF SInv, IInv, TypeOK, TablesOK
    <2>3. Present(f)' = S
        BY <1>1, <1>3, <2>2 DEF Present
    <2>4. Content(f)' = [i \in S |-> Null]
        <3>1. \A i \in S : chunks'[f][i].data = Null
            BY <1>1, <2>2
        <3> QED BY <2>3, <3>1 DEF Content
    <2>5. \A g \in FileIds \ {f} : Content(g)' = Content(g)
        BY <2>2 DEF Content, Present
    <2> HIDE DEF new, S
    <2>6. [g \in FileIds |-> Content(g)]' =
             [[g \in FileIds |-> Content(g)] EXCEPT ![f] = [i \in S |-> Null]]
        BY <2>4, <2>5
    <2>7. CASE S = {}
        <3>1. Content(f) = [i \in S |-> Null]
            BY <1>3, <2>7 DEF Content
        <3> QED BY <1>2, <2>6, <3>1
    <2>8. CASE S # {}
        <3>1. Store!Announce(f)
            BY <1>1, <1>2, <1>3, <2>6, <2>8 DEF S, Store!Announce, Offered
        <3> QED BY <3>1 DEF Store!Next
    <2> QED BY <2>7, <2>8
<1> QED BY <1>4, <1>5

(* A chunk arrives, or is stored once more with the same bytes. *)
LEMMA UploadSaveStore ==
    ASSUME FilesAssumption, SInv, NEW s \in Slots, UploadSave(s),
           files[proc[s].file].status # "absent"
    PROVE  [Store!Next]_<<[f \in FileIds |-> Content(f)], [f \in FileIds |-> Offered(f)]>>
<1>1. s \in Procs /\ proc[s].at = "saveChunk"
    BY DEF UploadSave, At, Procs
<1>2. PICK f \in FileIds, i \in Indices, d \in Payloads :
         f = proc[s].file /\ i = proc[s].index /\ d = proc[s].data
    BY <1>1 DEF SInv, IInv, TypeOK, HandlersOK, HandlerOK
<1>3. chunks' = [chunks EXCEPT ![f][i] = [status |-> "uploaded", data |-> d]]
    BY <1>2 DEF UploadSave
<1>4. /\ chunks'[f][i] = [status |-> "uploaded", data |-> d]
      /\ \A j \in Indices \ {i} : chunks'[f][j] = chunks[f][j]
      /\ \A g \in FileIds \ {f} : chunks'[g] = chunks[g]
    BY <1>3 DEF SInv, IInv, TypeOK, TablesOK
<1>5. /\ chunks[f][i] \in Chunk /\ chunks[f][i].status # "absent"
      /\ chunks[f][i].status = "uploaded" => chunks[f][i].data = d
      /\ chunks[f][i].status # "uploaded" => chunks[f][i].data = Null
    <2>1. SavingOK(proc[s])
        BY <1>1 DEF SInv, SavingInv, At
    <2>2. chunks[f][i] \in Chunk
        BY ChunkTyped
    <2>3. chunks[f][i].status # "uploaded" => chunks[f][i].data = Null
        BY DEF SInv, EmptyInv
    <2> QED BY <1>2, <2>1, <2>2, <2>3 DEF SavingOK
<1>6. i \in Present(f) /\ Present(f)' = Present(f)
    <2>1. i \in Present(f)
        BY <1>5 DEF Present
    <2>2. \A j \in Indices : chunks'[f][j].status # "absent" <=> chunks[f][j].status # "absent"
        BY <1>4, <1>5
    <2>3. Present(f)' = Present(f)
        BY <2>2 DEF Present
    <2> QED BY <2>1, <2>3
<1>7. Content(f)' = [Content(f) EXCEPT ![i] = d]
    <2>1. Content(f)' = [j \in Present(f) |-> chunks'[f][j].data]
        <3>1. Content(f)' = [j \in Present(f)' |-> chunks'[f][j].data]
            BY DEF Content, Present
        <3> QED BY <1>6, <3>1
    <2>2. \A j \in Present(f) : chunks'[f][j].data = IF j = i THEN d ELSE chunks[f][j].data
        <3>1. chunks'[f][i].data = d
            BY <1>4
        <3>2. \A j \in Indices \ {i} : chunks'[f][j].data = chunks[f][j].data
            BY <1>4
        <3>3. Present(f) \subseteq Indices
            BY DEF Present
        <3> QED BY <3>1, <3>2, <3>3
    <2>3. Content(f)' = [j \in Present(f) |-> IF j = i THEN d ELSE chunks[f][j].data]
        BY <2>1, <2>2
    <2>4. [Content(f) EXCEPT ![i] = d] = [j \in Present(f) |-> IF j = i THEN d ELSE chunks[f][j].data]
        BY <1>6 DEF Content
    <2> QED BY <2>3, <2>4
<1>8. \A g \in FileIds \ {f} : Content(g)' = Content(g)
    BY <1>4 DEF Content, Present
<1>9. Content(f)[i] \in {d, Null} /\ DOMAIN Content(f) = Present(f)
    BY <1>5, <1>6 DEF Content
<1>10. [g \in FileIds |-> Offered(g)]' = [g \in FileIds |-> Offered(g)]
    BY DEF Offered, UploadSave
<1>11. [g \in FileIds |-> Content(g)]' =
          [[g \in FileIds |-> Content(g)] EXCEPT ![f] = [Content(f) EXCEPT ![i] = d]]
    BY <1>7, <1>8
<1>12. CASE Content(f)[i] = d
    <2>1. [Content(f) EXCEPT ![i] = d] = Content(f)
        BY <1>12 DEF Content
    <2> QED BY <1>10, <1>11, <2>1
<1>13. CASE Content(f)[i] = Null
    <2>1. [g \in FileIds |-> Content(g)]' =
             [[g \in FileIds |-> Content(g)] EXCEPT ![f][i] = d]
        BY <1>11
    <2>2. Store!Receive(f)
        BY <1>6, <1>9, <1>10, <1>13, <2>1 DEF Store!Receive, Offered
    <2> QED BY <2>2 DEF Store!Next
<1> QED BY <1>9, <1>12, <1>13

LEMMA StepStore ==
    ASSUME FilesAssumption, NothingDeleted, SInv, [Next]_vars
    PROVE  [Store!Next]_<<[f \in FileIds |-> Content(f)], [f \in FileIds |-> Offered(f)]>>
<1>1. CASE Moving
    BY <1>1, StepSInv, MovingStore
<1>2. ASSUME NEW s \in Slots, CreateFile(s)
      PROVE  UNCHANGED <<[f \in FileIds |-> Content(f)], [f \in FileIds |-> Offered(f)]>>
    <2>1. PICK f \in FileIds \ born, row \in [status : {"uploading"}, hash : {Null},
                       regions : {<<DefaultRegion>>}, features : SUBSET Features] :
             SaveFile(f, row)
        BY <1>2 DEF CreateFile
    <2>2. /\ files'[f].status = "uploading" /\ files[f] = NoRow
          /\ \A g \in FileIds \ {f} : files'[g] = files[g]
        BY <2>1 DEF SaveFile, SInv, IInv, UnbornInv, TypeOK, TablesOK
    <2>3. \A g \in FileIds : Offered(g)' = Offered(g)
        BY <2>2 DEF Offered, NoRow
    <2> QED BY <1>2, <2>3 DEF CreateFile, Content, Present
<1>3. CASE Crash \/ UNCHANGED vars
    BY <1>3 DEF Crash, vars, Content, Present, Offered
<1> QED BY <1>1, <1>2, <1>3, StepKinds, CreateChunksStore, UploadSaveStore

(* Files implements ObjectStore: whatever rows are saved late, a file is   *)
(* offered only with all its chunks, and with nothing but their bytes      *)
(* (uploadChunk, update, processUploadedFile, getFileBySignedUrl).         *)
THEOREM StoreImplemented ==
    ASSUME FilesAssumption, NothingDeleted PROVE Spec => StoreSpec
<1>1. Init => SInv
    BY InitSInv
<1>2. SInv /\ [Next]_vars => SInv'
    BY StepSInv
<1>3. SInv /\ [Next]_vars =>
         [Store!Next]_<<[f \in FileIds |-> Content(f)],
                        [f \in FileIds |-> IF files[f].status = "available"
                                           THEN files[f].hash ELSE Null]>>
    BY StepStore DEF Offered
<1> QED BY <1>1, <1>2, <1>3, InitStore, PTL DEF Spec, StoreSpec, Store!Spec

-----------------------------------------------------------------------------
(* Signing and redeeming URLs adds to Files no step of its own: whatever   *)
(* Files guarantees, it guarantees with signed URLs                        *)
(* (generateSignedUrl, getFileBySignedUrl).                                *)
THEOREM UrlsLeaveFiles == DownloadsSpec => FairSpec
<1>1. DownloadsInit => Init
    BY DEF DownloadsInit
<1>2. [DownloadsNext]_<<vars, urlVars>> => [Next]_vars
    BY DEF DownloadsNext, Sign, Expire, StepOfFiles, Redeem, Next, Step, vars, urlVars
<1> QED BY <1>1, <1>2, PTL DEF DownloadsSpec, Spec, FairSpec

(* With signed URLs too, a file is offered only with all its chunks, and   *)
(* with nothing but their bytes (uploadChunk, update,                      *)
(* processUploadedFile, getFileBySignedUrl).                               *)
THEOREM StoreImplementedWithUrls ==
    ASSUME FilesAssumption, NothingDeleted PROVE DownloadsSpec => StoreSpec
BY StoreImplemented, UrlsLeaveFiles DEF FairSpec

-----------------------------------------------------------------------------
(* A URL, and the download it has opened, go on meaning the content it was *)
(* signed for: a file that has a hash is Complete, and stays so.           *)

UrlsInv ==
    \A url \in urls : /\ url.file \in FileIds /\ Complete(url.file)
                      /\ url.content = Content(url.file)

Downloading(s) == At(s, "assemble") \/ At(s, "respond")

OpenedOK(s) ==
    /\ proc[s].file \in FileIds /\ Complete(proc[s].file)
    /\ opened[s] = Content(proc[s].file)
    /\ At(s, "respond") => proc[s].data = opened[s]

OpenedInv == \A s \in Slots : Downloading(s) => OpenedOK(s)

DInv == SInv /\ UrlsInv /\ OpenedInv /\ DOMAIN opened = Slots

(* Only DownloadAssemble answers, and only Redeem starts a download.       *)
LEMMA DownloadSteps ==
    ASSUME FilesAssumption, TypeOK, Step, NEW s \in Slots
    PROVE  proc'[s] = proc[s] \/ ~Downloading(s)' \/ DownloadAssemble(s)
<1> USE DEF Downloading, At
<1>1. proc \in [Procs -> Process] /\ s \in Procs /\ Slots \subseteq Procs /\ Workers \subseteq Procs
    BY DEF TypeOK, HandlersOK, HandlerOK, Procs
<1>2. ASSUME NEW p \in Procs, NEW r, proc' = [proc EXCEPT ![p] = r],
             r.at \notin {"assemble", "respond"}
      PROVE  proc'[s] = proc[s] \/ ~Downloading(s)'
    BY <1>1, <1>2
<1>3. ASSUME NEW p \in Procs, NEW step, Goto(p, step), step \notin {"assemble", "respond"}
      PROVE  proc'[s] = proc[s] \/ ~Downloading(s)'
    BY <1>1, <1>3 DEF Goto
<1>4. ASSUME NEW p \in Procs, Finish(p) PROVE proc'[s] = proc[s] \/ ~Downloading(s)'
    BY <1>1, <1>4 DEF Finish, Idle
<1>5. ASSUME NEW t \in Slots, Request(t) PROVE proc'[s] = proc[s] \/ ~Downloading(s)'
    <2>1. CASE CreateFile(t)
        BY <1>1, <2>1 DEF CreateFile, Idle
    <2>2. CASE UploadLoad(t)
        BY <1>1, <2>2 DEF UploadLoad, Idle
    <2>3. CASE UpdateLoad(t)
        BY <1>1, <2>3 DEF UpdateLoad, Idle
    <2>4. CASE RemoveLoad(t)
        BY <1>1, <2>4 DEF RemoveLoad, Load, Idle
    <2> QED BY <1>5, <2>1, <2>2, <2>3, <2>4 DEF Request
<1>6. ASSUME NEW t \in Slots, Handle(t)
      PROVE  proc'[s] = proc[s] \/ ~Downloading(s)' \/ DownloadAssemble(s)
    <2>1. CASE CreateChunks(t)
        BY <1>1, <1>4, <2>1 DEF CreateChunks
    <2>2. CASE UploadSave(t) \/ UploadCount(t) \/ UploadMark(t) \/ UploadEnqueue(t)
        BY <1>1, <1>3, <1>4, <2>2 DEF UploadSave, UploadCount, UploadMark, UploadEnqueue
    <2>3. CASE UpdateSave(t) \/ RemoveChunks(t) \/ RemoveFile(t)
        BY <1>1, <1>3, <1>4, <2>3 DEF UpdateSave, RemoveChunks, RemoveFile
    <2>4. CASE DownloadAssemble(t) /\ t # s
        BY <1>1, <2>4 DEF DownloadAssemble, Finish
    <2>5. CASE DownloadRespond(t)
        BY <1>1, <1>4, <2>5 DEF DownloadRespond
    <2> QED BY <1>6, <2>1, <2>2, <2>3, <2>4, <2>5 DEF Handle
<1>7. ASSUME NEW w \in Workers, Work(w) PROVE proc'[s] = proc[s]
    BY <1>1, <1>7 DEF Work, JobStart, JobAssemble, JobPublish, JobReplicate, JobFail, JobFeatures,
       JobCompress, JobDeduplicate, Goto, Finish, FilesAssumption
<1>8. ASSUME NEW p \in Procs, CallFails(p) PROVE proc'[s] = proc[s] \/ ~Downloading(s)'
    BY <1>3, <1>4, <1>8 DEF CallFails
<1>9. CASE Crash
    BY <1>1, <1>9 DEF Crash, Idle
<1> QED BY <1>5, <1>6, <1>7, <1>8, <1>9 DEF Step

LEMMA DownloadsInductive ==
    ASSUME FilesAssumption, NothingDeleted, DInv, [DownloadsNext]_<<vars, urlVars>>
    PROVE  DInv'
<1>1. [Next]_vars
    BY DEF DownloadsNext, Sign, Expire, StepOfFiles, Redeem, Next, vars, urlVars
<1>2. SInv' /\ Stable
    BY <1>1, StepSInv DEF DInv
<1>3. \A f \in FileIds : files[f].status = "available" =>
                             Complete(f) /\ files[f].hash = Content(f)
    BY DEF DInv, SInv, IInv, HashInv, Hashed, ContentInv, Right
<1>4. CASE UNCHANGED vars /\ UNCHANGED opened
    <2>1. OpenedInv' /\ (DOMAIN opened)' = Slots
        <3>1. ASSUME NEW s \in Slots, Downloading(s)' PROVE OpenedOK(s)'
            <4>1. proc'[s] = proc[s] /\ opened'[s] = opened[s]
                BY <1>4 DEF vars
            <4> QED BY <1>2, <3>1, <4>1 DEF DInv, OpenedInv, OpenedOK, Downloading, At, Stable
        <3> QED BY <1>4, <3>1 DEF DInv, OpenedInv
    <2>2. \A f \in FileIds : Complete(f) => Complete(f)' /\ Content(f)' = Content(f)
        BY <1>2 DEF Stable
    <2>3. CASE UNCHANGED urls \/ Expire
        BY <1>2, <2>1, <2>2, <2>3 DEF DInv, UrlsInv, Expire
    <2>4. CASE Sign
        <3>1. PICK f \in FileIds :
                 /\ files[f].status = "available"
                 /\ urls' = urls \cup {[file |-> f, content |-> files[f].hash]}
            BY <2>4 DEF Sign
        <3>2. UrlsInv'
            BY <1>3, <2>2, <3>1 DEF DInv, UrlsInv
        <3> QED BY <1>2, <2>1, <3>2 DEF DInv
    <2>5. UNCHANGED urls \/ Expire \/ Sign
        BY <1>4 DEF DownloadsNext, StepOfFiles, Redeem, urlVars
    <2> QED BY <2>3, <2>4, <2>5
<1>5. CASE StepOfFiles
    <2>1. UrlsInv'
        BY <1>2, <1>5 DEF DInv, UrlsInv, StepOfFiles, Stable
    <2>2. ASSUME NEW s \in Slots, Downloading(s)' PROVE OpenedOK(s)'
        <3>1. opened'[s] = opened[s]
            BY <1>5, <2>2 DEF StepOfFiles, Downloading, At
        <3>2. CASE proc'[s] = proc[s]
            BY <1>2, <2>2, <3>1, <3>2 DEF DInv, OpenedInv, OpenedOK, Downloading, At, Stable
        <3>3. CASE DownloadAssemble(s)
            <4>1. /\ proc'[s].file = proc[s].file
                  /\ proc'[s].data = Content(proc[s].file)
                <5>1. proc \in [Procs -> Process] /\ s \in Procs
                    BY DEF DInv, SInv, IInv, TypeOK, HandlersOK, HandlerOK, Procs
                <5>2. ~Finish(s)
                    BY <2>2, <5>1 DEF Finish, Idle, Downloading, At
                <5>3. proc' = [proc EXCEPT ![s].at = "respond", ![s].data = Content(proc[s].file)]
                    BY <3>3, <5>2 DEF DownloadAssemble
                <5> QED BY <5>1, <5>3 DEF Process
            <4>2. OpenedOK(s)
                BY <3>3 DEF DownloadAssemble, DInv, OpenedInv, Downloading
            <4> QED BY <1>2, <3>1, <4>1, <4>2 DEF OpenedOK, Stable
        <3>4. Step /\ TypeOK
            BY <1>5 DEF StepOfFiles, DInv, SInv, IInv
        <3> QED BY <2>2, <3>2, <3>3, <3>4, DownloadSteps
    <2>3. (DOMAIN opened)' = Slots
        BY <1>5 DEF StepOfFiles
    <2> QED BY <1>2, <2>1, <2>2, <2>3 DEF DInv, OpenedInv
<1>6. ASSUME NEW s \in Slots, Redeem(s) PROVE DInv'
    <2>1. PICK url \in urls : /\ DownloadLoad(s)
                              /\ proc'[s].file = url.file
                              /\ opened' = [opened EXCEPT ![s] = url.content]
        BY <1>6 DEF Redeem
    <2>2. UrlsInv' /\ (DOMAIN opened)' = Slots
        BY <1>2, <1>6, <2>1 DEF DInv, UrlsInv, Redeem, Stable
    <2>3. OpenedOK(s)'
        <3>1. proc'[s].at = "assemble" /\ opened'[s] = url.content
            BY <2>1 DEF DownloadLoad, Load, Idle, DInv, SInv, IInv, TypeOK, HandlersOK, HandlerOK, Procs
        <3> QED BY <1>2, <2>1, <3>1 DEF DInv, UrlsInv, OpenedOK, Stable, At
    <2>4. ASSUME NEW t \in Slots \ {s}, Downloading(t)' PROVE OpenedOK(t)'
        <3>1. proc'[t] = proc[t] /\ opened'[t] = opened[t]
            BY <2>1 DEF DownloadLoad, Load, DInv, SInv, IInv, TypeOK, HandlersOK, HandlerOK, Procs
        <3> QED BY <1>2, <2>4, <3>1 DEF DInv, OpenedInv, OpenedOK, Downloading, At, Stable
    <2> QED BY <1>2, <2>2, <2>3, <2>4 DEF DInv, OpenedInv
<1> QED BY <1>4, <1>5, <1>6 DEF DownloadsNext, Sign, Expire, urlVars

(* A signed URL, from a signing to an answer of any later time, serves the *)
(* content the file's hash was computed from (generateSignedUrl,           *)
(* getFileBySignedUrl), whatever the uploads, PATCHes and jobs do with the *)
(* row in between.                                                         *)
THEOREM SignedContentServed ==
    ASSUME FilesAssumption, NothingDeleted
    PROVE  DownloadsSpec => []UrlServesWhatWasSigned
<1>1. DownloadsInit => DInv
    <2> SUFFICES ASSUME DownloadsInit PROVE DInv
        OBVIOUS
    <2>1. \A s \in Slots : proc[s].at = "idle"
        BY DEF DownloadsInit, Init, Procs, Idle
    <2> QED BY <2>1, InitSInv DEF DownloadsInit, DInv, UrlsInv, OpenedInv, Downloading, At
<1>2. DInv /\ [DownloadsNext]_<<vars, urlVars>> => DInv'
    BY DownloadsInductive
<1>3. DInv => UrlServesWhatWasSigned
    BY DEF DInv, OpenedInv, OpenedOK, Downloading, UrlServesWhatWasSigned
<1> QED BY <1>1, <1>2, <1>3, PTL DEF DownloadsSpec

=============================================================================
