------------------------- MODULE VideoPipelineProofs -------------------------
EXTENDS VideoPipeline, TLAPS

USE DEF columns, database, store

-----------------------------------------------------------------------------
(* Types *)

\* One more job under some key leaves the queue a queue.
LEMMA OneMoreJob ==
    ASSUME queue \in [Videos \X Stalls -> Nat], NEW j
    PROVE  [queue EXCEPT ![j] = @ + 1] \in [Videos \X Stalls -> Nat]
<1>1. ASSUME NEW i \in Videos \X Stalls
      PROVE  (IF i = j THEN queue[i] + 1 ELSE queue[i]) \in Nat
  BY <1>1
<1> QED
  BY <1>1

\* A job starts with no stall to its name, which is a legal count.
LEMMA StallsFromZero ==
    /\ 0 \in Stalls
    /\ \A k \in Stalls : k \in Nat /\ (k < MaxStalls => k + 1 \in Stalls)
BY PipelineAssumption DEF Stalls

\* Every step keeps the variables within their types.
LEMMA TypeStep == ASSUME TypeOK, [Next]_vars PROVE TypeOK'
<1> USE PipelineAssumption DEF TypeOK, Statuses
<1>1. ASSUME NEW v \in Videos, InitiateUpload(v) PROVE TypeOK'
  BY <1>1 DEF InitiateUpload
<1>2. ASSUME NEW v \in Videos, SaveDraft(v) PROVE TypeOK'
  BY <1>2 DEF SaveDraft
<1>3. ASSUME NEW v \in Videos, DraftDies(v) PROVE TypeOK'
  BY <1>3 DEF DraftDies
<1>4. ASSUME NEW v \in Videos, PutParts(v) PROVE TypeOK'
  BY <1>4 DEF PutParts
<1>5. ASSUME NEW v \in Videos, Age(v) PROVE TypeOK'
  BY <1>5 DEF Age
<1>6. ASSUME NEW v \in Videos, NEW o \in BOOLEAN, GetForPlayback(v, o) PROVE TypeOK'
  BY <1>6 DEF GetForPlayback
<1>7. ASSUME NEW v \in Videos, NEW o \in BOOLEAN, GetDownloadUrl(v, o) PROVE TypeOK'
  BY <1>7 DEF GetDownloadUrl
<1>8. ASSUME NEW r \in Requests, NEW v \in Videos, ReadDraft(r, v) PROVE TypeOK'
  BY <1>8 DEF ReadDraft, Call, Columns
<1>9. ASSUME NEW r \in Requests, CompleteMultipart(r) PROVE TypeOK'
  <2>1. CallAt(r, "head") \in Call
    BY <1>9 DEF CompleteMultipart, CallAt, Call, Columns
  <2>2. object' \in [Videos -> {"absent", "declared", "other"}]
    BY <1>9 DEF CompleteMultipart, Assembled
  <2>3. upload' \in [Videos -> {"none", "open", "completed"}]
    BY <1>9 DEF CompleteMultipart
  <2> QED
    BY <1>9, <2>1, <2>2, <2>3 DEF CompleteMultipart
<1>10. ASSUME NEW r \in Requests, MultipartRejected(r) PROVE TypeOK'
  BY <1>10 DEF MultipartRejected, NoCall, Call, Columns
<1>11. ASSUME NEW r \in Requests, VerifyObject(r) PROVE TypeOK'
  BY <1>11 DEF VerifyObject, NoCall, CallAt, Call, Columns
<1>12. ASSUME NEW r \in Requests, SaveProcessing(r) PROVE TypeOK'
  <2>1. CallAt(r, "enqueue") \in Call
    BY <1>12 DEF SaveProcessing, CallAt, Call, Columns
  <2>2. request[r].thumbnail \in BOOLEAN
    BY <1>12 DEF Call
  <2>3. overtaken' \in [Videos -> BOOLEAN]
    BY <1>12 DEF SaveProcessing
  <2> QED
    BY <1>12, <2>1, <2>2, <2>3 DEF SaveProcessing
<1>33. ASSUME NEW r \in Requests, LoadForSave(r) PROVE TypeOK'
  BY <1>33 DEF LoadForSave, Changes, Call, Columns
<1>13. ASSUME NEW r \in Requests, EnqueueCompleted(r) PROVE TypeOK'
  BY <1>13, OneMoreJob, StallsFromZero DEF EnqueueCompleted, NoCall, Call, Columns
<1>14. ASSUME NEW r \in Requests, RequestDies(r) PROVE TypeOK'
  BY <1>14 DEF RequestDies, NoCall, Call, Columns
<1>15. ASSUME NEW s \in Sweepers, SweepScan(s) PROVE TypeOK'
  BY <1>15 DEF SweepScan, Abandoned, Sweep
<1>16. ASSUME NEW s \in Sweepers, NEW v \in Videos, SweepHead(s, v) PROVE TypeOK'
  BY <1>16 DEF SweepHead, Sweep
<1>17. ASSUME NEW s \in Sweepers, SweepRescue(s) PROVE TypeOK'
  BY <1>17 DEF SweepRescue, SweepAt, Sweep
<1>18. ASSUME NEW s \in Sweepers, SweepEnqueue(s) PROVE TypeOK'
  BY <1>18, OneMoreJob, StallsFromZero DEF SweepEnqueue, NextDraft, Sweep
<1>19. ASSUME NEW s \in Sweepers, SweepFail(s) PROVE TypeOK'
  BY <1>19 DEF SweepFail, NextDraft, Sweep
<1>20. ASSUME NEW s \in Sweepers, SweepDraftThrows(s) PROVE TypeOK'
  <2>1. CASE sweep[s].pc # "scan" /\ sweep' = [sweep EXCEPT ![s] = NextDraft(s)]
    BY <1>20, <2>1 DEF SweepDraftThrows, NextDraft, Sweep
  <2>2. ASSUME NEW v \in sweep[s].pending,
               sweep' = [sweep EXCEPT ![s] =
                   [pc |-> "scan", video |-> NoVideo,
                    pending |-> sweep[s].pending \ {v}]]
        PROVE  TypeOK'
    BY <1>20, <2>2 DEF SweepDraftThrows, Sweep
  <2> QED
    BY <1>20, <2>1, <2>2 DEF SweepDraftThrows
<1>21. ASSUME NEW s \in Sweepers, SweepDies(s) PROVE TypeOK'
  BY <1>21 DEF SweepDies, NoSweep, Sweep
<1>22. ASSUME NEW w \in Workers, NEW v \in Videos, NEW k \in Stalls, TakeJob(w, v, k) PROVE TypeOK'
  BY <1>22 DEF TakeJob, Run
<1>23. ASSUME NEW w \in Workers, RunRead(w) PROVE TypeOK'
  BY <1>23 DEF RunRead, RunAt, Run
<1>24. ASSUME NEW w \in Workers, RunProcess(w) PROVE TypeOK'
  BY <1>24 DEF RunProcess, RunAt, Run
<1>25. ASSUME NEW w \in Workers, RunThrows(w) PROVE TypeOK'
  BY <1>25 DEF RunThrows, RunAt, Run
<1>26. ASSUME NEW w \in Workers, RunPublish(w) PROVE TypeOK'
  BY <1>26 DEF RunPublish, RunAt, Run
<1>27. ASSUME NEW w \in Workers, RunFail(w) PROVE TypeOK'
  BY <1>27 DEF RunFail, RunAt, Run
<1>28. ASSUME NEW w \in Workers, RunDone(w) PROVE TypeOK'
  BY <1>28, StallsFromZero DEF RunDone, NoRun, Run
<1>29. ASSUME NEW w \in Workers, RunStalls(w) PROVE TypeOK'
  BY <1>29, OneMoreJob, StallsFromZero DEF RunStalls, Redelivered, Run
<1>30. ASSUME NEW w \in Workers, WorkerDies(w) PROVE TypeOK'
  BY <1>30, OneMoreJob, StallsFromZero DEF WorkerDies, Redelivered, NoRun, Run
<1>31. ASSUME NEW w \in Workers, WorkerQueryThrows(w) PROVE TypeOK'
  BY <1>31 DEF WorkerQueryThrows, RunAt, Run
<1>32. CASE UNCHANGED vars
  BY <1>32 DEF vars
<1> HIDE DEF TypeOK
<1> QED
  BY <1>1, <1>2, <1>3, <1>4, <1>5, <1>6, <1>7, <1>8, <1>9, <1>10, <1>11, <1>12, <1>13, <1>14, <1>15, <1>16, <1>17, <1>18, <1>19, <1>20, <1>21, <1>22, <1>23, <1>24, <1>25, <1>26, <1>27, <1>28, <1>29, <1>30, <1>31, <1>32, <1>33
  DEF Next, DraftNext, Viewing, RequestStep, SweepStep, RunStep

-----------------------------------------------------------------------------
(* The inductive invariant *)

\* The source of v is finalized: what must hold before anything is enqueued.
Backed(v) ==
    /\ Stored(v)
    /\ status[v] \notin {"absent", "uploading"}
    /\ ~upload_id[v]
    /\ object[v] = "other" => aged[v]

RowsInv == \A v \in Videos :
    /\ draft[v] = "saved" <=> status[v] # "absent"
    /\ upload[v] = "completed" <=> Stored(v)
    /\ Stored(v) => status[v] # "absent"
    /\ thumbnail[v] => poster[v]
    /\ status[v] \in {"processing", "ready"} => Backed(v)
    /\ status[v] = "ready" => poster[v] /\ (thumbnail[v] \/ overtaken[v])

QueueInv == \A v \in Videos, k \in Stalls : queue[<<v, k>>] > 0 => Backed(v)

RequestsInv == \A r \in Requests : request[r].pc # "idle" =>
    /\ request[r].video \in Videos
    /\ status[request[r].video] # "absent"
    /\ request[r].thumbnail => poster[request[r].video]
    /\ request[r].pc \in {"save", "update"} => object[request[r].video] = "declared"
    /\ request[r].pc = "update" =>
         /\ "status" \notin request[r].changes => status[request[r].video] # "uploading"
         /\ "upload_id" \notin request[r].changes => ~upload_id[request[r].video]
    /\ request[r].pc = "enqueue" => Backed(request[r].video)

SweepsInv == \A s \in Sweepers :
    /\ \A v \in sweep[s].pending : status[v] # "absent" /\ aged[v]
    /\ sweep[s].pc # "scan" =>
         /\ sweep[s].video \in Videos
         /\ status[sweep[s].video] # "absent" /\ aged[sweep[s].video]
         /\ sweep[s].pc = "rescue" => Stored(sweep[s].video)
         /\ sweep[s].pc = "enqueue" => Backed(sweep[s].video)

RunsInv == \A w \in Workers :
    /\ run[w].pc # "idle" => run[w].video \in Videos
    /\ run[w].video \in Videos => Backed(run[w].video)
    /\ run[w].pc = "publish" => poster[run[w].video]

IInv ==
    /\ TypeOK
    /\ RowsInv
    /\ QueueInv
    /\ RequestsInv
    /\ SweepsInv
    /\ RunsInv
    /\ UrlsResolve

\* createDraft's save: the new row has no object and no job yet.
LEMMA KeepSaveDraft ==
    ASSUME IInv, NEW v \in Videos, SaveDraft(v), TypeOK' PROVE IInv'
<1>1. status[v] = "absent" /\ ~Stored(v)
  BY DEF IInv, TypeOK, RowsInv, SaveDraft
<1>2. /\ status' = [status EXCEPT ![v] = "uploading"]
      /\ upload_id' = [upload_id EXCEPT ![v] = TRUE]
      /\ draft' = [draft EXCEPT ![v] = "saved"]
      /\ UNCHANGED <<thumbnail, aged, store, request, sweep, queue, run, urls, overtaken>>
  BY DEF SaveDraft
<1>3. RowsInv'
  BY <1>1, <1>2 DEF IInv, TypeOK, RowsInv, Backed, Stored
<1>4. QueueInv'
  BY <1>1, <1>2 DEF IInv, TypeOK, QueueInv, Backed, Stored
<1>5. RequestsInv'
  BY <1>1, <1>2 DEF IInv, TypeOK, RequestsInv, Backed, Stored
<1>6. SweepsInv'
  BY <1>1, <1>2 DEF IInv, TypeOK, SweepsInv, Backed, Stored
<1>7. RunsInv'
  BY <1>1, <1>2 DEF IInv, TypeOK, RunsInv, Backed, Stored
<1>8. UrlsResolve'
  BY <1>1, <1>2 DEF IInv, TypeOK, UrlsResolve, Backed, Stored
<1> QED
  BY <1>3, <1>4, <1>5, <1>6, <1>7, <1>8 DEF IInv

\* A completion only ever adds an object, and completes the upload with it.
LEMMA KeepCompleteMultipart ==
    ASSUME IInv, NEW r \in Requests, CompleteMultipart(r), TypeOK' PROVE IInv'
<1> DEFINE x == request[r].video
<1>1. x \in Videos /\ status[x] # "absent" /\ request[r].pc = "complete"
  BY DEF IInv, RequestsInv, CompleteMultipart
<1>2. /\ request' = [request EXCEPT ![r] = CallAt(r, "head")]
      /\ UNCHANGED <<database, landed, poster, sweep, queue, run, urls, overtaken>>
  BY DEF CompleteMultipart
<1>3. CASE UNCHANGED <<object, upload>>
  BY <1>1, <1>2, <1>3 DEF IInv, TypeOK, RowsInv, QueueInv, RequestsInv,
     SweepsInv, RunsInv, UrlsResolve, Backed, Stored, CallAt
<1>4. ASSUME upload[x] = "open", NEW size \in {"declared", "other"},
             object' = [object EXCEPT ![x] = size],
             upload' = [upload EXCEPT ![x] = "completed"]
      PROVE  IInv'
  <2> HIDE DEF x
  <2>1. ~Stored(x)
    BY <1>1, <1>4 DEF IInv, RowsInv
  <2>2. /\ object'[x] # "absent" /\ upload'[x] = "completed"
        /\ \A u \in Videos : u # x => object'[u] = object[u] /\ upload'[u] = upload[u]
    BY <1>1, <1>4 DEF IInv, TypeOK
  <2>3. RowsInv'
    BY <1>1, <1>2, <2>1, <2>2 DEF IInv, RowsInv, Backed, Stored
  <2>4. QueueInv'
    BY <1>2, <2>1, <2>2 DEF IInv, QueueInv, Backed, Stored
  <2>5. RequestsInv'
    BY <1>1, <1>2, <2>1, <2>2 DEF IInv, TypeOK, RequestsInv, Backed, Stored, CallAt, x
  <2>6. SweepsInv'
    BY <1>2, <2>1, <2>2 DEF IInv, SweepsInv, Backed, Stored
  <2>7. RunsInv'
    BY <1>2, <2>1, <2>2 DEF IInv, RunsInv, Backed, Stored
  <2>8. UrlsResolve'
    BY <1>2, <2>1, <2>2 DEF IInv, UrlsResolve, Stored
  <2> QED
    BY <2>3, <2>4, <2>5, <2>6, <2>7, <2>8 DEF IInv
<1> QED
  BY <1>3, <1>4 DEF CompleteMultipart, Assembled

\* The UPDATE of completeUpload's save: the object was seen with the declared
\* size, and what is not written was already as the entity has it.
LEMMA KeepSaveProcessing ==
    ASSUME IInv, NEW r \in Requests, SaveProcessing(r), TypeOK' PROVE IInv'
<1> DEFINE x == request[r].video
<1>1. /\ x \in Videos /\ status[x] # "absent" /\ object[x] = "declared"
      /\ request[r].thumbnail => poster[x]
      /\ "status" \notin request[r].changes => status[x] # "uploading"
      /\ "upload_id" \notin request[r].changes => ~upload_id[x]
  BY DEF IInv, RequestsInv, SaveProcessing
<1>2. /\ request' = [request EXCEPT ![r] = CallAt(r, "enqueue")]
      /\ UNCHANGED <<draft, aged, store, sweep, queue, run, urls>>
  BY DEF SaveProcessing
<1>3. /\ status'[x] \in {"processing", status[x]} /\ ~upload_id'[x]
      /\ status'[x] \notin {"absent", "uploading"}
      /\ thumbnail'[x] => poster[x]
      /\ status'[x] = "ready" => status[x] = "ready" /\ overtaken'[x]
      /\ \A u \in Videos : u # x =>
            /\ status'[u] = status[u]
            /\ upload_id'[u] = upload_id[u]
            /\ thumbnail'[u] = thumbnail[u]
      /\ \A u \in Videos : overtaken[u] => overtaken'[u]
  <2>1. /\ status'[x] = IF "status" \in request[r].changes THEN "processing" ELSE status[x]
        /\ upload_id'[x] = IF "upload_id" \in request[r].changes THEN FALSE ELSE upload_id[x]
        /\ thumbnail'[x] = IF "thumbnail" \in request[r].changes
                           THEN request[r].thumbnail ELSE thumbnail[x]
    <3>1. status'[x] = IF "status" \in request[r].changes THEN "processing" ELSE status[x]
      BY <1>1 DEF IInv, TypeOK, SaveProcessing
    <3>2. upload_id'[x] = IF "upload_id" \in request[r].changes THEN FALSE ELSE upload_id[x]
      BY <1>1 DEF IInv, TypeOK, SaveProcessing
    <3>3. thumbnail'[x] = IF "thumbnail" \in request[r].changes
                          THEN request[r].thumbnail ELSE thumbnail[x]
      BY <1>1 DEF IInv, TypeOK, SaveProcessing
    <3> QED
      BY <3>1, <3>2, <3>3
  <2>2. thumbnail[x] => poster[x]
    BY <1>1 DEF IInv, RowsInv
  <2>3. /\ overtaken'[x] = (overtaken[x] \/ "status" \in Changes(r) \ request[r].changes)
        /\ \A u \in Videos : overtaken[u] => overtaken'[u]
    BY <1>1 DEF IInv, TypeOK, SaveProcessing
  <2>4. "status" \in Changes(r) <=> status[x] # "processing"
    BY DEF Changes
  <2>5. \A u \in Videos : u # x =>
            /\ status'[u] = status[u]
            /\ upload_id'[u] = upload_id[u]
            /\ thumbnail'[u] = thumbnail[u]
    BY <1>1 DEF IInv, TypeOK, SaveProcessing
  <2> QED
    BY <1>1, <2>1, <2>2, <2>3, <2>4, <2>5
<1>4. RowsInv'
  BY <1>1, <1>2, <1>3 DEF IInv, TypeOK, RowsInv, Backed, Stored
<1>5. QueueInv'
  BY <1>1, <1>2, <1>3 DEF IInv, TypeOK, QueueInv, Backed, Stored
<1>6. RequestsInv'
  BY <1>1, <1>2, <1>3 DEF IInv, TypeOK, RequestsInv, Backed, Stored, CallAt
<1>7. SweepsInv'
  BY <1>1, <1>2, <1>3 DEF IInv, TypeOK, SweepsInv, Backed, Stored, Sweep
<1>8. RunsInv'
  BY <1>1, <1>2, <1>3 DEF IInv, TypeOK, RunsInv, Backed, Stored
<1>9. UrlsResolve'
  BY <1>1, <1>2, <1>3 DEF IInv, TypeOK, UrlsResolve, Backed, Stored
<1> QED
  BY <1>4, <1>5, <1>6, <1>7, <1>8, <1>9 DEF IInv

\* The sweep's rescue: the object was seen, the draft was past the timeout.
LEMMA KeepSweepRescue ==
    ASSUME IInv, NEW s \in Sweepers, SweepRescue(s), TypeOK' PROVE IInv'
<1> DEFINE x == sweep[s].video
<1>1. x \in Videos /\ status[x] # "absent" /\ Stored(x) /\ aged[x]
  BY DEF IInv, SweepsInv, SweepRescue
<1>2. /\ sweep' = [sweep EXCEPT ![s] = SweepAt(s, "enqueue")]
      /\ UNCHANGED <<draft, aged, thumbnail, store, request, queue, run, urls, overtaken>>
  BY DEF SweepRescue
<1>3. /\ status'[x] = "processing" /\ ~upload_id'[x]
      /\ \A u \in Videos : u # x =>
            status'[u] = status[u] /\ upload_id'[u] = upload_id[u]
  BY <1>1 DEF IInv, TypeOK, SweepRescue
<1>4. RowsInv'
  BY <1>1, <1>2, <1>3 DEF IInv, TypeOK, RowsInv, Backed, Stored
<1>5. QueueInv'
  BY <1>1, <1>2, <1>3 DEF IInv, TypeOK, QueueInv, Backed, Stored
<1>6. RequestsInv'
  BY <1>1, <1>2, <1>3 DEF IInv, TypeOK, RequestsInv, Backed, Stored
<1>7. SweepsInv'
  BY <1>1, <1>2, <1>3 DEF IInv, TypeOK, SweepsInv, Backed, Stored, Sweep, SweepAt
<1>8. RunsInv'
  BY <1>1, <1>2, <1>3 DEF IInv, TypeOK, RunsInv, Backed, Stored
<1>9. UrlsResolve'
  BY <1>1, <1>2, <1>3 DEF IInv, TypeOK, UrlsResolve, Backed, Stored
<1> QED
  BY <1>4, <1>5, <1>6, <1>7, <1>8, <1>9 DEF IInv

\* A run that processed its source leaves the thumbnail object behind.
LEMMA KeepRunProcess ==
    ASSUME IInv, NEW w \in Workers, RunProcess(w), TypeOK' PROVE IInv'
<1> DEFINE x == run[w].video
<1>1. x \in Videos /\ Backed(x)
  BY DEF IInv, RunsInv, RunProcess
<1>2. /\ run' = [run EXCEPT ![w] = RunAt(w, "publish")]
      /\ UNCHANGED <<database, upload, landed, object, request, sweep, queue, urls, overtaken>>
  BY DEF RunProcess
<1>3. /\ poster'[x]
      /\ \A u \in Videos : poster[u] => poster'[u]
  BY <1>1 DEF IInv, TypeOK, RunProcess
<1>4. RowsInv'
  BY <1>1, <1>2, <1>3 DEF IInv, TypeOK, RowsInv, Backed, Stored
<1>5. QueueInv'
  BY <1>1, <1>2, <1>3 DEF IInv, TypeOK, QueueInv, Backed, Stored
<1>6. RequestsInv'
  BY <1>1, <1>2, <1>3 DEF IInv, TypeOK, RequestsInv, Backed, Stored
<1>7. SweepsInv'
  BY <1>1, <1>2, <1>3 DEF IInv, TypeOK, SweepsInv, Backed, Stored, Sweep
<1>8. RunsInv'
  BY <1>1, <1>2, <1>3 DEF IInv, TypeOK, RunsInv, Backed, Stored, RunAt
<1>9. UrlsResolve'
  BY <1>1, <1>2, <1>3 DEF IInv, TypeOK, UrlsResolve, Backed, Stored
<1> QED
  BY <1>4, <1>5, <1>6, <1>7, <1>8, <1>9 DEF IInv

\* A run publishes only after its thumbnail object was stored.
LEMMA KeepRunPublish ==
    ASSUME IInv, NEW w \in Workers, RunPublish(w), TypeOK' PROVE IInv'
<1> DEFINE x == run[w].video
<1>1. x \in Videos /\ Backed(x) /\ poster[x]
  BY DEF IInv, RunsInv, RunPublish
<1>2. /\ run' = [run EXCEPT ![w] = RunAt(w, "done")]
      /\ UNCHANGED <<draft, aged, upload_id, store, request, sweep, queue, urls, overtaken>>
  BY DEF RunPublish
<1>3. /\ status'[x] = "ready" /\ thumbnail'[x]
      /\ \A u \in Videos : u # x =>
            status'[u] = status[u] /\ thumbnail'[u] = thumbnail[u]
  BY <1>1 DEF IInv, TypeOK, RunPublish
<1>4. RowsInv'
  BY <1>1, <1>2, <1>3 DEF IInv, TypeOK, RowsInv, Backed, Stored
<1>5. QueueInv'
  BY <1>1, <1>2, <1>3 DEF IInv, TypeOK, QueueInv, Backed, Stored
<1>6. RequestsInv'
  BY <1>1, <1>2, <1>3 DEF IInv, TypeOK, RequestsInv, Backed, Stored
<1>7. SweepsInv'
  BY <1>1, <1>2, <1>3 DEF IInv, TypeOK, SweepsInv, Backed, Stored, Sweep
<1>8. RunsInv'
  BY <1>1, <1>2, <1>3 DEF IInv, TypeOK, RunsInv, Backed, Stored, RunAt
<1>9. UrlsResolve'
  BY <1>1, <1>2, <1>3 DEF IInv, TypeOK, UrlsResolve, Backed, Stored
<1> QED
  BY <1>4, <1>5, <1>6, <1>7, <1>8, <1>9 DEF IInv

\* Every step of every actor keeps IInv.
LEMMA InvStep == ASSUME IInv, [Next]_vars PROVE IInv'
<1>0. TypeOK /\ TypeOK'
  BY TypeStep DEF IInv
<1> USE <1>0, PipelineAssumption DEF IInv, RowsInv, QueueInv, RequestsInv, SweepsInv,
        RunsInv, UrlsResolve, Backed, Stored
<1>1. ASSUME NEW v \in Videos, InitiateUpload(v) PROVE IInv'
  BY <1>1 DEF InitiateUpload
<1>2. ASSUME NEW v \in Videos, SaveDraft(v) PROVE IInv'
  BY <1>2, KeepSaveDraft
<1>3. ASSUME NEW v \in Videos, DraftDies(v) PROVE IInv'
  BY <1>3 DEF DraftDies
<1>4. ASSUME NEW v \in Videos, PutParts(v) PROVE IInv'
  BY <1>4 DEF PutParts
<1>5. ASSUME NEW v \in Videos, Age(v) PROVE IInv'
  BY <1>5 DEF Age
<1>6. ASSUME NEW v \in Videos, NEW o \in BOOLEAN, GetForPlayback(v, o) PROVE IInv'
  BY <1>6 DEF GetForPlayback
<1>7. ASSUME NEW v \in Videos, NEW o \in BOOLEAN, GetDownloadUrl(v, o) PROVE IInv'
  BY <1>7 DEF GetDownloadUrl
<1>8. ASSUME NEW r \in Requests, NEW v \in Videos, ReadDraft(r, v) PROVE IInv'
  BY <1>8 DEF ReadDraft
<1>9. ASSUME NEW r \in Requests, CompleteMultipart(r) PROVE IInv'
  BY <1>9, KeepCompleteMultipart
<1>10. ASSUME NEW r \in Requests, MultipartRejected(r) PROVE IInv'
  BY <1>10 DEF MultipartRejected, NoCall
<1>11. ASSUME NEW r \in Requests, VerifyObject(r) PROVE IInv'
  BY <1>11 DEF VerifyObject, NoCall, CallAt
<1>12. ASSUME NEW r \in Requests, SaveProcessing(r) PROVE IInv'
  BY <1>12, KeepSaveProcessing
<1>33. ASSUME NEW r \in Requests, LoadForSave(r) PROVE IInv'
  BY <1>33 DEF LoadForSave, Changes
<1>13. ASSUME NEW r \in Requests, EnqueueCompleted(r) PROVE IInv'
  BY <1>13 DEF EnqueueCompleted, NoCall
<1>14. ASSUME NEW r \in Requests, RequestDies(r) PROVE IInv'
  BY <1>14 DEF RequestDies, NoCall
<1>15. ASSUME NEW s \in Sweepers, SweepScan(s) PROVE IInv'
  BY <1>15 DEF SweepScan, Abandoned
<1>16. ASSUME NEW s \in Sweepers, NEW v \in Videos, SweepHead(s, v) PROVE IInv'
  BY <1>16 DEF SweepHead
<1>17. ASSUME NEW s \in Sweepers, SweepRescue(s) PROVE IInv'
  BY <1>17, KeepSweepRescue
<1>18. ASSUME NEW s \in Sweepers, SweepEnqueue(s) PROVE IInv'
  BY <1>18 DEF SweepEnqueue, NextDraft
<1>19. ASSUME NEW s \in Sweepers, SweepFail(s) PROVE IInv'
  BY <1>19 DEF SweepFail, NextDraft
<1>20. ASSUME NEW s \in Sweepers, SweepDraftThrows(s) PROVE IInv'
  <2>1. CASE sweep[s].pc # "scan" /\ sweep' = [sweep EXCEPT ![s] = NextDraft(s)]
    BY <1>20, <2>1 DEF SweepDraftThrows, NextDraft
  <2>2. ASSUME NEW v \in sweep[s].pending,
               sweep' = [sweep EXCEPT ![s] =
                   [pc |-> "scan", video |-> NoVideo,
                    pending |-> sweep[s].pending \ {v}]]
        PROVE  IInv'
    BY <1>20, <2>2 DEF SweepDraftThrows
  <2> QED
    BY <1>20, <2>1, <2>2 DEF SweepDraftThrows
<1>21. ASSUME NEW s \in Sweepers, SweepDies(s) PROVE IInv'
  BY <1>21 DEF SweepDies, NoSweep
<1>22. ASSUME NEW w \in Workers, NEW v \in Videos, NEW k \in Stalls, TakeJob(w, v, k) PROVE IInv'
  BY <1>22 DEF TakeJob
<1>23. ASSUME NEW w \in Workers, RunRead(w) PROVE IInv'
  BY <1>23 DEF RunRead, RunAt
<1>24. ASSUME NEW w \in Workers, RunProcess(w) PROVE IInv'
  BY <1>24, KeepRunProcess
<1>25. ASSUME NEW w \in Workers, RunThrows(w) PROVE IInv'
  BY <1>25 DEF RunThrows, RunAt
<1>26. ASSUME NEW w \in Workers, RunPublish(w) PROVE IInv'
  BY <1>26, KeepRunPublish
<1>27. ASSUME NEW w \in Workers, RunFail(w) PROVE IInv'
  BY <1>27 DEF RunFail, RunAt
<1>28. ASSUME NEW w \in Workers, RunDone(w) PROVE IInv'
  BY <1>28 DEF RunDone, NoRun
<1>29. ASSUME NEW w \in Workers, RunStalls(w) PROVE IInv'
  BY <1>29 DEF RunStalls, Redelivered
<1>30. ASSUME NEW w \in Workers, WorkerDies(w) PROVE IInv'
  BY <1>30 DEF WorkerDies, Redelivered, NoRun
<1>31. ASSUME NEW w \in Workers, WorkerQueryThrows(w) PROVE IInv'
  BY <1>31 DEF WorkerQueryThrows, RunAt
<1>32. CASE UNCHANGED vars
  BY <1>32 DEF vars
<1> HIDE DEF IInv, RowsInv, QueueInv, RequestsInv, SweepsInv, RunsInv,
        UrlsResolve, Backed, Stored
<1> QED
  BY <1>1, <1>2, <1>3, <1>4, <1>5, <1>6, <1>7, <1>8, <1>9, <1>10, <1>11, <1>12, <1>13, <1>14, <1>15, <1>16, <1>17, <1>18, <1>19, <1>20, <1>21, <1>22, <1>23, <1>24, <1>25, <1>26, <1>27, <1>28, <1>29, <1>30, <1>31, <1>32, <1>33
  DEF Next, DraftNext, Viewing, RequestStep, SweepStep, RunStep

\* IInv holds with no rows, no objects and every actor at rest.
LEMMA InvInit == Init => IInv
BY PipelineAssumption, StallsFromZero
   DEF Init, IInv, TypeOK, Statuses, Call, NoCall, Sweep, NoSweep, Run, NoRun,
       RowsInv, QueueInv, RequestsInv, SweepsInv, RunsInv, UrlsResolve,
       Backed, Stored

-----------------------------------------------------------------------------
(* The safety theorems *)

\* IInv holds in every reachable state, whatever fails and in whatever order.
THEOREM Invariance == Spec => []IInv
<1>1. Init => IInv
  BY InvInit
<1>2. IInv /\ [Next]_vars => IInv'
  BY InvStep
<1> QED
  BY <1>1, <1>2, PTL DEF Spec

\* Every reachable state is of its type.
THEOREM TypeCorrect == Spec => []TypeOK
<1>1. IInv => TypeOK
  BY DEF IInv
<1> QED
  BY <1>1, Invariance, PTL

\* A ready video has its source and its thumbnail, and its row has the thumbnail's
\* key unless a save was overtaken, however requests, sweeps and overlapping runs
\* of one job interleave.
THEOREM ReadyCanBePlayed == Spec => []PublishedIsPlayable
<1>1. IInv => PublishedIsPlayable
  BY DEF IInv, RowsInv, Backed, PublishedIsPlayable
<1> QED
  BY <1>1, Invariance, PTL

\* URLs handed out by getForPlayback and getDownloadUrl never dangle.
THEOREM UrlsNeverDangle == Spec => []UrlsResolve
<1>1. IInv => UrlsResolve
  BY DEF IInv
<1> QED
  BY <1>1, Invariance, PTL

\* Nothing is processed or queued before completeUpload or the sweep saw the
\* finalized source.
THEOREM NoWorkWithoutSource == Spec => []WorkHasASource
<1>1. IInv => WorkHasASource
  <2> SUFFICES ASSUME IInv, NEW v \in Videos,
                      status[v] \in {"processing", "ready"} \/ HasJob(v)
               PROVE  Backed(v)
    BY DEF WorkHasASource, Backed
  <2>1. CASE status[v] \in {"processing", "ready"}
    BY <2>1 DEF IInv, RowsInv
  <2>2. CASE HasJob(v)
    BY <2>2 DEF IInv, HasJob, QueueInv, RunsInv
  <2> QED
    BY <2>1, <2>2
<1> QED
  BY <1>1, Invariance, PTL

\* Only a draft past the timeout can reach processing with another size.
THEOREM SizeCheckHolds == Spec => []OnlyRescuesSkipTheSizeCheck
<1>1. IInv => OnlyRescuesSkipTheSizeCheck
  BY DEF IInv, RowsInv, Backed, OnlyRescuesSkipTheSizeCheck
<1> QED
  BY <1>1, Invariance, PTL

-----------------------------------------------------------------------------
(* The pipeline implements VideoLifecycle *)

\* Every step of the pipeline is a step or a stutter of VideoLifecycle.
LEMMA LifecycleStep ==
    ASSUME IInv, [Next]_vars PROVE [Lifecycle!Next]_(Lifecycle!lifecycle)
<1> DEFINE same == UNCHANGED <<status, object, poster>>
<1>0. ASSUME same PROVE [Lifecycle!Next]_(Lifecycle!lifecycle)
  BY <1>0 DEF Lifecycle!lifecycle, Stored
<1>1. ASSUME NEW v \in Videos, SaveDraft(v) PROVE Lifecycle!Draft(v)
  BY <1>1 DEF SaveDraft, IInv, RowsInv, Lifecycle!Draft, Stored
<1>2. ASSUME NEW r \in Requests, CompleteMultipart(r)
      PROVE  same \/ Lifecycle!StoreSource(request[r].video)
  <2> DEFINE x == request[r].video
  <2>1. x \in Videos /\ status[x] # "absent" /\ UNCHANGED <<status, poster>>
    BY <1>2 DEF CompleteMultipart, IInv, RequestsInv
  <2>2. ASSUME upload[x] = "open", NEW size \in {"declared", "other"},
               object' = [object EXCEPT ![x] = size]
        PROVE  Lifecycle!StoreSource(x)
    <3> HIDE DEF x
    <3>1. Stored(x) = FALSE
      BY <2>1, <2>2 DEF IInv, RowsInv, Stored
    <3>2. \A v \in Videos : Stored(v)' = IF v = x THEN TRUE ELSE Stored(v)
      BY <2>1, <2>2 DEF IInv, TypeOK, Stored
    <3>3. [v \in Videos |-> Stored(v)]' =
             [[v \in Videos |-> Stored(v)] EXCEPT ![x] = TRUE]
      BY <3>2
    <3> QED
      BY <2>1, <3>1, <3>3 DEF Lifecycle!StoreSource
  <2> QED
    BY <1>2, <2>1, <2>2 DEF CompleteMultipart, Assembled
<1>3. ASSUME NEW r \in Requests, SaveProcessing(r)
      PROVE  same \/ Lifecycle!Accept(request[r].video)
  <2>1. UNCHANGED <<object, poster>>
    BY <1>3 DEF SaveProcessing
  <2>2. CASE "status" \in request[r].changes
    BY <1>3, <2>1, <2>2 DEF SaveProcessing, IInv, RequestsInv, Lifecycle!Accept, Stored
  <2>3. CASE "status" \notin request[r].changes
    <3>1. status' = status
      BY <1>3, <2>3 DEF SaveProcessing, IInv, TypeOK
    <3> QED
      BY <2>1, <3>1
  <2> QED
    BY <2>2, <2>3
<1>4. ASSUME NEW s \in Sweepers, SweepRescue(s)
      PROVE  Lifecycle!Accept(sweep[s].video)
  BY <1>4 DEF SweepRescue, IInv, SweepsInv, Lifecycle!Accept, Stored
<1>5. ASSUME NEW s \in Sweepers, SweepFail(s)
      PROVE  Lifecycle!Fail(sweep[s].video)
  BY <1>5 DEF SweepFail, IInv, SweepsInv, Lifecycle!Fail, Stored
<1>6. ASSUME NEW w \in Workers, RunProcess(w)
      PROVE  Lifecycle!StorePoster(run[w].video)
  BY <1>6 DEF RunProcess, IInv, RunsInv, Backed, Lifecycle!StorePoster, Stored
<1>7. ASSUME NEW w \in Workers, RunPublish(w)
      PROVE  Lifecycle!Publish(run[w].video)
  BY <1>7 DEF RunPublish, IInv, RunsInv, Backed, Lifecycle!Publish, Stored
<1>8. ASSUME NEW w \in Workers, RunFail(w)
      PROVE  Lifecycle!Fail(run[w].video)
  BY <1>8 DEF RunFail, IInv, RunsInv, Backed, Lifecycle!Fail, Stored
<1>9. /\ \A r \in Requests : request[r].pc # "idle" => request[r].video \in Videos
      /\ \A t \in Sweepers : sweep[t].pc # "scan" => sweep[t].video \in Videos
      /\ \A w \in Workers : run[w].pc # "idle" => run[w].video \in Videos
  BY DEF IInv, RequestsInv, SweepsInv, RunsInv
<1>10. ASSUME NEW v \in Videos, DraftNext(v) \/ PutParts(v) \/ Age(v) \/ Viewing(v)
       PROVE  same \/ SaveDraft(v)
  BY <1>10 DEF DraftNext, InitiateUpload, DraftDies, PutParts, Age, Viewing,
     GetForPlayback, GetDownloadUrl
<1>11. ASSUME NEW r \in Requests,
              (\E v \in Videos : ReadDraft(r, v)) \/ RequestStep(r) \/ RequestDies(r)
       PROVE  same \/ CompleteMultipart(r) \/ SaveProcessing(r)
  BY <1>11 DEF ReadDraft, RequestStep, MultipartRejected, VerifyObject,
     LoadForSave, EnqueueCompleted, RequestDies
<1>12. ASSUME NEW t \in Sweepers, SweepStep(t) \/ SweepDraftThrows(t) \/ SweepDies(t)
       PROVE  same \/ SweepRescue(t) \/ SweepFail(t)
  BY <1>12 DEF SweepStep, SweepScan, SweepHead, SweepEnqueue, SweepDraftThrows,
     SweepDies
<1>13. ASSUME NEW w \in Workers,
              RunStep(w) \/ RunStalls(w) \/ WorkerDies(w) \/ WorkerQueryThrows(w)
       PROVE  same \/ RunProcess(w) \/ RunPublish(w) \/ RunFail(w)
  BY <1>13 DEF RunStep, TakeJob, RunRead, RunThrows, RunDone, RunStalls,
     WorkerDies, WorkerQueryThrows
<1>14. CASE UNCHANGED vars
  BY <1>0, <1>14 DEF vars
<1>15. CASE \E v \in Videos : DraftNext(v) \/ PutParts(v) \/ Age(v) \/ Viewing(v)
  BY <1>0, <1>1, <1>10, <1>15 DEF Lifecycle!Next
<1>16. CASE \E r \in Requests :
              (\E v \in Videos : ReadDraft(r, v)) \/ RequestStep(r) \/ RequestDies(r)
  <2>1. PICK r \in Requests : same \/ CompleteMultipart(r) \/ SaveProcessing(r)
    BY <1>11, <1>16
  <2>2. CASE CompleteMultipart(r)
    BY <1>0, <1>2, <1>9, <2>2 DEF CompleteMultipart, Lifecycle!Next
  <2>3. CASE SaveProcessing(r)
    BY <1>0, <1>3, <1>9, <2>3 DEF SaveProcessing, Lifecycle!Next
  <2> QED
    BY <1>0, <2>1, <2>2, <2>3
<1>17. CASE \E t \in Sweepers : SweepStep(t) \/ SweepDraftThrows(t) \/ SweepDies(t)
  <2>1. PICK t \in Sweepers : same \/ SweepRescue(t) \/ SweepFail(t)
    BY <1>12, <1>17
  <2>2. CASE SweepRescue(t)
    BY <1>4, <1>9, <2>2 DEF SweepRescue, Lifecycle!Next
  <2>3. CASE SweepFail(t)
    BY <1>5, <1>9, <2>3 DEF SweepFail, Lifecycle!Next
  <2> QED
    BY <1>0, <2>1, <2>2, <2>3
<1>18. CASE \E w \in Workers :
              RunStep(w) \/ RunStalls(w) \/ WorkerDies(w) \/ WorkerQueryThrows(w)
  <2>1. PICK w \in Workers : same \/ RunProcess(w) \/ RunPublish(w) \/ RunFail(w)
    BY <1>13, <1>18
  <2>2. CASE RunProcess(w)
    BY <1>6, <1>9, <2>2 DEF RunProcess, Lifecycle!Next
  <2>3. CASE RunPublish(w)
    BY <1>7, <1>9, <2>3 DEF RunPublish, Lifecycle!Next
  <2>4. CASE RunFail(w)
    BY <1>8, <1>9, <2>4 DEF RunFail, Lifecycle!Next
  <2> QED
    BY <1>0, <2>1, <2>2, <2>3, <2>4
<1> HIDE DEF same
<1> QED
  BY <1>14, <1>15, <1>16, <1>17, <1>18 DEF Next

\* Every behaviour of the pipeline is one of VideoLifecycle: processing starts
\* only on a stored source, publication needs the source and the thumbnail.
THEOREM PipelineImplementsLifecycle == Spec => ImplementsLifecycle
<1>1. Init => Lifecycle!Init
  <2> SUFFICES ASSUME Init PROVE Lifecycle!Init
    OBVIOUS
  <2>1. \A v \in Videos : Stored(v) = FALSE
    BY DEF Init, Stored
  <2>2. [v \in Videos |-> Stored(v)] = [v \in Videos |-> FALSE]
    BY <2>1
  <2> QED
    BY <2>2 DEF Init, Lifecycle!Init
<1>2. IInv /\ [Next]_vars => [Lifecycle!Next]_(Lifecycle!lifecycle)
  BY LifecycleStep
<1> QED
  BY <1>1, <1>2, Invariance, PTL DEF Spec, ImplementsLifecycle, Lifecycle!Spec

-----------------------------------------------------------------------------
(* Without crashes, whoever says processing has somebody to settle it *)

Driven(v) ==
    \/ \E k \in Stalls : queue[<<v, k>>] > 0
    \/ \E w \in Workers : run[w].video = v /\ run[w].pc # "done"
    \/ \E r \in Requests : request[r].video = v /\ request[r].pc = "enqueue"
    \/ \E s \in Sweepers : sweep[s].video = v /\ sweep[s].pc = "enqueue"

\* No step takes the last driver of a row away and leaves it processing.
LEMMA DrivenStep ==
    ASSUME Faults \subseteq {"stall"}, IInv, ProcessingIsDriven, [Next]_vars
    PROVE  ProcessingIsDriven'
<1> SUFFICES ASSUME NEW u \in Videos, status'[u] = "processing"
             PROVE  Driven(u)'
  BY DEF ProcessingIsDriven, Driven
<1>0. TypeOK
  BY DEF IInv
<1>1. status[u] = "processing" => Driven(u)
  BY DEF ProcessingIsDriven, Driven
<1>2. \A f \in {"api", "sweep", "worker"} : f \notin Faults
  OBVIOUS
<1>3. ASSUME status'[u] = status[u], UNCHANGED <<queue, run, request, sweep>>
      PROVE  Driven(u)'
  BY <1>1, <1>3 DEF Driven
<1>4. ASSUME NEW v \in Videos, DraftNext(v) \/ PutParts(v) \/ Age(v) \/ Viewing(v)
      PROVE  Driven(u)'
  <2>1. CASE SaveDraft(v)
    BY <1>0, <1>1, <2>1 DEF SaveDraft, TypeOK, Driven
  <2> QED
    BY <1>2, <1>3, <1>4, <2>1 DEF DraftNext, InitiateUpload, DraftDies, PutParts,
       Age, Viewing, GetForPlayback, GetDownloadUrl
<1>5. ASSUME NEW r \in Requests, SaveProcessing(r) PROVE Driven(u)'
  <2>1. CASE request[r].video = u
    BY <1>0, <1>5, <2>1 DEF SaveProcessing, TypeOK, CallAt, Driven
  <2>2. CASE request[r].video # u
    BY <1>0, <1>1, <1>5, <2>2 DEF SaveProcessing, TypeOK, CallAt, Driven
  <2> QED
    BY <2>1, <2>2
<1>6. ASSUME NEW r \in Requests, EnqueueCompleted(r) PROVE Driven(u)'
  <2>1. CASE request[r].video = u
    BY <1>0, <1>6, <2>1, StallsFromZero DEF EnqueueCompleted, TypeOK, Driven
  <2>2. CASE request[r].video # u
    BY <1>0, <1>1, <1>6, <2>2 DEF EnqueueCompleted, TypeOK, NoCall, Driven
  <2> QED
    BY <2>1, <2>2
<1>7. ASSUME NEW r \in Requests,
             (\E v \in Videos : ReadDraft(r, v)) \/ RequestStep(r) \/ RequestDies(r)
      PROVE  Driven(u)'
  <2>1. CASE \E v \in Videos : ReadDraft(r, v)
    <3>1. UNCHANGED <<status, queue, run, sweep>> /\ request[r].pc = "idle"
      BY <2>1 DEF ReadDraft, NoCall
    <3>2. \A x \in Requests : request[x].pc = "enqueue" => request'[x] = request[x]
      BY <1>0, <2>1, <3>1 DEF ReadDraft, TypeOK
    <3> QED
      BY <1>1, <3>1, <3>2 DEF Driven
  <2>2. CASE \/ CompleteMultipart(r) \/ MultipartRejected(r) \/ VerifyObject(r)
             \/ LoadForSave(r)
    <3>1. UNCHANGED <<status, queue, run, sweep>>
      BY <2>2 DEF CompleteMultipart, MultipartRejected, VerifyObject, LoadForSave
    <3>2. \A x \in Requests : request[x].pc = "enqueue" => request'[x] = request[x]
      BY <1>0, <2>2 DEF CompleteMultipart, MultipartRejected, VerifyObject, LoadForSave, TypeOK
    <3> QED
      BY <1>1, <3>1, <3>2 DEF Driven
  <2> QED
    BY <1>2, <1>5, <1>6, <1>7, <2>1, <2>2 DEF RequestStep, RequestDies
<1>8. ASSUME NEW s \in Sweepers, SweepRescue(s) PROVE Driven(u)'
  <2>1. CASE sweep[s].video = u
    BY <1>0, <1>8, <2>1 DEF SweepRescue, TypeOK, SweepAt, Driven
  <2>2. CASE sweep[s].video # u
    BY <1>0, <1>1, <1>8, <2>2 DEF SweepRescue, TypeOK, SweepAt, Driven
  <2> QED
    BY <2>1, <2>2
<1>9. ASSUME NEW s \in Sweepers, SweepEnqueue(s) PROVE Driven(u)'
  <2>1. CASE sweep[s].video = u
    BY <1>0, <1>9, <2>1, StallsFromZero DEF SweepEnqueue, TypeOK, Driven
  <2>2. CASE sweep[s].video # u
    BY <1>0, <1>1, <1>9, <2>2 DEF SweepEnqueue, TypeOK, NextDraft, Driven
  <2> QED
    BY <2>1, <2>2
<1>10. ASSUME NEW s \in Sweepers,
              SweepStep(s) \/ SweepDraftThrows(s) \/ SweepDies(s)
       PROVE  Driven(u)'
  <2>1. CASE SweepScan(s) \/ \E v \in Videos : SweepHead(s, v)
    <3>1. UNCHANGED <<status, queue, run, request>>
      BY <2>1 DEF SweepScan, SweepHead
    <3>2. \A x \in Sweepers : sweep[x].pc = "enqueue" => sweep'[x] = sweep[x]
      BY <1>0, <2>1 DEF SweepScan, SweepHead, TypeOK
    <3> QED
      BY <1>1, <3>1, <3>2 DEF Driven
  <2>2. CASE SweepFail(s)
    BY <1>0, <1>1, <2>2 DEF SweepFail, NextDraft, TypeOK, Driven
  <2> QED
    BY <1>2, <1>8, <1>9, <1>10, <2>1, <2>2
    DEF SweepStep, SweepDraftThrows, SweepDies
<1>11. ASSUME NEW w \in Workers, NEW v \in Videos, NEW k \in Stalls,
              TakeJob(w, v, k)
       PROVE  Driven(u)'
  <2>1. CASE v = u
    BY <1>0, <1>11, <2>1 DEF TakeJob, TypeOK, Driven
  <2>2. CASE v # u
    <3>1. \A j \in Stalls : queue'[<<u, j>>] = queue[<<u, j>>]
      BY <1>0, <1>11, <2>2 DEF TakeJob, TypeOK
    <3>2. \A x \in Workers : run[x].video = u => run'[x] = run[x]
      BY <1>0, <1>11, PipelineAssumption DEF TakeJob, TypeOK, NoRun
    <3>3. UNCHANGED <<status, request, sweep>>
      BY <1>11 DEF TakeJob
    <3> QED
      BY <1>1, <3>1, <3>2, <3>3 DEF Driven
  <2> QED
    BY <2>1, <2>2
<1>12. ASSUME NEW w \in Workers, RunRead(w) PROVE Driven(u)'
  <2>1. UNCHANGED <<status, queue, request, sweep>>
    BY <1>12 DEF RunRead
  <2>2. \A x \in Workers : run[x].video = u /\ run[x].pc # "done" =>
           run'[x].video = u /\ run'[x].pc # "done"
    BY <1>0, <1>12, <2>1 DEF RunRead, TypeOK, RunAt
  <2> QED
    BY <1>1, <2>1, <2>2 DEF Driven
<1>13. ASSUME NEW w \in Workers, RunProcess(w) \/ RunThrows(w) PROVE Driven(u)'
  BY <1>0, <1>1, <1>13 DEF RunProcess, RunThrows, TypeOK, RunAt, Driven
<1>14. ASSUME NEW w \in Workers, RunPublish(w) \/ RunFail(w) PROVE Driven(u)'
  BY <1>0, <1>1, <1>14 DEF RunPublish, RunFail, TypeOK, RunAt, Driven
<1>15. ASSUME NEW w \in Workers, RunDone(w) PROVE Driven(u)'
  BY <1>0, <1>1, <1>15 DEF RunDone, TypeOK, NoRun, Driven
<1>16. ASSUME NEW w \in Workers, RunStalls(w) PROVE Driven(u)'
  <2>1. \A k \in Stalls : queue[<<u, k>>] > 0 => queue'[<<u, k>>] > 0
    BY <1>0, <1>16 DEF RunStalls, Redelivered, TypeOK
  <2>2. \A x \in Workers : run'[x].video = run[x].video /\ run'[x].pc = run[x].pc
    BY <1>0, <1>16 DEF RunStalls, TypeOK
  <2>3. UNCHANGED <<status, request, sweep>>
    BY <1>16 DEF RunStalls
  <2> QED
    BY <1>1, <2>1, <2>2, <2>3 DEF Driven
<1>17. CASE UNCHANGED vars
  BY <1>3, <1>17 DEF vars
<1> QED
  BY <1>2, <1>4, <1>7, <1>10, <1>11, <1>12, <1>13, <1>14, <1>15, <1>16, <1>17
  DEF Next, RunStep, WorkerDies, WorkerQueryThrows

\* While no process crashes, no video is left in processing with nobody to
\* settle it, even if runs stall and their jobs are redelivered.
THEOREM ProcessingAlwaysDriven ==
    ASSUME Faults \subseteq {"stall"} PROVE Spec => []ProcessingIsDriven
<1>1. Init => ProcessingIsDriven
  BY DEF Init, ProcessingIsDriven
<1>2. IInv /\ ProcessingIsDriven /\ [Next]_vars => ProcessingIsDriven'
  BY DrivenStep
<1> QED
  BY <1>1, <1>2, Invariance, PTL DEF Spec

-----------------------------------------------------------------------------
(* Without overlap, a row lives as the phase document has it *)

\* What an actor has read of the row of v is still so when it writes it.
OrderOk(v) ==
    /\ \A r \in Requests :
          request[r].video = v /\ request[r].pc \in {"complete", "head", "save", "update"} =>
              status[v] = "uploading" /\ (request[r].pc = "update" => "status" \in request[r].changes)
    /\ \A s \in Sweepers :
          /\ v \in sweep[s].pending => status[v] = "uploading" /\ sweep[s].video # v
          /\ sweep[s].video = v /\ sweep[s].pc \in {"rescue", "fail"} => status[v] = "uploading"
    /\ \A w \in Workers :
          run[w].video = v /\ run[w].pc \in {"download", "publish", "fail"} =>
              status[v] # "ready"

OrderInv == \A v \in Videos : OrderOk(v)

InOrder(old, new) == new # old => <<old, new>> \in RowOrder

\* Who works on a video works on it alone.
LEMMA Alone ==
    ASSUME OneSettler, NEW v \in Videos
    PROVE  /\ \A r \in Requests : request[r].video = v =>
                 /\ \A x \in Requests \ {r} : request[x].video # v
                 /\ \A x \in Sweepers : sweep[x].video # v /\ v \notin sweep[x].pending
                 /\ \A x \in Workers : run[x].video # v
           /\ \A s \in Sweepers : sweep[s].video = v =>
                 /\ \A x \in Requests : request[x].video # v
                 /\ \A x \in Sweepers \ {s} : sweep[x].video # v /\ v \notin sweep[x].pending
                 /\ \A x \in Workers : run[x].video # v
           /\ \A w \in Workers : run[w].video = v =>
                 /\ \A x \in Requests : request[x].video # v
                 /\ \A x \in Sweepers : sweep[x].video # v /\ v \notin sweep[x].pending
                 /\ \A x \in Workers \ {w} : run[x].video # v
<1>1. \A r \in Requests : request[r].video = v => <<"request", r>> \in Settlers(v)
  BY DEF Settlers
<1>2. \A s \in Sweepers : sweep[s].video = v \/ v \in sweep[s].pending =>
          <<"sweep", s>> \in Settlers(v)
  BY DEF Settlers
<1>3. \A w \in Workers : run[w].video = v => <<"run", w>> \in Settlers(v)
  BY DEF Settlers
<1>4. \A a, b \in Settlers(v) : a = b
  BY DEF OneSettler
<1>5. \A x, y : /\ <<"request", x>> # <<"sweep", y>>
                /\ <<"request", x>> # <<"run", y>>
                /\ <<"sweep", x>> # <<"run", y>>
  OBVIOUS
<1>6. \A x, y, t : <<t, x>> = <<t, y>> => x = y
  OBVIOUS
<1> QED
  BY <1>1, <1>2, <1>3, <1>4, <1>5, <1>6

\* Every step of actors that do not overlap keeps the order.
LEMMA OrderStep ==
    ASSUME IInv, OrderInv, OneSettler, [Next]_vars, NEW u \in Videos
    PROVE  OrderOk(u)' /\ InOrder(status[u], status'[u])
<1> DEFINE Goal == OrderOk(u)' /\ InOrder(status[u], status'[u])
<1>0. TypeOK /\ RowsInv /\ RequestsInv /\ SweepsInv /\ RunsInv /\ OrderOk(u)
  BY DEF IInv, OrderInv
<1>1. ASSUME NEW v \in Videos, SaveDraft(v) PROVE Goal
  <2>1. CASE u = v
    BY <1>0, <1>1, <2>1
       DEF SaveDraft, TypeOK, RowsInv, RequestsInv, SweepsInv, RunsInv, Backed, OrderOk, InOrder, RowOrder
  <2>2. CASE u # v
    BY <1>0, <1>1, <2>2 DEF SaveDraft, TypeOK, OrderOk, InOrder, RowOrder
  <2> QED
    BY <2>1, <2>2
<1>2. ASSUME NEW v \in Videos,
             \/ InitiateUpload(v) \/ DraftDies(v) \/ PutParts(v) \/ Age(v) \/ Viewing(v)
      PROVE  Goal
  <2>1. UNCHANGED <<status, request, sweep, run>>
    BY <1>2 DEF InitiateUpload, DraftDies, PutParts, Age, Viewing, GetForPlayback, GetDownloadUrl
  <2> QED
    BY <1>0, <2>1 DEF OrderOk, InOrder, RowOrder
<1>3. ASSUME NEW r \in Requests, NEW v \in Videos, ReadDraft(r, v) PROVE Goal
  BY <1>0, <1>3 DEF ReadDraft, TypeOK, OrderOk, InOrder, RowOrder
<1>4. ASSUME NEW r \in Requests,
             \/ CompleteMultipart(r) \/ MultipartRejected(r) \/ VerifyObject(r)
             \/ EnqueueCompleted(r) \/ RequestDies(r)
      PROVE  Goal
  <2>1. UNCHANGED <<status, sweep>>
    BY <1>4 DEF CompleteMultipart, MultipartRejected, VerifyObject, EnqueueCompleted, RequestDies
  <2>2. UNCHANGED run
    BY <1>4 DEF CompleteMultipart, MultipartRejected, VerifyObject, EnqueueCompleted, RequestDies
  <2>3. \A x \in Requests :
           \/ request'[x] = request[x]
           \/ request'[x].pc = "idle"
           \/ /\ request'[x].video = request[x].video
              /\ request[x].pc \in {"complete", "head"}
              /\ request'[x].pc # "update"
    BY <1>0, <1>4
       DEF CompleteMultipart, MultipartRejected, VerifyObject, EnqueueCompleted, RequestDies,
           TypeOK, CallAt, NoCall
  <2> QED
    BY <1>0, <2>1, <2>2, <2>3 DEF OrderOk, InOrder, RowOrder
<1>5. ASSUME NEW r \in Requests, SaveProcessing(r) PROVE Goal
  <2>1. UNCHANGED <<sweep, run>> /\ request' = [request EXCEPT ![r] = CallAt(r, "enqueue")]
        /\ status' = [status EXCEPT ![request[r].video] =
                         IF "status" \in request[r].changes THEN "processing" ELSE @]
    BY <1>5 DEF SaveProcessing
  <2>2. CASE request[r].video = u
    <3>1. /\ \A x \in Requests \ {r} : request[x].video # u
          /\ \A x \in Sweepers : sweep[x].video # u /\ u \notin sweep[x].pending
          /\ \A x \in Workers : run[x].video # u
      BY <2>2, Alone
    <3>2. status[u] = "uploading" /\ "status" \in request[r].changes
      BY <1>0, <1>5, <2>2 DEF SaveProcessing, OrderOk
    <3> QED
      BY <1>0, <2>1, <2>2, <3>1, <3>2 DEF TypeOK, CallAt, OrderOk, InOrder, RowOrder
  <2>3. CASE request[r].video # u
    BY <1>0, <2>1, <2>3 DEF TypeOK, CallAt, OrderOk, InOrder, RowOrder
  <2> QED
    BY <2>2, <2>3
<1>14. ASSUME NEW r \in Requests, LoadForSave(r) PROVE Goal
  BY <1>0, <1>14 DEF LoadForSave, Changes, TypeOK, OrderOk, InOrder, RowOrder
<1>6. ASSUME NEW s \in Sweepers, SweepScan(s) PROVE Goal
  BY <1>0, <1>6, PipelineAssumption DEF SweepScan, Abandoned, TypeOK, OrderOk, InOrder, RowOrder
<1>7. ASSUME NEW s \in Sweepers, NEW v \in Videos, SweepHead(s, v) PROVE Goal
  BY <1>0, <1>7 DEF SweepHead, TypeOK, OrderOk, InOrder, RowOrder
<1>8. ASSUME NEW s \in Sweepers, SweepRescue(s) \/ SweepFail(s) PROVE Goal
  <2>1. /\ request' = request /\ run' = run
        /\ \A x \in Sweepers \ {s} : sweep'[x] = sweep[x]
        /\ sweep'[s].pc \in {"scan", "enqueue"} /\ sweep'[s].pending = sweep[s].pending
        /\ sweep'[s].video \in {sweep[s].video, NoVideo}
        /\ \E new \in {"processing", "failed"} : status' = [status EXCEPT ![sweep[s].video] = new]
    BY <1>0, <1>8 DEF SweepRescue, SweepFail, TypeOK, SweepAt, NextDraft
  <2>2. CASE sweep[s].video = u
    <3>1. /\ \A x \in Requests : request[x].video # u
          /\ \A x \in Sweepers \ {s} : sweep[x].video # u /\ u \notin sweep[x].pending
          /\ \A x \in Workers : run[x].video # u
      BY <2>2, Alone
    <3>2. status[u] = "uploading" /\ u \notin sweep[s].pending
      BY <1>0, <1>8, <2>2 DEF SweepRescue, SweepFail, OrderOk
    <3> QED
      BY <1>0, <2>1, <2>2, <3>1, <3>2 DEF TypeOK, OrderOk, InOrder, RowOrder
  <2>3. CASE sweep[s].video # u
    <3>1. status'[u] = status[u] /\ sweep'[s].video # u
      BY <1>0, <2>1, <2>3, PipelineAssumption DEF TypeOK
    <3> QED
      BY <1>0, <2>1, <3>1 DEF OrderOk, InOrder, RowOrder
  <2> QED
    BY <2>2, <2>3
<1>9. ASSUME NEW s \in Sweepers, SweepEnqueue(s) \/ SweepDraftThrows(s) \/ SweepDies(s) PROVE Goal
  <2>1. UNCHANGED <<status, request, run>>
    BY <1>9 DEF SweepEnqueue, SweepDraftThrows, SweepDies
  <2>2. /\ \A x \in Sweepers \ {s} : sweep'[x] = sweep[x]
        /\ sweep'[s].pc = "scan" /\ sweep'[s].video = NoVideo
        /\ sweep'[s].pending \subseteq sweep[s].pending
    BY <1>0, <1>9 DEF SweepEnqueue, SweepDraftThrows, SweepDies, TypeOK, NextDraft, NoSweep
  <2> QED
    BY <1>0, <2>1, <2>2, PipelineAssumption DEF OrderOk, InOrder, RowOrder
<1>10. ASSUME NEW w \in Workers, NEW v \in Videos, NEW k \in Stalls, TakeJob(w, v, k) PROVE Goal
  BY <1>0, <1>10 DEF TakeJob, TypeOK, OrderOk, InOrder, RowOrder
<1>11. ASSUME NEW w \in Workers,
              \/ RunRead(w) \/ RunProcess(w) \/ RunThrows(w) \/ RunDone(w)
              \/ RunStalls(w) \/ WorkerDies(w) \/ WorkerQueryThrows(w)
       PROVE  Goal
  <2>1. UNCHANGED <<status, request, sweep>>
    BY <1>11
       DEF RunRead, RunProcess, RunThrows, RunDone, RunStalls, WorkerDies, WorkerQueryThrows
  <2>2. \A x \in Workers \ {w} : run'[x] = run[x]
    BY <1>0, <1>11
       DEF RunRead, RunProcess, RunThrows, RunDone, RunStalls, WorkerDies, WorkerQueryThrows, TypeOK
  <2>3. \/ run'[w].pc \in {"idle", "done"}
        \/ run'[w].video = run[w].video /\ run'[w].pc = run[w].pc
        \/ run'[w].video = run[w].video /\ run[w].pc \in {"download", "publish"}
        \/ run'[w].video = run[w].video /\ status[run[w].video] # "ready"
    BY <1>0, <1>11
       DEF RunRead, RunProcess, RunThrows, RunDone, RunStalls, WorkerDies, WorkerQueryThrows,
           TypeOK, RunAt, NoRun
  <2> QED
    BY <1>0, <2>1, <2>2, <2>3 DEF OrderOk, InOrder, RowOrder
<1>12. ASSUME NEW w \in Workers, RunPublish(w) \/ RunFail(w) PROVE Goal
  <2>1. /\ UNCHANGED <<request, sweep>>
        /\ \A x \in Workers \ {w} : run'[x] = run[x]
        /\ run'[w].pc = "done"
        /\ \/ status' = [status EXCEPT ![run[w].video] = "ready"]
           \/ status' = [status EXCEPT ![run[w].video] = "failed"]
    BY <1>0, <1>12 DEF RunPublish, RunFail, TypeOK, RunAt
  <2>2. CASE run[w].video = u
    <3>1. /\ \A x \in Requests : request[x].video # u
          /\ \A x \in Sweepers : sweep[x].video # u /\ u \notin sweep[x].pending
          /\ \A x \in Workers \ {w} : run[x].video # u
      BY <2>2, Alone
    <3>2. status[u] \in {"processing", "failed"}
      BY <1>0, <1>12, <2>2 DEF RunPublish, RunFail, OrderOk, RunsInv, Backed, TypeOK, Statuses
    <3> QED
      BY <1>0, <2>1, <2>2, <3>1, <3>2 DEF TypeOK, OrderOk, InOrder, RowOrder
  <2>3. CASE run[w].video # u
    <3>1. status'[u] = status[u]
      BY <1>0, <2>1, <2>3 DEF TypeOK
    <3> QED
      BY <1>0, <2>1, <3>1 DEF OrderOk, InOrder, RowOrder
  <2> QED
    BY <2>2, <2>3
<1>13. CASE UNCHANGED vars
  BY <1>0, <1>13 DEF vars, OrderOk, InOrder, RowOrder
<1> QED
  BY <1>1, <1>2, <1>3, <1>4, <1>5, <1>6, <1>7, <1>8, <1>9, <1>10, <1>11, <1>12, <1>13, <1>14
     DEF Next, DraftNext, RequestStep, SweepStep, RunStep

\* If the calls, sweeps, runs and jobs of a video never overlap, whatever fails,
\* its row follows the documented order.  All that undoes the order is overlap.
THEOREM WithoutOverlapInOrder == Spec /\ []OneSettler => RowsInOrder
<1>1. Init => OrderInv
  BY PipelineAssumption DEF Init, OrderInv, OrderOk, NoCall, NoSweep, NoRun
<1>2. IInv /\ OrderInv /\ OneSettler /\ [Next]_vars => OrderInv'
  BY OrderStep DEF OrderInv
<1>3. IInv /\ OrderInv /\ OneSettler /\ [Next]_vars =>
          [\A v \in Videos :
              status'[v] # status[v] => <<status[v], status'[v]>> \in RowOrder]_vars
  BY OrderStep DEF InOrder
<1> QED
  BY <1>1, <1>2, <1>3, Invariance, PTL DEF Spec, RowsInOrder

\* In particular a ready video stays ready, so that re-running its job is the
\* no-op the phase document promises.
THEOREM WithoutOverlapReadyIsFinal == Spec /\ []OneSettler => ReadyIsFinal
<1>1. Init => OrderInv
  BY PipelineAssumption DEF Init, OrderInv, OrderOk, NoCall, NoSweep, NoRun
<1>2. IInv /\ OrderInv /\ OneSettler /\ [Next]_vars => OrderInv'
  BY OrderStep DEF OrderInv
<1>3. IInv /\ OrderInv /\ OneSettler /\ [Next]_vars =>
          [\A v \in Videos : status[v] = "ready" => status'[v] = "ready"]_vars
  BY OrderStep DEF InOrder, RowOrder
<1> QED
  BY <1>1, <1>2, <1>3, Invariance, PTL DEF Spec, ReadyIsFinal
=============================================================================
