---------------------------- MODULE VideoPipeline ----------------------------
(***************************************************************************)
(* The upload and processing pipeline of a video: the API requests that    *)
(* create a draft and complete its upload, the object store, the process-  *)
(* video queue and the runs of its jobs, the sweep of abandoned uploads,   *)
(* and the requests that hand out playback and download URLs.              *)
(*                                                                         *)
(* Every await of the code that lets another actor in separates two        *)
(* actions.  What an actor read before an await stays in its own record    *)
(* and may be stale when it is used.                                       *)
(***************************************************************************)
EXTENDS Naturals, FiniteSets

CONSTANTS
    Videos,         \* public ids; each is the subject of one createDraft call
    NoVideo,        \* the video of an actor that is not at work
    Requests,       \* concurrent POST /videos/:publicId/complete calls
    Sweepers,       \* worker processes that may run the reconciliation sweep
    Workers,        \* concurrent runs of process-video jobs
    MaxStalls,      \* BullMQ's maxStalledCount: redeliveries of a stalled job
    RepeatCompletes,\* may the store accept a second completion of one upload
    Faults          \* the failures that may happen, a subset of FaultKinds

\* "api": a request dies at an await (process crash, or a call that throws);
\* "sweep": reconciling one draft throws, or the sweep itself dies;
\* "worker": a worker process dies, or the database fails it;
\* "stall": a run loses its job lock and the job is redelivered meanwhile.
FaultKinds == {"api", "sweep", "worker", "stall"}

ASSUME PipelineAssumption ==
    /\ NoVideo \notin Videos
    /\ MaxStalls \in Nat
    /\ RepeatCompletes \in BOOLEAN
    /\ Faults \subseteq FaultKinds

VARIABLES
    draft,      \* [Videos -> progress of the createDraft call]
    status,     \* [Videos -> column status of the row, "absent" without one]
    upload_id,  \* [Videos -> column upload_id is not null]
    thumbnail,  \* [Videos -> columns thumbnail_key and duration_seconds are set]
    aged,       \* [Videos -> created_at is past the abandoned-upload timeout]
    upload,     \* [Videos -> state of the multipart upload in the store]
    landed,     \* [Videos -> what the parts put so far amount to]
    object,     \* [Videos -> the source object, and whether its size is size_bytes]
    poster,     \* [Videos -> the thumbnail object exists]
    request,    \* [Requests -> a completeUpload call]
    sweep,      \* [Sweepers -> a run of the reconciliation job]
    queue,      \* [Videos \X Stalls -> waiting process-video jobs]
    run,        \* [Workers -> a run of a process-video job]
    urls,       \* [Videos -> the objects a GET URL has been handed out for]
    overtaken   \* history: [Videos -> the row was settled between the two queries
                \*          of a save]

columns == <<status, upload_id, thumbnail>>
database == <<draft, columns, aged>>
store == <<upload, landed, object, poster>>
vars == <<database, store, request, sweep, queue, run, urls, overtaken>>

Stalls == 0..MaxStalls
Statuses == {"absent", "uploading", "processing", "ready", "failed"}

\* The actors' local state: thumbnail is that of the entity completeUpload
\* loaded, changes the columns its save is about to write, pending the rest of
\* the list the sweep queried; held tells whether a run holds the lock of its
\* job, stalls how often that job was redelivered.
Columns == {"status", "upload_id", "thumbnail"}
Call == [pc: {"idle", "complete", "head", "save", "update", "enqueue"},
         video: Videos \cup {NoVideo}, thumbnail: BOOLEAN,
         changes: SUBSET Columns]
Sweep == [pc: {"scan", "rescue", "enqueue", "fail"},
          video: Videos \cup {NoVideo}, pending: SUBSET Videos]
Run == [pc: {"idle", "read", "download", "publish", "fail", "done"},
        video: Videos \cup {NoVideo}, stalls: Stalls, held: BOOLEAN]

NoCall == [pc |-> "idle", video |-> NoVideo, thumbnail |-> FALSE, changes |-> {}]
NoSweep == [pc |-> "scan", video |-> NoVideo, pending |-> {}]
NoRun == [pc |-> "idle", video |-> NoVideo, stalls |-> 0, held |-> FALSE]

TypeOK ==
    /\ draft \in [Videos -> {"new", "initiated", "saved", "lost"}]
    /\ status \in [Videos -> Statuses]
    /\ upload_id \in [Videos -> BOOLEAN]
    /\ thumbnail \in [Videos -> BOOLEAN]
    /\ aged \in [Videos -> BOOLEAN]
    /\ upload \in [Videos -> {"none", "open", "completed"}]
    /\ landed \in [Videos -> {"none", "short", "all"}]
    /\ object \in [Videos -> {"absent", "declared", "other"}]
    /\ poster \in [Videos -> BOOLEAN]
    /\ request \in [Requests -> Call]
    /\ sweep \in [Sweepers -> Sweep]
    /\ queue \in [Videos \X Stalls -> Nat]
    /\ run \in [Workers -> Run]
    /\ urls \in [Videos -> SUBSET {"source", "thumbnail"}]
    /\ overtaken \in [Videos -> BOOLEAN]

Init ==
    /\ draft = [v \in Videos |-> "new"]
    /\ status = [v \in Videos |-> "absent"]
    /\ upload_id = [v \in Videos |-> FALSE]
    /\ thumbnail = [v \in Videos |-> FALSE]
    /\ aged = [v \in Videos |-> FALSE]
    /\ upload = [v \in Videos |-> "none"]
    /\ landed = [v \in Videos |-> "none"]
    /\ object = [v \in Videos |-> "absent"]
    /\ poster = [v \in Videos |-> FALSE]
    /\ request = [r \in Requests |-> NoCall]
    /\ sweep = [s \in Sweepers |-> NoSweep]
    /\ queue = [j \in Videos \X Stalls |-> 0]
    /\ run = [w \in Workers |-> NoRun]
    /\ urls = [v \in Videos |-> {}]
    /\ overtaken = [v \in Videos |-> FALSE]

Stored(v) == object[v] # "absent"

\* The actor's record with its program counter moved on.
CallAt(r, pc) ==
    [pc |-> pc, video |-> request[r].video, thumbnail |-> request[r].thumbnail,
     changes |-> {}]
SweepAt(s, pc) ==
    [pc |-> pc, video |-> sweep[s].video, pending |-> sweep[s].pending]
NextDraft(s) ==
    [pc |-> "scan", video |-> NoVideo, pending |-> sweep[s].pending]
RunAt(w, pc) == [pc |-> pc, video |-> run[w].video,
                 stalls |-> run[w].stalls, held |-> run[w].held]

-----------------------------------------------------------------------------
(* createDraft: the multipart upload is opened before the row exists.       *)

InitiateUpload(v) ==
    /\ draft[v] = "new"
    /\ draft' = [draft EXCEPT ![v] = "initiated"]
    /\ upload' = [upload EXCEPT ![v] = "open"]
    /\ UNCHANGED <<columns, aged, landed, object, poster,
                   request, sweep, queue, run, urls, overtaken>>

SaveDraft(v) ==
    /\ draft[v] = "initiated"
    /\ draft' = [draft EXCEPT ![v] = "saved"]
    /\ status' = [status EXCEPT ![v] = "uploading"]
    /\ upload_id' = [upload_id EXCEPT ![v] = TRUE]
    /\ UNCHANGED <<thumbnail, aged, store, request, sweep,
                   queue, run, urls, overtaken>>

DraftDies(v) ==
    /\ "api" \in Faults
    /\ draft[v] = "initiated"
    /\ draft' = [draft EXCEPT ![v] = "lost"]
    /\ UNCHANGED <<columns, aged, store, request, sweep,
                   queue, run, urls, overtaken>>

-----------------------------------------------------------------------------
(* The client and the clock.  A client that got the presigned URLs puts     *)
(* parts, of the declared total size or not, and may replace them.          *)

PutParts(v) ==
    /\ draft[v] = "saved"
    /\ upload[v] = "open"
    /\ \E parts \in {"short", "all"} : landed' = [landed EXCEPT ![v] = parts]
    /\ UNCHANGED <<database, upload, object, poster,
                   request, sweep, queue, run, urls, overtaken>>

\* The abandoned-upload timeout passes.
Age(v) ==
    /\ status[v] # "absent"
    /\ ~aged[v]
    /\ aged' = [aged EXCEPT ![v] = TRUE]
    /\ UNCHANGED <<draft, columns, store, request, sweep,
                   queue, run, urls, overtaken>>

-----------------------------------------------------------------------------
(* completeUpload.  A call by someone other than the owner, for a missing   *)
(* video or for one that is not uploading, changes nothing and has no step. *)

ReadDraft(r, v) ==
    /\ request[r] = NoCall
    /\ status[v] = "uploading" /\ upload_id[v]
    /\ request' = [request EXCEPT ![r] =
                      [pc |-> "complete", video |-> v, thumbnail |-> thumbnail[v],
                       changes |-> {}]]
    /\ UNCHANGED <<database, store, sweep, queue, run, urls, overtaken>>

\* The sizes of the object a completion can assemble: the client names the
\* parts, and may leave some of them out.
Assembled(parts) == {size \in {"declared", "other"} :
    \/ parts = "all"
    \/ parts = "short" /\ size = "other"}

CompleteMultipart(r) ==
    /\ request[r].pc = "complete"
    /\ LET v == request[r].video IN
         \/ /\ upload[v] = "open"
            /\ \E size \in Assembled(landed[v]) :
                  object' = [object EXCEPT ![v] = size]
            /\ upload' = [upload EXCEPT ![v] = "completed"]
         \/ /\ RepeatCompletes
            /\ upload[v] = "completed"
            /\ UNCHANGED <<object, upload>>
    /\ request' = [request EXCEPT ![r] = CallAt(r, "head")]
    /\ UNCHANGED <<database, landed, poster, sweep,
                   queue, run, urls, overtaken>>

\* UPLOAD_OBJECT_MISSING: wrong ETags, missing parts, or NoSuchUpload.
MultipartRejected(r) ==
    /\ request[r].pc = "complete"
    /\ request' = [request EXCEPT ![r] = NoCall]
    /\ UNCHANGED <<database, store, sweep, queue, run, urls, overtaken>>

\* Faulty variant: any object will do, its size is not compared.
VerifyObject_AnySize(r) ==
    /\ request[r].pc = "head"
    /\ request' = [request EXCEPT ![r] =
          IF Stored(request[r].video)
          THEN CallAt(r, "save") ELSE NoCall]
    /\ UNCHANGED <<database, store, sweep, queue, run, urls, overtaken>>

\* UPLOAD_OBJECT_MISSING and UPLOAD_SIZE_MISMATCH end the call here.
VerifyObject(r) ==
    /\ request[r].pc = "head"
    /\ request' = [request EXCEPT ![r] =
          IF object[request[r].video] = "declared"
          THEN CallAt(r, "save") ELSE NoCall]
    /\ UNCHANGED <<database, store, sweep, queue, run, urls, overtaken>>

\* The columns in which the entity of the call differs from the row.
Changes(r) ==
    LET v == request[r].video IN
         {c \in {"status"} : status[v] # "processing"}
    \cup {c \in {"upload_id"} : upload_id[v]}
    \cup {c \in {"thumbnail"} : thumbnail[v] # request[r].thumbnail}

\* save is two queries: it reads the row again to see what is to be written,
LoadForSave(r) ==
    /\ request[r].pc = "save"
    /\ request' = [request EXCEPT ![r] =
          [pc |-> "update", video |-> request[r].video,
           thumbnail |-> request[r].thumbnail, changes |-> Changes(r)]]
    /\ UNCHANGED <<database, store, sweep, queue, run, urls, overtaken>>

\* and writes that, whatever the row holds by then.
SaveProcessing(r) ==
    /\ request[r].pc = "update"
    /\ LET v == request[r].video
           Writes(c) == c \in request[r].changes
       IN /\ status' = [status EXCEPT ![v] =
                IF Writes("status") THEN "processing" ELSE @]
          /\ upload_id' = [upload_id EXCEPT ![v] =
                IF Writes("upload_id") THEN FALSE ELSE @]
          /\ thumbnail' = [thumbnail EXCEPT ![v] =
                IF Writes("thumbnail") THEN request[r].thumbnail ELSE @]
          /\ overtaken' = [overtaken EXCEPT ![v] =
                @ \/ "status" \in Changes(r) \ request[r].changes]
    /\ request' = [request EXCEPT ![r] = CallAt(r, "enqueue")]
    /\ UNCHANGED <<draft, aged, store, sweep, queue, run, urls>>

EnqueueCompleted(r) ==
    /\ request[r].pc = "enqueue"
    /\ queue' = [queue EXCEPT ![<<request[r].video, 0>>] = @ + 1]
    /\ request' = [request EXCEPT ![r] = NoCall]
    /\ UNCHANGED <<database, store, sweep, run, urls, overtaken>>

RequestDies(r) ==
    /\ "api" \in Faults
    /\ request[r] # NoCall
    /\ request' = [request EXCEPT ![r] = NoCall]
    /\ UNCHANGED <<database, store, sweep, queue, run, urls, overtaken>>

-----------------------------------------------------------------------------
(* The reconciliation sweep: one query, then draft by draft a HEAD, an      *)
(* update of the row whatever it now holds, and for a rescue a job.         *)

\* Faulty variant: the cutoff is compared the wrong way round.
Abandoned_Recent == {v \in Videos : status[v] = "uploading" /\ ~aged[v]}

Abandoned == {v \in Videos : status[v] = "uploading" /\ aged[v]}

SweepScan(s) ==
    /\ sweep[s].pc = "scan" /\ sweep[s].pending = {}
    /\ Abandoned # {}
    /\ sweep' = [sweep EXCEPT ![s] =
          [pc |-> "scan", video |-> NoVideo, pending |-> Abandoned]]
    /\ UNCHANGED <<database, store, request, queue, run, urls, overtaken>>

\* Faulty variant: every abandoned draft is rescued, without a HEAD.
SweepHead_Unchecked(s, v) ==
    /\ sweep[s].pc = "scan" /\ v \in sweep[s].pending
    /\ sweep' = [sweep EXCEPT ![s] =
          [pc |-> "rescue", video |-> v, pending |-> sweep[s].pending \ {v}]]
    /\ UNCHANGED <<database, store, request, queue, run, urls, overtaken>>

SweepHead(s, v) ==
    /\ sweep[s].pc = "scan" /\ v \in sweep[s].pending
    /\ sweep' = [sweep EXCEPT ![s] =
          [pc |-> IF Stored(v) THEN "rescue" ELSE "fail",
           video |-> v, pending |-> sweep[s].pending \ {v}]]
    /\ UNCHANGED <<database, store, request, queue, run, urls, overtaken>>

\* Faulty variant: the row is rescued but no job is enqueued.
SweepRescue_NoJob(s) ==
    /\ sweep[s].pc = "rescue"
    /\ status' = [status EXCEPT ![sweep[s].video] = "processing"]
    /\ upload_id' = [upload_id EXCEPT ![sweep[s].video] = FALSE]
    /\ sweep' = [sweep EXCEPT ![s] = NextDraft(s)]
    /\ UNCHANGED <<draft, aged, thumbnail, store, request,
                   queue, run, urls, overtaken>>

SweepRescue(s) ==
    /\ sweep[s].pc = "rescue"
    /\ status' = [status EXCEPT ![sweep[s].video] = "processing"]
    /\ upload_id' = [upload_id EXCEPT ![sweep[s].video] = FALSE]
    /\ sweep' = [sweep EXCEPT ![s] = SweepAt(s, "enqueue")]
    /\ UNCHANGED <<draft, aged, thumbnail, store, request,
                   queue, run, urls, overtaken>>

SweepEnqueue(s) ==
    /\ sweep[s].pc = "enqueue"
    /\ queue' = [queue EXCEPT ![<<sweep[s].video, 0>>] = @ + 1]
    /\ sweep' = [sweep EXCEPT ![s] = NextDraft(s)]
    /\ UNCHANGED <<database, store, request, run, urls, overtaken>>

SweepFail(s) ==
    /\ sweep[s].pc = "fail"
    /\ status' = [status EXCEPT ![sweep[s].video] = "failed"]
    /\ sweep' = [sweep EXCEPT ![s] = NextDraft(s)]
    /\ UNCHANGED <<draft, aged, upload_id, thumbnail, store, request,
                   queue, run, urls, overtaken>>

\* A step of one draft throws; the error is caught and the loop goes on.
SweepDraftThrows(s) ==
    /\ "sweep" \in Faults
    /\ \/ /\ sweep[s].pc # "scan"
          /\ sweep' = [sweep EXCEPT ![s] = NextDraft(s)]
       \/ /\ sweep[s].pc = "scan"
          /\ \E v \in sweep[s].pending :
                sweep' = [sweep EXCEPT ![s] =
                   [pc |-> "scan", video |-> NoVideo,
                    pending |-> sweep[s].pending \ {v}]]
    /\ UNCHANGED <<database, store, request, queue, run, urls, overtaken>>

\* The worker process dies; the scheduler starts another sweep later.
SweepDies(s) ==
    /\ "sweep" \in Faults
    /\ sweep[s] # NoSweep
    /\ sweep' = [sweep EXCEPT ![s] = NoSweep]
    /\ UNCHANGED <<database, store, request, queue, run, urls, overtaken>>

-----------------------------------------------------------------------------
(* The process-video jobs.  A run that stops holding its job without having *)
(* finished it makes the job stalled: BullMQ redelivers it MaxStalls times. *)

Redelivered(w) ==
    IF run[w].held /\ run[w].stalls < MaxStalls
    THEN [queue EXCEPT ![<<run[w].video, run[w].stalls + 1>>] = @ + 1]
    ELSE queue

\* Faulty variant: a run starts without a waiting job to take.
TakeJob_Unguarded(w, v, k) ==
    /\ run[w] = NoRun
    /\ queue' = [queue EXCEPT ![<<v, k>>] = @ - 1]
    /\ run' = [run EXCEPT ![w] =
          [pc |-> "read", video |-> v, stalls |-> k, held |-> TRUE]]
    /\ UNCHANGED <<database, store, request, sweep, urls, overtaken>>

TakeJob(w, v, k) ==
    /\ run[w] = NoRun
    /\ queue[<<v, k>>] > 0
    /\ queue' = [queue EXCEPT ![<<v, k>>] = @ - 1]
    /\ run' = [run EXCEPT ![w] =
          [pc |-> "read", video |-> v, stalls |-> k, held |-> TRUE]]
    /\ UNCHANGED <<database, store, request, sweep, urls, overtaken>>

RunRead(w) ==
    /\ run[w].pc = "read"
    /\ run' = [run EXCEPT ![w] = RunAt(w,
          IF status[run[w].video] \in {"absent", "ready"}
          THEN "done" ELSE "download")]
    /\ UNCHANGED <<database, store, request, sweep, queue, urls, overtaken>>

\* Faulty variant: the thumbnail is extracted but not put into the store.
RunProcess_NoPut(w) ==
    /\ run[w].pc = "download"
    /\ Stored(run[w].video)
    /\ run' = [run EXCEPT ![w] = RunAt(w, "publish")]
    /\ UNCHANGED <<database, store, request, sweep, queue, urls, overtaken>>

\* Download, ffprobe, ffmpeg, then the thumbnail is put into the store.
RunProcess(w) ==
    /\ run[w].pc = "download"
    /\ Stored(run[w].video)
    /\ poster' = [poster EXCEPT ![run[w].video] = TRUE]
    /\ run' = [run EXCEPT ![w] = RunAt(w, "publish")]
    /\ UNCHANGED <<database, upload, landed, object, request,
                   sweep, queue, urls, overtaken>>

\* Faulty variant: an error of the try block leaves the row as it is.
RunThrows_Swallowed(w) ==
    /\ run[w].pc \in {"download", "publish"}
    /\ run' = [run EXCEPT ![w] = RunAt(w, "done")]
    /\ UNCHANGED <<database, store, request, sweep, queue, urls, overtaken>>

\* Any call of the try block throws: no object, not a video, store failure.
RunThrows(w) ==
    /\ run[w].pc \in {"download", "publish"}
    /\ run' = [run EXCEPT ![w] = RunAt(w, "fail")]
    /\ UNCHANGED <<database, store, request, sweep, queue, urls, overtaken>>

\* Faulty variant: the row becomes ready without its thumbnail.
RunPublish_StatusOnly(w) ==
    /\ run[w].pc = "publish"
    /\ status' = [status EXCEPT ![run[w].video] = "ready"]
    /\ run' = [run EXCEPT ![w] = RunAt(w, "done")]
    /\ UNCHANGED <<draft, aged, upload_id, thumbnail, store, request,
                   sweep, queue, urls, overtaken>>

RunPublish(w) ==
    /\ run[w].pc = "publish"
    /\ status' = [status EXCEPT ![run[w].video] = "ready"]
    /\ thumbnail' = [thumbnail EXCEPT ![run[w].video] = TRUE]
    /\ run' = [run EXCEPT ![w] = RunAt(w, "done")]
    /\ UNCHANGED <<draft, aged, upload_id, store, request,
                   sweep, queue, urls, overtaken>>

RunFail(w) ==
    /\ run[w].pc = "fail"
    /\ status' = [status EXCEPT ![run[w].video] = "failed"]
    /\ run' = [run EXCEPT ![w] = RunAt(w, "done")]
    /\ UNCHANGED <<draft, aged, upload_id, thumbnail, store, request,
                   sweep, queue, urls, overtaken>>

\* BullMQ marks the job completed or failed: there is no second attempt.
RunDone(w) ==
    /\ run[w].pc = "done"
    /\ run' = [run EXCEPT ![w] = NoRun]
    /\ UNCHANGED <<database, store, request, sweep, queue, urls, overtaken>>

\* The lock expires while the run goes on.
RunStalls(w) ==
    /\ "stall" \in Faults
    /\ run[w] # NoRun /\ run[w].held
    /\ queue' = Redelivered(w)
    /\ run' = [run EXCEPT ![w] =
          [pc |-> run[w].pc, video |-> run[w].video,
           stalls |-> run[w].stalls, held |-> FALSE]]
    /\ UNCHANGED <<database, store, request, sweep, urls, overtaken>>

WorkerDies(w) ==
    /\ "worker" \in Faults
    /\ run[w] # NoRun
    /\ queue' = Redelivered(w)
    /\ run' = [run EXCEPT ![w] = NoRun]
    /\ UNCHANGED <<database, store, request, sweep, urls, overtaken>>

\* The database fails the first query or the update in the catch block: the
\* job fails and, with no attempts configured, is not retried.
WorkerQueryThrows(w) ==
    /\ "worker" \in Faults
    /\ run[w].pc \in {"read", "fail"}
    /\ run' = [run EXCEPT ![w] = RunAt(w, "done")]
    /\ UNCHANGED <<database, store, request, sweep, queue, urls, overtaken>>

-----------------------------------------------------------------------------
(* getForPlayback and getDownloadUrl.  A non-ready video is visible to its  *)
(* owner only; visibility is decided on the row read at the start.          *)

Visible(v, isOwner) ==
    status[v] = "ready" \/ (status[v] # "absent" /\ isOwner)

\* Faulty variant: the owner gets a playback URL while polling.
GetForPlayback_AnyStatus(v, isOwner) ==
    /\ Visible(v, isOwner)
    /\ urls' = [urls EXCEPT ![v] = @ \cup {"source"}
          \cup (IF thumbnail[v] THEN {"thumbnail"} ELSE {})]
    /\ UNCHANGED <<database, store, request, sweep, queue, run, overtaken>>

GetForPlayback(v, isOwner) ==
    /\ Visible(v, isOwner)
    /\ urls' = [urls EXCEPT ![v] = @
          \cup (IF status[v] = "ready" THEN {"source"} ELSE {})
          \cup (IF thumbnail[v] THEN {"thumbnail"} ELSE {})]
    /\ UNCHANGED <<database, store, request, sweep, queue, run, overtaken>>

GetDownloadUrl(v, isOwner) ==
    /\ Visible(v, isOwner)
    /\ status[v] = "ready"
    /\ urls' = [urls EXCEPT ![v] = @ \cup {"source"}]
    /\ UNCHANGED <<database, store, request, sweep, queue, run, overtaken>>

-----------------------------------------------------------------------------
DraftNext(v) == InitiateUpload(v) \/ SaveDraft(v) \/ DraftDies(v)

RequestStep(r) ==
    \/ CompleteMultipart(r) \/ MultipartRejected(r)
    \/ VerifyObject(r) \/ LoadForSave(r) \/ SaveProcessing(r) \/ EnqueueCompleted(r)

SweepStep(s) ==
    \/ SweepScan(s) \/ (\E v \in Videos : SweepHead(s, v))
    \/ SweepRescue(s) \/ SweepEnqueue(s) \/ SweepFail(s)

RunStep(w) ==
    \/ \E v \in Videos, k \in Stalls : TakeJob(w, v, k)
    \/ RunRead(w) \/ RunProcess(w) \/ RunThrows(w)
    \/ RunPublish(w) \/ RunFail(w) \/ RunDone(w)

Viewing(v) ==
    \E isOwner \in BOOLEAN : GetForPlayback(v, isOwner) \/ GetDownloadUrl(v, isOwner)

Next ==
    \/ \E v \in Videos : DraftNext(v) \/ PutParts(v) \/ Age(v) \/ Viewing(v)
    \/ \E r \in Requests, v \in Videos : ReadDraft(r, v)
    \/ \E r \in Requests : RequestStep(r) \/ RequestDies(r)
    \/ \E s \in Sweepers : SweepStep(s) \/ SweepDraftThrows(s) \/ SweepDies(s)
    \/ \E w \in Workers :
          RunStep(w) \/ RunStalls(w) \/ WorkerDies(w) \/ WorkerQueryThrows(w)

Spec == Init /\ [][Next]_vars

\* What the deployment keeps running: time passes, a request in progress goes
\* on, the scheduler repeats the sweep, and workers take and run the jobs.
Fairness ==
    /\ \A v \in Videos : WF_vars(SaveDraft(v)) /\ WF_vars(Age(v))
    /\ \A r \in Requests : WF_vars(RequestStep(r))
    /\ \A s \in Sweepers : WF_vars(SweepStep(s))
    /\ \A w \in Workers : WF_vars(RunStep(w))

FairSpec == Spec /\ Fairness

-----------------------------------------------------------------------------
(* Properties *)

HasJob(v) ==
    \/ \E k \in Stalls : queue[<<v, k>>] > 0
    \/ \E w \in Workers : run[w].video = v

\* A published video can be played whatever raced on the way: its source and
\* its thumbnail are in the store, and the row names the thumbnail, unless a run
\* published it between the two queries of a save.  (The second query of a late
\* completion may then take the thumbnail, and nothing else, out of the row.)
PublishedIsPlayable == \A v \in Videos :
    status[v] = "ready" => Stored(v) /\ poster[v] /\ (thumbnail[v] \/ overtaken[v])

\* No playback, download or thumbnail URL ever handed out points at an object
\* that is not in the store.
UrlsResolve == \A v \in Videos :
    /\ "source" \in urls[v] => Stored(v)
    /\ "thumbnail" \in urls[v] => poster[v]

\* Processing is never started or scheduled for a video whose source was not
\* finalized, and its row has forgotten the upload id, so that no later
\* completeUpload call can be let in.
WorkHasASource == \A v \in Videos :
    status[v] \in {"processing", "ready"} \/ HasJob(v) =>
        Stored(v) /\ status[v] # "uploading" /\ ~upload_id[v]

\* The size check of completeUpload has one way around it: an object of another
\* size is processed only once its draft is past the timeout, when the sweep may
\* rescue it.
OnlyRescuesSkipTheSizeCheck == \A v \in Videos :
    status[v] \in {"processing", "ready"} /\ object[v] = "other" => aged[v]

\* While nothing crashes, a row says processing only as long as somebody will
\* still settle it: a waiting job, a run that has not settled its row, or the
\* actor that is about to enqueue a job.
ProcessingIsDriven == \A v \in Videos :
    status[v] = "processing" =>
        \/ \E k \in Stalls : queue[<<v, k>>] > 0
        \/ \E w \in Workers : run[w].video = v /\ run[w].pc # "done"
        \/ \E r \in Requests : request[r].video = v /\ request[r].pc = "enqueue"
        \/ \E s \in Sweepers : sweep[s].video = v /\ sweep[s].pc = "enqueue"

\* A draft past the timeout does not stay in uploading (upload-completion-
\* signal/TD-01: drafts left by their client are rescued or failed).
AbandonedDraftsAreSettled == \A v \in Videos :
    (status[v] = "uploading" /\ aged[v]) ~> status[v] # "uploading"

\* A video that reached processing becomes ready or failed.
ProcessingSettles == \A v \in Videos :
    status[v] = "processing" ~> status[v] \in {"ready", "failed"}

\* What the documents claim and the code does not keep.

\* "Re-running on an already-ready video is a no-op" (phase-03, process-video):
\* no step takes a ready video back.
ReadyIsFinal == [][\A v \in Videos :
    status[v] = "ready" => status'[v] = "ready"]_vars

\* The calls, sweeps, runs and waiting jobs that may still write the row of v.
Settlers(v) ==
         {<<"request", r>> : r \in {x \in Requests : request[x].video = v}}
    \cup {<<"sweep", s>> : s \in {x \in Sweepers : sweep[x].video = v \/ v \in sweep[x].pending}}
    \cup {<<"run", w>> : w \in {x \in Workers : run[x].video = v}}
    \cup {<<"job", k>> : k \in {x \in Stalls : queue[<<v, x>>] > 0}}

\* No two of them at once: all that the two claims around this need to hold
\* (WithoutOverlapReadyIsFinal and WithoutOverlapInOrder in VideoPipelineProofs).
OneSettler == \A v \in Videos : \A a, b \in Settlers(v) : a = b

\* The life of a row as the phase document has it: "transitions processing ->
\* ready (or failed on error)", and the sweep fails or rescues what is uploading.
\* A failed video can still become ready: a worker that dies after its catch
\* block leaves a job that is delivered again.
RowOrder == {<<"absent", "uploading">>,
             <<"uploading", "processing">>, <<"uploading", "failed">>,
             <<"processing", "ready">>, <<"processing", "failed">>,
             <<"failed", "ready">>}

\* No step takes a row along any other way.
RowsInOrder == [][\A v \in Videos :
    status'[v] # status[v] => <<status[v], status'[v]>> \in RowOrder]_vars

\* The sweep is there for clients that upload every part and never call
\* complete (upload-reconciliation.processor.ts:18-24): it fails no such draft.
UploadedDraftsAreNotFailed == [][\A v \in Videos :
    status[v] = "uploading" /\ status'[v] = "failed" =>
        landed[v] # "all"]_vars

\* An orphaned multipart upload "is swept by the reconciliation job"
\* (videos.service.ts:90-92).
OrphanedUploadsAreSwept == \A v \in Videos :
    draft[v] = "lost" ~> upload[v] # "open"

\* The pipeline keeps the promises of VideoLifecycle.
Lifecycle == INSTANCE VideoLifecycle WITH
    source <- [v \in Videos |-> Stored(v)]

ImplementsLifecycle == Lifecycle!Spec
=============================================================================
