----------------------------- MODULE MediaAssets -----------------------------
(***************************************************************************)
(* Uploading and processing images (internal/service/media.go,             *)
(* db/queries/media.sql), seen from one digest: images share nothing but   *)
(* the job queue.                                                          *)
(*                                                                         *)
(* An upload stores the original in the blob store, outside any            *)
(* transaction, and then inserts the asset and queues its job in one.  The *)
(* job's handler reads and marks the asset, writes the renditions to the   *)
(* blob store one by one, and records them all in one transaction.         *)
(*                                                                         *)
(* The jobs are rows of JobTable without the queue's clock: that a row is  *)
(* reaped only when no worker holds it is what JobQueue shows (LeaseHeld). *)
(***************************************************************************)
EXTENDS JobTable

CONSTANTS
    NWidths,     \* the renditions of the image are 1..NWidths, written in order
    Uploads,     \* uploads of the same bytes
    Workers,     \* workers of all runners
    NoJob

\* The job an upload queues, if it queues one, is named after the upload.
Jobs == Uploads
Widths == 1..NWidths

VARIABLES
    decodable,   \* whether the bytes after the header decode
    asset,       \* media_assets.status, or "none"
    renditions,  \* the rows of media_renditions
    original,    \* whether the original is in the blob store
    blobs,       \* the renditions in the blob store
    upload,      \* where each upload is in Upload
    job,         \* the process_media rows of the jobs table
    pc, held,    \* each worker, and the job it runs
    put          \* how many renditions its handler has written

store == <<asset, renditions, original, blobs>>
workerVars == <<pc, held, put>>
vars == <<decodable, store, upload, job, workerVars>>

Init ==
    /\ decodable \in BOOLEAN
    /\ asset = "none" /\ renditions = {} /\ original = FALSE /\ blobs = {}
    /\ upload = [u \in Uploads |-> "new"]
    /\ job = [j \in Jobs |-> Vacant("absent")]
    /\ pc = [w \in Workers |-> "idle"] /\ held = [w \in Workers |-> NoJob]
    /\ put = [w \in Workers |-> 0]

-----------------------------------------------------------------------------
UploadGoes(u, to) == upload' = [upload EXCEPT ![u] = to]

\* GetAssetBySHA finds the asset: the upload resolves to it.
Dedupe(u) ==
    /\ upload[u] = "new" /\ asset # "none"
    /\ UploadGoes(u, "done")
    /\ UNCHANGED <<decodable, store, job, workerVars>>

\* It finds nothing, and the header is that of an image.
NotSeenYet(u) ==
    /\ upload[u] = "new" /\ asset = "none"
    /\ UploadGoes(u, "put")
    /\ UNCHANGED <<decodable, store, job, workerVars>>

PutOriginal(u) ==
    /\ upload[u] = "put"
    /\ original' = TRUE
    /\ UploadGoes(u, "insert")
    /\ UNCHANGED <<decodable, asset, renditions, blobs, job, workerVars>>

\* InsertAsset: the row with this digest, whoever inserted it.
Inserted == IF asset = "none" THEN "pending" ELSE asset

\* The row comes back pending, be it new or not: the job is queued.
InsertPending(u) ==
    /\ upload[u] = "insert" /\ Inserted = "pending"
    /\ asset' = "pending"
    /\ job' = [job EXCEPT ![u] = Enqueued]
    /\ UploadGoes(u, "done")
    /\ UNCHANGED <<decodable, renditions, original, blobs, workerVars>>

\* It comes back in another state.
InsertFinds(u) ==
    /\ upload[u] = "insert" /\ Inserted # "pending"
    /\ UploadGoes(u, "done")
    /\ UNCHANGED <<decodable, store, job, workerVars>>

\* A store or the database fails; the client may try again.
UploadFails(u) ==
    /\ upload[u] \in {"put", "insert"}
    /\ UploadGoes(u, "done")
    /\ UNCHANGED <<decodable, store, job, workerVars>>

-----------------------------------------------------------------------------
Goes(w, to) == pc' = [pc EXCEPT ![w] = to]

Claim(w, j) ==
    /\ pc[w] = "idle" /\ Runnable(job[j])
    /\ job' = [job EXCEPT ![j] = Claimed(@)]
    /\ Goes(w, "load") /\ held' = [held EXCEPT ![w] = j]
    /\ UNCHANGED <<decodable, store, upload, put>>

\* ProcessJob on an asset that is ready: a retried delivery.
AlreadyReady(w) ==
    /\ pc[w] = "load" /\ asset = "ready"
    /\ Goes(w, "succeeded")
    /\ UNCHANGED <<decodable, store, upload, job, held, put>>

LoadAsset(w) ==
    /\ pc[w] = "load" /\ asset # "ready"
    /\ Goes(w, "mark")
    /\ UNCHANGED <<decodable, store, upload, job, held, put>>

\* MarkAssetProcessing, whatever the row's state by now.
MarkProcessing(w) ==
    /\ pc[w] = "mark"
    /\ asset' = "processing"
    /\ Goes(w, "open")
    /\ UNCHANGED <<decodable, renditions, original, blobs, upload, job, held, put>>

\* readOriginal: a missing original is a permanent failure.
OpenOriginal(w) ==
    /\ pc[w] = "open"
    /\ Goes(w, IF original THEN "decode" ELSE "permanent")
    /\ UNCHANGED <<decodable, store, upload, job, held, put>>

Decode(w) ==
    /\ pc[w] = "decode" /\ decodable
    /\ Goes(w, "put")
    /\ UNCHANGED <<decodable, store, upload, job, held, put>>

\* media.Process refuses the bytes: MarkAssetFailed, and no retry.
DecodeFails(w) ==
    /\ pc[w] = "decode" /\ ~ decodable
    /\ asset' = "failed"
    /\ Goes(w, "permanent")
    /\ UNCHANGED <<decodable, renditions, original, blobs, upload, job, held, put>>

PutRendition(w) ==
    /\ pc[w] = "put" /\ put[w] < NWidths
    /\ put' = [put EXCEPT ![w] = @ + 1]
    /\ blobs' = blobs \cup {put'[w]}
    /\ UNCHANGED <<decodable, asset, renditions, original, upload, job, pc, held>>

RecordRows(w) ==
    /\ renditions' = Widths
    /\ asset' = "ready"
    /\ Goes(w, "succeeded")
    /\ UNCHANGED <<decodable, original, blobs, upload, job, held, put>>

\* Mutant of RecordReady: the rows are recorded before the uploads are done.
RecordReadyEarly(w) == pc[w] = "put" /\ RecordRows(w)

\* The transaction that inserts the renditions and marks the asset ready.
RecordReady(w) == pc[w] = "put" /\ put[w] = NWidths /\ RecordRows(w)

\* A read, a write or a statement of the run fails, or its deadline passes.
RunFails(w) ==
    /\ pc[w] \in {"load", "mark", "open", "decode", "put"}
    /\ Goes(w, "failed")
    /\ UNCHANGED <<decodable, store, upload, job, held, put>>

Release(w) ==
    /\ Goes(w, "idle")
    /\ held' = [held EXCEPT ![w] = NoJob] /\ put' = [put EXCEPT ![w] = 0]

\* Mutant of Record: a permanent failure completes the job, a failure fails it.
RecordShifted(w) ==
    /\ pc[w] \in {"succeeded", "failed", "permanent"}
    /\ job' = [job EXCEPT ![held[w]] =
                 IF pc[w] = "failed" THEN Failed(@) ELSE Completed(@)]
    /\ Release(w)
    /\ UNCHANGED <<decodable, store, upload>>

\* CompleteJob, RetryJob or FailJob.
Record(w) ==
    /\ pc[w] \in {"succeeded", "failed", "permanent"}
    /\ job' = [job EXCEPT ![held[w]] =
                 CASE pc[w] = "succeeded" -> Completed(@)
                   [] pc[w] = "failed"    -> Retried(@, 0)
                   [] pc[w] = "permanent" -> Failed(@)]
    /\ Release(w)
    /\ UNCHANGED <<decodable, store, upload>>

\* The worker dies, or the result of the run cannot be recorded.
Crash(w) ==
    /\ pc[w] # "idle"
    /\ Release(w)
    /\ UNCHANGED <<decodable, store, upload, job>>

Orphan(j) == job[j].state = "running" /\ \A w \in Workers : held[w] # j

Reap(j) ==
    /\ Orphan(j)
    /\ job' = [job EXCEPT ![j] = Reaped(@)]
    /\ UNCHANGED <<decodable, store, upload, workerVars>>

-----------------------------------------------------------------------------
UploadStep(u) ==
    \/ Dedupe(u) \/ NotSeenYet(u) \/ PutOriginal(u)
    \/ InsertPending(u) \/ InsertFinds(u) \/ UploadFails(u)

\* ProcessJob goes on.
HandlerStep(w) ==
    \/ AlreadyReady(w) \/ LoadAsset(w) \/ MarkProcessing(w) \/ OpenOriginal(w)
    \/ Decode(w) \/ DecodeFails(w) \/ PutRendition(w) \/ RecordReady(w)

Next ==
    \/ \E u \in Uploads : UploadStep(u)
    \/ \E w \in Workers :
         \/ \E j \in Jobs : Claim(w, j)
         \/ HandlerStep(w) \/ RunFails(w) \/ Record(w) \/ Crash(w)
    \/ \E j \in Jobs : Reap(j)

Spec == Init /\ [][Next]_vars

\* Workers poll, handlers return, the maintenance loop reaps.
FairSpec ==
    /\ Spec
    /\ \A w \in Workers :
         /\ WF_vars(\E j \in Jobs : Claim(w, j))
         /\ WF_vars(HandlerStep(w)) /\ WF_vars(Record(w))
    /\ \A j \in Jobs : WF_vars(Reap(j))

-----------------------------------------------------------------------------
TypeOK ==
    /\ decodable \in BOOLEAN
    /\ asset \in {"none", "pending", "processing", "ready", "failed"}
    /\ renditions \subseteq Widths /\ original \in BOOLEAN /\ blobs \subseteq Widths
    /\ upload \in [Uploads -> {"new", "put", "insert", "done"}]
    /\ job \in [Jobs -> Row]
    /\ pc \in [Workers -> {"idle", "load", "mark", "open", "decode", "put",
                           "succeeded", "failed", "permanent"}]
    /\ held \in [Workers -> Jobs \cup {NoJob}]
    /\ put \in [Workers -> 0..NWidths]

(* What the site shows can be served: a recorded rendition is in the blob store,
   a ready asset has all of them, and nothing is shown of bytes that do not
   decode ("A crash in between just means a retry overwrites the blobs"),
   however many jobs work on the asset. *)
ShownIsServable ==
    /\ renditions # {} => renditions = blobs /\ blobs = Widths /\ decodable
    /\ asset = "ready" => renditions = Widths

(* An uploaded image is eventually ready, or failed because it does not decode,
   and stays so, unless a job has used all its attempts. *)
EventuallyFinished ==
    <>[](\/ asset = "none"
         \/ asset = "ready" /\ decodable
         \/ asset = "failed" /\ ~ decodable
         \/ \E j \in Jobs : job[j].state = "dead")
=============================================================================
