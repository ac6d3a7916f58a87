--------------------------- MODULE SourceCleanup ---------------------------
(***************************************************************************)
(* One local-upload source from the request to upload it until its bytes   *)
(* are gone: the browser that uploads and completes, the owner who deletes *)
(* or aborts, retention, the retirement of fully exported sources, the     *)
(* leased cleanup of the object store, and the jobs that read the object.  *)
(*                                                                         *)
(* Source: source_deletion.py, the upload endpoints of main.py,            *)
(* job_source_materialization.py, source_storage.py.                       *)
(*                                                                         *)
(* Time is what has passed: the presigned URL, the retention deadline      *)
(* (expires_at), the delay of the next cleanup, the lease of a cleanup.    *)
(* The leases of jobs and their attempt limit are the subject of           *)
(* JobLifecycle: a job has one run, and may find the limit reached.  Jobs  *)
(* that need no source any more, because their transcript is cached, are   *)
(* the subject of JobPipeline.                                             *)
(*                                                                         *)
(* Operators whose name begins with "Mutant" are variants, with a plausible *)
(* bug, of the definition that follows; no action uses them.               *)
(***************************************************************************)
EXTENDS Naturals

CONSTANTS
    Cleaners,       \* workers in their background pass
    Jobs,           \* transcription jobs over the source
    Protocols,      \* upload protocols: "single_put", "multipart"
    MaxFaults,      \* bound of the model on crashes, stalls and storage errors
    Nobody          \* storage_cleanup_owner_id is NULL

ASSUME CleanupAssumption ==
    /\ Protocols \subseteq {"single_put", "multipart"}
    /\ MaxFaults \in Nat
    /\ Nobody \notin Cleaners

VARIABLES
    src,        \* the row of Source
    time,       \* what the clock has passed
    store,      \* the object store: the object and its multipart session
    client,     \* where the completion request of the browser is
    cleaner,    \* where the cleanup pass of every worker is
    job,        \* the jobs over the source and their runs
    audio,      \* audio preparation that uses the source
    faults      \* crashes, stalls and storage errors so far

vars == <<src, time, store, client, cleaner, job, audio, faults>>

Row == [protocol : Protocols,
        upload : {"pending", "uploaded", "expired", "deleted"},
        reason : {"none", "user_deleted", "upload_aborted", "retention_expired", "exported"},
        enrolled : BOOLEAN,        \* delete_after_transcripts
        cleanup : {"not_requested", "pending", "failed", "completed"},
        due : {"unset", "now", "later", "expiry"},     \* storage_cleanup_not_before_at
        key : BOOLEAN,             \* s3_object_key is set
        owner : Cleaners \cup {Nobody},
        generation : 0..MaxFaults + 1]

Run == {"none", "claimed", "started", "verified", "loaded"}

TypeOK ==
    /\ src \in Row
    /\ time \in [url : BOOLEAN, elapsed : BOOLEAN, leased : BOOLEAN]
    /\ store \in [object : BOOLEAN, session : {"none", "open", "gone"}]
    /\ client \in {"idle", "checked", "assembled", "headed", "done"}
    /\ cleaner \in [Cleaners -> [pc : {"idle", "selected", "claimed", "unsessioned", "deleted",
                                       "removed", "refused"},
                                 generation : 0..MaxFaults + 1]]
    /\ job \in [Jobs -> [status : {"absent", "queued", "processing", "completed", "failed",
                                   "cancelled"},
                         run : Run, retry : BOOLEAN]]
    /\ audio \in {"none", "reading", "active"}
    /\ faults \in 0..MaxFaults

\* The upload was initiated: a row, a key, a presigned URL or an open session.
Init ==
    /\ \E protocol \in Protocols, enrolled \in BOOLEAN :
          /\ src = [protocol |-> protocol, upload |-> "pending", reason |-> "none",
                    enrolled |-> enrolled, cleanup |-> "not_requested", due |-> "unset",
                    key |-> TRUE, owner |-> Nobody, generation |-> 0]
          /\ store = [object |-> FALSE,
                      session |-> IF protocol = "multipart" THEN "open" ELSE "none"]
    /\ time = [url |-> TRUE, elapsed |-> FALSE, leased |-> FALSE]
    /\ client = "idle"
    /\ cleaner = [c \in Cleaners |-> [pc |-> "idle", generation |-> 0]]
    /\ job = [j \in Jobs |-> [status |-> "absent", run |-> "none", retry |-> FALSE]]
    /\ audio = "none"
    /\ faults = 0

Retired == src.upload \in {"expired", "deleted"}

\* What a new job, a claim, a retry and a run require of the source.
Usable == src.upload = "uploaded" /\ src.key /\ ~time.elapsed

MutantNoProcessingReference == TRUE

\* _no_processing_reference_predicate.
NoProcessingReference == \A j \in Jobs : job[j].status # "processing"

NoAudioReference == audio # "active"

Fault == faults < MaxFaults /\ faults' = faults + 1

(***************************************************************************)
(* The browser uploads: the object store is written before the row, and    *)
(* the completion looks at the row, then at the store, then locks the row. *)
(***************************************************************************)

\* A single PUT through the presigned URL, before the browser asks to complete.
PutObject ==
    /\ src.protocol = "single_put" /\ time.url /\ client = "idle"
    /\ store' = [store EXCEPT !.object = TRUE]
    /\ UNCHANGED <<src, time, client, cleaner, job, audio, faults>>

\* The completion request reads the row without a lock; only the multipart one
\* looks at the deadline this early.
CheckUpload ==
    /\ client = "idle" /\ src.upload = "pending" /\ src.key
    /\ src.protocol = "multipart" => ~time.elapsed
    /\ client' = "checked"
    /\ UNCHANGED <<src, time, store, cleaner, job, audio, faults>>

\* complete_multipart_upload: an error is remembered and the object asked for.
CompleteSession ==
    /\ client = "checked" /\ src.protocol = "multipart"
    /\ store' = IF store.session = "open" THEN [object |-> TRUE, session |-> "gone"] ELSE store
    /\ client' = "assembled"
    /\ UNCHANGED <<src, time, cleaner, job, audio, faults>>

\* head_object: without the object the request fails and may be sent again.
HeadUpload ==
    /\ client = (IF src.protocol = "multipart" THEN "assembled" ELSE "checked")
    /\ client' = IF store.object THEN "headed" ELSE "idle"
    /\ UNCHANGED <<src, time, store, cleaner, job, audio, faults>>

MutantStillPending == src.key

\* What the completion checks again on the locked, freshly read row.
StillPending == src.upload = "pending" /\ ~time.elapsed /\ src.key

CommitUpload ==
    /\ client = "headed"
    /\ client' = "done"
    /\ IF StillPending
       THEN /\ src' = [src EXCEPT !.upload = "uploaded"]
            /\ time' = [time EXCEPT !.elapsed = FALSE]
       ELSE UNCHANGED <<src, time>>
    /\ UNCHANGED <<store, cleaner, job, audio, faults>>

(***************************************************************************)
(* The owner deletes or aborts.                                            *)
(***************************************************************************)

MutantDueOfDeletion == "now"

\* A source that is still being uploaded is cleaned up after its deadline, when
\* no URL can write the object any more.
DueOfDeletion == IF src.upload = "pending" /\ ~time.elapsed THEN "expiry" ELSE "now"

\* request_source_deletion, with the source and its jobs locked.
DeleteSource ==
    /\ src.upload # "deleted" =>
          /\ \A j \in Jobs : job[j].status \notin {"queued", "processing"}
          /\ NoAudioReference
    /\ src' = [src EXCEPT
                  !.upload = "deleted",
                  !.reason = IF src.upload = "deleted" THEN @ ELSE "user_deleted",
                  !.cleanup = IF @ = "completed" THEN @ ELSE "pending",
                  !.due = IF @ = "unset" THEN DueOfDeletion ELSE @]
    /\ UNCHANGED <<time, store, client, cleaner, job, audio, faults>>

\* abort_local_multipart_upload: any multipart source that is not uploaded.
AbortUpload ==
    /\ src.protocol = "multipart" /\ src.upload \in {"pending", "expired"}
    /\ src' = [src EXCEPT !.upload = "deleted", !.reason = "upload_aborted",
                          !.cleanup = "pending", !.due = "now"]
    /\ UNCHANGED <<time, store, client, cleaner, job, audio, faults>>

(***************************************************************************)
(* The cleanup pass of a worker: retire, claim, remove, finalize.          *)
(***************************************************************************)

Goto(c, pc) == cleaner' = [cleaner EXCEPT ![c].pc = pc]

\* mark_one_expired_source_for_cleanup.
MarkExpired(c) ==
    /\ cleaner[c].pc = "idle"
    /\ src.upload \in {"pending", "uploaded"} /\ time.elapsed
    /\ NoProcessingReference /\ NoAudioReference
    /\ src' = [src EXCEPT !.upload = "expired", !.reason = "retention_expired",
                          !.cleanup = "pending", !.due = IF @ = "unset" THEN "now" ELSE @]
    /\ UNCHANGED <<time, store, client, cleaner, job, audio, faults>>

MutantUnmet == FALSE

\* A requested document is missing.
Unmet == \E j \in Jobs : job[j].status \notin {"absent", "completed"}

\* The first half of mark_one_fully_exported_source_for_cleanup: the snapshot of
\* the query that selects the source.
SelectExported(c) ==
    /\ cleaner[c].pc = "idle"
    /\ src.upload = "uploaded" /\ src.enrolled /\ NoAudioReference
    /\ \E j \in Jobs : job[j].status = "completed"
    /\ \A j \in Jobs : job[j].status \in {"absent", "completed"}
    /\ Goto(c, "selected")
    /\ UNCHANGED <<src, time, store, client, job, audio, faults>>

\* The second half: the row, locked and unchanged since, and the jobs read again.
RetireExported(c) ==
    /\ cleaner[c].pc = "selected"
    /\ Goto(c, "idle")
    /\ src' = IF src.upload = "uploaded" /\ NoAudioReference /\ ~Unmet
              THEN [src EXCEPT !.upload = "deleted", !.reason = "exported",
                               !.cleanup = "pending", !.due = "now"]
              ELSE src
    /\ UNCHANGED <<time, store, client, job, audio, faults>>

Due == src.due = "now" \/ (src.due = "expiry" /\ time.elapsed)

MutantLeaseFree == src.owner = Nobody

LeaseFree == src.owner = Nobody \/ ~time.leased

\* claim_next_source_cleanup.
ClaimCleanup(c) ==
    /\ cleaner[c].pc = "idle"
    /\ src.cleanup \in {"pending", "failed"} /\ Due /\ src.key /\ LeaseFree
    /\ src.upload = "deleted" \/ time.elapsed
    /\ NoProcessingReference /\ NoAudioReference
    /\ src' = [src EXCEPT !.cleanup = "pending", !.owner = c, !.generation = @ + 1]
    /\ time' = [time EXCEPT !.leased = TRUE]
    /\ cleaner' = [cleaner EXCEPT ![c] = [pc |-> "claimed", generation |-> src.generation + 1]]
    /\ UNCHANGED <<store, client, job, audio, faults>>

\* The session is gone, and confirmed gone, before the object is deleted.
ReadyToDelete(c) ==
    cleaner[c].pc = (IF src.protocol = "multipart" THEN "unsessioned" ELSE "claimed")

\* abort_multipart_upload and multipart_upload_absent: a session that is gone
\* already is not an error.
AbortSession(c) ==
    /\ cleaner[c].pc = "claimed" /\ src.protocol = "multipart"
    /\ store' = [store EXCEPT !.session = "gone"]
    /\ Goto(c, "unsessioned")
    /\ UNCHANGED <<src, time, client, job, audio, faults>>

\* delete_object_verified, its first call; deleting a missing object succeeds.
DeleteObject(c) ==
    /\ ReadyToDelete(c)
    /\ store' = [store EXCEPT !.object = FALSE]
    /\ Goto(c, "deleted")
    /\ UNCHANGED <<src, time, client, job, audio, faults>>

\* delete_object_verified, its last call: the object is confirmed missing.
ConfirmRemoved(c) ==
    /\ cleaner[c].pc = "deleted"
    /\ Goto(c, IF store.object THEN "refused" ELSE "removed")
    /\ UNCHANGED <<src, time, store, client, job, audio, faults>>

\* An error of the object store, before or after it did what it was asked.
StorageFails(c) ==
    /\ Fault
    /\ cleaner[c].pc \in {"claimed", "unsessioned", "deleted"}
    /\ Goto(c, "refused")
    /\ UNCHANGED <<src, time, store, client, job, audio>>

\* finalize_source_cleanup: fenced by owner, generation, status and identity.
Finalize(c) ==
    /\ cleaner[c].pc \in {"removed", "refused"}
    /\ Goto(c, "idle")
    /\ src' = IF /\ src.cleanup = "pending" /\ src.key
                 /\ src.owner = c /\ src.generation = cleaner[c].generation
              THEN IF cleaner[c].pc = "removed"
                   THEN [src EXCEPT !.cleanup = "completed", !.key = FALSE, !.owner = Nobody]
                   ELSE [src EXCEPT !.cleanup = "failed", !.due = "later", !.owner = Nobody]
              ELSE src
    /\ UNCHANGED <<time, store, client, job, audio, faults>>

\* The worker dies: its claim stays until the lease expires.
Crash(c) ==
    /\ Fault
    /\ cleaner[c].pc # "idle"
    /\ Goto(c, "idle")
    /\ UNCHANGED <<src, time, store, client, job, audio>>

(***************************************************************************)
(* Time.                                                                   *)
(***************************************************************************)

\* The URL lives at most 15 minutes, the deadline of an upload is later.
UrlExpires ==
    /\ time.url
    /\ time' = [time EXCEPT !.url = FALSE]
    /\ UNCHANGED <<src, store, client, cleaner, job, audio, faults>>

ExpiryPasses ==
    /\ ~time.url /\ ~time.elapsed
    /\ time' = [time EXCEPT !.elapsed = TRUE]
    /\ UNCHANGED <<src, store, client, cleaner, job, audio, faults>>

RetryDelayPasses ==
    /\ src.due = "later"
    /\ src' = [src EXCEPT !.due = "now"]
    /\ UNCHANGED <<time, store, client, cleaner, job, audio, faults>>

\* A cleaner that is still at work lost its lease: it stalled.
LeaseExpires ==
    /\ time.leased
    /\ time' = [time EXCEPT !.leased = FALSE]
    /\ IF \E c \in Cleaners : cleaner[c].pc # "idle" /\ cleaner[c].generation = src.generation
       THEN Fault ELSE UNCHANGED faults
    /\ UNCHANGED <<src, store, client, cleaner, job, audio>>

(***************************************************************************)
(* The jobs that read the source.                                          *)
(***************************************************************************)

SetJob(j, status, run) == job' = [job EXCEPT ![j].status = status, ![j].run = run]

NoOtherChange == UNCHANGED <<src, time, store, client, cleaner, audio, faults>>

\* The source row is locked and read again: validate_job_sources.
CreateJob(j) ==
    /\ job[j].status = "absent" /\ Usable
    /\ SetJob(j, "queued", "none")
    /\ NoOtherChange

\* acquire_next_ready_job_lease.
ClaimJob(j) ==
    /\ job[j].status = "queued" /\ job[j].run = "none" /\ Usable
    /\ SetJob(j, "queued", "claimed")
    /\ NoOtherChange

\* begin_job_processing does not look at the source.
BeginJob(j) ==
    /\ job[j].status = "queued" /\ job[j].run = "claimed"
    /\ SetJob(j, "processing", "started")
    /\ NoOtherChange

\* verify_processing_job_sources: the row, then the object.
VerifySource(j) ==
    /\ job[j].run = "started"
    /\ IF Usable /\ store.object THEN SetJob(j, "processing", "verified")
                                 ELSE SetJob(j, "failed", "none")
    /\ NoOtherChange

\* materialize_processing_job_source: the bytes, then the row compared again.
ReadObject(j) ==
    /\ job[j].run = "verified"
    /\ IF store.object /\ Usable THEN SetJob(j, "processing", "loaded")
                                 ELSE SetJob(j, "failed", "none")
    /\ NoOtherChange

FinishJob(j) ==
    /\ job[j].run = "loaded"
    /\ \E status \in {"completed", "failed"} : SetJob(j, status, "none")
    /\ NoOtherChange

\* The run is lost: recovery requeues it if the source still serves.
RecoverJob(j) ==
    /\ job[j].status = "processing"
    /\ \E status \in {"queued", "failed"} :
          (status = "queued" => Usable) /\ SetJob(j, status, "none")
    /\ NoOtherChange

CancelJob(j) ==
    /\ job[j].status \in {"queued", "processing"}
    /\ SetJob(j, "cancelled", "none")
    /\ NoOtherChange

\* post_job_retry loads the job and its sources before it locks the job...
EvaluateRetry(j) ==
    /\ job[j].status = "failed" /\ ~job[j].retry /\ Usable
    /\ job' = [job EXCEPT ![j].retry = TRUE]
    /\ NoOtherChange

\* ... and queue_retry decides on the sources it loaded.
QueueRetry(j) ==
    /\ job[j].retry
    /\ job' = [job EXCEPT ![j].status = "queued", ![j].retry = FALSE]
    /\ NoOtherChange

\* create_audio_preparation_job reads its sources without a lock...
ReadForAudio ==
    /\ audio = "none" /\ Usable
    /\ audio' = "reading"
    /\ UNCHANGED <<src, time, store, client, cleaner, job, faults>>

\* ... and commits the job that uses them.
StartAudio ==
    /\ audio = "reading"
    /\ audio' = "active"
    /\ UNCHANGED <<src, time, store, client, cleaner, job, faults>>

\* The audio job ends, or the owner cancels it.
EndAudio ==
    /\ audio = "active"
    /\ audio' = "none"
    /\ UNCHANGED <<src, time, store, client, cleaner, job, faults>>

Upload == PutObject \/ CheckUpload \/ CompleteSession \/ HeadUpload \/ CommitUpload

CleanupPass(c) ==
    \/ MarkExpired(c) \/ SelectExported(c) \/ RetireExported(c) \/ ClaimCleanup(c)
    \/ AbortSession(c) \/ DeleteObject(c) \/ ConfirmRemoved(c) \/ Finalize(c)

RunStep(j) == BeginJob(j) \/ VerifySource(j) \/ ReadObject(j) \/ FinishJob(j)

Next ==
    \/ Upload \/ DeleteSource \/ AbortUpload
    \/ \E c \in Cleaners : CleanupPass(c) \/ StorageFails(c) \/ Crash(c)
    \/ UrlExpires \/ ExpiryPasses \/ RetryDelayPasses \/ LeaseExpires
    \/ \E j \in Jobs : \/ CreateJob(j) \/ ClaimJob(j) \/ RunStep(j) \/ RecoverJob(j)
                       \/ CancelJob(j) \/ EvaluateRetry(j) \/ QueueRetry(j)
    \/ ReadForAudio \/ StartAudio \/ EndAudio

Spec == Init /\ [][Next]_vars

\* The clock runs, the workers' passes go on, and a started run goes on or is
\* recovered.  Nothing is assumed of the owner, the browser or the queue.
Fairness ==
    /\ WF_vars(UrlExpires) /\ WF_vars(ExpiryPasses)
    /\ WF_vars(RetryDelayPasses) /\ WF_vars(LeaseExpires)
    /\ \A c \in Cleaners : WF_vars(CleanupPass(c))
    /\ \A j \in Jobs : WF_vars(RunStep(j))

FairSpec == Spec /\ Fairness

(***************************************************************************)
(* Properties.                                                             *)
(***************************************************************************)

\* Bytes or an upload session in the object store are never without the row that
\* names them: whatever order the browser's completion, the owner's deletion and
\* the two storage calls of a cleanup come in, no object is left that nothing
\* will ever delete (source_deletion.py:346-351, :559-566).
NoOrphan == store.object \/ store.session = "open" => src.key

\* The bytes of a source that is shown as uploaded are there: no cleanup that was
\* due for another reason, and no completion that raced with it, leaves the row
\* uploaded without its object (main.py:2957-2980, :3048-3076).
UploadedIsStored == src.upload = "uploaded" => store.object

\* A run that verified its source finds the object when it reads it, although the
\* retention deadline may pass in between (source_deletion.py:182-192).
RunsFindTheirObject ==
    \A j \in Jobs : job[j].run \in {"verified", "loaded"} => store.object

\* A source is retired as exported only when every job over it completed, and no
\* job is ever added to it (source_deletion.py:395-440).
ExportedMeansDelivered ==
    src.reason = "exported" => \A j \in Jobs : job[j].status \in {"absent", "completed"}

\* docs/studio-processing-contract.md:162 says "Explicit owner deletion abandons
\* retries of terminal failed jobs" and that queued jobs block deletion: no job
\* waits for a source that is deleted.
DeletionAbandonsRetries ==
    src.upload = "deleted" => \A j \in Jobs : job[j].status # "queued"

\* The bytes of a deleted or expired source are removed, whatever crashes, stalls
\* and storage errors come in between, unless an audio job holds it or its
\* cleanup was completed before (run_one_source_cleanup, the lease of a claim).
RetiredSourcesAreRemoved ==
    Retired ~> (~store.object /\ ~src.key) \/ audio = "active"

=============================================================================
