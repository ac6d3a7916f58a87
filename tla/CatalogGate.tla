---------------------------- MODULE CatalogGate ----------------------------
(***************************************************************************)
(* Several jobs over sources that may be one and the same recording, and   *)
(* the gate before the first paid call that lets only one of them pass:    *)
(* the locks on the source rows, the accepted outputs and the attempts of  *)
(* the other jobs, the decision of the owner to process again, and what    *)
(* retries, recovery, reconciliation and the resolution of attention do to *)
(* that evidence.                                                          *)
(*                                                                         *)
(* Source: transcript_catalog.py (evidence, decisions, locks), main.py     *)
(* (creation), job_elevenlabs_transcription.py (the gate).                 *)
(*                                                                         *)
(* A job has one source, and one run at a time: the inside of a run is the *)
(* subject of JobPipeline.  Jobs are numbered in the order of creation.  A *)
(* requested cancellation is a run that stops and ends its job cancelled.  *)
(*                                                                         *)
(* Operators whose name begins with "Mutant" are variants, with a plausible *)
(* bug, of the definition that follows; no action uses them.               *)
(***************************************************************************)
EXTENDS Naturals, Functions

CONSTANTS
    NumJobs,        \* bound of the model on created jobs
    MaxRuns,        \* bound of the model on runs, of all jobs together
    Rows,           \* rows of Source
    Identities,     \* catalogue identities: a Drive file, or an uploaded row
    IdentityOf,     \* catalog_source_identity of every row
    Settings,       \* EffectiveTranscriptionSettings
    MaxAttempts,    \* MAX_PROCESSING_ATTEMPTS
    Nobody          \* the holder of a row that is not locked

Jobs == 1..NumJobs

ASSUME CatalogAssumption ==
    /\ NumJobs \in Nat
    /\ MaxRuns \in Nat
    /\ MaxAttempts \in Nat \ {0}
    /\ IdentityOf \in [Rows -> Identities]
    /\ Nobody \notin Jobs

VARIABLES
    job,        \* the rows of TranscriptionJob
    attempt,    \* the started attempts of a job: the current one and the earlier
    document,   \* reconciliation case and output of a job
    step,       \* where the run of a job is
    lock        \* the transaction that holds a row of Source

vars == <<job, attempt, document, step, lock>>

Status == {"absent", "queued", "processing", "completed", "failed", "cancelled"}
Finished == {"completed", "failed", "cancelled"}
Disposition == {"undetermined", "retry_safe", "provider_outcome_uncertain",
                "provider_result_lost", "output_reconciliation_required",
                "non_retryable", "completed"}
Resolution == {"none", "acknowledged_no_result", "linked_later_result"}
Step == {"idle", "restoring", "preparing", "locking", "gated", "calling", "delivering",
         "creating", "failing"}

\* How an output came to be: by a run that called the provider, by one that
\* restored an earlier result, or found by reconciliation.
Origin == {"none", "called", "restored", "found"}

Job == [status : Status, row : Rows, settings : Settings, approved : BOOLEAN,
        attempts : 0..MaxAttempts, live : BOOLEAN, resolution : Resolution]
Attempt == [started : BOOLEAN, disposition : Disposition, complete : BOOLEAN,
            restored : BOOLEAN, earlier : SUBSET Disposition]
Document == [case : BOOLEAN, origin : Origin, hidden : BOOLEAN]

TypeOK ==
    /\ job \in [Jobs -> Job]
    /\ attempt \in [Jobs -> Attempt]
    /\ document \in [Jobs -> Document]
    /\ step \in [Jobs -> Step]
    /\ lock \in [Rows -> Jobs \cup {Nobody}]

NewAttempt == [started |-> FALSE, disposition |-> "undetermined", complete |-> FALSE,
               restored |-> FALSE, earlier |-> {}]

Init ==
    /\ \E row \in Rows, settings \in Settings :
          job = [j \in Jobs |-> [status |-> "absent", row |-> row, settings |-> settings,
                                 approved |-> FALSE, attempts |-> 0, live |-> FALSE,
                                 resolution |-> "none"]]
    /\ attempt = [j \in Jobs |-> NewAttempt]
    /\ document = [j \in Jobs |-> [case |-> FALSE, origin |-> "none", hidden |-> FALSE]]
    /\ step = [j \in Jobs |-> "idle"]
    /\ lock = [row \in Rows |-> Nobody]

(***************************************************************************)
(* Evidence and decisions.                                                 *)
(***************************************************************************)

Exists(k) == job[k].status # "absent"
Delivered(k) == document[k].origin # "none"

\* The dispositions of the attempts that started a provider request.
Evidence(k) ==
    attempt[k].earlier \cup (IF attempt[k].started THEN {attempt[k].disposition} ELSE {})

\* Same catalogue identity and same effective settings.
Matches(k, row, settings) ==
    Exists(k) /\ IdentityOf[job[k].row] = IdentityOf[row] /\ job[k].settings = settings

MutantAcceptedMatch(row, settings) ==
    \E k \in Jobs : /\ Exists(k) /\ job[k].row = row /\ job[k].settings = settings
                    /\ Delivered(k) /\ ~document[k].hidden

\* load_existing_result_matches and classify_existing_results: an accepted
\* output that a reset of the manifest did not hide.
AcceptedMatch(row, settings) ==
    \E k \in Jobs : Matches(k, row, settings) /\ Delivered(k) /\ ~document[k].hidden

\* What a new job may disregard: nothing of it can be a document.
NoDocument == {"retry_safe", "provider_outcome_uncertain", "provider_result_lost"}

\* A persisted output closes its attempt; open_attempts are the others.
OpenAttempts(k) == {d \in Evidence(k) : ~(d = "completed" /\ Delivered(k))}

MutantInFlight(k) == attempt[k].disposition = "undetermined" /\ job[k].status = "processing"

InFlight(k) == OpenAttempts(k) # {} /\ job[k].status = "processing"

\* The owner confirmed that a finished job left no document.
Acknowledged(k) ==
    /\ job[k].status \in {"failed", "cancelled"}
    /\ job[k].resolution = "acknowledged_no_result"
    /\ ~Delivered(k)

Unresolved(k) ==
    /\ \E d \in OpenAttempts(k) : document[k].case \/ d \notin NoDocument
    /\ ~Acknowledged(k)

\* The caller finds the paid call of k in its way.
Blocks(k) == InFlight(k) \/ Unresolved(k)

\* has_competing_provider_attempt_conflict for job j.
CompetingConflict(j) ==
    \E k \in Jobs \ {j} : Matches(k, job[j].row, job[j].settings) /\ Blocks(k)

\* history_attention_required_expression.
AttentionRequired(k) ==
    /\ job[k].status \in Finished
    /\ job[k].resolution = "none"
    /\ Evidence(k) \ {"retry_safe"} # {}
    /\ ~Delivered(k)

(***************************************************************************)
(* Locks.                                                                  *)
(***************************************************************************)

MutantIdentityRows(row) == {row}

\* lock_catalog_source_identities takes every row of the identity, in the order
\* of their ids; all its callers do, so one that waits for one row holds none.
IdentityRows(row) == {r \in Rows : IdentityOf[r] = IdentityOf[row]}

RowsFree(row) == \A r \in IdentityRows(row) : lock[r] = Nobody

Unlocked(j) == [r \in Rows |-> IF lock[r] = j THEN Nobody ELSE lock[r]]

(***************************************************************************)
(* Creation.                                                               *)
(***************************************************************************)

Created(j, row, settings, approved) ==
    /\ ~Exists(j)
    /\ \A k \in Jobs : k < j => Exists(k)
    /\ RowsFree(row)
    /\ job' = [job EXCEPT ![j].status = "queued", ![j].row = row,
                          ![j].settings = settings, ![j].approved = approved]
    /\ UNCHANGED <<attempt, document, step, lock>>

\* create_transcription_jobs_batch: locks, decisions and rows in one transaction.
CreateBatchJob(j, row, settings, approved) ==
    /\ AcceptedMatch(row, settings) => approved
    /\ \A k \in Jobs : Matches(k, row, settings) => ~Blocks(k)
    /\ Created(j, row, settings, approved)

\* create_transcription_job, deprecated: it looks at accepted outputs only.
CreateJob(j, row, settings) ==
    /\ ~AcceptedMatch(row, settings)
    /\ Created(j, row, settings, FALSE)

(***************************************************************************)
(* A run, up to the gate.                                                  *)
(***************************************************************************)

Goto(j, next) == step' = [step EXCEPT ![j] = next]

\* The lease and the status every write of a run is fenced by.
Authorized(j) == job[j].status = "processing" /\ job[j].live

SetDisposition(j, disposition) ==
    attempt' = [attempt EXCEPT ![j].disposition = disposition]

\* A failure of the run of j; the classification is lost with the authority.
Fail(j, dispositions) ==
    /\ Goto(j, "failing")
    /\ IF Authorized(j)
       THEN \E d \in dispositions : SetDisposition(j, d)
       ELSE UNCHANGED attempt

Runs == FoldFunction(LAMBDA row, n : row.attempts + n, 0, job)

\* acquire_next_ready_job_lease, begin_job_processing and
\* prepare_current_attempt_sources; a complete earlier result is restored.
Begin(j) ==
    /\ step[j] = "idle"
    /\ job[j].status = "queued"
    /\ Runs < MaxRuns
    /\ job' = [job EXCEPT ![j].status = "processing", ![j].attempts = @ + 1, ![j].live = TRUE]
    /\ attempt' = [attempt EXCEPT ![j] = [@ EXCEPT !.started = FALSE,
                                                   !.disposition = "undetermined",
                                                   !.restored = FALSE,
                                                   !.earlier = Evidence(j)]]
    /\ Goto(j, IF attempt[j].complete THEN "restoring" ELSE "preparing")
    /\ UNCHANGED <<document, lock>>

\* restore_cached_transcript: started and returned, without the gate.
Restore(j) ==
    /\ step[j] = "restoring"
    /\ Authorized(j)
    /\ attempt' = [attempt EXCEPT ![j].started = TRUE, ![j].restored = TRUE,
                                  ![j].disposition = "provider_result_lost"]
    /\ Goto(j, "delivering")
    /\ UNCHANGED <<job, document, lock>>

\* Source and media, or the earlier result, cannot be prepared.
PreparationFails(j) ==
    /\ step[j] \in {"restoring", "preparing"}
    /\ Fail(j, {"undetermined", "retry_safe", "non_retryable"})
    /\ UNCHANGED <<job, document, lock>>

\* _final_pre_provider_revalidate: authority is checked before the locks.
ReachGate(j) ==
    /\ step[j] = "preparing"
    /\ Authorized(j)
    /\ Goto(j, "locking")
    /\ UNCHANGED <<job, attempt, document, lock>>

GateOpen(j) ==
    /\ AcceptedMatch(job[j].row, job[j].settings) => job[j].approved
    /\ ~CompetingConflict(j)

\* _require_no_existing_result_conflict passes; the transaction goes on.
PassGate(j) ==
    /\ step[j] = "locking"
    /\ RowsFree(job[j].row)
    /\ GateOpen(j)
    /\ lock' = [r \in Rows |-> IF r \in IdentityRows(job[j].row) THEN j ELSE lock[r]]
    /\ Goto(j, "gated")
    /\ UNCHANGED <<job, attempt, document>>

\* existing_result_conflict, classified in the transaction that holds the locks.
RefuseAtGate(j) ==
    /\ step[j] = "locking"
    /\ RowsFree(job[j].row)
    /\ ~GateOpen(j)
    /\ Fail(j, {"non_retryable"})
    /\ UNCHANGED <<job, document, lock>>

\* Between the gate and the commit: checkpoints or prices are unavailable.
GateAbandoned(j) ==
    /\ step[j] = "gated"
    /\ Fail(j, {"undetermined", "retry_safe", "non_retryable"})
    /\ lock' = Unlocked(j)
    /\ UNCHANGED <<job, document>>

\* mark_attempt_provider_started and its commit, which releases the locks.
MarkStarted(j) ==
    /\ step[j] = "gated"
    /\ Authorized(j)
    /\ attempt' = [attempt EXCEPT ![j].started = TRUE, ![j].disposition = "undetermined"]
    /\ Goto(j, "calling")
    /\ lock' = Unlocked(j)
    /\ UNCHANGED <<job, document>>

(***************************************************************************)
(* A run, from the paid call to the document.                              *)
(***************************************************************************)

\* The provider rejects the call, or its outcome is not known.
CallFails(j) ==
    /\ step[j] = "calling"
    /\ Fail(j, {"retry_safe", "provider_outcome_uncertain"})
    /\ UNCHANGED <<job, document, lock>>

\* The last part came back and is kept; mark_attempt_provider_returned.
CallReturns(j) ==
    /\ step[j] = "calling"
    /\ Authorized(j)
    /\ attempt' = [attempt EXCEPT ![j].complete = TRUE,
                                  ![j].disposition = "provider_result_lost"]
    /\ Goto(j, "delivering")
    /\ UNCHANGED <<job, document, lock>>

\* The last part is kept, and the commit that marks the return fails.
AnswerLost(j) ==
    /\ step[j] = "calling"
    /\ Authorized(j)
    /\ \E d \in {"undetermined", "provider_outcome_uncertain"} :
          attempt' = [attempt EXCEPT ![j].complete = TRUE, ![j].disposition = d]
    /\ Goto(j, "failing")
    /\ UNCHANGED <<job, document, lock>>

\* prepare_output_reconciliation_case and its commit, then the create request.
StartDocument(j) ==
    /\ step[j] = "delivering"
    /\ Authorized(j)
    /\ document' = [document EXCEPT ![j].case = TRUE]
    /\ Goto(j, "creating")
    /\ UNCHANGED <<job, attempt, lock>>

\* Before the document, or after it with an outcome nobody knows.
DeliveryFails(j) ==
    /\ step[j] \in {"delivering", "creating"}
    /\ Fail(j, {"provider_result_lost", "output_reconciliation_required"})
    /\ UNCHANGED <<job, document, lock>>

\* A write of the status takes the lease off the job.
Ended(j, status) == job' = [job EXCEPT ![j].status = status, ![j].live = FALSE]
Requeued(j) == Ended(j, "queued")

\* persist_processing_job_source_output_and_maybe_complete, under the lock of
\* the source row; the job of one source is completed.
Persist(j) ==
    /\ step[j] = "creating"
    /\ Authorized(j)
    /\ lock[job[j].row] = Nobody
    /\ document' = [document EXCEPT ![j].origin =
                       IF attempt[j].restored THEN "restored" ELSE "called"]
    /\ SetDisposition(j, "completed")
    /\ Ended(j, "completed")
    /\ Goto(j, "idle")
    /\ UNCHANGED lock

(***************************************************************************)
(* The end of a run, retries and recovery.                                 *)
(***************************************************************************)

RetriesLeft(j) == job[j].attempts < MaxAttempts /\ ~document[j].case

\* _handle_pre_output_failure and _record_output_uncertainty.
FailJob(j) ==
    /\ step[j] = "failing"
    /\ IF Authorized(j)
       THEN \/ \E status \in {"failed", "cancelled"} : Ended(j, status)
            \/ RetriesLeft(j) /\ attempt[j].disposition = "retry_safe" /\ Requeued(j)
       ELSE UNCHANGED job
    /\ Goto(j, "idle")
    /\ UNCHANGED <<attempt, document, lock>>

\* Authority is found lost, or a heartbeat failed: nothing is concluded.
Interrupted(j) ==
    /\ step[j] \notin {"idle", "failing", "locking"}
    /\ Goto(j, "failing")
    /\ lock' = Unlocked(j)
    /\ UNCHANGED <<job, attempt, document>>

\* The process dies; the database releases what its transaction held.
Crash(j) ==
    /\ step[j] # "idle"
    /\ Goto(j, "idle")
    /\ lock' = Unlocked(j)
    /\ UNCHANGED <<job, attempt, document>>

ExpireLease(j) ==
    /\ job[j].status = "processing" /\ job[j].live
    /\ job' = [job EXCEPT ![j].live = FALSE]
    /\ UNCHANGED <<attempt, document, step, lock>>

\* Nothing was sent in the current attempt, or the provider refused it.
NothingPaid(j) ==
    \/ attempt[j].disposition = "retry_safe"
    \/ ~attempt[j].started /\ attempt[j].disposition = "undetermined"

MutantRecoverExpired(j) ==
    /\ job[j].status = "processing" /\ ~job[j].live
    /\ RetriesLeft(j) /\ NothingPaid(j) /\ ~attempt[j].complete /\ Requeued(j)
    /\ UNCHANGED <<attempt, document, step, lock>>

\* recover_expired_processing_job.
RecoverExpired(j) ==
    /\ job[j].status = "processing" /\ ~job[j].live
    /\ \/ \E status \in {"failed", "cancelled"} : Ended(j, status)
       \/ RetriesLeft(j) /\ NothingPaid(j) /\ ~attempt[j].complete /\ Requeued(j)
    /\ UNCHANGED <<attempt, document, step, lock>>

\* queue_retry: nothing was paid, or what was paid is there to go on from.
QueueRetry(j) ==
    /\ job[j].status = "failed"
    /\ RetriesLeft(j)
    /\ \/ NothingPaid(j)
       \/ attempt[j].started /\ attempt[j].disposition = "provider_outcome_uncertain"
       \/ attempt[j].complete
    /\ Requeued(j)
    /\ UNCHANGED <<attempt, document, step, lock>>

\* request_job_cancellation of a queued job.
CancelQueued(j) ==
    /\ job[j].status = "queued"
    /\ Ended(j, "cancelled")
    /\ UNCHANGED <<attempt, document, step, lock>>

(***************************************************************************)
(* The owner.                                                              *)
(***************************************************************************)

\* persist_verified_reconciliation_output: it does not lock the source row.  A
\* job that failed for another reason than this document stays failed.
Reconcile(j) ==
    /\ job[j].status \in {"failed", "cancelled"}
    /\ document[j].case /\ ~Delivered(j)
    /\ document' = [document EXCEPT ![j].origin = "found"]
    /\ SetDisposition(j, "completed")
    /\ \/ job[j].status = "failed" /\ Ended(j, "completed")
       \/ UNCHANGED job
    /\ UNCHANGED <<step, lock>>

\* resolve_job_history_attention; a linked job is later and has a result.
ResolveAttention(j, resolution) ==
    /\ AttentionRequired(j)
    /\ resolution = "linked_later_result" =>
          \E k \in Jobs : /\ k > j
                          /\ job[k].status = "completed" /\ Delivered(k)
                          /\ job[k].row = job[j].row
    /\ job' = [job EXCEPT ![j].resolution = resolution]
    /\ UNCHANGED <<attempt, document, step, lock>>

\* clear_transcript_catalog: outputs persisted before stop counting.
ResetManifest ==
    /\ \E k \in Jobs : Delivered(k) /\ ~document[k].hidden
    /\ document' = [k \in Jobs |-> [document[k] EXCEPT !.hidden = Delivered(k)]]
    /\ UNCHANGED <<job, attempt, step, lock>>

-----------------------------------------------------------------------------
RunStep(j) ==
    \/ Begin(j) \/ Restore(j) \/ PreparationFails(j) \/ ReachGate(j)
    \/ PassGate(j) \/ RefuseAtGate(j) \/ GateAbandoned(j) \/ MarkStarted(j)
    \/ CallFails(j) \/ CallReturns(j) \/ AnswerLost(j)
    \/ StartDocument(j) \/ DeliveryFails(j) \/ Persist(j)
    \/ FailJob(j) \/ Interrupted(j)

Environment(j) ==
    \/ \E row \in Rows, settings \in Settings :
          \/ \E approved \in BOOLEAN : CreateBatchJob(j, row, settings, approved)
          \/ CreateJob(j, row, settings)
    \/ Crash(j) \/ ExpireLease(j) \/ RecoverExpired(j) \/ QueueRetry(j)
    \/ CancelQueued(j) \/ Reconcile(j)
    \/ \E resolution \in Resolution \ {"none"} : ResolveAttention(j, resolution)

Next == (\E j \in Jobs : RunStep(j) \/ Environment(j)) \/ ResetManifest

Spec == Init /\ [][Next]_vars

\* A run goes on until its process dies, the recovery pass comes round, and the
\* lease of a dead run expires.
FairSpec ==
    /\ Spec
    /\ \A j \in Jobs : /\ WF_vars(RunStep(j))
                       /\ WF_vars(RecoverExpired(j))
                       /\ WF_vars(step[j] = "idle" /\ ExpireLease(j))

-----------------------------------------------------------------------------
(***************************************************************************)
(* Properties.                                                             *)
(***************************************************************************)

Competing(j, k) == j # k /\ Exists(j) /\ Matches(k, job[j].row, job[j].settings)

\* Two jobs for one recording and the same settings never wait for the provider
\* at the same time, approved or not: not when both were queued before either
\* had a result, not after retries and recoveries.  The exception is a job the
\* owner declared to have left nothing while its dead run is still out there.
OnePaidCall ==
    \A j, k \in Jobs :
        Competing(j, k) /\ step[j] = "calling" /\ step[k] = "calling" =>
            Acknowledged(j) \/ Acknowledged(k)

Crosses(j) == step[j] = "gated" /\ step'[j] = "calling"

AcceptedOutput(k) == Delivered(k) /\ ~document[k].hidden

\* No job crosses the paid boundary over an output of an equivalent job unless
\* the owner approved it, whichever row of the recording the output belongs to
\* and however late it was persisted.  Outputs found by reconciliation are the
\* exception (OutputNeverUnnoticed).
NothingPaidTwice ==
    [][\A j, k \in Jobs :
          Crosses(j) /\ Competing(j, k) /\ AcceptedOutput(k) /\ ~job[j].approved =>
              document[k].origin = "found"]_vars

\* Two documents of one recording with the same settings, none of them approved
\* as a repetition, have a cause: one restores a result paid earlier, or was
\* found by reconciliation.  Two paid calls that both deliver never happen.
DuplicatesHaveACause ==
    \A j, k \in Jobs :
        /\ Competing(j, k)
        /\ AcceptedOutput(j) /\ AcceptedOutput(k)
        /\ ~job[j].approved /\ ~job[k].approved
        => {document[j].origin, document[k].origin} \cap {"restored", "found"} # {}

\* Every job comes to an end, whatever dies where: nobody waits for ever for the
\* rows a dead or finished run held.
JobsSettle ==
    \A j \in Jobs : job[j].status \in {"queued", "processing"} ~> job[j].status \in Finished

\* What lock_catalog_source_identities is for (docs/architecture.md:201): no
\* output is persisted between the decision of a job and its paid call.
OutputNeverUnnoticed ==
    [][\A j, k \in Jobs :
          Crosses(j) /\ Competing(j, k) /\ AcceptedOutput(k) => job[j].approved]_vars

\* A failed or cancelled attempt is a conflict unless it is retry-safe
\* (transcript_catalog.py:636): nobody pays past one.
UncertainAttemptsBlock ==
    [][\A j, k \in Jobs :
          /\ Crosses(j) /\ Competing(j, k)
          /\ job[k].status \in {"failed", "cancelled"} /\ ~Acknowledged(k)
          => Evidence(k) \subseteq {"retry_safe", "completed"}]_vars

\* A persisted output closes the attempts of its source
\* (transcript_catalog.py:932): a completed job is in nobody's way.
PersistedOutputCloses ==
    \A k \in Jobs : job[k].status = "completed" /\ Delivered(k) => ~Blocks(k)

\* Attempts classified retry-safe are exempt (docs/architecture.md:201): a job is
\* refused for the attempt of another only if that one may have been paid.
RetrySafeIsExempt ==
    [][\A j \in Jobs :
          RefuseAtGate(j) /\ CompetingConflict(j) =>
              \E k \in Jobs : Competing(j, k) /\ Blocks(k) /\ Evidence(k) # {"retry_safe"}]_vars

=============================================================================
