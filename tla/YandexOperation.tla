--------------------------- MODULE YandexOperation ---------------------------
(***************************************************************************)
(* Transcription of one source by Yandex: the recording is submitted as an *)
(* operation, its identifier is kept in a row before the first poll, the   *)
(* result is kept in the same row, and a later attempt of the job follows  *)
(* the row instead of submitting again.                                    *)
(*                                                                         *)
(* Source: yandex_transcription.py (the transport), job_stt_transcription  *)
(* (what differs from ElevenLabs: one part, no checkpoints, accounting     *)
(* only under a known tariff), job_retry_recovery.py (when a row lets a    *)
(* job run again), provider_usage_accounting.py.                           *)
(*                                                                         *)
(* As in JobPipeline an action is the work between two commits or calls,   *)
(* run g holds lease generation g, and it may go on without its lease or   *)
(* die between any two actions.  Here the job has one source, and what     *)
(* becomes of the document is left to JobPipeline: it is stored, or the    *)
(* case about it stays open.  The lock on the operation row, which makes   *)
(* one run wait for another until the first poll, is left out.             *)
(*                                                                         *)
(* Operators whose name begins with "Mutant" are variants, with a plausible *)
(* bug, of the definition that follows; no action uses them.               *)
(***************************************************************************)
EXTENDS SourceAttempts

CONSTANTS
    MaxAttempts,     \* MAX_PROCESSING_ATTEMPTS
    MaxGeneration    \* bound of the model on claims

ASSUME YandexAssumption ==
    /\ Parts = 1                          \* prepare_yandex_media_file makes one file
    /\ MaxAttempts \in Nat \ {0}
    /\ MaxGeneration \in Nat \ {0}

Generations == 1..MaxGeneration
Attempts    == 1..MaxAttempts

VARIABLES
    job,         \* the row of TranscriptionJob
    att,         \* TranscriptionJobSourceAttempt, by attempt number
    operation,   \* SttProviderOperation, by attempt number
    output,      \* what is known of the document: nothing, an open case, stored
    run,         \* what each run holds in memory
    remote,      \* the operation each run started at the provider
    metered      \* a tariff is configured: usage_accounting_enabled

vars == <<job, att, operation, output, run, remote, metered>>

Status   == {"queued", "processing", "completed", "failed", "cancelled"}
Finished == {"completed", "failed", "cancelled"}
Error    == {"none", "pipeline_retry_state_prepare_failed", "other"}
Step     == {"idle", "claimed", "preparing", "transcribing", "billing", "calling", "submitting",
             "recording", "polling", "loading", "answered", "checking", "returning", "returned",
             "creating", "failing", "gone"}
Answer   == {"none", "ok", "provider_timeout", "malformed_provider_response"}
              \cup ProviderRejections

Job == [status : Status, owned : BOOLEAN, generation : 0..MaxGeneration, live : BOOLEAN,
        cancelRequested : BOOLEAN, attempts : 0..MaxAttempts, deferred : BOOLEAN, error : Error,
        billed : Nat, complete : BOOLEAN]
Operation == [status : {"none", "pending", "completed", "failed"}, run : 0..MaxGeneration]
Run == [step : Step, number : 0..MaxAttempts, answer : Answer, error : Error]

TypeOK ==
    /\ job \in Job
    /\ att \in [Attempts -> Row]
    /\ operation \in [Attempts -> Operation]
    /\ output \in {"none", "open", "stored"}
    /\ run \in [Generations -> Run]
    /\ remote \in [Generations -> {"none", "running", "done", "error"}]
    /\ metered \in BOOLEAN

IdleRun == [step |-> "idle", number |-> 0, answer |-> "none", error |-> "none"]

Init ==
    /\ job = [status |-> "queued", owned |-> FALSE, generation |-> 0, live |-> FALSE,
              cancelRequested |-> FALSE, attempts |-> 0, deferred |-> FALSE, error |-> "none",
              billed |-> 0, complete |-> FALSE]
    /\ att = [n \in Attempts |-> NoRow]
    /\ operation = [n \in Attempts |-> [status |-> "none", run |-> 0]]
    /\ output = "none"
    /\ run = [g \in Generations |-> IdleRun]
    /\ remote = [g \in Generations |-> "none"]
    /\ metered \in BOOLEAN

(***************************************************************************)
(* The job row.                                                            *)
(***************************************************************************)

\* _require_active_processing, with and without allow_cancel.
Active(g) == job.status = "processing" /\ job.owned /\ job.generation = g /\ job.live
Authorized(g) == Active(g) /\ ~job.cancelRequested

\* invalidate_job_lease.
Released(j) == [j EXCEPT !.owned = FALSE, !.live = FALSE]

MutantUsageUncertain == \E n \in Attempts : att[n].accounting = "uncertain"

\* The attempts finalize_job_provider_accounting looks for.
UsageUncertain == \E n \in Attempts : att[n].accounting \in {"pending", "uncertain"}

\* A job without a tariff started with zero billed, so it is finalized as well.
Finish(status, error) ==
    Released([job EXCEPT !.status = status, !.error = error, !.complete = ~UsageUncertain])

Requeued(deferred) ==
    Released([job EXCEPT !.status = "queued", !.error = "none", !.deferred = deferred])

(***************************************************************************)
(* Retry readiness.                                                        *)
(***************************************************************************)

Current == att[job.attempts]

MutantResumable == \E n \in Attempts : operation[n].status # "none"

\* _has_resumable_yandex_operation: a row of the current attempt, and no other.
Resumable == operation[job.attempts].status \in {"pending", "completed"}

\* _evaluate: there are no checkpoints to go on from.
Verdict(explicit, error) ==
    IF output = "open" THEN "output_reconciliation_required"
    ELSE IF \E n \in 1..job.attempts : CompleteRow(att[n]) THEN "provider_result_lost"
    ELSE IF Current.stage # "none" /\ Resumable THEN "safe"
    ELSE RowVerdict(Current, {}, explicit, error = "pipeline_retry_state_prepare_failed")

RetryAllowed(explicit, error) ==
    /\ job.attempts < MaxAttempts
    /\ output # "stored"
    /\ Verdict(explicit, error) \in SafeVerdicts

\* schedule_automatic_retry_if_safe.
AutomaticRetryAllowed(error) == RetryAllowed(TRUE, error) /\ TransientFailure(Current)

(***************************************************************************)
(* Runs.                                                                   *)
(***************************************************************************)

At(g, step) == run[g].step = step
Goto(g, step) == run' = [run EXCEPT ![g].step = step]
Answered(g, answer) == run' = [run EXCEPT ![g].step = "answered", ![g].answer = answer]
Leave(g) == run' = [run EXCEPT ![g] = [IdleRun EXCEPT !.step = "gone"]]
GiveUp(g, error) == run' = [run EXCEPT ![g].step = "failing", ![g].error = error]

SetRow(row) == att' = [att EXCEPT ![job.attempts] = row]

\* _best_effort_classify: rolled back as a whole for a run without authority.
ClassifyAndGiveUp(g, code, providerCode) ==
    /\ IF Authorized(g)
       THEN SetRow(ClassifiedRow(UsageUncertainRow(Current), code, providerCode))
       ELSE UNCHANGED att
    /\ GiveUp(g, "other")
    /\ UNCHANGED <<job, operation, output, remote, metered>>

\* An exception that leaves the ledger alone.
JustGiveUp(g, error) ==
    /\ GiveUp(g, error)
    /\ UNCHANGED <<job, att, operation, output, remote, metered>>

\* acquire_next_ready_job_lease.
Claim(g) ==
    /\ At(g, "idle")
    /\ g = job.generation + 1
    /\ job.status = "queued" /\ ~job.deferred /\ ~job.live
    /\ job' = [job EXCEPT !.generation = g, !.owned = TRUE, !.live = TRUE]
    /\ Goto(g, "claimed")
    /\ UNCHANGED <<att, operation, output, remote, metered>>

\* _enter_processing and begin_job_processing.
Enter(g) ==
    /\ At(g, "claimed")
    /\ IF /\ job.status = "queued" /\ job.owned /\ job.generation = g /\ job.live
          /\ ~job.cancelRequested
       THEN /\ job' = [job EXCEPT !.status = "processing", !.attempts = @ + 1,
                                  !.error = "none", !.deferred = FALSE]
            /\ Goto(g, "preparing")
       ELSE Leave(g) /\ UNCHANGED job
    /\ UNCHANGED <<att, operation, output, remote, metered>>

\* prepare_current_attempt_sources.
PrepareAttempt(g) ==
    /\ At(g, "preparing")
    /\ Authorized(g)
    /\ SetRow(PreparedRow)
    /\ Goto(g, "transcribing")
    /\ UNCHANGED <<job, operation, output, remote, metered>>

PrepareFails(g) ==
    /\ At(g, "preparing")
    /\ JustGiveUp(g, "pipeline_retry_state_prepare_failed")

\* The checkpoints before the transcription and after it find the job cancelled
\* or taken away.
StopAtCheckpoint(g) ==
    /\ At(g, "transcribing") \/ At(g, "returned")
    /\ ~Authorized(g)
    /\ job' = IF Active(g) THEN Finish("cancelled", job.error) ELSE job
    /\ Leave(g)
    /\ UNCHANGED <<att, operation, output, remote, metered>>

\* The circuit of the provider is open, its folder is missing, the source cannot
\* be read, or the start cannot be committed: nothing is classified.
NotReady(g) ==
    /\ At(g, "transcribing")
    /\ JustGiveUp(g, "other")

PreparationFails(g) ==
    /\ At(g, "transcribing")
    /\ \E code \in {"media_preparation_timeout", "media_preparation_failed",
                    "existing_result_conflict"} : ClassifyAndGiveUp(g, code, "none")

\* mark_attempt_provider_started.
StartProvider(g) ==
    /\ At(g, "transcribing")
    /\ Authorized(g)
    /\ CanStart(Current)
    /\ SetRow(StartedRow(Current, 0))
    /\ Goto(g, IF metered THEN "billing" ELSE "calling")
    /\ UNCHANGED <<job, operation, output, remote, metered>>

\* begin_provider_part_usage.
BeginUsage(g) ==
    /\ At(g, "billing")
    /\ Authorized(g)
    /\ Current.stage = "provider_request_started"
    /\ Current.accounting \notin {"pending", "uncertain"}
    /\ SetRow([Current EXCEPT !.accounting = "pending"])
    /\ job' = [job EXCEPT !.complete = FALSE]
    /\ Goto(g, "calling")
    /\ UNCHANGED <<operation, output, remote, metered>>

UsageUnavailable(g) ==
    /\ At(g, "billing")
    /\ ClassifyAndGiveUp(g, "provider_usage_accounting_unavailable", "none")

(***************************************************************************)
(* The transport.                                                          *)
(***************************************************************************)

MutantLatest(n) == n = job.attempts /\ operation[n].status # "none"

\* The row with the highest attempt number.
Latest(n) ==
    /\ operation[n].status # "none"
    /\ \A m \in Attempts : m > n => operation[m].status = "none"

\* A result was kept: it is decrypted and checked, or found unreadable.
ReloadResult(g) ==
    /\ At(g, "calling")
    /\ \E n \in Attempts : Latest(n) /\ operation[n].status = "completed"
    /\ \E answer \in {"ok", "malformed_provider_response"} : Answered(g, answer)
    /\ UNCHANGED <<job, att, operation, output, remote, metered>>

\* A row waits for its answer: it is polled, whichever attempt submitted it.
FollowOperation(g) ==
    /\ At(g, "calling")
    /\ \E n \in Attempts :
          /\ Latest(n) /\ operation[n].status = "pending"
          /\ run' = [run EXCEPT ![g].step = "polling", ![g].number = n]
    /\ UNCHANGED <<job, att, operation, output, remote, metered>>

\* There is no row, or an earlier attempt's failed.  A failed row of this very
\* attempt would be refused (yandex_transcription.py:109-116); there is none, since
\* an attempt asks once.
ChooseToSubmit(g) ==
    /\ At(g, "calling")
    /\ \A n \in Attempts : Latest(n) => operation[n].status = "failed" /\ n # job.attempts
    /\ run' = [run EXCEPT ![g].step = "submitting", ![g].number = job.attempts]
    /\ UNCHANGED <<job, att, operation, output, remote, metered>>

\* _submit: accepted, refused, or nobody knows (no answer, or none to be read).
Submit(g) ==
    /\ At(g, "submitting")
    /\ \/ /\ remote' = [remote EXCEPT ![g] = "running"]
          /\ Goto(g, "recording")
       \/ /\ \E answer \in ProviderRejections : Answered(g, answer)
          /\ UNCHANGED remote
       \/ /\ \E started \in {"none", "running"} : remote' = [remote EXCEPT ![g] = started]
          /\ \E answer \in {"provider_timeout", "malformed_provider_response"} : Answered(g, answer)
    /\ UNCHANGED <<job, att, operation, output, metered>>

\* The identifier is committed before the first poll, without looking at the lease.
RecordOperation(g) ==
    /\ At(g, "recording")
    /\ operation[run[g].number].status = "none"
    /\ operation' = [operation EXCEPT ![run[g].number] = [status |-> "pending", run |-> g]]
    /\ Goto(g, "polling")
    /\ UNCHANGED <<job, att, output, remote, metered>>

\* The commit fails; the session it leaves behind may not be able to classify.
RecordingFails(g) ==
    /\ At(g, "recording")
    /\ ClassifyAndGiveUp(g, "provider_timeout", "none") \/ JustGiveUp(g, "other")

Polled(g) == remote[operation[run[g].number].run]

\* A poll that finds the operation running writes timestamps only.
OperationDone(g) ==
    /\ At(g, "polling")
    /\ Polled(g) = "done"
    /\ Goto(g, "loading")
    /\ UNCHANGED <<job, att, operation, output, remote, metered>>

OperationFailed(g) ==
    /\ At(g, "polling")
    /\ Polled(g) = "error"
    /\ operation' = [operation EXCEPT ![run[g].number].status = "failed"]
    /\ Answered(g, "provider_request_rejected")
    /\ UNCHANGED <<job, att, output, remote, metered>>

\* A poll or the load is refused, times out or is unreadable: the row stays.
PollFails(g) ==
    /\ At(g, "polling") \/ At(g, "loading")
    /\ \E answer \in Answer \ {"none", "ok"} : Answered(g, answer)
    /\ UNCHANGED <<job, att, operation, output, remote, metered>>

\* _persist_result, without looking at the lease either.
StoreResult(g) ==
    /\ At(g, "loading")
    /\ operation' = [operation EXCEPT ![run[g].number].status = "completed"]
    /\ Answered(g, "ok")
    /\ UNCHANGED <<job, att, output, remote, metered>>

\* The provider works on its own.
ProviderFinishes(g) ==
    /\ remote[g] = "running"
    /\ \E end \in {"done", "error"} : remote' = [remote EXCEPT ![g] = end]
    /\ UNCHANGED <<job, att, operation, output, run, metered>>

(***************************************************************************)
(* After the transport.                                                    *)
(***************************************************************************)

\* confirm_provider_part_usage: whether the result is new or was kept.
ConfirmUsage(g) ==
    /\ At(g, "answered") /\ run[g].answer = "ok" /\ metered
    /\ Active(g)
    /\ Current.accounting = "pending"
    /\ SetRow([Current EXCEPT !.accounting = "confirmed"])
    /\ job' = [job EXCEPT !.billed = @ + 1, !.complete = FALSE]
    /\ Goto(g, "checking")
    /\ UNCHANGED <<operation, output, remote, metered>>

ConfirmationFails(g) ==
    /\ At(g, "answered") /\ run[g].answer = "ok" /\ metered
    /\ ClassifyAndGiveUp(g, "provider_usage_outcome_uncertain", "none")

UnmeteredResult(g) ==
    /\ At(g, "answered") /\ run[g].answer = "ok" /\ ~metered
    /\ Goto(g, "checking")
    /\ UNCHANGED <<job, att, operation, output, remote, metered>>

ProviderFails(g) ==
    /\ At(g, "answered") /\ run[g].answer # "ok"
    /\ ClassifyAndGiveUp(g, run[g].answer, run[g].answer)

\* mark_attempt_provider_part_completed.
CompletePart(g) ==
    /\ At(g, "checking")
    /\ Authorized(g)
    /\ CanCompletePart(Current, 1)
    /\ SetRow(PartCompletedRow(Current, 1))
    /\ Goto(g, "returning")
    /\ UNCHANGED <<job, operation, output, remote, metered>>

CompletePartFails(g) ==
    /\ At(g, "checking")
    /\ ClassifyAndGiveUp(g, "partial_provider_result", "none")

\* mark_attempt_provider_returned.
MarkReturned(g) ==
    /\ At(g, "returning")
    /\ Active(g)
    /\ CanReturn(Current)
    /\ SetRow(ReturnedRow(Current))
    /\ Goto(g, "returned")
    /\ UNCHANGED <<job, operation, output, remote, metered>>

MarkReturnedFails(g) ==
    /\ At(g, "returning")
    /\ JustGiveUp(g, "other")

\* The transcript is empty.
ResultEmpty(g) ==
    /\ At(g, "returned")
    /\ ClassifyAndGiveUp(g, "malformed_provider_response", "none")

\* prepare_output_reconciliation_case, before the document.
PrepareDocument(g) ==
    /\ At(g, "returned")
    /\ Authorized(g)
    /\ output = "none"
    /\ output' = "open"
    /\ Goto(g, "creating")
    /\ UNCHANGED <<job, att, operation, remote, metered>>

\* persist_processing_job_source_output_and_maybe_complete.
StoreDocument(g) ==
    /\ At(g, "creating")
    /\ Authorized(g)
    /\ CanComplete(Current)
    /\ output' = "stored"
    /\ SetRow(CompletedRow(Current))
    /\ job' = Finish("completed", "none")
    /\ Leave(g)
    /\ UNCHANGED <<operation, remote, metered>>

DeliveryFails(g) ==
    /\ At(g, "returned") \/ At(g, "creating")
    /\ JustGiveUp(g, "other")

\* _handle_pre_output_failure and fail_job_processing.
FailSource(g) ==
    /\ At(g, "failing")
    /\ IF Authorized(g)
       THEN \/ job' = Finish("failed", run[g].error)
            \/ AutomaticRetryAllowed(run[g].error) /\ job' = Requeued(TRUE)
       ELSE job' = IF Active(g) THEN Finish("cancelled", job.error) ELSE job
    /\ Leave(g)
    /\ UNCHANGED <<att, operation, output, remote, metered>>

\* The process dies.
Abandon(g) ==
    /\ run[g].step \notin {"idle", "gone"}
    /\ Leave(g)
    /\ UNCHANGED <<job, att, operation, output, remote, metered>>

(***************************************************************************)
(* Everybody else.                                                         *)
(***************************************************************************)

\* recover_expired_processing_job; a requeue also needs a ready preflight.
RecoverExpired ==
    /\ job.status = "processing"
    /\ ~job.live
    /\ IF job.cancelRequested THEN job' = Finish("cancelled", job.error)
       ELSE \/ RetryAllowed(FALSE, job.error) /\ job' = Requeued(FALSE)
            \/ job' = Finish("failed", "other")
    /\ UNCHANGED <<att, operation, output, run, remote, metered>>

\* request_job_cancellation.
RequestCancellation ==
    /\ \/ job.status = "queued" /\ job' = Finish("cancelled", job.error)
       \/ /\ job.status = "processing" /\ ~job.cancelRequested
          /\ job' = [job EXCEPT !.cancelRequested = TRUE]
    /\ UNCHANGED <<att, operation, output, run, remote, metered>>

\* queue_retry.
QueueRetry ==
    /\ job.status = "failed"
    /\ ~job.cancelRequested
    /\ ~job.live
    /\ RetryAllowed(TRUE, job.error)
    /\ job' = Requeued(FALSE)
    /\ UNCHANGED <<att, operation, output, run, remote, metered>>

\* lease_expires_at passes, whether or not somebody still renews it.
ExpireLease ==
    /\ job.live
    /\ job' = [job EXCEPT !.live = FALSE]
    /\ UNCHANGED <<att, operation, output, run, remote, metered>>

BackoffElapses ==
    /\ job.deferred
    /\ job' = [job EXCEPT !.deferred = FALSE]
    /\ UNCHANGED <<att, operation, output, run, remote, metered>>

-----------------------------------------------------------------------------
Prepare(g) ==
    \/ Claim(g) \/ Enter(g) \/ PrepareAttempt(g) \/ PrepareFails(g)
    \/ StopAtCheckpoint(g) \/ NotReady(g) \/ PreparationFails(g)
    \/ StartProvider(g) \/ BeginUsage(g) \/ UsageUnavailable(g)

Transport(g) ==
    \/ ReloadResult(g) \/ FollowOperation(g) \/ ChooseToSubmit(g)
    \/ Submit(g) \/ RecordOperation(g) \/ RecordingFails(g)
    \/ OperationDone(g) \/ OperationFailed(g) \/ PollFails(g) \/ StoreResult(g)

Conclude(g) ==
    \/ ConfirmUsage(g) \/ ConfirmationFails(g) \/ UnmeteredResult(g) \/ ProviderFails(g)
    \/ CompletePart(g) \/ CompletePartFails(g) \/ MarkReturned(g) \/ MarkReturnedFails(g)
    \/ ResultEmpty(g) \/ PrepareDocument(g) \/ StoreDocument(g) \/ DeliveryFails(g)
    \/ FailSource(g) \/ Abandon(g)

Environment ==
    RecoverExpired \/ RequestCancellation \/ QueueRetry \/ ExpireLease \/ BackoffElapses

Next ==
    \/ \E g \in Generations : Prepare(g) \/ Transport(g) \/ Conclude(g) \/ ProviderFinishes(g)
    \/ Environment

Spec == Init /\ [][Next]_vars

-----------------------------------------------------------------------------
(***************************************************************************)
(* Properties.                                                             *)
(***************************************************************************)

\* An operation the owner may be charged for: accepted, and not known to have
\* failed.
AtRisk(g) == remote[g] \in {"running", "done"}

\* The recording is never given to the provider a second time while an earlier
\* operation may still be charged: not by a later attempt, by a run that lost
\* its lease before it submitted, by one whose answer was lost, or by one that
\* died before the identifier was kept.  There is no idempotency key: the rows
\* and the ledger are all that prevents it.
OneOperationAtRisk ==
    \A g, h \in Generations : AtRisk(g) /\ AtRisk(h) => g = h

\* A job goes back to the queue only if every operation that may be charged has
\* a row the next attempt follows: neither recovery nor a retry, automatic or
\* the owner's, leaves a paid operation behind.
NothingPaidIsAbandoned ==
    [][job.status # "queued" /\ job'.status = "queued" =>
          \A g \in Generations : AtRisk(g) =>
             \E n \in Attempts : operation[n].run = g /\ operation[n].status # "failed"]_vars

\* Under a known tariff an amount the job calls complete includes every operation
\* that may be charged: one whose answer was lost keeps it incomplete.
NothingChargedIsHidden ==
    job.complete /\ metered => \A g \in Generations : AtRisk(g) => job.billed >= 1

(***************************************************************************)
(* Statements of the documentation the code does not keep.                 *)
(***************************************************************************)

PartComplete == \E n \in Attempts : CompleteRow(att[n])

\* docs/runbooks/studio-platform-ops.md:967: a completed operation resumes without
\* resubmission.  A job whose run died while it took the result over may run again,
\* as long as attempts are left.
CompletedOperationResumes ==
    /\ job.status = "processing" /\ ~job.live /\ ~job.cancelRequested
    /\ job.attempts < MaxAttempts /\ Current.stage = "provider_request_started"
    /\ \E n \in Attempts : operation[n].status = "completed"
    /\ ~PartComplete
    => RetryAllowed(FALSE, job.error)

\* docs/spec/source-trace.md:245: a retry or a recovery does not count confirmed
\* usage again.
UsageCountedOnce == ~PartComplete => job.billed <= 1

\* docs/runbooks/studio-platform-ops.md:461: without a tariff the accounting is
\* unavailable; it is never a completed account of nothing.
UnknownTariffIsNotFree ==
    ~metered => ~(job.complete /\ \E g \in Generations : AtRisk(g))

\* docs/runbooks/studio-platform-ops.md:968: a known failed operation remains
\* terminal.
FailedOperationIsTerminal ==
    [][(\E g \in Generations : remote[g] = "none" /\ remote'[g] # "none") =>
          \A n \in Attempts : operation[n].status # "failed"]_vars

=============================================================================
