----------------------------- MODULE JobPipeline -----------------------------
(***************************************************************************)
(* One transcription job from the queue to its Google documents: claims,   *)
(* the step list of the orchestrator for every source, the paid provider   *)
(* calls part by part, their checkpoints and accounting, the creation of   *)
(* the output document, failures, automatic and explicit retries, recovery *)
(* of expired leases, cancellation and output reconciliation.              *)
(*                                                                         *)
(* Every action is the work between two commits (or a commit and an        *)
(* external call).  A run is what one claim started; run g holds lease     *)
(* generation g.  It may lose its lease and go on as a zombie, or die      *)
(* between any two actions.  docs, creates and calls are the world outside *)
(* the database: what Google Drive holds and what the provider may have    *)
(* billed.                                                                 *)
(*                                                                         *)
(* Operators whose name begins with "Mutant" are variants, with a plausible *)
(* bug, of the definition that follows; no action uses them.               *)
(*                                                                         *)
(* Decisions read the locked row; what stale sessions add is the subject   *)
(* of JobRowSessions.  JobLifecycle is the abstraction of this module.     *)
(***************************************************************************)
EXTENDS SourceAttempts, FiniteSets, FiniteSetsExt

CONSTANTS
    NumSources,      \* required sources of the job, in position order
    MaxAttempts,     \* MAX_PROCESSING_ATTEMPTS
    MaxGeneration,   \* bound of the model on claims
    MaxRuns          \* worker processes: runs alive at the same time

ASSUME PipelineAssumption ==
    /\ NumSources \in Nat \ {0}
    /\ MaxAttempts \in Nat \ {0}
    /\ MaxGeneration \in Nat \ {0}
    /\ MaxRuns \in Nat \ {0}

Sources     == 1..NumSources
Generations == 1..MaxGeneration
Attempts    == 1..MaxAttempts

VARIABLES
    job,           \* the row of TranscriptionJob
    att,           \* TranscriptionJobSourceAttempt, by source and attempt number
    checkpoints,   \* TranscriptionProviderPartCheckpoint: parts kept, by source
    cases,         \* TranscriptionOutputReconciliation, by source
    outputs,       \* sources that have a TranscriptionJobOutput
    run,           \* what each run holds in memory
    docs,          \* documents in Drive that carry the token of the source's case
    creates,       \* create requests sent to Google, by source
    calls,         \* provider calls that may have been billed, by source and part
    consent        \* costs the owner confirmed: the last retry's kind, and how many

database == <<job, att, checkpoints, cases, outputs>>
world    == <<docs, creates, calls>>
vars     == <<database, run, world, consent>>

Status     == {"queued", "processing", "completed", "failed", "cancelled"}
Finished   == {"completed", "failed", "cancelled"}
ErrorCode  == {"none", "output_reconciliation_required", "pipeline_retry_state_prepare_failed",
               "other"}
CaseStatus == {"none", "prepared", "creation_returned", "reconciliation_required", "conflict",
               "resolved"}
Step       == {"idle", "claimed", "preparing", "source", "transcribing", "billing", "sending",
               "answered", "checkpointing", "returning", "merging", "output", "handing",
               "googling", "creating", "created", "persisting", "failing", "uncertain",
               "recording", "ended", "gone"}
Answer     == {"none", "ok", "provider_timeout"} \cup ProviderRejections
RetryKind  == {"none", "available", "full_restore", "resume", "restart"}

Job == [status : Status, owned : BOOLEAN, generation : 0..MaxGeneration, live : BOOLEAN,
        cancelRequested : BOOLEAN, attempts : 0..MaxAttempts, deferred : BOOLEAN,
        error : ErrorCode, attentionResolved : BOOLEAN,
        billed : Nat, accountingComplete : BOOLEAN, accountingUncertain : BOOLEAN]

\* No source after the last: the output of the last missing source completes
\* the job, so the loop of the orchestrator never runs to its end.
Run == [step : Step, source : 0..NumSources, held : 0..Parts, answer : Answer,
        error : ErrorCode]

TypeOK ==
    /\ job \in Job
    /\ att \in [Sources -> [Attempts -> Row]]
    /\ checkpoints \in [Sources -> SUBSET PartIndexes]
    /\ cases \in [Sources -> [status : CaseStatus, generation : 0..MaxGeneration]]
    /\ outputs \subseteq Sources
    /\ run \in [Generations -> Run]
    /\ docs \in [Sources -> Nat]
    /\ creates \in [Sources -> Nat]
    /\ calls \in [Sources -> [PartIndexes -> Nat]]
    /\ consent \in [kind : RetryKind, given : Nat]

Init ==
    /\ job = [status |-> "queued", owned |-> FALSE, generation |-> 0, live |-> FALSE,
              cancelRequested |-> FALSE, attempts |-> 0, deferred |-> FALSE,
              error |-> "none", attentionResolved |-> FALSE,
              billed |-> 0, accountingComplete |-> FALSE, accountingUncertain |-> FALSE]
    /\ att = [s \in Sources |-> [n \in Attempts |-> NoRow]]
    /\ checkpoints = [s \in Sources |-> {}]
    /\ cases = [s \in Sources |-> [status |-> "none", generation |-> 0]]
    /\ outputs = {}
    /\ run = [g \in Generations |-> [step |-> "idle", source |-> 0, held |-> 0,
                                     answer |-> "none", error |-> "none"]]
    /\ docs = [s \in Sources |-> 0]
    /\ creates = [s \in Sources |-> 0]
    /\ calls = [s \in Sources |-> [p \in PartIndexes |-> 0]]
    /\ consent = [kind |-> "none", given |-> 0]

(***************************************************************************)
(* The job row.                                                            *)
(***************************************************************************)

\* _require_active_owner / _require_active_processing with allow_cancel.
Active(g) == job.status = "processing" /\ job.owned /\ job.generation = g /\ job.live

\* _require_active_processing.
Authorized(g) == Active(g) /\ ~job.cancelRequested

\* invalidate_job_lease.
Released(j) == [j EXCEPT !.owned = FALSE, !.live = FALSE]

\* finalize_job_provider_accounting, with the attempt rows as they are now.
MutantUsageUncertain == \E s \in Sources, n \in Attempts : att[s][n].accounting = "uncertain"

UsageUncertain == \E s \in Sources, n \in Attempts : att[s][n].accounting \in {"pending", "uncertain"}

Finalized(j) ==
    [j EXCEPT !.accountingUncertain = UsageUncertain, !.accountingComplete = ~UsageUncertain]

Finish(j, status, error) == Finalized(Released([j EXCEPT !.status = status, !.error = error]))

MutantRequeued(j, deferred) ==
    [j EXCEPT !.status = "queued", !.error = "none", !.deferred = deferred, !.live = FALSE]

\* What the retries and recovery write to send a job back to the queue.
Requeued(j, deferred) ==
    Released([j EXCEPT !.status = "queued", !.error = "none", !.deferred = deferred])

(***************************************************************************)
(* Retry readiness: _evaluate in job_retry_recovery.py.                    *)
(***************************************************************************)

Missing == Sources \ outputs

Current(s) == att[s][job.attempts]

\* _has_unresolved_reconciliation.
UnresolvedCase(s) == cases[s].status \notin {"none", "resolved"}

\* complete_provider_attempt, and the same before the current attempt.
CompleteBefore(s, bound) == \E n \in 1..bound : CompleteRow(att[s][n])
FullyHeld(s) == checkpoints[s] = PartIndexes

Verdict(s, explicit, error) ==
    IF UnresolvedCase(s) THEN "output_reconciliation_required"
    ELSE IF CompleteBefore(s, job.attempts)
    THEN IF explicit /\ FullyHeld(s) THEN "cached" ELSE "provider_result_lost"
    ELSE RowVerdict(Current(s), checkpoints[s], explicit,
                    error = "pipeline_retry_state_prepare_failed")

RetryAllowed(explicit, error) ==
    /\ job.attempts < MaxAttempts
    /\ Missing # {}
    /\ \A s \in Missing : Verdict(s, explicit, error) \in SafeVerdicts

\* The reason an explicit retry is offered for, which decides whether the
\* owner confirms a cost (requires_provider_cost_confirmation).
ExplicitKind ==
    LET verdicts == {Verdict(s, TRUE, job.error) : s \in Missing}
    IN IF verdicts = {"cached"} THEN "full_restore"
       ELSE IF verdicts \cap {"cached", "resume"} # {} THEN "resume"
       ELSE IF "restart" \in verdicts THEN "restart"
       ELSE "available"

CostKinds == {"resume", "restart"}

\* schedule_automatic_retry_if_safe, apart from the preflight of the job.
AutomaticRetryAllowed(error) ==
    /\ RetryAllowed(TRUE, error)
    /\ \A s \in Missing : Verdict(s, TRUE, error) \in {"safe", "cached"}
    /\ \A s \in Missing : UntouchedRow(Current(s)) \/ TransientFailure(Current(s))
    /\ \E s \in Missing : TransientFailure(Current(s))

MutantRecoveryError ==
    IF \E s \in Missing : cases[s].status = "reconciliation_required"
    THEN "output_reconciliation_required"
    ELSE "other"

\* The error code recovery leaves on a job it gives up.
RecoveryError ==
    IF job.attempts >= MaxAttempts THEN "other"
    ELSE IF \E s \in Missing : UnresolvedCase(s) THEN "output_reconciliation_required"
    ELSE LET blocked == {s \in Missing : Verdict(s, FALSE, job.error) \notin SafeVerdicts}
         IN IF blocked # {} /\ Verdict(Min(blocked), FALSE, job.error) = "output_reconciliation_required"
            THEN "output_reconciliation_required"
            ELSE "other"

(***************************************************************************)
(* Runs.                                                                   *)
(***************************************************************************)

At(g, step) == run[g].step = step
Src(g) == run[g].source
Alive(g) == run[g].step \notin {"idle", "ended", "gone"}

Goto(g, step) == run' = [run EXCEPT ![g].step = step]

Forget(g, step) == run' = [run EXCEPT ![g] = [step |-> step, source |-> 0, held |-> 0,
                                              answer |-> "none", error |-> "none"]]

\* The run leaves the orchestrator, and nothing was concluded about the job.
Leave(g) == Forget(g, "gone")

\* The run leaves the orchestrator with the commit that took the job off it.
End(g) == Forget(g, "ended")

NextSource(g) == run' = [run EXCEPT ![g] = [step |-> "source", source |-> Src(g) + 1, held |-> 0,
                                            answer |-> "none", error |-> "none"]]

\* An exception before the output exists: _handle_pre_output_failure is next.
GiveUp(g, error) == run' = [run EXCEPT ![g].step = "failing", ![g].error = error]

SetRow(s, row) == att' = [att EXCEPT ![s][job.attempts] = row]

\* _best_effort_classify: usage still pending becomes uncertain and the row is
\* classified in one transaction, which a run without authority rolls back.
ClassifyAndGiveUp(g, code, providerCode) ==
    /\ IF Authorized(g)
       THEN /\ SetRow(Src(g), ClassifiedRow(UsageUncertainRow(Current(Src(g))), code, providerCode))
            /\ job' = IF Current(Src(g)).accounting = "pending"
                      THEN [job EXCEPT !.accountingUncertain = TRUE, !.accountingComplete = FALSE]
                      ELSE job
       ELSE UNCHANGED <<job, att>>
    /\ GiveUp(g, "other")
    /\ UNCHANGED <<checkpoints, cases, outputs, world, consent>>

\* An exception that leaves the row alone.
JustGiveUp(g) ==
    /\ GiveUp(g, "other")
    /\ UNCHANGED <<database, world, consent>>

\* acknowledge_job_cancellation.
Acknowledge(g) ==
    /\ job' = Finish(job, "cancelled", job.error)
    /\ checkpoints' = [s \in Sources |-> {}]

\* fail_job_processing; an automatic retry also needs a ready preflight.
FailJob(error) ==
    \/ job' = Finish(job, "failed", error)
    \/ AutomaticRetryAllowed(error) /\ job' = Requeued(job, TRUE)

(***************************************************************************)
(* Claiming and entering.                                                  *)
(***************************************************************************)

\* acquire_next_ready_job_lease and its commit.
Claim(g) ==
    /\ At(g, "idle")
    /\ g = job.generation + 1
    /\ Cardinality({h \in Generations : Alive(h)}) < MaxRuns
    /\ job.status = "queued" /\ ~job.deferred /\ ~job.live
    /\ job' = [job EXCEPT !.generation = g, !.owned = TRUE, !.live = TRUE]
    /\ Goto(g, "claimed")
    /\ UNCHANGED <<att, checkpoints, cases, outputs, world, consent>>

\* _enter_processing and begin_job_processing.
Enter(g) ==
    /\ At(g, "claimed")
    /\ IF /\ job.status = "queued" /\ job.owned /\ job.generation = g /\ job.live
          /\ ~job.cancelRequested
       THEN /\ job' = [job EXCEPT !.status = "processing", !.attempts = @ + 1,
                                  !.error = "none", !.deferred = FALSE]
            /\ Goto(g, "preparing")
       ELSE Leave(g) /\ UNCHANGED job
    /\ UNCHANGED <<att, checkpoints, cases, outputs, world, consent>>

\* prepare_current_attempt_sources; a case found now is recorded instead.
PrepareAttempts(g) ==
    /\ At(g, "preparing")
    /\ Authorized(g)
    /\ IF \E s \in Missing : UnresolvedCase(s)
       THEN Goto(g, "recording") /\ UNCHANGED att
       ELSE /\ att' = [s \in Sources |-> IF s \in Missing
                                         THEN [att[s] EXCEPT ![job.attempts] = PreparedRow]
                                         ELSE att[s]]
            /\ run' = [run EXCEPT ![g].step = "source", ![g].source = 1]
    /\ UNCHANGED <<job, checkpoints, cases, outputs, world, consent>>

\* Authority was lost, or the ledger could not be written.
PrepareFails(g) ==
    /\ At(g, "preparing")
    /\ GiveUp(g, "pipeline_retry_state_prepare_failed")
    /\ UNCHANGED <<database, world, consent>>

(***************************************************************************)
(* Per source: the checkpoint at the head of the loop.                     *)
(***************************************************************************)

\* _checkpoint finds the job taken away or cancelled.
StopAtCheckpoint(g) ==
    /\ At(g, "source") \/ At(g, "output")
    /\ ~Authorized(g)
    /\ IF Active(g)
       THEN Acknowledge(g) /\ End(g)
       ELSE UNCHANGED <<job, checkpoints>> /\ Leave(g)
    /\ UNCHANGED <<att, cases, outputs, world, consent>>

BeginSource(g) ==
    /\ At(g, "source")
    /\ Authorized(g)
    /\ IF Src(g) \in outputs THEN NextSource(g)
       ELSE CASE cases[Src(g)].status = "none" -> Goto(g, "transcribing")
              [] cases[Src(g)].status \in {"prepared", "creation_returned",
                                           "reconciliation_required"} -> Goto(g, "recording")
              [] OTHER -> GiveUp(g, "other")
    /\ UNCHANGED <<database, world, consent>>

(***************************************************************************)
(* Transcription of one source.                                            *)
(***************************************************************************)

MutantRestoreRequired(s) == FullyHeld(s)

\* requires_complete_checkpoint_restore.
RestoreRequired(s) == CompleteBefore(s, job.attempts - 1)

\* restore_cached_transcript: the whole result of an earlier attempt is reused.
RestoreTranscript(g) ==
    /\ At(g, "transcribing")
    /\ RestoreRequired(Src(g))
    /\ Authorized(g)
    /\ FullyHeld(Src(g))
    /\ CanStart(Current(Src(g)))
    /\ SetRow(Src(g), ReturnedRow(StartedRow(Current(Src(g)), Parts)))
    /\ Goto(g, "output")
    /\ UNCHANGED <<job, checkpoints, cases, outputs, world, consent>>

RestoreFails(g) ==
    /\ At(g, "transcribing")
    /\ RestoreRequired(Src(g))
    /\ JustGiveUp(g)

\* The source cannot be materialized; this failure is not classified.
MaterializationFails(g) ==
    /\ At(g, "transcribing")
    /\ ~RestoreRequired(Src(g))
    /\ JustGiveUp(g)

\* Media preparation, the duplicate check, or the load of the checkpoints fails.
PreparationFails(g) ==
    /\ At(g, "transcribing")
    /\ ~RestoreRequired(Src(g))
    /\ \E code \in {"media_preparation_timeout", "media_preparation_failed",
                    "existing_result_conflict"} : ClassifyAndGiveUp(g, code, "none")

\* load_provider_part_checkpoints takes a leading set of parts or refuses.
LeadingParts(kept) == kept = 1..Cardinality(kept)

\* mark_attempt_provider_started and its commit, the last step before any call.
StartProvider(g) ==
    /\ At(g, "transcribing")
    /\ ~RestoreRequired(Src(g))
    /\ LeadingParts(checkpoints[Src(g)])
    /\ Authorized(g)
    /\ CanStart(Current(Src(g)))
    /\ LET held == Cardinality(checkpoints[Src(g)])
       IN /\ SetRow(Src(g), StartedRow(Current(Src(g)), held))
          /\ run' = [run EXCEPT ![g].held = held,
                                ![g].step = IF held = Parts THEN "returning" ELSE "billing"]
    /\ UNCHANGED <<job, checkpoints, cases, outputs, world, consent>>

\* begin_provider_part_usage and its commit, before the part is sent.
BeginPartUsage(g) ==
    /\ At(g, "billing")
    /\ Authorized(g)
    /\ Current(Src(g)).stage = "provider_request_started"
    /\ Current(Src(g)).done = run[g].held
    /\ Current(Src(g)).accounting \notin {"pending", "uncertain"}
    /\ SetRow(Src(g), [Current(Src(g)) EXCEPT !.accounting = "pending"])
    /\ job' = [job EXCEPT !.accountingComplete = FALSE]
    /\ Goto(g, "sending")
    /\ UNCHANGED <<checkpoints, cases, outputs, world, consent>>

\* The reservation cannot be written.
PartUsageUnavailable(g) ==
    /\ At(g, "billing")
    /\ ClassifyAndGiveUp(g, "provider_usage_accounting_unavailable", "none")

\* The transport call.  No check separates it from the reservation, so a run
\* that lost its lease in between sends all the same.
SendPart(g) ==
    /\ At(g, "sending")
    /\ \E answer \in Answer \ {"none"} :
          /\ run' = [run EXCEPT ![g].step = "answered", ![g].answer = answer]
          /\ calls' = IF answer \in ProviderRejections
                      THEN calls
                      ELSE [calls EXCEPT ![Src(g)][run[g].held + 1] = @ + 1]
    /\ UNCHANGED <<database, docs, creates, consent>>

\* confirm_provider_part_usage: a pending cancellation does not stop it.
ConfirmPartUsage(g) ==
    /\ At(g, "answered")
    /\ run[g].answer = "ok"
    /\ Active(g)
    /\ Current(Src(g)).accounting = "pending"
    /\ SetRow(Src(g), [Current(Src(g)) EXCEPT !.accounting = "confirmed"])
    /\ job' = [job EXCEPT !.billed = @ + 1, !.accountingComplete = FALSE]
    /\ run' = [run EXCEPT ![g].step = "checkpointing", ![g].held = @ + 1, ![g].answer = "none"]
    /\ UNCHANGED <<checkpoints, cases, outputs, world, consent>>

\* Authority was lost, or the confirmation could not be written.
ConfirmationFails(g) ==
    /\ At(g, "answered")
    /\ run[g].answer = "ok"
    /\ ClassifyAndGiveUp(g, "provider_usage_outcome_uncertain", "none")

\* The provider refused or did not answer: partial once a part is held.
ProviderFails(g) ==
    /\ At(g, "answered")
    /\ run[g].answer # "ok"
    /\ ClassifyAndGiveUp(g, IF run[g].held > 0 THEN "partial_provider_result" ELSE run[g].answer,
                         run[g].answer)

MutantSavePart(g) ==
    /\ At(g, "checkpointing")
    /\ run[g].held \notin checkpoints[Src(g)]
    /\ CanCompletePart(Current(Src(g)), run[g].held)
    /\ checkpoints' = [checkpoints EXCEPT ![Src(g)] = @ \cup {run[g].held}]
    /\ SetRow(Src(g), PartCompletedRow(Current(Src(g)), run[g].held))
    /\ Goto(g, IF run[g].held = Parts THEN "returning" ELSE "billing")
    /\ UNCHANGED <<job, cases, outputs, world, consent>>

\* save_provider_part_checkpoint and mark_attempt_provider_part_completed.
SavePart(g) ==
    /\ At(g, "checkpointing")
    /\ Authorized(g)
    /\ run[g].held \notin checkpoints[Src(g)]
    /\ CanCompletePart(Current(Src(g)), run[g].held)
    /\ checkpoints' = [checkpoints EXCEPT ![Src(g)] = @ \cup {run[g].held}]
    /\ SetRow(Src(g), PartCompletedRow(Current(Src(g)), run[g].held))
    /\ Goto(g, IF run[g].held = Parts THEN "returning" ELSE "billing")
    /\ UNCHANGED <<job, cases, outputs, world, consent>>

SavePartFails(g) ==
    /\ At(g, "checkpointing")
    /\ ClassifyAndGiveUp(g, "partial_provider_result", "none")

\* mark_attempt_provider_returned.
MarkReturned(g) ==
    /\ At(g, "returning")
    /\ Active(g)
    /\ CanReturn(Current(Src(g)))
    /\ SetRow(Src(g), ReturnedRow(Current(Src(g))))
    /\ Goto(g, "merging")
    /\ UNCHANGED <<job, checkpoints, cases, outputs, world, consent>>

\* The parts become one transcript, authority is looked at again.
MergeParts(g) ==
    /\ At(g, "merging")
    /\ Authorized(g)
    /\ Goto(g, "output")
    /\ UNCHANGED <<database, world, consent>>

MergeFails(g) ==
    /\ At(g, "merging")
    /\ ClassifyAndGiveUp(g, "malformed_provider_response", "none")

\* What raises without a classification that takes effect: a lost authority,
\* a failed commit, the failed heartbeat of the stage.
TranscriptionInterrupted(g) ==
    /\ run[g].step \in {"transcribing", "billing", "checkpointing", "returning", "merging", "output"}
    /\ At(g, "transcribing") \/ At(g, "billing") \/ At(g, "checkpointing") => ~Authorized(g)
    /\ JustGiveUp(g)

(***************************************************************************)
(* The output document of one source.                                      *)
(***************************************************************************)

\* The checkpoint between transcription and Google, and the lease renewal.
CheckpointBeforeOutput(g) ==
    /\ At(g, "output")
    /\ Authorized(g)
    /\ Goto(g, "handing")
    /\ UNCHANGED <<database, world, consent>>

\* mark_attempt_google_handoff: it names the job's current attempt, not the run.
HandOff(g) ==
    /\ At(g, "handing")
    /\ CanHandOff(Current(Src(g)))
    /\ SetRow(Src(g), HandedOffRow(Current(Src(g))))
    /\ Goto(g, "googling")
    /\ UNCHANGED <<job, checkpoints, cases, outputs, world, consent>>

\* An exception nobody expects counts as an uncertain output, as does the
\* failed heartbeat of the stage.
OutputStageFails(g) ==
    /\ run[g].step \in {"handing", "googling", "persisting"}
    /\ Goto(g, "uncertain")
    /\ UNCHANGED <<database, world, consent>>

\* output_already_persisted: another run delivered this source meanwhile.
OutputExists(g) ==
    /\ At(g, "googling")
    /\ Src(g) \in outputs
    /\ IF Authorized(g) THEN NextSource(g) /\ UNCHANGED <<job, checkpoints>>
       ELSE IF Active(g) THEN Acknowledge(g) /\ End(g)
       ELSE Leave(g) /\ UNCHANGED <<job, checkpoints>>
    /\ UNCHANGED <<att, cases, outputs, world, consent>>

\* The connection, the folder or the authority is gone before the creation.
OutputRefused(g) ==
    /\ At(g, "googling")
    /\ Src(g) \notin outputs
    /\ JustGiveUp(g)

MutantPrepareCase(g) ==
    /\ At(g, "googling")
    /\ Src(g) \notin outputs
    /\ Authorized(g)
    /\ Goto(g, "creating")
    /\ UNCHANGED <<database, world, consent>>

\* prepare_output_reconciliation_case and its commit, before the document; a
\* case that is there already is made uncertain, OutputRefused if it is settled.
PrepareCase(g) ==
    /\ At(g, "googling")
    /\ Src(g) \notin outputs
    /\ Authorized(g)
    /\ cases[Src(g)].status \notin {"conflict", "resolved"}
    /\ IF cases[Src(g)].status = "none"
       THEN /\ cases' = [cases EXCEPT ![Src(g)] = [status |-> "prepared", generation |-> g]]
            /\ Goto(g, "creating")
       ELSE /\ cases' = [cases EXCEPT ![Src(g)].status =
                            IF @ = "prepared" THEN "reconciliation_required" ELSE @]
            /\ Goto(g, "uncertain")
    /\ UNCHANGED <<job, att, checkpoints, outputs, world, consent>>

MutantCreateDocument(g) ==
    /\ At(g, "creating")
    /\ creates' = [creates EXCEPT ![Src(g)] = @ + 1]
    /\ \E exists \in BOOLEAN, next \in {"created", "creating"} :
          /\ creates[Src(g)] = 0 \/ next = "created"
          /\ next = "created" => exists
          /\ docs' = IF exists THEN [docs EXCEPT ![Src(g)] = @ + 1] ELSE docs
          /\ Goto(g, next)
    /\ UNCHANGED <<database, calls, consent>>

\* The create request: answered, answered with an uncertain outcome, refused
\* before the document exists, or refused when it is styled.
CreateDocument(g) ==
    /\ At(g, "creating")
    /\ creates' = [creates EXCEPT ![Src(g)] = @ + 1]
    /\ \E exists \in BOOLEAN, next \in {"created", "uncertain", "failing"} :
          /\ next = "created" => exists
          /\ docs' = IF exists THEN [docs EXCEPT ![Src(g)] = @ + 1] ELSE docs
          /\ IF next = "failing" THEN GiveUp(g, "other") ELSE Goto(g, next)
    /\ UNCHANGED <<database, calls, consent>>

\* mark_reconciliation_creation_returned, after the job is read again.
MarkCreated(g) ==
    /\ At(g, "created")
    /\ Authorized(g)
    /\ cases' = [cases EXCEPT ![Src(g)].status = "creation_returned"]
    /\ Goto(g, "persisting")
    /\ UNCHANGED <<job, att, checkpoints, outputs, world, consent>>

\* lifecycle_changed_after_output_creation.
MarkCreatedFails(g) ==
    /\ At(g, "created")
    /\ Goto(g, "uncertain")
    /\ UNCHANGED <<database, world, consent>>

MutantPersistOutput(g) ==
    /\ At(g, "persisting")
    /\ Authorized(g)
    /\ CanComplete(Current(Src(g)))
    /\ Src(g) \notin outputs
    /\ SetRow(Src(g), CompletedRow(Current(Src(g))))
    /\ outputs' = outputs \cup {Src(g)}
    /\ cases' = [cases EXCEPT ![Src(g)].status = "resolved"]
    /\ checkpoints' = [checkpoints EXCEPT ![Src(g)] = {}]
    /\ NextSource(g)
    /\ UNCHANGED <<job, world, consent>>

\* mark_attempt_completed, persist_processing_job_source_output_and_maybe_complete
\* and the deletion of the source's checkpoints, in one commit.
PersistOutput(g) ==
    /\ At(g, "persisting")
    /\ Authorized(g)
    /\ CanComplete(Current(Src(g)))
    /\ Src(g) \notin outputs
    /\ SetRow(Src(g), CompletedRow(Current(Src(g))))
    /\ outputs' = outputs \cup {Src(g)}
    /\ cases' = [cases EXCEPT ![Src(g)].status = "resolved"]
    /\ checkpoints' = [checkpoints EXCEPT ![Src(g)] = {}]
    /\ IF outputs' = Sources
       THEN job' = Finish(job, "completed", "none") /\ End(g)
       ELSE UNCHANGED job /\ NextSource(g)
    /\ UNCHANGED <<world, consent>>

\* _best_effort_mark_output_reconciliation_required, on the current attempt.
MarkUncertain(g) ==
    /\ At(g, "uncertain")
    /\ \/ SetRow(Src(g), OutputUncertainRow(Current(Src(g))))
       \/ UNCHANGED att
    /\ Goto(g, "recording")
    /\ UNCHANGED <<job, checkpoints, cases, outputs, world, consent>>

(***************************************************************************)
(* The end of a run.                                                       *)
(***************************************************************************)

\* The cost confirmation of a retry does not carry over to automatic ones.
ConsentAfter(newStatus) ==
    consent' = IF newStatus = "queued" /\ job.status # "queued"
               THEN [consent EXCEPT !.kind = "none"] ELSE consent

\* _record_output_uncertainty: only the cases of this generation are marked.
RecordUncertainty(g) ==
    /\ At(g, "recording")
    /\ IF Authorized(g)
       THEN /\ cases' = [s \in Sources |->
                           IF /\ cases[s].generation = g
                              /\ cases[s].status \notin {"none", "resolved", "conflict"}
                           THEN [cases[s] EXCEPT !.status = "reconciliation_required"]
                           ELSE cases[s]]
            /\ FailJob("output_reconciliation_required")
            /\ End(g)
       ELSE UNCHANGED <<job, cases>> /\ Leave(g)
    /\ ConsentAfter(job'.status)
    /\ UNCHANGED <<att, checkpoints, outputs, world>>

\* _handle_pre_output_failure.
FailSource(g) ==
    /\ At(g, "failing")
    /\ IF Authorized(g)
       THEN FailJob(run[g].error) /\ UNCHANGED checkpoints /\ End(g)
       ELSE IF Active(g) THEN Acknowledge(g) /\ End(g)
       ELSE UNCHANGED <<job, checkpoints>> /\ Leave(g)
    /\ ConsentAfter(job'.status)
    /\ UNCHANGED <<att, cases, outputs, world>>

\* The process dies, or a lease renewal between two stages raises.
Abandon(g) ==
    /\ Alive(g)
    /\ Leave(g)
    /\ UNCHANGED <<database, world, consent>>

(***************************************************************************)
(* The recovery pass of the worker loop.                                   *)
(***************************************************************************)

\* recover_expired_processing_job.
RecoverExpired ==
    /\ job.status = "processing"
    /\ ~job.live
    /\ IF job.cancelRequested
       THEN /\ job' = Finish(job, "cancelled", job.error)
            /\ checkpoints' = [s \in Sources |-> {}]
       ELSE /\ IF Missing = {} THEN job' = Finish(job, "completed", "none")
               ELSE \/ RetryAllowed(FALSE, job.error) /\ job' = Requeued(job, FALSE)
                    \/ job' = Finish(job, "failed", RecoveryError)
            /\ UNCHANGED checkpoints
    /\ ConsentAfter(job'.status)
    /\ UNCHANGED <<att, cases, outputs, run, world>>

(***************************************************************************)
(* Requests of the owner.                                                  *)
(***************************************************************************)

\* request_job_cancellation.
RequestCancellation ==
    /\ \/ /\ job.status = "queued"
          /\ job' = Finalized(Released([job EXCEPT !.status = "cancelled",
                                                   !.cancelRequested = FALSE]))
          /\ checkpoints' = [s \in Sources |-> {}]
       \/ /\ job.status = "processing"
          /\ ~job.cancelRequested
          /\ job' = [job EXCEPT !.cancelRequested = TRUE]
          /\ UNCHANGED checkpoints
    /\ UNCHANGED <<att, cases, outputs, run, world, consent>>

\* post_job_retry and queue_retry.
QueueRetry ==
    /\ job.status = "failed"
    /\ ~job.cancelRequested
    /\ ~job.live
    /\ RetryAllowed(TRUE, job.error)
    /\ job' = Requeued(job, FALSE)
    /\ checkpoints' = IF ExplicitKind = "restart" THEN [s \in Sources |-> {}] ELSE checkpoints
    /\ consent' = [kind |-> ExplicitKind,
                   given |-> IF ExplicitKind \in CostKinds THEN consent.given + 1 ELSE consent.given]
    /\ UNCHANGED <<att, cases, outputs, run, world>>

\* mark_latest_attempt_completed_for_output takes the latest row there is.
LatestAttempt(s) == Max({n \in Attempts : att[s][n].stage # "none"})

\* check_output_reconciliation and check_job_output_reconciliation: looked up
\* by token, `verified` are the single matches that are what was expected.
CheckReconciliation ==
    /\ job.status \in {"failed", "cancelled"}
    /\ LET looked == {s \in Sources :
                        cases[s].status \in {"reconciliation_required", "creation_returned"}}
           found  == {s \in looked : docs[s] > 0}
       IN /\ looked # {}
          /\ \E verified \in SUBSET {s \in found : docs[s] = 1} :
                /\ cases' = [s \in Sources |->
                               IF s \in verified THEN [cases[s] EXCEPT !.status = "resolved"]
                               ELSE IF s \in found THEN [cases[s] EXCEPT !.status = "conflict"]
                               ELSE cases[s]]
                /\ outputs' = outputs \cup verified
                /\ att' = [s \in Sources |->
                             IF s \in verified
                             THEN [att[s] EXCEPT ![LatestAttempt(s)] = CompletedRow(@)]
                             ELSE att[s]]
                /\ job' = IF /\ verified # {}
                             /\ job.status = "failed"
                             /\ job.error = "output_reconciliation_required"
                             /\ outputs' = Sources
                          THEN Finalized([job EXCEPT !.status = "completed", !.error = "none"])
                          ELSE job
    /\ UNCHANGED <<checkpoints, run, world, consent>>

\* resolve_job_history_attention, where history_attention_required_expression holds.
ResolveAttention ==
    /\ job.status \in Finished
    /\ ~job.attentionResolved
    /\ \E s \in Missing, n \in Attempts :
          att[s][n].started /\ att[s][n].disposition # "retry_safe"
    /\ job' = [job EXCEPT !.attentionResolved = TRUE]
    /\ UNCHANGED <<att, checkpoints, cases, outputs, run, world, consent>>

(***************************************************************************)
(* Background cleanup and time.                                            *)
(***************************************************************************)

\* cleanup_expired_provider_part_checkpoints.
CleanupCheckpoints ==
    /\ job.status \in {"completed", "cancelled"} \/ job.attentionResolved
    /\ \E s \in Sources : checkpoints[s] # {}
    /\ checkpoints' = [s \in Sources |-> {}]
    /\ UNCHANGED <<job, att, cases, outputs, run, world, consent>>

\* lease_expires_at passes, whether or not somebody still renews it.
ExpireLease ==
    /\ job.live
    /\ job' = [job EXCEPT !.live = FALSE]
    /\ UNCHANGED <<att, checkpoints, cases, outputs, run, world, consent>>

\* retry_not_before_at passes.
BackoffElapses ==
    /\ job.deferred
    /\ job' = [job EXCEPT !.deferred = FALSE]
    /\ UNCHANGED <<att, checkpoints, cases, outputs, run, world, consent>>

Begin(g) ==
    \/ Claim(g) \/ Enter(g)
    \/ PrepareAttempts(g) \/ PrepareFails(g)
    \/ StopAtCheckpoint(g) \/ BeginSource(g)

Transcribe(g) ==
    \/ RestoreTranscript(g) \/ RestoreFails(g)
    \/ MaterializationFails(g) \/ PreparationFails(g)
    \/ StartProvider(g)
    \/ BeginPartUsage(g) \/ PartUsageUnavailable(g) \/ SendPart(g)
    \/ ConfirmPartUsage(g) \/ ConfirmationFails(g) \/ ProviderFails(g)
    \/ SavePart(g) \/ SavePartFails(g)
    \/ MarkReturned(g) \/ MergeParts(g) \/ MergeFails(g)
    \/ TranscriptionInterrupted(g)

Deliver(g) ==
    \/ CheckpointBeforeOutput(g) \/ HandOff(g) \/ OutputStageFails(g)
    \/ OutputExists(g) \/ OutputRefused(g)
    \/ PrepareCase(g) \/ CreateDocument(g) \/ MarkCreated(g) \/ MarkCreatedFails(g)
    \/ PersistOutput(g) \/ MarkUncertain(g)

Conclude(g) == RecordUncertainty(g) \/ FailSource(g) \/ Abandon(g)

Environment ==
    \/ RecoverExpired
    \/ RequestCancellation \/ QueueRetry \/ CheckReconciliation \/ ResolveAttention
    \/ CleanupCheckpoints
    \/ ExpireLease \/ BackoffElapses

Next ==
    \/ \E g \in Generations : Begin(g) \/ Transcribe(g) \/ Deliver(g) \/ Conclude(g)
    \/ Environment

Spec == Init /\ [][Next]_vars

-----------------------------------------------------------------------------
(***************************************************************************)
(* Properties.                                                             *)
(***************************************************************************)

\* The document creation is never repeated: not by a later attempt, a retry of
\* an uncertain outcome, a run that lost its lease, or one that recovery
\* replaced.  Drive offers no idempotency key, the case of the source is all.
OneDocumentPerSource == \A s \in Sources : creates[s] <= 1

\* Every document that exists can be found again.  Whatever step a run died at
\* or lost its lease at, a document without an output has a case that carries
\* its token, an output has exactly one document behind it, and a completed
\* job has an output for every source.
DocumentsAreTraceable ==
    /\ \A s \in Sources : docs[s] > 0 /\ s \notin outputs => UnresolvedCase(s)
    /\ \A s \in outputs : docs[s] = 1 /\ cases[s].status = "resolved"
    /\ job.status = "completed" => outputs = Sources

\* The provider is paid once for a part, and again only for a cost the owner
\* confirmed: no automatic retry, recovery, zombie run or unconfirmed explicit
\* retry sends a part whose earlier call may have been billed.  (Resolving the
\* attention on a job lets its kept parts be deleted; see ResumePaysRemaining.)
PaidOncePerConsent ==
    ~job.attentionResolved =>
        \A s \in Sources, p \in PartIndexes : calls[s][p] <= 1 + consent.given

\* Once an attempt got every part of a source back, no later attempt asks the
\* provider for that source again, even if the kept parts were deleted between
\* the retry that counted on them and its execution.
FullResultNeverRepaid ==
    [][\A s \in Sources : calls'[s] # calls[s] => ~CompleteBefore(s, job.attempts - 1)]_vars

BilledCalls == UNION {{<<s, p, n>> : n \in 1..calls[s][p]} : s \in Sources, p \in PartIndexes}

\* An amount the job calls complete is the number of calls that may have been
\* billed: a call whose answer was lost, in any attempt, keeps it incomplete.
AccountingIsHonest == job.accountingComplete => job.billed = Cardinality(BilledCalls)

\* What sends a job back to the queue without its owner, the automatic retry
\* and the recovery of an expired lease, leaves nothing outside the database
\* in doubt: no source still missing an output has a document or a creation
\* under way, or a possibly billed call whose result is not kept.
UnattendedRequeueIsSafe ==
    [][job.status = "processing" /\ job'.status = "queued" /\ ~job.attentionResolved =>
          \A s \in Missing :
             /\ creates[s] = 0
             /\ ~UnresolvedCase(s)
             /\ \A p \in PartIndexes : p \in checkpoints[s] \/ calls[s][p] <= consent.given]_vars

\* The recognised text of a cancelled job is gone, and no run that was still
\* working when the job was cancelled puts some of it back.
CancelledKeepsNoText ==
    job.status = "cancelled" => \A s \in Sources : checkpoints[s] = {}

\* A job is not left failed with every document delivered while attempts are
\* left: whatever path leads to reconciliation, finding the last document
\* completes the job.  (At the attempt limit recovery writes another code.)
FailedMeansMissing ==
    job.status = "failed" /\ job.attempts < MaxAttempts => Missing # {}

(***************************************************************************)
(* The pipeline implements the lifecycle: every step is a step of          *)
(* JobLifecycle or leaves its variables alone.  A generation plays a       *)
(* worker; a run that ended with its own commit keeps its handle.          *)
(***************************************************************************)
Lifecycle == INSTANCE JobLifecycle WITH
    Workers         <- Generations,
    NoWorker        <- 0,
    status          <- job.status,
    owner           <- IF job.owned THEN job.generation ELSE 0,
    generation      <- job.generation,
    leaseLive       <- job.live,
    cancelRequested <- job.cancelRequested,
    attempts        <- job.attempts,
    deferred        <- job.deferred,
    reconcilable    <- job.error = "output_reconciliation_required",
    handle          <- [g \in Generations |-> IF run[g].step \in {"idle", "gone"} THEN 0 ELSE g]

\* The detailed pipeline keeps every promise of JobLifecycle: what the data of
\* a job makes of a run is always one of the outcomes the lifecycle allows.
ImplementsLifecycle == Lifecycle!Spec

(***************************************************************************)
(* Statements of the documentation the code does not keep.                 *)
(***************************************************************************)

\* docs/runbooks/studio-platform-ops.md: automatic retry accepts the
\* pre-provider accounting boundary; a partial result stays terminal.
PartialResultsStayTerminal ==
    [][job.status = "processing" /\ job'.status = "queued" /\ job'.deferred =>
          \A s \in Missing : Current(s).done = 0]_vars

\* docs/spec/studio.md JOBREL-06: a retry does not repeat provider operations.
\* A resumed job, whose owner confirmed the cost of the remaining parts, pays
\* no part an earlier attempt completed.
ResumePaysRemaining ==
    [][consent.kind = "resume" =>
          \A s \in Sources, p \in PartIndexes :
             calls'[s][p] # calls[s][p] => \A n \in 1..(job.attempts - 1) : att[s][n].done < p]_vars

\* docs/runbooks/studio-platform-ops.md: when a job fails with
\* output_reconciliation_required the owner may query Drive for the document.
ReconciliationIsOffered ==
    job.status = "failed" /\ job.error = "output_reconciliation_required" =>
        \E s \in Sources : cases[s].status \in {"reconciliation_required", "creation_returned",
                                                "conflict", "resolved"}

=============================================================================
