---------------------------- MODULE SourceAttempts ----------------------------
(***************************************************************************)
(* The attempt ledger of one job source: the row a processing attempt      *)
(* keeps about the paid provider call, its legal transitions and the       *)
(* evidence a later retry reads from it.                                   *)
(*                                                                         *)
(* Source: job_retry_recovery.py (transitions, classification),            *)
(* provider_part_checkpoints.py (complete_provider_attempt,                *)
(* checkpoint_resume_count).                                               *)
(*                                                                         *)
(* An operator whose name begins with "Mutant" is a variant, with a        *)
(* plausible bug, of the definition that follows it; nothing uses it.      *)
(*                                                                         *)
(* Failure codes stand for the classes the code distinguishes; each class  *)
(* is named after one of its codes.                                        *)
(***************************************************************************)
EXTENDS Naturals

CONSTANT Parts    \* media parts of a source, sent to the provider one by one

ASSUME PartsAssumption == Parts \in Nat \ {0}

PartIndexes == 1..Parts

Stage == {"none", "prepared", "provider_request_started", "provider_response_returned",
          "google_handoff", "output_persisted", "failed"}

Disposition == {"undetermined", "retry_safe", "provider_outcome_uncertain",
                "provider_result_lost", "output_reconciliation_required",
                "non_retryable", "completed"}

ProviderRejections == {"provider_rate_limited", "provider_request_rejected"}

MutantSafePreTransport ==
    ProviderRejections \cup {"provider_usage_accounting_unavailable", "provider_timeout"}

\* SAFE_PRE_TRANSPORT_FAILURES
SafePreTransport == ProviderRejections \cup {"provider_usage_accounting_unavailable"}

\* PRE_PROVIDER_SAFE_FAILURES, as far as they are classified before the call
PreProviderSafe == {"media_preparation_timeout", "media_preparation_failed",
                    "provider_usage_accounting_unavailable"}

\* AUTOMATIC_RETRY_TRANSIENT_FAILURES
AutomaticRetryTransient == {"media_preparation_timeout", "provider_rate_limited",
                            "provider_usage_accounting_unavailable"}

Uncertainties == {"provider_timeout", "provider_usage_outcome_uncertain",
                  "malformed_provider_response", "partial_provider_result"}

FailureCode == {"none", "existing_result_conflict", "output_uncertain"}
                  \cup SafePreTransport \cup PreProviderSafe \cup Uncertainties

Accounting == {"none", "pending", "confirmed", "uncertain"}

Row == [stage : Stage, disposition : Disposition, code : FailureCode,
        providerCode : FailureCode, started : BOOLEAN, returned : BOOLEAN,
        total : {0, Parts}, done : 0..Parts, accounting : Accounting]

NoRow == [stage |-> "none", disposition |-> "undetermined", code |-> "none",
          providerCode |-> "none", started |-> FALSE, returned |-> FALSE,
          total |-> 0, done |-> 0, accounting |-> "none"]

(***************************************************************************)
(* Transitions.                                                            *)
(***************************************************************************)

\* prepare_current_attempt_sources.
PreparedRow == [NoRow EXCEPT !.stage = "prepared"]

\* mark_attempt_provider_started, with `held` parts restored from checkpoints.
CanStart(row) == row.stage \in {"prepared", "provider_request_started"}
StartedRow(row, held) ==
    [row EXCEPT !.stage = "provider_request_started", !.disposition = "undetermined",
                !.started = TRUE, !.total = Parts, !.done = held]

\* mark_attempt_provider_part_completed.
CanCompletePart(row, part) ==
    row.stage = "provider_request_started" /\ row.done = part - 1
PartCompletedRow(row, part) == [row EXCEPT !.done = part]

\* mark_attempt_provider_returned.
CanReturn(row) == row.stage \in {"provider_request_started", "provider_response_returned"}
ReturnedRow(row) ==
    [row EXCEPT !.stage = "provider_response_returned", !.disposition = "provider_result_lost",
                !.returned = TRUE, !.done = row.total]

\* mark_attempt_google_handoff.
CanHandOff(row) == row.stage \in {"provider_response_returned", "google_handoff"}
HandedOffRow(row) ==
    [row EXCEPT !.stage = "google_handoff", !.disposition = "provider_result_lost"]

\* mark_attempt_completed and mark_latest_attempt_completed_for_output.
CanComplete(row) ==
    row.stage \in {"google_handoff", "output_persisted", "provider_response_returned"}
CompletedRow(row) == [row EXCEPT !.stage = "output_persisted", !.disposition = "completed"]

\* mark_attempt_output_reconciliation_required.
OutputUncertainRow(row) ==
    IF row.stage = "none" \/ row.disposition = "completed"
    THEN row
    ELSE [row EXCEPT !.code = "output_uncertain",
                     !.disposition = "output_reconciliation_required"]

FailureDisposition(row, code) ==
    IF code \in SafePreTransport \/ (~row.started /\ code \in PreProviderSafe)
    THEN "retry_safe"
    ELSE IF row.returned THEN "provider_result_lost"
    ELSE IF row.started THEN "provider_outcome_uncertain"
    ELSE "non_retryable"

\* classify_source_attempt_failure, on the row of a fenced run.
ClassifiedRow(row, code, providerCode) ==
    IF row.disposition = "completed"
    THEN row
    ELSE [row EXCEPT !.stage = "failed", !.code = code,
                     !.disposition = FailureDisposition(row, code),
                     !.providerCode = IF providerCode = "none" /\ code = "partial_provider_result"
                                      THEN row.providerCode
                                      ELSE providerCode]

\* mark_pending_provider_usage_uncertain.
UsageUncertainRow(row) ==
    IF row.accounting = "pending" THEN [row EXCEPT !.accounting = "uncertain"] ELSE row

(***************************************************************************)
(* Evidence.                                                               *)
(***************************************************************************)

\* complete_provider_attempt: every part of this attempt came back.
CompleteRow(row) == row.total >= 1 /\ row.done = row.total

\* checkpoint_resume_count: the checkpoints are exactly the completed parts.
ResumeCount(row, checkpoints) ==
    IF row.total >= 1 /\ row.done > 0 /\ checkpoints = 1..row.done THEN row.done ELSE 0

\* _confirmed_uncheckpointed_partial_result.
ConfirmedWithoutCheckpoint(row, checkpoints) ==
    /\ row.total > 1
    /\ row.done = 0
    /\ row.accounting = "confirmed"
    /\ checkpoints = {}

MutantNothingSent(row) == row.done = 0 /\ ~row.returned

\* The provider was not asked for anything in this attempt.
NothingSent(row) == row.stage = "prepared" /\ ~row.started

\* What an explicit retry, or recovery, may conclude from the row of the
\* current attempt when no attempt of the source is complete.
RowVerdict(row, checkpoints, explicit, prepareFailed) ==
    CASE row.stage = "none" ->
            IF prepareFailed THEN "safe" ELSE "legacy_or_unknown_execution_state"
      [] row.stage # "none" /\ NothingSent(row) -> "safe"
      [] row.disposition = "retry_safe" /\ (~row.started \/ row.code \in SafePreTransport) -> "safe"
      [] row.code = "partial_provider_result" /\ row.disposition # "retry_safe" ->
            IF explicit /\ ResumeCount(row, checkpoints) > 0 THEN "resume"
            ELSE IF explicit /\ (\/ row.providerCode \in ProviderRejections
                                 \/ ConfirmedWithoutCheckpoint(row, checkpoints))
            THEN "restart"
            ELSE "provider_outcome_uncertain"
      [] OTHER ->
            IF row.disposition = "provider_outcome_uncertain" \/ row.stage = "provider_request_started"
            THEN "provider_outcome_uncertain"
            ELSE IF row.disposition = "provider_result_lost"
                    \/ row.stage \in {"provider_response_returned", "google_handoff"}
            THEN "provider_result_lost"
            ELSE IF row.disposition = "output_reconciliation_required"
            THEN "output_reconciliation_required"
            ELSE "non_retryable"

SafeVerdicts == {"safe", "cached", "resume", "restart"}

\* The two kinds of rows schedule_automatic_retry_if_safe accepts.
TransientFailure(row) ==
    /\ row.disposition = "retry_safe"
    /\ (IF row.providerCode = "none" THEN row.code ELSE row.providerCode)
          \in AutomaticRetryTransient

UntouchedRow(row) == row.stage = "prepared" /\ ~row.started /\ row.code = "none"

=============================================================================
