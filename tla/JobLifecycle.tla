---------------------------- MODULE JobLifecycle ----------------------------
(***************************************************************************)
(* The lifecycle of one transcription job: its status, its fenced lease    *)
(* and its attempt counter, under any number of worker processes, the      *)
(* owner's cancel and retry requests, automatic retry, recovery of expired *)
(* leases and output reconciliation.                                       *)
(*                                                                         *)
(* Source: job_claim_lease.py, job_processing_lifecycle.py, and the writes *)
(* of job_retry_recovery.py, job_output_persistence.py and                 *)
(* job_output_reconciliation.py to the job row.  Every operation runs in   *)
(* one transaction that holds the row lock of the job, so it is one action *)
(* here.  What the ORM does to a row that the session had already read     *)
(* before taking that lock is the subject of module JobRowSessions.        *)
(*                                                                         *)
(* Which outcome the data of the job allows (an output for every source, a *)
(* retry-safe attempt) is chosen nondeterministically; module JobPipeline  *)
(* models that data and implements this specification.                     *)
(*                                                                         *)
(* The clock is abstracted to leaseLive: ExpireLease is the moment         *)
(* lease_expires_at passes.  Renewals move that moment and are invisible.  *)
(***************************************************************************)
EXTENDS Naturals

CONSTANTS
    Workers,         \* lease owner ids (one per worker process)
    NoWorker,        \* lease_owner_id IS NULL
    MaxAttempts,     \* MAX_PROCESSING_ATTEMPTS
    MaxGeneration    \* bound of the model on lease_generation

ASSUME WorkersAssumption == NoWorker \notin Workers
ASSUME BoundsAssumption  == MaxAttempts \in Nat \ {0} /\ MaxGeneration \in Nat

VARIABLES
    status,            \* TranscriptionJob.status
    owner,             \* lease_owner_id
    generation,        \* lease_generation
    leaseLive,         \* lease_expires_at is set and in the future
    cancelRequested,   \* cancel_requested_at is set
    attempts,          \* attempt_count
    deferred,          \* retry_not_before_at is in the future
    reconcilable,      \* error_code = "output_reconciliation_required"
    handle             \* the generation each worker believes it holds, 0 if none

vars == <<status, owner, generation, leaseLive, cancelRequested, attempts,
          deferred, reconcilable, handle>>

Status == {"queued", "processing", "completed", "failed", "cancelled"}

TypeOK ==
    /\ status \in Status
    /\ owner \in Workers \cup {NoWorker}
    /\ generation \in Nat
    /\ leaseLive \in BOOLEAN
    /\ cancelRequested \in BOOLEAN
    /\ attempts \in Nat
    /\ deferred \in BOOLEAN
    /\ reconcilable \in BOOLEAN
    /\ handle \in [Workers -> Nat]

Init ==
    /\ status = "queued"
    /\ owner = NoWorker
    /\ generation = 0
    /\ leaseLive = FALSE
    /\ cancelRequested = FALSE
    /\ attempts = 0
    /\ deferred = FALSE
    /\ reconcilable = FALSE
    /\ handle = [w \in Workers |-> 0]

(***************************************************************************)
(* Helpers of the source.  An operator whose name says "Mutant" is the     *)
(* helper that follows it with a plausible bug; no action uses it.         *)
(***************************************************************************)

\* _require_active_owner: the handle is the current one and the lease runs.
ActiveOwner(w) ==
    /\ owner = w
    /\ handle[w] = generation
    /\ leaseLive

\* invalidate_job_lease: owner and expiry are cleared, the generation stays.
InvalidateLease ==
    /\ owner' = NoWorker
    /\ leaseLive' = FALSE

KeepLease == UNCHANGED <<owner, leaseLive>>

MutantSameGeneration == IF generation = 0 THEN 1 ELSE generation

\* _apply_job_lease: the token of the next claim.
NextGeneration == generation + 1

MutantAttemptsLeft == attempts <= MaxAttempts

\* The attempt limit every path back to the queue consults; beginning an
\* attempt does not.
AttemptsLeft == attempts < MaxAttempts

\* _processing_job: the guard of every operation that ends a run.
InProcessing == status = "processing"

MutantNoCancelPending == TRUE

\* The check of cancel_requested_at before a run is continued or concluded.
NoCancelPending == ~cancelRequested

MutantOnlyUnleased == owner = NoWorker
MutantSkipsCancelled == ~leaseLive /\ ~cancelRequested

\* not is_lease_active, the selection of recover_expired_worker_jobs.
LeaseExpired == ~leaseLive

(***************************************************************************)
(* Worker actions.                                                         *)
(***************************************************************************)

\* acquire_next_ready_job_lease and the commit that follows it.
Claim(w) ==
    /\ handle[w] = 0
    /\ status = "queued"
    /\ ~deferred
    /\ ~leaseLive
    /\ generation < MaxGeneration
    /\ generation' = NextGeneration
    /\ owner' = w
    /\ leaseLive' = TRUE
    /\ handle' = [handle EXCEPT ![w] = NextGeneration]
    /\ UNCHANGED <<status, cancelRequested, attempts, deferred, reconcilable>>

\* begin_job_processing.
BeginProcessing(w) ==
    /\ status = "queued"
    /\ ActiveOwner(w)
    /\ NoCancelPending
    /\ status' = "processing"
    /\ attempts' = attempts + 1
    /\ deferred' = FALSE
    /\ reconcilable' = FALSE
    /\ KeepLease
    /\ UNCHANGED <<generation, cancelRequested, handle>>

\* acknowledge_job_cancellation at a checkpoint of the orchestrator.
AcknowledgeCancellation(w) ==
    /\ InProcessing
    /\ cancelRequested
    /\ ActiveOwner(w)
    /\ status' = "cancelled"
    /\ InvalidateLease
    /\ UNCHANGED <<generation, cancelRequested, attempts, deferred, reconcilable, handle>>

\* persist_processing_job_source_output_and_maybe_complete, last output.
CompleteProcessing(w) ==
    /\ InProcessing
    /\ ActiveOwner(w)
    /\ NoCancelPending
    /\ status' = "completed"
    /\ reconcilable' = FALSE
    /\ InvalidateLease
    /\ UNCHANGED <<generation, cancelRequested, attempts, deferred, handle>>

\* fail_job_processing: either schedule_automatic_retry_if_safe puts the job
\* back with a backoff, or the failure is terminal.
FailProcessing(w) ==
    /\ InProcessing
    /\ ActiveOwner(w)
    /\ NoCancelPending
    /\ \/ /\ AttemptsLeft
          /\ status' = "queued"
          /\ deferred' = TRUE
          /\ reconcilable' = FALSE
       \/ /\ status' = "failed"
          /\ reconcilable' \in BOOLEAN
          /\ UNCHANGED deferred
    /\ InvalidateLease
    /\ UNCHANGED <<generation, cancelRequested, attempts, handle>>

\* The worker process dies, or orchestration raised or returned: what it held
\* in memory is gone, the row is untouched.
Abandon(w) ==
    /\ handle[w] # 0
    /\ handle' = [handle EXCEPT ![w] = 0]
    /\ UNCHANGED <<status, owner, generation, leaseLive, cancelRequested, attempts,
                   deferred, reconcilable>>

(***************************************************************************)
(* The recovery pass at the head of every worker iteration.                *)
(***************************************************************************)

\* recover_expired_processing_job.
RecoverExpired ==
    /\ InProcessing
    /\ LeaseExpired
    /\ \/ /\ cancelRequested
          /\ status' = "cancelled"
          /\ UNCHANGED <<deferred, reconcilable>>
       \/ /\ NoCancelPending
          /\ status' = "completed"
          /\ reconcilable' = FALSE
          /\ UNCHANGED deferred
       \/ /\ NoCancelPending
          /\ AttemptsLeft
          /\ status' = "queued"
          /\ deferred' = FALSE
          /\ reconcilable' = FALSE
       \/ /\ NoCancelPending
          /\ status' = "failed"
          /\ reconcilable' \in BOOLEAN
          /\ UNCHANGED deferred
    /\ InvalidateLease
    /\ UNCHANGED <<generation, cancelRequested, attempts, handle>>

(***************************************************************************)
(* Requests of the job's owner.                                            *)
(***************************************************************************)

\* request_job_cancellation.
RequestCancellation ==
    \/ /\ status = "queued"
       /\ status' = "cancelled"
       /\ cancelRequested' = FALSE
       /\ InvalidateLease
       /\ UNCHANGED <<generation, attempts, deferred, reconcilable, handle>>
    \/ /\ InProcessing
       /\ NoCancelPending
       /\ cancelRequested' = TRUE
       /\ KeepLease
       /\ UNCHANGED <<status, generation, attempts, deferred, reconcilable, handle>>

\* queue_retry: the explicit retry of a failed job.
QueueRetry ==
    /\ status = "failed"
    /\ NoCancelPending
    /\ ~leaseLive
    /\ AttemptsLeft
    /\ status' = "queued"
    /\ deferred' = FALSE
    /\ reconcilable' = FALSE
    /\ InvalidateLease
    /\ UNCHANGED <<generation, cancelRequested, attempts, handle>>

\* persist_verified_reconciliation_output: the last missing output of a job
\* that failed for reconciliation was found in Drive.
CompleteByReconciliation ==
    /\ status = "failed"
    /\ reconcilable
    /\ status' = "completed"
    /\ reconcilable' = FALSE
    /\ UNCHANGED <<owner, generation, leaseLive, cancelRequested, attempts, deferred, handle>>

(***************************************************************************)
(* Time.                                                                   *)
(***************************************************************************)

\* Whether somebody is left to renew the lease.
Held == \E w \in Workers : owner = w /\ handle[w] = generation

\* lease_expires_at passes although the holder is alive: it was too slow.
ExpireHeldLease ==
    /\ leaseLive
    /\ Held
    /\ leaseLive' = FALSE
    /\ UNCHANGED <<status, owner, generation, cancelRequested, attempts, deferred,
                   reconcilable, handle>>

\* lease_expires_at passes after the holder is gone.
ExpireOrphanLease ==
    /\ leaseLive
    /\ ~Held
    /\ leaseLive' = FALSE
    /\ UNCHANGED <<status, owner, generation, cancelRequested, attempts, deferred,
                   reconcilable, handle>>

\* retry_not_before_at passes.
BackoffElapses ==
    /\ deferred
    /\ deferred' = FALSE
    /\ UNCHANGED <<status, owner, generation, leaseLive, cancelRequested, attempts,
                   reconcilable, handle>>

Work(w) ==
    \/ AcknowledgeCancellation(w)
    \/ CompleteProcessing(w)
    \/ FailProcessing(w)
    \/ Abandon(w)

Next ==
    \/ \E w \in Workers : Claim(w) \/ BeginProcessing(w) \/ Work(w)
    \/ RecoverExpired
    \/ RequestCancellation
    \/ QueueRetry
    \/ CompleteByReconciliation
    \/ ExpireHeldLease
    \/ ExpireOrphanLease
    \/ BackoffElapses

Spec == Init /\ [][Next]_vars

(***************************************************************************)
(* Fairness.  A worker that holds the job ends its run one way or another  *)
(* (the orchestrator has no unbounded loop and every external call has a   *)
(* timeout) or its process is gone, which is Abandon.  A lease nobody      *)
(* renews runs out.  The worker loop runs recovery before every claim.     *)
(* Nothing is assumed of the owner, of Claim or of a held lease.           *)
(***************************************************************************)
Fairness ==
    /\ \A w \in Workers : WF_vars(Work(w))
    /\ WF_vars(ExpireOrphanLease)
    /\ WF_vars(RecoverExpired)

FairSpec == Spec /\ Fairness

-----------------------------------------------------------------------------
(***************************************************************************)
(* Properties.                                                             *)
(***************************************************************************)

\* MAX_PROCESSING_ATTEMPTS is a budget on paid work, yet begin_job_processing
\* increments attempt_count without looking at it: the budget holds only
\* because every path back to the queue leaves an attempt to spend.
AttemptBudget ==
    /\ attempts <= MaxAttempts
    /\ status = "queued" => attempts < MaxAttempts

\* One claim starts at most one attempt.  Attempt rows, provider usage and
\* outputs are keyed by attempt and generation: a requeue that kept the lease
\* of the failed run would let the same handle start a second attempt.
OneAttemptPerClaim ==
    /\ attempts <= generation
    /\ status = "queued" /\ owner # NoWorker => attempts < generation

\* Lease handles are fencing tokens: a worker left over from an earlier claim
\* never shares a generation with another worker, none is ahead of the row,
\* and whoever holds the row's generation is the owner the row names.
FencingTokens ==
    /\ \A w \in Workers : handle[w] <= generation
    /\ \A v, w \in Workers : handle[v] = handle[w] /\ handle[v] # 0 => v = w
    /\ \A w \in Workers : handle[w] = generation /\ owner # NoWorker => owner = w

\* The lease columns agree with the status: a processing job always names an
\* owner (or recovery could not tell whose run it ends), a finished job never
\* does, and a pending cancellation belongs to a running or a cancelled job.
LeaseMatchesStatus ==
    /\ leaseLive => owner # NoWorker
    /\ status = "processing" => owner # NoWorker
    /\ status \in {"completed", "failed", "cancelled"} => owner = NoWorker
    /\ cancelRequested => status \in {"processing", "cancelled"}

\* A cancellation the owner was told is pending always wins: whatever the
\* worker, a zombie worker, recovery or a retry do afterwards, the run ends
\* cancelled and the job never completes, fails or returns to the queue.
CancellationWins ==
    [][cancelRequested => cancelRequested' /\ status' \in {"processing", "cancelled"}]_vars

\* A finished job stays finished: completed and cancelled are final, and a
\* failed job only leaves by an explicit retry or by a reconciled output.
\* Late writes of zombie workers and late recoveries may not resurrect it.
FinishedStaysFinished ==
    [][/\ status \in {"completed", "cancelled"} => status' = status
       /\ status = "failed" => status' \in {"failed", "queued", "completed"}]_vars

\* A requested cancellation takes effect even if the worker dies or stalls.
CancellationTakesEffect == cancelRequested ~> status = "cancelled"

\* No run lasts for ever: a job whose worker died, or lost its lease, leaves
\* processing without help.
RunsEnd == status = "processing" ~> status # "processing"

=============================================================================
