--------------------------- MODULE JobRowSessions ---------------------------
(***************************************************************************)
(* What the job row sees of concurrent database sessions.                  *)
(*                                                                         *)
(* A handler first loads the job (db.get), then locks the row with         *)
(* SELECT ... FOR UPDATE and decides.  The sessions are created with       *)
(* expire_on_commit=False and most of the locking reads lack               *)
(* populate_existing, so the ORM keeps the attributes it loaded first: the *)
(* handler decides on its snapshot, and the UPDATE it flushes writes only  *)
(* the attributes it changed.  Operations of a new session (claim,         *)
(* recovery) and those that ask for populate_existing decide on the locked *)
(* row.  JobLifecycle describes all of them as if they did.                *)
(*                                                                         *)
(* Lease expiry is a set of generations: running holds the generations     *)
(* whose last written lease_expires_at is in the future.  Renewals only    *)
(* move that moment, so a snapshot never sees more time than the row.      *)
(*                                                                         *)
(* An operator whose name says "Mutant" is the definition that follows it  *)
(* with a plausible bug; no action uses it.                                *)
(***************************************************************************)
EXTENDS Naturals, FiniteSets

CONSTANTS
    Workers,         \* lease owner ids
    Requests,        \* API requests of the job's owner, each handled once
    NoWorker,        \* lease_owner_id IS NULL
    MaxAttempts,     \* MAX_PROCESSING_ATTEMPTS
    MaxGeneration    \* bound of the model on lease_generation

ASSUME SessionAssumption ==
    /\ NoWorker \notin Workers
    /\ Workers \cap Requests = {}
    /\ MaxAttempts \in Nat \ {0}
    /\ MaxGeneration \in Nat

Sessions == Workers \cup Requests

VARIABLES
    row,        \* the committed columns of the job
    running,    \* generations whose lease_expires_at lies in the future
    delivered,  \* an output is persisted for every source
    handle,     \* the generation each worker holds, 0 if none
    pc,         \* where each session stands
    snap        \* the attributes each session loaded

vars == <<row, running, delivered, handle, pc, snap>>

Status == {"queued", "processing", "completed", "failed", "cancelled"}

Rows == [status : Status, owner : Workers \cup {NoWorker}, generation : 0..MaxGeneration,
         cancel : BOOLEAN, attempts : 0..MaxGeneration]

WorkerSteps  == {"idle", "claimed", "entering", "working", "acknowledging", "failing"}
RequestSteps == {"new", "cancelling", "retrying", "done"}

TypeOK ==
    /\ row \in Rows
    /\ running \subseteq 1..MaxGeneration
    /\ delivered \in BOOLEAN
    /\ handle \in [Workers -> 0..MaxGeneration]
    /\ \A w \in Workers : pc[w] \in WorkerSteps
    /\ \A r \in Requests : pc[r] \in RequestSteps
    /\ snap \in [Sessions -> Rows]

Init ==
    /\ row = [status |-> "queued", owner |-> NoWorker, generation |-> 0,
              cancel |-> FALSE, attempts |-> 0]
    /\ running = {}
    /\ delivered = FALSE
    /\ handle = [w \in Workers |-> 0]
    /\ pc = [s \in Sessions |-> IF s \in Workers THEN "idle" ELSE "new"]
    /\ snap = [s \in Sessions |-> row]

(***************************************************************************)
(* The session.                                                            *)
(***************************************************************************)

\* The first read of the object in a session.
Load(s) == snap' = [snap EXCEPT ![s] = row]

\* The UPDATE of a flush: an attribute equal to its loaded value is left out.
Written(old, new) == [c \in DOMAIN row |-> IF new[c] = old[c] THEN row[c] ELSE new[c]]

\* The session commits what its handler made of its snapshot.
Commit(s, new) == row' = Written(snap[s], new)

\* is_lease_active on the attributes the session has.
LeaseActive(job) == job.owner # NoWorker /\ job.generation \in running

MutantActiveOwner(job, w) == job.owner = w /\ job.generation = handle[w]

\* _require_active_owner on the attributes the session has.
ActiveOwner(job, w) == LeaseActive(job) /\ job.owner = w /\ job.generation = handle[w]

MutantSameGeneration == IF row.generation = 0 THEN 1 ELSE row.generation

\* _apply_job_lease.
NextGeneration == row.generation + 1

\* A status change that invalidates the lease.
Ended(job, status) == [job EXCEPT !.status = status, !.owner = NoWorker]

Goto(s, step) == pc' = [pc EXCEPT ![s] = step]

\* The worker raises or returns out of the orchestrator.
Leave(w) ==
    /\ Goto(w, "idle")
    /\ handle' = [handle EXCEPT ![w] = 0]

(***************************************************************************)
(* Worker.  Claiming, completing and recovering decide on the locked row.  *)
(***************************************************************************)

Claim(w) ==
    /\ pc[w] = "idle"
    /\ row.status = "queued"
    /\ ~LeaseActive(row)
    /\ row.generation < MaxGeneration
    /\ row' = [row EXCEPT !.generation = NextGeneration, !.owner = w]
    /\ running' = running \cup {NextGeneration}
    /\ handle' = [handle EXCEPT ![w] = NextGeneration]
    /\ Goto(w, "claimed")
    /\ UNCHANGED <<delivered, snap>>

\* _enter_processing up to the call of begin_job_processing.
EnterProcessing(w) ==
    /\ pc[w] = "claimed"
    /\ IF ActiveOwner(row, w) /\ row.status = "queued"
       THEN Load(w) /\ Goto(w, "entering") /\ UNCHANGED handle
       ELSE Leave(w) /\ UNCHANGED snap
    /\ UNCHANGED <<row, running, delivered>>

\* begin_job_processing on the object the orchestrator still references.
BeginProcessing(w) ==
    /\ pc[w] = "entering"
    /\ IF ActiveOwner(snap[w], w) /\ ~snap[w].cancel
       THEN /\ Commit(w, [snap[w] EXCEPT !.status = "processing", !.attempts = @ + 1])
            /\ Goto(w, "working")
            /\ UNCHANGED handle
       ELSE Leave(w) /\ UNCHANGED row
    /\ UNCHANGED <<running, delivered, snap>>

\* _checkpoint, on its own or before a failure, and _record_output_uncertainty
\* expire the session and read the job; what follows uses that reading.
Checkpoint(w) ==
    /\ pc[w] = "working"
    /\ IF row.status = "processing" /\ ActiveOwner(row, w)
       THEN /\ Load(w)
            /\ Goto(w, IF row.cancel THEN "acknowledging" ELSE "failing")
            /\ UNCHANGED handle
       ELSE Leave(w) /\ UNCHANGED snap
    /\ UNCHANGED <<row, running, delivered>>

\* acknowledge_job_cancellation.
AcknowledgeCancellation(w) ==
    /\ pc[w] = "acknowledging"
    /\ IF ActiveOwner(snap[w], w)
       THEN Commit(w, Ended(snap[w], "cancelled"))
       ELSE UNCHANGED row
    /\ Leave(w)
    /\ UNCHANGED <<running, delivered, snap>>

\* fail_job_processing, with or without an automatic retry.
FailProcessing(w) ==
    /\ pc[w] = "failing"
    /\ IF ActiveOwner(snap[w], w)
       THEN \/ Commit(w, Ended(snap[w], "failed"))
            \/ snap[w].attempts < MaxAttempts /\ Commit(w, Ended(snap[w], "queued"))
       ELSE UNCHANGED row
    /\ Leave(w)
    /\ UNCHANGED <<running, delivered, snap>>

\* persist_processing_job_source_output_and_maybe_complete asks for
\* populate_existing.
CompleteProcessing(w) ==
    /\ pc[w] = "working"
    /\ row.status = "processing"
    /\ ActiveOwner(row, w)
    /\ ~row.cancel
    /\ row' = Ended(row, "completed")
    /\ delivered' = TRUE
    /\ Leave(w)
    /\ UNCHANGED <<running, snap>>

WorkerDies(w) ==
    /\ pc[w] # "idle"
    /\ Leave(w)
    /\ UNCHANGED <<row, running, delivered, snap>>

\* recover_expired_processing_job in a new session.
RecoverExpired ==
    /\ row.status = "processing"
    /\ ~LeaseActive(row)
    /\ \/ row.cancel /\ row' = Ended(row, "cancelled")
       \/ ~row.cancel /\ row' = Ended(row, "failed")
       \/ ~row.cancel /\ row.attempts < MaxAttempts /\ row' = Ended(row, "queued")
    /\ UNCHANGED <<running, delivered, handle, pc, snap>>

ExpireLease ==
    /\ \E g \in running : running' = running \ {g}
    /\ UNCHANGED <<row, delivered, handle, pc, snap>>

(***************************************************************************)
(* API requests: owned_job_or_404 loads the job, the service locks it.     *)
(***************************************************************************)

\* owned_job_or_404.
Receive(r) ==
    /\ pc[r] = "new"
    /\ Load(r)
    /\ \/ Goto(r, "cancelling")
       \/ Goto(r, "retrying")
    /\ UNCHANGED <<row, running, delivered, handle>>

\* request_job_cancellation.
RequestCancellation(r) ==
    /\ pc[r] = "cancelling"
    /\ \/ /\ snap[r].status = "queued"
          /\ Commit(r, [Ended(snap[r], "cancelled") EXCEPT !.cancel = FALSE])
       \/ /\ snap[r].status = "processing"
          /\ Commit(r, [snap[r] EXCEPT !.cancel = TRUE])
       \/ /\ snap[r].status \notin {"queued", "processing"}
          /\ UNCHANGED row
    /\ Goto(r, "done")
    /\ UNCHANGED <<running, delivered, handle, snap>>

\* queue_retry; outputs and attempt rows are read afresh, so a job with all
\* its outputs is never requeued, but the job's own columns are the loaded ones.
QueueRetry(r) ==
    /\ pc[r] = "retrying"
    /\ IF /\ snap[r].status = "failed"
          /\ ~snap[r].cancel
          /\ ~LeaseActive(snap[r])
          /\ snap[r].attempts < MaxAttempts
          /\ ~delivered
       THEN Commit(r, Ended(snap[r], "queued"))
       ELSE UNCHANGED row
    /\ Goto(r, "done")
    /\ UNCHANGED <<running, delivered, handle, snap>>

Next ==
    \/ \E w \in Workers :
          \/ Claim(w) \/ EnterProcessing(w) \/ BeginProcessing(w)
          \/ Checkpoint(w) \/ AcknowledgeCancellation(w) \/ FailProcessing(w)
          \/ CompleteProcessing(w) \/ WorkerDies(w)
    \/ \E r \in Requests : Receive(r) \/ RequestCancellation(r) \/ QueueRetry(r)
    \/ RecoverExpired
    \/ ExpireLease

Spec == Init /\ [][Next]_vars

-----------------------------------------------------------------------------
(***************************************************************************)
(* What survives the stale snapshots.                                      *)
(***************************************************************************)

\* Fencing survives: whatever a worker decided on its snapshot, it writes only
\* while its generation is still the row's, because a snapshot never shows a
\* lease that outlives the row's and nobody claims before that lease ends.
WritesAreFenced ==
    [][\A w \in Workers :
          BeginProcessing(w) \/ AcknowledgeCancellation(w) \/ FailProcessing(w) \/ CompleteProcessing(w)
             => row' = row \/ row.generation = handle[w]]_vars

\* The counters survive: a flush that omits what it did not change never
\* winds attempt_count or lease_generation back.
CountersOnlyGrow ==
    [][row'.attempts >= row.attempts /\ row'.generation >= row.generation]_vars

\* A claim still starts at most one attempt, also when a stale retry puts a
\* running job back into the queue under the lease of its run.
OneAttemptPerClaim == row.attempts <= row.generation

(***************************************************************************)
(* What the documentation promises and the snapshots break.                *)
(***************************************************************************)

\* JOBREL-12: a running job is cancelled by way of a request the worker, or
\* recovery, acknowledges at a safe boundary; nobody ends it under the worker.
RunningJobsStopAtCheckpoints ==
    [][row.status = "processing" /\ row'.status = "cancelled" => row.cancel]_vars

\* The processing contract: a terminal job fails closed.  Once cancelled, a
\* job never runs again.
CancelledJobsStayCancelled ==
    [][row.status = "cancelled" => row'.status = "cancelled"]_vars

\* The processing contract: at most MAX_PROCESSING_ATTEMPTS attempts per job.
AttemptLimit == row.attempts <= MaxAttempts

=============================================================================
