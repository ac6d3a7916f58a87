------------------------- MODULE CatalogGateProofs -------------------------
(***************************************************************************)
(* OnePaidCall, NothingPaidTwice and DuplicatesHaveACause for every number *)
(* of jobs, every set of source rows and every number of attempts.         *)
(*                                                                         *)
(* The argument: a job between the gate and its paid call holds every row  *)
(* of its recording (GateHoldsRows), so no equivalent job passes the gate  *)
(* or persists an output meanwhile; what it saw at the gate is therefore   *)
(* still so when it calls (GateSawTheOthers, GateSawOutputs).  A job that  *)
(* waits for the provider shows a started, undetermined attempt until its  *)
(* answer is in (JobInvariant), so the gate cannot overlook it, and none   *)
(* of the owner's requests can turn that attempt into another.             *)
(*                                                                         *)
(* For the documents the same is followed one step further, from the call  *)
(* to the delivery (DeliveryInvariant).                                    *)
(***************************************************************************)
EXTENDS CatalogGate, TLAPS

\* The steps of a run before the provider answered.
BeforeTheResult == {"preparing", "locking", "gated", "calling"}

\* One job alone: only existing jobs run and deliver; a queued job has an attempt
\* left; a case belongs to a delivery and a complete result to a later step; a run
\* that calls has a started attempt nobody classified.
JobInvariant(j) ==
    /\ step[j] # "idle" \/ Delivered(j) => Exists(j)
    /\ job[j].status \in {"absent", "queued"} => job[j].attempts < MaxAttempts
    /\ document[j].case => /\ job[j].status \notin {"absent", "queued"}
                          /\ step[j] \in {"idle", "creating", "failing"}
    /\ attempt[j].complete => step[j] \notin BeforeTheResult
    /\ step[j] = "calling" =>
           attempt[j].started /\ attempt[j].disposition = "undetermined"

\* A job between the gate and the call holds all rows of its recording.
GateHoldsRows ==
    \A j \in Jobs : step[j] = "gated" =>
        \A r \in IdentityRows(job[j].row) : lock[r] = j

\* It found no equivalent call, except one the owner had written off.
GateSawTheOthers ==
    \A j, k \in Jobs :
        Competing(j, k) /\ step[j] = "gated" /\ step[k] = "calling" => Acknowledged(k)

\* It found no accepted output, unless it may repeat, or reconciliation finds one.
GateSawOutputs ==
    \A j, k \in Jobs :
        Competing(j, k) /\ step[j] = "gated" /\ AcceptedOutput(k) /\ ~job[j].approved =>
            document[k].origin = "found"

\* The inductive invariant.
GateInvariant ==
    /\ TypeOK
    /\ \A j \in Jobs : JobInvariant(j)
    /\ GateHoldsRows
    /\ GateSawTheOthers
    /\ GateSawOutputs
    /\ OnePaidCall

(***************************************************************************)
(* What a write changes.                                                   *)
(***************************************************************************)

OnlyJob(j) == job' \in [Jobs -> Job] /\ \A k \in Jobs \ {j} : job'[k] = job[k]
OnlyAttempt(j) ==
    attempt' \in [Jobs -> Attempt] /\ \A k \in Jobs \ {j} : attempt'[k] = attempt[k]
OnlyDocument(j) ==
    document' \in [Jobs -> Document] /\ \A k \in Jobs \ {j} : document'[k] = document[k]

SameRecording(j) ==
    /\ job'[j].row = job[j].row
    /\ job'[j].settings = job[j].settings
    /\ job'[j].approved = job[j].approved
SameRun(j) == job'[j].attempts = job[j].attempts

\* A new status.
LEMMA EndedWrites ==
    ASSUME job \in [Jobs -> Job], NEW j \in Jobs, NEW status \in Status, Ended(j,
           status)
    PROVE  OnlyJob(j) /\ SameRecording(j) /\ SameRun(j)
           /\ job'[j].status = status /\ job'[j].resolution = job[j].resolution
<1> DEFINE written == [job[j] EXCEPT !.status = status, !.live = FALSE]
<1>1. /\ written \in Job
      /\ written.row = job[j].row /\ written.settings = job[j].settings
      /\ written.approved = job[j].approved
      /\ written.attempts = job[j].attempts
      /\ written.status = status /\ written.resolution = job[j].resolution
  BY DEF Job, Status, Resolution
<1>2. job' = [job EXCEPT ![j] = written]
  BY DEF Ended
<1> HIDE DEF written
<1>3. /\ job' \in [Jobs -> Job]
      /\ job'[j] = written
      /\ \A k \in Jobs \ {j} : job'[k] = job[k]
  BY <1>1, <1>2
<1> QED
  BY <1>1, <1>3 DEF OnlyJob, SameRecording, SameRun

\* The lease runs out.
LEMMA ExpireLeaseWrites ==
    ASSUME job \in [Jobs -> Job], NEW j \in Jobs, ExpireLease(j)
    PROVE  OnlyJob(j) /\ SameRecording(j) /\ SameRun(j)
           /\ job'[j].status = job[j].status /\ job'[j].resolution = job[j].resolution
<1> DEFINE written == [job[j] EXCEPT !.live = FALSE]
<1>1. /\ written \in Job
      /\ written.row = job[j].row /\ written.settings = job[j].settings
      /\ written.approved = job[j].approved
      /\ written.attempts = job[j].attempts
      /\ written.status = job[j].status /\ written.resolution = job[j].resolution
  BY DEF Job, Status, Resolution
<1>2. job' = [job EXCEPT ![j] = written]
  BY DEF ExpireLease
<1> HIDE DEF written
<1>3. /\ job' \in [Jobs -> Job]
      /\ job'[j] = written
      /\ \A k \in Jobs \ {j} : job'[k] = job[k]
  BY <1>1, <1>2
<1> QED
  BY <1>1, <1>3 DEF OnlyJob, SameRecording, SameRun

\* The decision of the owner.
LEMMA ResolveAttentionWrites ==
    ASSUME job \in [Jobs -> Job], NEW j \in Jobs, NEW resolution \in Resolution,
           ResolveAttention(j, resolution)
    PROVE  OnlyJob(j) /\ SameRecording(j) /\ SameRun(j) /\ job'[j].status = job[j].status
<1> DEFINE written == [job[j] EXCEPT !.resolution = resolution]
<1>1. /\ written \in Job
      /\ written.row = job[j].row /\ written.settings = job[j].settings
      /\ written.approved = job[j].approved
      /\ written.attempts = job[j].attempts
      /\ written.status = job[j].status
  BY DEF Job, Status, Resolution
<1>2. job' = [job EXCEPT ![j] = written]
  BY DEF ResolveAttention
<1> HIDE DEF written
<1>3. /\ job' \in [Jobs -> Job]
      /\ job'[j] = written
      /\ \A k \in Jobs \ {j} : job'[k] = job[k]
  BY <1>1, <1>2
<1> QED
  BY <1>1, <1>3 DEF OnlyJob, SameRecording, SameRun

\* A run begins.
LEMMA BeginWrites ==
    ASSUME job \in [Jobs -> Job], NEW j \in Jobs, job[j].attempts < MaxAttempts,
           Begin(j)
    PROVE  OnlyJob(j) /\ SameRecording(j) /\ job'[j].status = "processing"
<1> DEFINE written == [job[j] EXCEPT !.status = "processing",
   !.attempts = job[j].attempts + 1,
                               !.live = TRUE]
<1>0. job[j] \in Job /\ job[j].attempts + 1 \in 0..MaxAttempts
  <2>1. job[j] \in Job
    OBVIOUS
  <2>2. job[j].attempts \in 0..MaxAttempts
    BY <2>1 DEF Job
  <2> QED
    BY <2>1, <2>2, CatalogAssumption
<1>1. /\ written \in Job
      /\ written.row = job[j].row /\ written.settings = job[j].settings
      /\ written.approved = job[j].approved
      /\ written.status = "processing"
  BY <1>0 DEF Job, Status, Resolution
<1>2. job' = [job EXCEPT ![j] = written]
  BY DEF Begin
<1> HIDE DEF written
<1>3. /\ job' \in [Jobs -> Job]
      /\ job'[j] = written
      /\ \A k \in Jobs \ {j} : job'[k] = job[k]
  BY <1>1, <1>2
<1> QED
  BY <1>1, <1>3 DEF OnlyJob, SameRecording, SameRun

\* A job is created.
LEMMA CreatedWrites ==
    ASSUME job \in [Jobs -> Job], NEW j \in Jobs, NEW row \in Rows,
           NEW settings \in Settings, NEW approved \in BOOLEAN,
           Created(j, row, settings, approved)
    PROVE  OnlyJob(j) /\ SameRun(j) /\ job'[j].status = "queued"
<1> DEFINE written == [job[j] EXCEPT !.status = "queued", !.row = row,
                               !.settings = settings, !.approved = approved]
<1>1. /\ written \in Job
      /\ written.attempts = job[j].attempts
      /\ written.status = "queued"
  BY DEF Job, Status, Resolution
<1>2. job' = [job EXCEPT ![j] = written]
  BY DEF Created
<1> HIDE DEF written
<1>3. /\ job' \in [Jobs -> Job]
      /\ job'[j] = written
      /\ \A k \in Jobs \ {j} : job'[k] = job[k]
  BY <1>1, <1>2
<1> QED
  BY <1>1, <1>3 DEF OnlyJob, SameRecording, SameRun

\* A classification.
LEMMA SetDispositionWrites ==
    ASSUME attempt \in [Jobs -> Attempt], NEW j \in Jobs, NEW d \in Disposition,
           SetDisposition(j, d)
    PROVE  OnlyAttempt(j) /\ attempt'[j].complete = attempt[j].complete
<1> DEFINE written == [attempt[j] EXCEPT !.disposition = d]
<1>1. /\ written \in Attempt
      /\ written.complete = attempt[j].complete
  BY DEF Attempt, Disposition
<1>2. attempt' = [attempt EXCEPT ![j] = written]
  BY DEF SetDisposition
<1> HIDE DEF written
<1>3. /\ attempt' \in [Jobs -> Attempt]
      /\ attempt'[j] = written
      /\ \A k \in Jobs \ {j} : attempt'[k] = attempt[k]
  BY <1>1, <1>2
<1> QED
  BY <1>1, <1>3 DEF OnlyAttempt

\* A new attempt row.
LEMMA NewRunWrites ==
    ASSUME attempt \in [Jobs -> Attempt], NEW j \in Jobs, Begin(j)
    PROVE  OnlyAttempt(j) /\ attempt'[j].complete = attempt[j].complete
<1> DEFINE written == [attempt[j] EXCEPT !.started = FALSE,
   !.disposition = "undetermined",
                                   !.restored = FALSE, !.earlier = Evidence(j)]
<1>0. attempt[j] \in Attempt /\ Evidence(j) \in SUBSET Disposition
  BY DEF Evidence, Attempt
<1>1. /\ written \in Attempt
      /\ written.complete = attempt[j].complete
  BY <1>0 DEF Attempt, Disposition
<1>2. attempt' = [attempt EXCEPT ![j] = written]
  BY DEF Begin
<1> HIDE DEF written
<1>3. /\ attempt' \in [Jobs -> Attempt]
      /\ attempt'[j] = written
      /\ \A k \in Jobs \ {j} : attempt'[k] = attempt[k]
  BY <1>1, <1>2
<1> QED
  BY <1>1, <1>3 DEF OnlyAttempt

\* A restored result.
LEMMA RestoreWrites ==
    ASSUME attempt \in [Jobs -> Attempt], NEW j \in Jobs, Restore(j)
    PROVE  OnlyAttempt(j) /\ attempt'[j].complete = attempt[j].complete
<1> DEFINE written == [attempt[j] EXCEPT !.started = TRUE, !.restored = TRUE,
                                   !.disposition = "provider_result_lost"]
<1>1. /\ written \in Attempt
      /\ written.complete = attempt[j].complete
  BY ZenonT(30) DEF Attempt, Disposition
<1>2. attempt' = [attempt EXCEPT ![j] = written]
  BY DEF Restore
<1> HIDE DEF written
<1>3. /\ attempt' \in [Jobs -> Attempt]
      /\ attempt'[j] = written
      /\ \A k \in Jobs \ {j} : attempt'[k] = attempt[k]
  BY <1>1, <1>2
<1> QED
  BY <1>1, <1>3 DEF OnlyAttempt

\* The start of the paid call.
LEMMA MarkStartedWrites ==
    ASSUME attempt \in [Jobs -> Attempt], NEW j \in Jobs, MarkStarted(j)
    PROVE  OnlyAttempt(j) /\ attempt'[j].complete = attempt[j].complete /\ attempt'[j].started
           /\ attempt'[j].disposition = "undetermined"
<1> DEFINE written == [attempt[j] EXCEPT !.started = TRUE,
   !.disposition = "undetermined"]
<1>1. /\ written \in Attempt
      /\ written.complete = attempt[j].complete /\ written.started
      /\ written.disposition = "undetermined"
  BY DEF Attempt, Disposition
<1>2. attempt' = [attempt EXCEPT ![j] = written]
  BY DEF MarkStarted
<1> HIDE DEF written
<1>3. /\ attempt' \in [Jobs -> Attempt]
      /\ attempt'[j] = written
      /\ \A k \in Jobs \ {j} : attempt'[k] = attempt[k]
  BY <1>1, <1>2
<1> QED
  BY <1>1, <1>3 DEF OnlyAttempt

\* The last part of the answer.
LEMMA AnswerWrites ==
    ASSUME attempt \in [Jobs -> Attempt], NEW j \in Jobs, NEW d \in Disposition,
           attempt' = [attempt EXCEPT ![j].complete = TRUE, ![j].disposition = d]
    PROVE  OnlyAttempt(j)
<1> DEFINE written == [attempt[j] EXCEPT !.complete = TRUE, !.disposition = d]
<1>1. written \in Attempt
  BY ZenonT(30) DEF Attempt, Disposition
<1>2. attempt' = [attempt EXCEPT ![j] = written]
  OBVIOUS
<1> HIDE DEF written
<1>3. /\ attempt' \in [Jobs -> Attempt]
      /\ attempt'[j] = written
      /\ \A k \in Jobs \ {j} : attempt'[k] = attempt[k]
  BY <1>1, <1>2
<1> QED
  BY <1>1, <1>3 DEF OnlyAttempt

\* An output.
LEMMA OriginWrites ==
    ASSUME document \in [Jobs -> Document], NEW j \in Jobs, NEW o \in Origin,
           document' = [document EXCEPT ![j].origin = o]
    PROVE  OnlyDocument(j) /\ document'[j].case = document[j].case
           /\ document'[j].origin = o /\ document'[j].hidden = document[j].hidden
<1> DEFINE written == [document[j] EXCEPT !.origin = o]
<1>1. /\ written \in Document
      /\ written.case = document[j].case /\ written.origin = o
      /\ written.hidden = document[j].hidden
  BY DEF Document, Origin
<1>2. document' = [document EXCEPT ![j] = written]
  OBVIOUS
<1> HIDE DEF written
<1>3. /\ document' \in [Jobs -> Document]
      /\ document'[j] = written
      /\ \A k \in Jobs \ {j} : document'[k] = document[k]
  BY <1>1, <1>2
<1> QED
  BY <1>1, <1>3 DEF OnlyDocument

\* A reconciliation case.
LEMMA StartDocumentWrites ==
    ASSUME document \in [Jobs -> Document], NEW j \in Jobs, StartDocument(j)
    PROVE  OnlyDocument(j) /\ document'[j].origin = document[j].origin
           /\ document'[j].hidden = document[j].hidden
<1> DEFINE written == [document[j] EXCEPT !.case = TRUE]
<1>1. /\ written \in Document
      /\ written.origin = document[j].origin /\ written.hidden = document[j].hidden
  BY DEF Document, Origin
<1>2. document' = [document EXCEPT ![j] = written]
  BY DEF StartDocument
<1> HIDE DEF written
<1>3. /\ document' \in [Jobs -> Document]
      /\ document'[j] = written
      /\ \A k \in Jobs \ {j} : document'[k] = document[k]
  BY <1>1, <1>2
<1> QED
  BY <1>1, <1>3 DEF OnlyDocument

(***************************************************************************)
(* One step of one job.                                                    *)
(***************************************************************************)

Moves(j, next) ==
    step' \in [Jobs -> Step] /\ step'[j] = next /\ \A k \in Jobs \ {j} : step'[k] = step[k]

\* A run goes on to another step.
LEMMA GotoMoves ==
    ASSUME step \in [Jobs -> Step], NEW j \in Jobs, NEW next \in Step, Goto(j, next)
    PROVE  Moves(j, next)
BY DEF Goto, Moves

\* A failure classifies the attempt of its own job, if anything.
LEMMA FailWrites ==
    ASSUME attempt \in [Jobs -> Attempt], step \in [Jobs -> Step], NEW j \in Jobs,
           NEW dispositions \in SUBSET Disposition, Fail(j, dispositions)
    PROVE  /\ OnlyAttempt(j) /\ attempt'[j].complete = attempt[j].complete
           /\ Moves(j, "failing")
<1>1. Moves(j, "failing")
  BY GotoMoves DEF Fail, Step
<1>2. CASE \E d \in dispositions : SetDisposition(j, d)
  BY <1>1, <1>2, SetDispositionWrites
<1>3. CASE UNCHANGED attempt
  BY <1>1, <1>3 DEF OnlyAttempt
<1> QED
  BY <1>2, <1>3 DEF Fail

\* The end of a transaction releases its own rows only.
LEMMA UnlockedKeeps ==
    ASSUME lock \in [Rows -> Jobs \cup {Nobody}], NEW j \in Jobs, lock' = Unlocked(j)
    PROVE  /\ lock' \in [Rows -> Jobs \cup {Nobody}]
           /\ \A r \in Rows : lock[r] \in Jobs \ {j} => lock'[r] = lock[r]
BY DEF Unlocked

\* All that the other jobs need to know of a step of job j.
Effect(j) ==
    /\ TypeOK'
    /\ \A k \in Jobs \ {j} : /\ job'[k] = job[k] /\ attempt'[k] = attempt[k]
                            /\ document'[k] = document[k] /\ step'[k] = step[k]
    /\ JobInvariant(j)'
    /\ Exists(j) => SameRecording(j)
    /\ step'[j] = "gated" => (step[j] = "gated" /\ lock' = lock) \/ PassGate(j)
    /\ step'[j] = "calling" => step[j] = "calling" \/ MarkStarted(j)
    /\ step[j] = "calling" /\ step'[j] = "calling" /\ Acknowledged(j) => Acknowledged(j)'
    /\ \A r \in Rows : lock[r] \in Jobs \ {j} => lock'[r] = lock[r]
    /\ document'[j].hidden = document[j].hidden
    /\ \/ document'[j].origin = document[j].origin
       \/ document'[j].origin = "found"
       \/ Exists(j) /\ lock[job[j].row] = Nobody

\* Every action of a job has such an effect, and keeps the invariant of the job.
LEMMA OneStep ==
    ASSUME TypeOK, NEW j \in Jobs, JobInvariant(j), RunStep(j) \/ Environment(j)
    PROVE  Effect(j)
<1> USE DEF TypeOK, JobInvariant, BeforeTheResult, Effect, OnlyJob, OnlyAttempt,
            OnlyDocument, SameRecording, SameRun, Moves, Exists, Acknowledged,
               Delivered,
            Step, Status, Disposition
<1>1. CASE Begin(j)
  <2>1. OnlyJob(j) /\ SameRecording(j) /\ job'[j].status = "processing"
    BY <1>1, BeginWrites DEF Begin
  <2>2. OnlyAttempt(j) /\ attempt'[j].complete = attempt[j].complete
    BY <1>1, NewRunWrites
  <2>3. \/ Moves(j, "restoring")
        \/ ~attempt[j].complete /\ Moves(j, "preparing")
    BY <1>1, GotoMoves DEF Begin
  <2>4. ~document[j].case /\ UNCHANGED <<document, lock>>
    BY <1>1 DEF Begin
  <2> QED
    BY <2>1, <2>2, <2>3, <2>4
<1>2. CASE Restore(j)
  BY <1>2, RestoreWrites, GotoMoves DEF Restore
<1>3. CASE PreparationFails(j)
  BY <1>3, FailWrites DEF PreparationFails
<1>4. CASE ReachGate(j)
  BY <1>4, GotoMoves DEF ReachGate
<1>5. CASE PassGate(j)
  <2>1. Moves(j, "gated") /\ step[j] = "locking" /\ UNCHANGED <<job, attempt, document>>
    BY <1>5, GotoMoves DEF PassGate
  <2>2. /\ lock' \in [Rows -> Jobs \cup {Nobody}]
        /\ \A r \in Rows : lock[r] \in Jobs \ {j} => lock'[r] = lock[r]
    BY <1>5, CatalogAssumption DEF PassGate, RowsFree, IdentityRows
  <2> QED
    BY <1>5, <2>1, <2>2
<1>6. CASE RefuseAtGate(j)
  BY <1>6, FailWrites DEF RefuseAtGate
<1>7. CASE GateAbandoned(j)
  BY <1>7, FailWrites, UnlockedKeeps DEF GateAbandoned
<1>8. CASE MarkStarted(j)
  BY <1>8, MarkStartedWrites, GotoMoves, UnlockedKeeps DEF MarkStarted
<1>9. CASE CallFails(j)
  BY <1>9, FailWrites DEF CallFails
<1>10. CASE CallReturns(j)
  BY <1>10, AnswerWrites, GotoMoves DEF CallReturns
<1>11. CASE AnswerLost(j)
  BY <1>11, AnswerWrites, GotoMoves DEF AnswerLost
<1>12. CASE StartDocument(j)
  BY <1>12, StartDocumentWrites, GotoMoves DEF StartDocument, Authorized
<1>13. CASE DeliveryFails(j)
  BY <1>13, FailWrites DEF DeliveryFails
<1>14. CASE Persist(j)
  <2>1. OnlyJob(j) /\ SameRecording(j) /\ job'[j].status = "completed"
    BY <1>14, EndedWrites DEF Persist
  <2>2. OnlyAttempt(j) /\ attempt'[j].complete = attempt[j].complete
    BY <1>14, SetDispositionWrites DEF Persist
  <2>3. /\ OnlyDocument(j) /\ document'[j].case = document[j].case
        /\ document'[j].hidden = document[j].hidden
    <3>1. (IF attempt[j].restored THEN "restored" ELSE "called") \in Origin
      BY DEF Origin
    <3> QED
      BY <1>14, <3>1, OriginWrites DEF Persist
  <2>4. Moves(j, "idle") /\ UNCHANGED lock /\ lock[job[j].row] = Nobody
    BY <1>14, GotoMoves DEF Persist
  <2>5. job[j].status = "processing"
    BY <1>14 DEF Persist, Authorized
  <2> QED
    BY <2>1, <2>2, <2>3, <2>4, <2>5
<1>15. CASE FailJob(j)
  BY <1>15, EndedWrites, GotoMoves DEF FailJob, Requeued, RetriesLeft
<1>16. CASE Interrupted(j)
  BY <1>16, GotoMoves, UnlockedKeeps DEF Interrupted
<1>17. CASE Crash(j)
  BY <1>17, GotoMoves, UnlockedKeeps DEF Crash
<1>18. CASE ExpireLease(j)
  BY <1>18, ExpireLeaseWrites DEF ExpireLease
<1>19. CASE RecoverExpired(j)
  BY <1>19, EndedWrites DEF RecoverExpired, Requeued, RetriesLeft, NothingPaid
<1>20. CASE QueueRetry(j)
  BY <1>20, EndedWrites DEF QueueRetry, Requeued, RetriesLeft, NothingPaid
<1>21. CASE CancelQueued(j)
  BY <1>21, EndedWrites DEF CancelQueued
<1>22. CASE Reconcile(j)
  <2>1. OnlyJob(j) /\ SameRecording(j) /\ job'[j].status \notin {"absent", "queued"}
    BY <1>22, EndedWrites DEF Reconcile
  <2>2. OnlyAttempt(j) /\ attempt'[j].complete = attempt[j].complete
    BY <1>22, SetDispositionWrites DEF Reconcile
  <2>3. /\ OnlyDocument(j) /\ document'[j].case = document[j].case
        /\ document'[j].hidden = document[j].hidden /\ document'[j].origin = "found"
    BY <1>22, OriginWrites DEF Reconcile, Origin
  <2>4. document[j].case /\ UNCHANGED <<step, lock>>
    BY <1>22 DEF Reconcile
  <2> QED
    BY <2>1, <2>2, <2>3, <2>4
<1>23. ASSUME NEW row \in Rows, NEW settings \in Settings, NEW approved \in BOOLEAN,
           Created(j, row, settings, approved)
      PROVE  Effect(j)
  BY <1>23, CreatedWrites DEF Created
<1>24. ASSUME NEW resolution \in Resolution, ResolveAttention(j, resolution)
      PROVE  Effect(j)
  BY <1>24, ResolveAttentionWrites DEF ResolveAttention, AttentionRequired
<1> QED
  BY <1>1, <1>2, <1>3, <1>4, <1>5, <1>6, <1>7, <1>8, <1>9, <1>10, <1>11, <1>12, <1>13,
     <1>14, <1>15, <1>16, <1>17, <1>18, <1>19, <1>20, <1>21, <1>22, <1>23, <1>24
  DEF RunStep, Environment, CreateBatchJob, CreateJob

\* A reset hides every output and changes nothing else.
LEMMA ResetStep ==
    ASSUME TypeOK, ResetManifest
    PROVE  /\ TypeOK' /\ UNCHANGED <<job, attempt, step, lock>>
           /\ \A k \in Jobs : /\ document'[k].case = document[k].case
                             /\ document'[k].origin = document[k].origin
                             /\ document'[k].hidden = Delivered(k)
<1> DEFINE hidden(k) == [document[k] EXCEPT !.hidden = Delivered(k)]
<1>1. \A k \in Jobs : /\ hidden(k) \in Document /\ hidden(k).case = document[k].case
                     /\ hidden(k).origin = document[k].origin
                     /\ hidden(k).hidden = Delivered(k)
  BY DEF TypeOK, Document, Delivered
<1>2. document' = [k \in Jobs |-> hidden(k)] /\ UNCHANGED <<job, attempt, step, lock>>
  BY DEF ResetManifest
<1> HIDE DEF hidden
<1> QED
  BY <1>1, <1>2 DEF TypeOK

(***************************************************************************)
(* One step, seen by two jobs.                                             *)
(***************************************************************************)

\* Rows held by one job are not held by another: two equivalent jobs are never
\* both between the gate and the call.
LEMMA OneJobAtTheGate ==
    ASSUME TypeOK, GateHoldsRows, NEW j \in Jobs, NEW k \in Jobs, Competing(j, k)
    PROVE  ~(step[j] = "gated" /\ step[k] = "gated")
<1>1. job[j].row \in Rows
  BY DEF TypeOK, Job
<1>2. job[j].row \in IdentityRows(job[j].row) /\ job[j].row \in IdentityRows(job[k].row)
  BY <1>1 DEF IdentityRows, Competing, Matches
<1> QED
  BY <1>2 DEF GateHoldsRows, Competing

\* What the gate makes of an equivalent job that waits for the provider.
LEMMA GateSees ==
    ASSUME GateInvariant, NEW j \in Jobs, NEW k \in Jobs,
           Competing(j, k), PassGate(j), step[k] = "calling"
    PROVE  Acknowledged(k)
<1>1. "undetermined" \in OpenAttempts(k)
  BY DEF GateInvariant, JobInvariant, OpenAttempts, Evidence
<1>2. ~Blocks(k)
  BY DEF PassGate, GateOpen, CompetingConflict, Competing
<1> QED
  BY <1>1, <1>2 DEF Blocks, Unresolved, NoDocument

\* Rows are taken and released with the step "gated".
LEMMA GateKeepsRows ==
    ASSUME GateInvariant, NEW j \in Jobs, RunStep(j) \/ Environment(j), Effect(j)
    PROVE  GateHoldsRows'
<1> SUFFICES ASSUME NEW k \in Jobs, step'[k] = "gated",
   NEW r \in IdentityRows(job'[k].row)
             PROVE  lock'[r] = k
  BY DEF GateHoldsRows, IdentityRows
<1>1. CASE k # j
  <2>1. lock[r] = k
    BY <1>1 DEF GateInvariant, GateHoldsRows, Effect
  <2> QED
    BY <1>1, <2>1 DEF Effect, IdentityRows
<1>2. CASE k = j /\ step[j] = "gated" /\ lock' = lock
  BY <1>2 DEF GateInvariant, JobInvariant, GateHoldsRows, Effect, SameRecording
<1>3. CASE k = j /\ PassGate(j)
  BY <1>3 DEF PassGate, IdentityRows
<1> QED
  BY <1>1, <1>2, <1>3 DEF Effect

\* A pair that competes after a step, and was not idle, competed before it.
LEMMA CompetedBefore ==
    ASSUME GateInvariant, NEW i \in Jobs, Effect(i), NEW j \in Jobs, NEW k \in Jobs,
           Competing(j, k)', Exists(j), Exists(k)
    PROVE  Competing(j, k)
BY DEF Effect, Competing, Matches, SameRecording, Exists

\* Nobody starts a call beside a job at the gate, and a job that was written off
\* is not revived while its run still waits.
LEMMA GateKeepsSight ==
    ASSUME GateInvariant, NEW i \in Jobs, RunStep(i) \/ Environment(i), Effect(i)
    PROVE  GateSawTheOthers'
<1> SUFFICES ASSUME NEW j \in Jobs, NEW k \in Jobs,
                    Competing(j, k)', step'[j] = "gated", step'[k] = "calling"
             PROVE  Acknowledged(k)'
  BY DEF GateSawTheOthers
<1>0. j # k
  BY DEF Competing
<1>1. CASE i = k /\ step[k] # "calling"
  <2>1. step[j] = "gated" /\ step[k] = "gated"
    BY <1>0, <1>1 DEF Effect, MarkStarted
  <2> QED
    BY <2>1, OneJobAtTheGate, CompetedBefore DEF GateInvariant, JobInvariant
<1>2. CASE i = j /\ step[j] # "gated"
  <2>1. PassGate(j) /\ step[k] = "calling"
    BY <1>0, <1>2 DEF Effect
  <2>2. Competing(j, k)
    BY <2>1, CompetedBefore DEF GateInvariant, JobInvariant, PassGate
  <2> QED
    BY <1>0, <1>2, <2>1, <2>2, GateSees DEF Effect, Acknowledged, Delivered
<1>3. CASE step[j] = "gated" /\ step[k] = "calling"
  <2>1. Acknowledged(k)
    BY <1>3, CompetedBefore DEF GateInvariant, JobInvariant, GateSawTheOthers
  <2> QED
    BY <1>3, <2>1 DEF Effect, Acknowledged, Delivered
<1> QED
  BY <1>1, <1>2, <1>3 DEF Effect

\* Only reconciliation delivers beside a job at the gate.
LEMMA GateKeepsOutputs ==
    ASSUME GateInvariant, NEW i \in Jobs, RunStep(i) \/ Environment(i), Effect(i)
    PROVE  GateSawOutputs'
<1> SUFFICES ASSUME NEW j \in Jobs, NEW k \in Jobs, Competing(j, k)',
   step'[j] = "gated",
                    AcceptedOutput(k)', ~job'[j].approved
             PROVE  document'[k].origin = "found"
  BY DEF GateSawOutputs
<1>0. j # k
  BY DEF Competing
<1>1. CASE i = j /\ step[j] # "gated"
  <2>1. PassGate(j) /\ Exists(k) /\ UNCHANGED <<job, document>>
    BY <1>0, <1>1 DEF Effect, PassGate, Competing, Matches, Exists
  <2>2. Competing(j, k) /\ AcceptedOutput(k) /\ ~job[j].approved
    BY <2>1 DEF Competing, Matches, Exists, AcceptedOutput, Delivered
  <2> QED
    BY <2>1, <2>2 DEF PassGate, GateOpen, AcceptedMatch, Competing, AcceptedOutput
<1>2. CASE step[j] = "gated" /\ document'[k].origin = document[k].origin
  <2>1. AcceptedOutput(k)
    BY <1>2 DEF Effect, AcceptedOutput, Delivered
  <2>2. Exists(j) /\ Exists(k)
    BY <1>2, <2>1 DEF GateInvariant, JobInvariant, AcceptedOutput
  <2> QED
    BY <1>2, <2>1, <2>2, CompetedBefore
    DEF GateInvariant, GateSawOutputs, Effect, SameRecording
<1>3. CASE step[j] = "gated" /\ document'[k].origin # document[k].origin
  <2>1. CASE document'[k].origin = "found"
    BY <2>1
  <2>2. CASE i = k /\ Exists(k) /\ lock[job[k].row] = Nobody
    <3>1. Competing(j, k)
      BY <1>3, <2>2, CompetedBefore DEF GateInvariant, JobInvariant
    <3>2. job[k].row \in IdentityRows(job[j].row)
      BY <3>1 DEF GateInvariant, TypeOK, Job, IdentityRows, Competing, Matches
    <3>3. lock[job[k].row] = j
      BY <1>3, <3>2 DEF GateInvariant, GateHoldsRows
    <3> QED
      BY <2>2, <3>3, CatalogAssumption
  <2> QED
    BY <1>3, <2>1, <2>2 DEF Effect
<1> QED
  BY <1>1, <1>2, <1>3 DEF Effect

\* A call begins at the gate, where the other one has been seen.
LEMMA GateKeepsOneCall ==
    ASSUME GateInvariant, NEW i \in Jobs, RunStep(i) \/ Environment(i), Effect(i)
    PROVE  OnePaidCall'
<1>1. ASSUME NEW j \in Jobs, NEW k \in Jobs, Competing(j, k)', i # j,
             step'[j] = "calling", step'[k] = "calling"
      PROVE  Acknowledged(j)' \/ Acknowledged(k)'
  <2>1. step[j] = "calling"
    BY <1>1 DEF Effect
  <2>2. CASE step[k] = "calling"
    BY <1>1, <2>1, <2>2, CompetedBefore
    DEF GateInvariant, JobInvariant, OnePaidCall, Effect, Acknowledged, Delivered
  <2>3. CASE step[k] # "calling"
    <3>1. i = k /\ step[k] = "gated"
      BY <1>1, <2>3 DEF Effect, MarkStarted
    <3>2. Competing(k, j)
      BY <1>1, <2>1, <3>1, CompetedBefore
      DEF GateInvariant, JobInvariant, Competing, Matches
    <3> QED
      BY <1>1, <2>1, <3>1, <3>2
      DEF GateInvariant, GateSawTheOthers, Effect, Acknowledged, Delivered
  <2> QED
    BY <2>2, <2>3
<1>2. \A j, k \in Jobs : Competing(j, k)' => Competing(k, j)'
  BY DEF Competing, Matches, Exists
<1> SUFFICES ASSUME NEW j \in Jobs, NEW k \in Jobs, Competing(j, k)',
                    step'[j] = "calling", step'[k] = "calling"
             PROVE  Acknowledged(j)' \/ Acknowledged(k)'
  BY DEF OnePaidCall
<1>3. i # j \/ i # k
  BY DEF Competing
<1> QED
  BY <1>1, <1>2, <1>3

-----------------------------------------------------------------------------
\* No job exists.
LEMMA GateInit == Init => GateInvariant
<1> SUFFICES ASSUME Init PROVE GateInvariant
  OBVIOUS
<1>1. TypeOK
  BY CatalogAssumption
  DEF Init, TypeOK, Job, Attempt, NewAttempt, Document, Status, Disposition, Resolution,
      Step, Origin
<1>2. \A j \in Jobs : JobInvariant(j)
  BY CatalogAssumption
  DEF Init, JobInvariant, Exists, Delivered, BeforeTheResult, NewAttempt
<1> QED
  BY <1>1, <1>2
  DEF GateInvariant, Init, GateHoldsRows, GateSawTheOthers, GateSawOutputs, OnePaidCall

\* The step of the induction.
LEMMA GateNext == GateInvariant /\ [Next]_vars => GateInvariant'
<1> SUFFICES ASSUME GateInvariant, [Next]_vars PROVE GateInvariant'
  OBVIOUS
<1>1. ASSUME NEW j \in Jobs, RunStep(j) \/ Environment(j)
      PROVE  GateInvariant'
  <2>1. Effect(j)
    BY <1>1, OneStep DEF GateInvariant
  <2>2. \A k \in Jobs : JobInvariant(k)'
    BY <2>1 DEF GateInvariant, Effect, JobInvariant, Exists, Delivered
  <2> QED
    BY <1>1, <2>1, <2>2, GateKeepsRows, GateKeepsSight, GateKeepsOutputs,
       GateKeepsOneCall
    DEF GateInvariant, Effect
<1>2. CASE ResetManifest
  <2>0. /\ TypeOK' /\ UNCHANGED <<job, attempt, step, lock>>
        /\ \A k \in Jobs : /\ document'[k].case = document[k].case
                         /\ document'[k].origin = document[k].origin
                         /\ document'[k].hidden = Delivered(k)
    BY <1>2, ResetStep DEF GateInvariant
  <2>1. \A k \in Jobs : (Delivered(k)' <=> Delivered(k)) /\ ~AcceptedOutput(k)'
    <3> SUFFICES ASSUME NEW k \in Jobs
                 PROVE  (Delivered(k)' <=> Delivered(k)) /\ ~AcceptedOutput(k)'
      OBVIOUS
    <3>1. Delivered(k)' <=> Delivered(k)
      BY <2>0 DEF Delivered
    <3>2. document'[k].hidden = Delivered(k)
      BY <2>0, Zenon
    <3> QED
      BY <3>1, <3>2, Zenon DEF AcceptedOutput
  <2>2. \A k \in Jobs : JobInvariant(k)'
    BY <2>0, <2>1 DEF GateInvariant, JobInvariant, Exists
  <2>3. GateHoldsRows' /\ GateSawOutputs'
    BY <2>0, <2>1 DEF GateInvariant, GateHoldsRows, IdentityRows, GateSawOutputs
  <2>4. GateSawTheOthers' /\ OnePaidCall'
    BY <2>0, <2>1
    DEF GateInvariant, GateSawTheOthers, OnePaidCall, Competing, Matches, Exists,
       Acknowledged
  <2> QED
    BY <2>0, <2>2, <2>3, <2>4 DEF GateInvariant
<1>3. CASE UNCHANGED vars
  BY <1>3
  DEF vars, GateInvariant, TypeOK, JobInvariant, GateHoldsRows, GateSawTheOthers,
      GateSawOutputs, AcceptedOutput, OnePaidCall, Competing, Matches, Exists,
         Acknowledged, Delivered
<1> QED
  BY <1>1, <1>2, <1>3 DEF Next

\* The gate, the locks and the evidence fit together in every reachable state.
THEOREM GateInvariantHolds == Spec => []GateInvariant
<1> QED
  BY GateInit, GateNext, PTL DEF Spec

\* Rows of jobs and attempts keep their types; attempts stay within the limit.
THEOREM TypeCorrect == Spec => []TypeOK
<1>1. GateInvariant => TypeOK
  BY DEF GateInvariant
<1> QED
  BY <1>1, GateInvariantHolds, PTL

\* Two jobs for one recording and the same settings never wait for the provider at
\* the same time, unless the owner declared one of them to have left nothing
\* (has_competing_provider_attempt_conflict under lock_catalog_source_identities).
THEOREM OnePaidCallHolds == Spec => []OnePaidCall
<1>1. GateInvariant => OnePaidCall
  BY DEF GateInvariant
<1> QED
  BY <1>1, GateInvariantHolds, PTL

\* No job crosses the paid boundary over an accepted output of an equivalent job
\* without the approval of the owner, unless reconciliation found that output
\* (load_existing_result_matches at the gate).
THEOREM NothingPaidTwiceHolds == Spec => NothingPaidTwice
<1>1. GateInvariant /\ [Next]_vars =>
          [\A j, k \in Jobs :
              Crosses(j) /\ Competing(j, k) /\ AcceptedOutput(k) /\ ~job[j].approved =>
                  document[k].origin = "found"]_vars
  BY DEF GateInvariant, GateSawOutputs, Crosses
<1> QED
  BY <1>1, GateInvariantHolds, PTL DEF Spec, NothingPaidTwice

(***************************************************************************)
(* Two paid calls that both deliver never happen.  A run that called the   *)
(* provider and still has its authority is visible to the gate as an open  *)
(* attempt of a job in processing, up to its document; so no equivalent    *)
(* job passes the gate meanwhile, and none that passed it before is left.  *)
(***************************************************************************)

\* The run of j paid, or is about to, and may still persist what it paid for.
Paying(j) ==
    /\ step[j] \in {"calling", "delivering", "creating"}
    /\ Authorized(j)
    /\ ~attempt[j].restored

\* Its attempt is not closed.
PayingIsOpen ==
    \A j \in Jobs : Paying(j) =>
        attempt[j].started /\ attempt[j].disposition \in {"undetermined", "provider_result_lost"}

\* A job at the gate, or past it, is the only one of its recording that pays.
GateSawPayers ==
    \A j, k \in Jobs : Competing(j, k) /\ step[j] = "gated" => ~Paying(k)

OnePayer == \A j, k \in Jobs : Competing(j, k) => ~(Paying(j) /\ Paying(k))

\* What is delivered beside a job that pays was not paid for again.
PayerSawOutputs ==
    \A j, k \in Jobs :
        Competing(j, k) /\ Paying(j) /\ AcceptedOutput(k) /\ ~job[j].approved =>
            document[k].origin \in {"restored", "found"}

DeliveryInvariant ==
    /\ GateInvariant
    /\ PayingIsOpen /\ GateSawPayers /\ OnePayer /\ PayerSawOutputs
    /\ DuplicatesHaveACause

\* Authority begins with a run, and no write to the row of a job restores it.
LEMMA AuthorityIsGiven ==
    ASSUME TypeOK, NEW j \in Jobs, RunStep(j) \/ Environment(j), Authorized(j)'
    PROVE  ~ExpireLease(j) /\ (Begin(j) \/ (job' = job /\ Authorized(j)))
<1>1. job' = job => Authorized(j)
  BY DEF Authorized
<1>2. ~(\E status \in Status \ {"processing"} : Ended(j, status))
  BY EndedWrites DEF TypeOK, Authorized
<1>3. ~ExpireLease(j)
  <2> SUFFICES ASSUME ExpireLease(j) PROVE FALSE
    OBVIOUS
  <2> DEFINE written == [job[j] EXCEPT !.live = FALSE]
  <2>1. job' = [job EXCEPT ![j] = written] /\ written.live = FALSE
    BY DEF ExpireLease, TypeOK, Job
  <2> HIDE DEF written
  <2>2. job'[j].live = FALSE
    BY <2>1 DEF TypeOK
  <2> QED
    BY <2>2 DEF Authorized
<1>4. \A row \in Rows, settings \in Settings, approved \in BOOLEAN :
          ~Created(j, row, settings, approved)
  BY CreatedWrites DEF TypeOK, Authorized
<1>5. \A resolution \in Resolution : ~ResolveAttention(j, resolution)
  <2> SUFFICES ASSUME NEW resolution \in Resolution, ResolveAttention(j, resolution)
               PROVE  FALSE
    OBVIOUS
  <2>1. job'[j].status = job[j].status
    BY ResolveAttentionWrites DEF TypeOK
  <2> QED
    BY <2>1 DEF ResolveAttention, AttentionRequired, Finished, Authorized
<1>6. RunStep(j) => Begin(j) \/ job' = job
  BY <1>2
  DEF RunStep, Restore, PreparationFails, ReachGate, PassGate, RefuseAtGate, GateAbandoned,
      MarkStarted, CallFails, CallReturns, AnswerLost, StartDocument, DeliveryFails, Persist,
      FailJob, Requeued, Interrupted, Status
<1>7. Environment(j) => job' = job
  BY <1>2, <1>3, <1>4, <1>5
  DEF Environment, CreateBatchJob, CreateJob, Crash, RecoverExpired, QueueRetry, CancelQueued,
      Reconcile, Requeued, Status
<1> QED
  BY <1>1, <1>3, <1>6, <1>7

\* A run pays from the commit that marks its call as started to its document.
LEMMA PayingGoesOn ==
    ASSUME TypeOK, NEW j \in Jobs, RunStep(j) \/ Environment(j), Paying(j)'
    PROVE  MarkStarted(j) \/ (Paying(j) /\ (CallReturns(j) \/ StartDocument(j)))
<1>1. ~Begin(j) /\ ~ExpireLease(j) /\ job' = job /\ Authorized(j)
  <2>1. ~Begin(j)
    BY DEF Begin, Goto, Paying, TypeOK
  <2> QED
    BY <2>1, AuthorityIsGiven DEF Paying
<1>2. \A next \in {"idle", "failing", "locking", "gated", "preparing"} : ~Goto(j, next)
  BY DEF Goto, Paying, TypeOK
<1>3. CASE RunStep(j)
  <2>1. ~Restore(j)
    <3> SUFFICES ASSUME Restore(j) PROVE FALSE
      OBVIOUS
    <3> DEFINE written == [attempt[j] EXCEPT !.started = TRUE, !.restored = TRUE,
                                             !.disposition = "provider_result_lost"]
    <3>1. attempt' = [attempt EXCEPT ![j] = written] /\ written.restored = TRUE
      BY DEF Restore, TypeOK, Attempt
    <3> HIDE DEF written
    <3> QED
      BY <3>1 DEF Paying, TypeOK
  <2>2. MarkStarted(j) \/ CallReturns(j) \/ StartDocument(j)
    BY <1>1, <1>2, <1>3, <2>1
    DEF RunStep, PreparationFails, ReachGate, PassGate, RefuseAtGate, GateAbandoned, CallFails,
        AnswerLost, DeliveryFails, Persist, FailJob, Interrupted, Fail
  <2>3. CallReturns(j) => attempt'[j].restored = attempt[j].restored
    <3> SUFFICES ASSUME CallReturns(j) PROVE attempt'[j].restored = attempt[j].restored
      OBVIOUS
    <3> DEFINE written == [attempt[j] EXCEPT !.complete = TRUE,
                                             !.disposition = "provider_result_lost"]
    <3>1. attempt' = [attempt EXCEPT ![j] = written]
            /\ written.restored = attempt[j].restored
      BY DEF CallReturns, TypeOK, Attempt
    <3> HIDE DEF written
    <3> QED
      BY <3>1 DEF TypeOK
  <2>4. StartDocument(j) => attempt' = attempt
    BY DEF StartDocument
  <2> QED
    BY <1>1, <2>2, <2>3, <2>4 DEF Paying, CallReturns, StartDocument
<1>4. ~Environment(j)
  BY <1>1, <1>2
  DEF Environment, CreateBatchJob, CreateJob, Created, Exists, Crash, RecoverExpired, QueueRetry,
      CancelQueued, Reconcile, ResolveAttention, AttentionRequired, Finished, Authorized
<1> QED
  BY <1>3, <1>4


\* Only the document of a run that paid counts as called.
LEMMA DeliveriesAre ==
    ASSUME TypeOK, NEW j \in Jobs, RunStep(j) \/ Environment(j)
    PROVE  \/ document'[j].origin = document[j].origin
           \/ document'[j].origin \in {"restored", "found"}
           \/ Paying(j)
<1>1. CASE Persist(j)
  <2>1. (IF attempt[j].restored THEN "restored" ELSE "called") \in Origin
    BY DEF Origin
  <2>2. document'[j].origin = IF attempt[j].restored THEN "restored" ELSE "called"
    BY <1>1, <2>1, OriginWrites DEF Persist, TypeOK
  <2> QED
    BY <1>1, <2>2 DEF Persist, Paying
<1>2. CASE Reconcile(j)
  BY <1>2, OriginWrites DEF Reconcile, TypeOK, Origin
<1>3. CASE StartDocument(j)
  BY <1>3, StartDocumentWrites DEF TypeOK
<1>4. CASE ~Persist(j) /\ ~Reconcile(j) /\ ~StartDocument(j)
  <2>1. document' = document
    BY <1>4
    DEF RunStep, Environment, Begin, Restore, PreparationFails, ReachGate, PassGate, RefuseAtGate,
        GateAbandoned, MarkStarted, CallFails, CallReturns, AnswerLost, DeliveryFails, FailJob,
        Interrupted, CreateBatchJob, CreateJob, Created, Crash, ExpireLease, RecoverExpired,
        QueueRetry, CancelQueued, ResolveAttention
  <2> QED
    BY <2>1
<1> QED
  BY <1>1, <1>2, <1>3, <1>4

\* What the gate makes of an equivalent job that pays.
LEMMA GateSeesPaying ==
    ASSUME PayingIsOpen, NEW j \in Jobs, NEW k \in Jobs, Competing(j, k), PassGate(j)
    PROVE  ~Paying(k)
<1> SUFFICES ASSUME Paying(k) PROVE FALSE
  OBVIOUS
<1>1. attempt[k].disposition \in OpenAttempts(k)
  BY DEF PayingIsOpen, OpenAttempts, Evidence
<1>2. Blocks(k)
  BY <1>1 DEF Blocks, InFlight, Paying, Authorized
<1> QED
  BY <1>2 DEF PassGate, GateOpen, CompetingConflict, Competing

LEMMA PayingStaysOpen ==
    ASSUME GateInvariant, PayingIsOpen, NEW i \in Jobs, RunStep(i) \/ Environment(i), Effect(i)
    PROVE  PayingIsOpen'
<1> SUFFICES ASSUME NEW j \in Jobs, Paying(j)'
             PROVE  /\ attempt'[j].started
                    /\ attempt'[j].disposition \in {"undetermined", "provider_result_lost"}
  BY DEF PayingIsOpen
<1>1. CASE j # i
  BY <1>1 DEF Effect, Paying, Authorized, PayingIsOpen
<1>2. CASE j = i /\ MarkStarted(j)
  BY <1>2, MarkStartedWrites DEF GateInvariant, TypeOK
<1>3. CASE j = i /\ Paying(j) /\ StartDocument(j)
  BY <1>3 DEF StartDocument, PayingIsOpen
<1>4. CASE j = i /\ Paying(j) /\ CallReturns(j)
  <2> DEFINE written == [attempt[j] EXCEPT !.complete = TRUE,
                                           !.disposition = "provider_result_lost"]
  <2>1. attempt' = [attempt EXCEPT ![j] = written]
    BY <1>4 DEF CallReturns
  <2>2. written.started = attempt[j].started /\ written.disposition = "provider_result_lost"
    BY DEF GateInvariant, TypeOK, Attempt
  <2> HIDE DEF written
  <2>3. attempt[j].started /\ attempt'[j] = written
    BY <1>4, <2>1 DEF PayingIsOpen, GateInvariant, TypeOK
  <2> QED
    BY <2>2, <2>3
<1> QED
  BY <1>1, <1>2, <1>3, <1>4, PayingGoesOn DEF GateInvariant

\* Nobody begins to pay beside a job at the gate.
LEMMA GateKeepsPayers ==
    ASSUME DeliveryInvariant, NEW i \in Jobs, RunStep(i) \/ Environment(i), Effect(i)
    PROVE  GateSawPayers'
<1> SUFFICES ASSUME NEW j \in Jobs, NEW k \in Jobs, Competing(j, k)',
                    step'[j] = "gated", Paying(k)'
             PROVE  FALSE
  BY DEF GateSawPayers
<1>0. j # k
  BY DEF Competing
<1>1. Paying(k) \/ (i = k /\ MarkStarted(k))
  BY PayingGoesOn DEF DeliveryInvariant, GateInvariant, Effect, Paying, Authorized
<1>2. step[j] = "gated" \/ PassGate(j)
  BY <1>0 DEF Effect
<1>3. Exists(j) /\ Exists(k)
  BY <1>1, <1>2
  DEF DeliveryInvariant, GateInvariant, JobInvariant, Paying, MarkStarted, PassGate
<1>4. Competing(j, k)
  BY <1>3, CompetedBefore DEF DeliveryInvariant
<1>5. CASE i = k /\ MarkStarted(k)
  <2>1. step[j] = "gated" /\ step[k] = "gated"
    BY <1>0, <1>5 DEF MarkStarted, Effect
  <2> QED
    BY <1>4, <2>1, OneJobAtTheGate DEF DeliveryInvariant, GateInvariant
<1>6. CASE Paying(k) /\ PassGate(j)
  BY <1>4, <1>6, GateSeesPaying DEF DeliveryInvariant
<1>7. CASE Paying(k) /\ step[j] = "gated"
  BY <1>4, <1>7 DEF DeliveryInvariant, GateSawPayers
<1> QED
  BY <1>1, <1>2, <1>5, <1>6, <1>7

\* Two equivalent jobs never pay together.
LEMMA OnePayerStays ==
    ASSUME DeliveryInvariant, NEW i \in Jobs, RunStep(i) \/ Environment(i), Effect(i)
    PROVE  OnePayer'
<1>1. ASSUME NEW j \in Jobs, NEW k \in Jobs, Competing(j, k)', i # j, Paying(j)', Paying(k)'
      PROVE  FALSE
  <2>1. Paying(j)
    BY <1>1 DEF Effect, Paying, Authorized
  <2>2. Paying(k) \/ (step[k] = "gated" /\ MarkStarted(k))
    BY <1>1, PayingGoesOn, SMTT(30)
    DEF DeliveryInvariant, GateInvariant, Effect, Paying, Authorized, MarkStarted
  <2>3. Exists(j) /\ Exists(k)
    BY <2>1, <2>2 DEF DeliveryInvariant, GateInvariant, JobInvariant, Paying
  <2>4. Competing(j, k) /\ Competing(k, j)
    <3>1. Competing(j, k)
      BY <1>1, <2>3, CompetedBefore DEF DeliveryInvariant
    <3> QED
      BY <2>3, <3>1 DEF Competing, Matches
  <2> QED
    BY <2>1, <2>2, <2>4 DEF DeliveryInvariant, OnePayer, GateSawPayers
<1>2. \A j, k \in Jobs : Competing(j, k)' => Competing(k, j)' /\ j # k
  BY DEF Competing, Matches, Exists
<1> QED
  BY <1>1, <1>2 DEF OnePayer

\* While a job pays, the others only restore or find.
LEMMA PayerKeepsOutputs ==
    ASSUME DeliveryInvariant, NEW i \in Jobs, RunStep(i) \/ Environment(i), Effect(i)
    PROVE  PayerSawOutputs'
<1> SUFFICES ASSUME NEW j \in Jobs, NEW k \in Jobs, Competing(j, k)', Paying(j)',
                    AcceptedOutput(k)', ~job'[j].approved,
                    document'[k].origin \notin {"restored", "found"}
             PROVE  FALSE
  BY DEF PayerSawOutputs
<1>0. j # k
  BY DEF Competing
<1>1. Paying(j) \/ (i = j /\ MarkStarted(j))
  BY PayingGoesOn DEF DeliveryInvariant, GateInvariant, Effect, Paying, Authorized
<1>2. document'[k].origin = document[k].origin \/ (i = k /\ Paying(k))
  BY DeliveriesAre DEF DeliveryInvariant, GateInvariant, Effect
<1>3. document'[k].hidden = document[k].hidden
  BY DEF Effect
<1>4. Exists(j)
  BY <1>1 DEF DeliveryInvariant, GateInvariant, JobInvariant, Paying, MarkStarted
<1>5. Exists(k)
  BY <1>2 DEF DeliveryInvariant, GateInvariant, JobInvariant, Paying, AcceptedOutput, Delivered
<1>6. Competing(j, k) /\ ~job[j].approved
  BY <1>4, <1>5, CompetedBefore DEF DeliveryInvariant, Effect, SameRecording
<1>7. ~Paying(k)
  BY <1>1, <1>6 DEF DeliveryInvariant, OnePayer, GateSawPayers, MarkStarted
<1>8. AcceptedOutput(k) /\ document[k].origin \notin {"restored", "found"}
  BY <1>2, <1>3, <1>7 DEF AcceptedOutput, Delivered
<1> QED
  BY <1>1, <1>6, <1>8
  DEF DeliveryInvariant, PayerSawOutputs, GateInvariant, GateSawOutputs, MarkStarted

\* A paid document is delivered beside restored and found ones only.
LEMMA DuplicatesKeepTheirCause ==
    ASSUME DeliveryInvariant, NEW i \in Jobs, RunStep(i) \/ Environment(i), Effect(i)
    PROVE  DuplicatesHaveACause'
<1>1. ASSUME NEW j \in Jobs, NEW k \in Jobs, Competing(j, k)', i # j,
             AcceptedOutput(j)', AcceptedOutput(k)', ~job'[j].approved, ~job'[k].approved,
             document'[j].origin \notin {"restored", "found"},
             document'[k].origin \notin {"restored", "found"}
      PROVE  FALSE
  <2>1. AcceptedOutput(j) /\ document[j].origin = document'[j].origin
    BY <1>1 DEF Effect, AcceptedOutput, Delivered
  <2>2. (AcceptedOutput(k) /\ document[k].origin = document'[k].origin) \/ Paying(k)
    BY <1>1, DeliveriesAre
    DEF DeliveryInvariant, GateInvariant, Effect, AcceptedOutput, Delivered
  <2>3. Exists(j) /\ Exists(k)
    BY <2>1, <2>2
    DEF DeliveryInvariant, GateInvariant, JobInvariant, Paying, AcceptedOutput
  <2>4. Competing(j, k) /\ Competing(k, j) /\ ~job[j].approved /\ ~job[k].approved
    <3>1. Competing(j, k)
      BY <1>1, <2>3, CompetedBefore DEF DeliveryInvariant
    <3> QED
      BY <1>1, <2>3, <3>1 DEF Competing, Matches, Effect, SameRecording
  <2>5. CASE Paying(k)
    BY <1>1, <2>1, <2>4, <2>5 DEF DeliveryInvariant, PayerSawOutputs
  <2>6. CASE AcceptedOutput(k) /\ document[k].origin = document'[k].origin
    BY <1>1, <2>1, <2>4, <2>6 DEF DeliveryInvariant, DuplicatesHaveACause
  <2> QED
    BY <2>2, <2>5, <2>6
<1>2. \A j, k \in Jobs : Competing(j, k)' => Competing(k, j)' /\ j # k
  BY DEF Competing, Matches, Exists
<1> SUFFICES ASSUME NEW j \in Jobs, NEW k \in Jobs, Competing(j, k)',
                    AcceptedOutput(j)', AcceptedOutput(k)', ~job'[j].approved, ~job'[k].approved,
                    document'[j].origin \notin {"restored", "found"},
                    document'[k].origin \notin {"restored", "found"}
             PROVE  FALSE
  BY DEF DuplicatesHaveACause
<1> QED
  BY <1>1, <1>2

LEMMA DeliveryInit == Init => DeliveryInvariant
<1> SUFFICES ASSUME Init PROVE DeliveryInvariant
  OBVIOUS
<1>1. GateInvariant
  BY GateInit
<1>2. \A j \in Jobs : step[j] = "idle" /\ document[j].origin = "none"
  BY DEF Init
<1> QED
  BY <1>1, <1>2
  DEF DeliveryInvariant, PayingIsOpen, Paying, GateSawPayers, OnePayer, PayerSawOutputs,
      DuplicatesHaveACause, AcceptedOutput, Delivered

LEMMA DeliveryNext == DeliveryInvariant /\ [Next]_vars => DeliveryInvariant'
<1> SUFFICES ASSUME DeliveryInvariant, [Next]_vars PROVE DeliveryInvariant'
  OBVIOUS
<1>0. GateInvariant /\ GateInvariant'
  BY GateNext DEF DeliveryInvariant
<1>1. ASSUME NEW j \in Jobs, RunStep(j) \/ Environment(j)
      PROVE  DeliveryInvariant'
  <2>1. Effect(j)
    BY <1>0, <1>1, OneStep DEF GateInvariant
  <2>2. PayingIsOpen'
    BY <1>0, <1>1, <2>1, PayingStaysOpen DEF DeliveryInvariant
  <2> QED
    BY <1>0, <1>1, <2>1, <2>2, GateKeepsPayers, OnePayerStays, PayerKeepsOutputs,
       DuplicatesKeepTheirCause
    DEF DeliveryInvariant
<1>2. CASE ResetManifest
  <2>0. /\ TypeOK' /\ UNCHANGED <<job, attempt, step, lock>>
        /\ \A k \in Jobs : /\ document'[k].case = document[k].case
                         /\ document'[k].origin = document[k].origin
                         /\ document'[k].hidden = Delivered(k)
    BY <1>0, <1>2, ResetStep DEF GateInvariant
  <2>1. \A k \in Jobs : ~AcceptedOutput(k)'
    <3> SUFFICES ASSUME NEW k \in Jobs PROVE ~AcceptedOutput(k)'
      OBVIOUS
    <3>1. Delivered(k)' <=> Delivered(k)
      BY <2>0 DEF Delivered
    <3>2. document'[k].hidden = Delivered(k)
      BY <2>0, Zenon
    <3> QED
      BY <3>1, <3>2, Zenon DEF AcceptedOutput
  <2>2. PayingIsOpen' /\ GateSawPayers' /\ OnePayer'
    BY <2>0
    DEF DeliveryInvariant, PayingIsOpen, GateSawPayers, OnePayer, Paying, Authorized, Competing,
        Matches, Exists
  <2> QED
    BY <1>0, <2>1, <2>2 DEF DeliveryInvariant, PayerSawOutputs, DuplicatesHaveACause
<1>3. CASE UNCHANGED vars
  BY <1>0, <1>3
  DEF vars, DeliveryInvariant, PayingIsOpen, GateSawPayers, OnePayer, PayerSawOutputs,
      DuplicatesHaveACause, Paying, Authorized, AcceptedOutput, Delivered, Competing, Matches,
      Exists
<1> QED
  BY <1>1, <1>2, <1>3 DEF Next

\* At most one of the jobs of a recording is past its gate with the authority to
\* deliver, and what is delivered beside it was not paid for again.
THEOREM DeliveryInvariantHolds == Spec => []DeliveryInvariant
<1> QED
  BY DeliveryInit, DeliveryNext, PTL DEF Spec

\* Two documents of one recording with the same settings, none of them approved as
\* a repetition: one restores a result paid earlier, or was found by
\* reconciliation (the gate of job_elevenlabs_transcription.py and the fence of
\* persist_processing_job_source_output_and_maybe_complete).
THEOREM DuplicatesHaveACauseHolds == Spec => []DuplicatesHaveACause
<1>1. DeliveryInvariant => DuplicatesHaveACause
  BY DEF DeliveryInvariant
<1> QED
  BY <1>1, DeliveryInvariantHolds, PTL

=============================================================================
