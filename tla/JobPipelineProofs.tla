------------------------- MODULE JobPipelineProofs -------------------------
(***************************************************************************)
(* Proofs about JobPipeline, for any number of sources, parts, attempts,   *)
(* claims and runs: one document per source, every document traceable, no  *)
(* part paid twice without consent, and the pipeline implements the        *)
(* lifecycle of the job.                                                   *)
(***************************************************************************)
EXTENDS JobPipeline, FiniteSetTheorems, WellFoundedInduction, TLAPS

(***************************************************************************)
(* The inductive invariant.  It says of every run, current or left over,   *)
(* what its step lets one conclude about the rows of the database and the  *)
(* world; most clauses bind only the run the job is working with.          *)
(***************************************************************************)

Paying   == {"billing", "sending", "answered", "checkpointing"}
Received == {"returning", "merging", "output", "handing", "googling", "creating", "created",
             "persisting", "uncertain"}
AtSource == {"source", "transcribing"} \cup Paying \cup Received
Outside  == {"idle", "claimed", "gone", "ended"}

\* The run the job is processed by.
Working(g) == job.status = "processing" /\ job.generation = g

NoCase(s) == cases[s].status = "none"

\* The cases an owner's reconciliation looks at.
Looked == {"reconciliation_required", "creation_returned"}

Fresh(row) == ~row.started /\ row.total = 0 /\ row.done = 0 /\ row.code # "partial_provider_result"

\* The provider may have been paid in this attempt, and nothing excludes it.
Doubtful(row) == row.started /\ ~(row.disposition = "retry_safe" /\ row.code \in SafePreTransport)

Spent(s, p) == calls[s][p] > consent.given

\* Every part that was paid since the last consent is kept.
Payable(s) == \A p \in PartIndexes : p \in checkpoints[s] \/ ~Spent(s, p)

\* What makes it safe not to ask the provider for a source again, or to ask.
Covered(s) ==
    \/ Payable(s)
    \/ CompleteBefore(s, job.attempts)
    \/ job.status # "queued" /\ Doubtful(Current(s))

Ledger ==
    /\ \A s \in Sources, n \in Attempts :
          att[s][n].stage = "none" \/ n > job.attempts => att[s][n] = NoRow
    /\ job.status = "queued" => job.attempts < MaxAttempts
    /\ job.status \in {"processing", "failed"} => job.attempts \in Attempts
    /\ job.status \in {"queued", "processing"} => Missing # {}

Documents ==
    /\ \A s \in Sources :
          /\ docs[s] <= creates[s] /\ creates[s] <= 1
          /\ NoCase(s) => creates[s] = 0
          /\ s \in outputs <=> cases[s].status = "resolved"
          /\ s \in outputs => docs[s] = 1
          /\ ~NoCase(s) => CompleteBefore(s, job.attempts)
    /\ job.status = "completed" => outputs = Sources

Queued == job.status = "queued" => \A s \in Missing : NoCase(s)

Failed ==
    job.status = "failed" /\ job.attempts < MaxAttempts =>
        /\ Missing # {}
        /\ job.error # "output_reconciliation_required" =>
              \E s \in Missing : cases[s].status \notin Looked

\* Where a run may be.
Placed(g) ==
    /\ run[g].step \in AtSource => Src(g) \in Sources
    /\ run[g].step \notin Outside => job.attempts \in Attempts
    /\ run[g].step \in {"billing", "sending", "answered"} => run[g].held < Parts
    /\ At(g, "checkpointing") => run[g].held # 0
    /\ At(g, "answered") => run[g].answer # "none"
    /\ run[g].error # "output_reconciliation_required"
    /\ g > job.generation => At(g, "idle")
    /\ At(g, "claimed") /\ job.generation = g => job.status \notin {"processing", "failed"}
    /\ At(g, "preparing") /\ Working(g) => \A s \in Sources : Current(s) = NoRow

\* The working run handles the sources in order.
Advanced(g) ==
    Working(g) /\ run[g].step \in AtSource =>
        /\ \A s \in Sources : s < Src(g) => s \in outputs
        /\ ~At(g, "source") => Src(g) \notin outputs

\* The working run opens at most the case of its source.
Clean(g) ==
    Working(g) =>
        /\ run[g].step \in ({"preparing"} \cup AtSource) \ {"creating", "created", "persisting",
                                                            "uncertain"} =>
              \A s \in Missing : NoCase(s)
        /\ run[g].step \in {"creating", "created", "persisting"} =>
              \A s \in Missing \ {Src(g)} : NoCase(s)
        /\ run[g].step \in {"creating", "created"} => cases[Src(g)].status = "prepared"
        /\ At(g, "failing") => \A s \in Missing : cases[s].status \in {"none", "prepared"}

\* Only the run whose case it is sends a create request.
Creating(g) ==
    /\ At(g, "creating") =>
          creates[Src(g)] = 0 /\ ~NoCase(Src(g)) /\ cases[Src(g)].generation = g
    /\ run[g].step \in {"created", "persisting"} => docs[Src(g)] = 1

\* The working run has not begun the sources after its own.
Untouched(g) ==
    Working(g) =>
        /\ run[g].step \in AtSource => \A s \in Missing : s > Src(g) => Fresh(Current(s))
        /\ run[g].step \in {"source", "transcribing"} /\ Src(g) \notin outputs =>
              Fresh(Current(Src(g)))

Complete(g) == run[g].step \in Received => CompleteBefore(Src(g), job.attempts)

Begun(row) ==
    /\ row.stage = "provider_request_started" /\ row.disposition = "undetermined"
    /\ row.code # "partial_provider_result" /\ row.started /\ row.total = Parts

\* Between two calls the row of a run promises no outcome: whatever recovery
\* or the owner try, the job does not return to the queue and no other claim
\* succeeds this one.
Stuck(g) ==
    run[g].step \in Paying =>
        /\ job.generation = g /\ job.status # "queued"
        /\ NoCase(Src(g)) /\ Src(g) \notin outputs
        /\ ~CompleteBefore(Src(g), job.attempts - 1)
        /\ Begun(Current(Src(g)))
        /\ Current(Src(g)).done = IF At(g, "checkpointing") THEN run[g].held - 1 ELSE run[g].held

\* The part in flight, if its call may be billed.
InFlight(g) == At(g, "answered") /\ run[g].answer \notin ProviderRejections

\* What a run that pays has paid already, and what of it is kept.
Sparing(g) ==
    run[g].step \in Paying =>
        /\ \A p \in PartIndexes :
              p > run[g].held /\ (InFlight(g) => p # run[g].held + 1) => ~Spent(Src(g), p)
        /\ job.status = "processing" =>
              \A p \in PartIndexes :
                 p < run[g].held \/ (p = run[g].held /\ ~At(g, "checkpointing")) =>
                    p \in checkpoints[Src(g)]

Payments ==
    ~job.attentionResolved =>
        /\ \A s \in Sources, p \in PartIndexes : calls[s][p] <= 1 + consent.given
        /\ \A g \in Generations : Sparing(g)
        /\ job.status \notin {"completed", "cancelled"} => \A s \in Missing : Covered(s)

Local(g) ==
    /\ Placed(g) /\ Advanced(g) /\ Clean(g) /\ Creating(g) /\ Untouched(g)
    /\ Complete(g) /\ Stuck(g)

PipelineInvariant ==
    /\ TypeOK /\ Ledger /\ Documents /\ Queued /\ Failed /\ Payments /\ CancelledKeepsNoText
    /\ \A g \in Generations : Local(g)

-----------------------------------------------------------------------------
(***************************************************************************)
(* What the steps write, in the form the proofs use it.                    *)
(***************************************************************************)

LEMMA Ranges ==
  /\ Sources \subseteq Nat /\ Attempts \subseteq Nat /\ Generations \subseteq Nat
  /\ PartIndexes \subseteq Nat /\ Parts \in Nat /\ Parts >= 1
  /\ 0 \in 0..NumSources /\ 0 \in 0..Parts /\ 0 \in 0..MaxAttempts /\ 0 \in 0..MaxGeneration
  /\ \A s \in Sources : s \in 0..NumSources
  /\ \A n \in Attempts : n \in 0..MaxAttempts
  /\ \A g \in Generations : g \in 0..MaxGeneration
  BY PipelineAssumption, PartsAssumption DEF Sources, Attempts, Generations, PartIndexes

LEMMA GotoEffect ==
  ASSUME run \in [Generations -> Run], NEW g \in Generations, NEW step \in Step, Goto(g, step)
  PROVE  /\ run' \in [Generations -> Run]
         /\ run'[g].step = step /\ run'[g].source = run[g].source /\ run'[g].held = run[g].held
         /\ run'[g].answer = run[g].answer /\ run'[g].error = run[g].error
         /\ \A h \in Generations : h # g => run'[h] = run[h]
  BY DEF Goto, Run

LEMMA ForgetEffect ==
  ASSUME run \in [Generations -> Run], NEW g \in Generations, NEW step \in Step, Forget(g, step)
  PROVE  /\ run' \in [Generations -> Run]
         /\ run'[g].step = step /\ run'[g].source = 0 /\ run'[g].held = 0
         /\ run'[g].answer = "none" /\ run'[g].error = "none"
         /\ \A h \in Generations : h # g => run'[h] = run[h]
  BY Ranges DEF Forget, Run, Answer, ErrorCode

LEMMA NextSourceEffect ==
  ASSUME run \in [Generations -> Run], NEW g \in Generations, Src(g) + 1 \in Sources, NextSource(g)
  PROVE  /\ run' \in [Generations -> Run]
         /\ run'[g].step = "source" /\ run'[g].source = run[g].source + 1
         /\ run'[g].error = "none"
         /\ \A h \in Generations : h # g => run'[h] = run[h]
<1> DEFINE next == Src(g) + 1
<1>1. next \in 0..NumSources
  BY Ranges
<1>2. run' = [run EXCEPT ![g] = [step |-> "source", source |-> next, held |-> 0,
                                 answer |-> "none", error |-> "none"]]
  BY DEF NextSource
<1>3. next = run[g].source + 1
  BY DEF Src
<1> HIDE DEF next
<1> QED
  BY <1>1, <1>2, <1>3, Ranges DEF Run, Answer, ErrorCode, Step

\* Two fields of a run at once.
LEMMA TwoFields ==
  ASSUME run \in [Generations -> Run], NEW g \in Generations, NEW r \in Run,
         run' = [run EXCEPT ![g] = r]
  PROVE  /\ run' \in [Generations -> Run] /\ run'[g] = r
         /\ \A h \in Generations : h # g => run'[h] = run[h]
  OBVIOUS

LEMMA GiveUpEffect ==
  ASSUME run \in [Generations -> Run], NEW g \in Generations, NEW error \in ErrorCode,
         GiveUp(g, error)
  PROVE  /\ run' \in [Generations -> Run]
         /\ run'[g].step = "failing" /\ run'[g].source = run[g].source
         /\ run'[g].error = error
         /\ \A h \in Generations : h # g => run'[h] = run[h]
<1> DEFINE r == [[run[g] EXCEPT !.step = "failing"] EXCEPT !.error = error]
<1>1. [run[g] EXCEPT !.step = "failing"] \in Run
  BY DEF Run, Step
<1>2. r \in Run /\ r.step = "failing" /\ r.source = run[g].source /\ r.error = error
  BY <1>1 DEF Run
<1>3. run' = [run EXCEPT ![g] = r]
  BY DEF GiveUp
<1> HIDE DEF r
<1> QED
  BY <1>2, <1>3, TwoFields

\* How the row of the job changes: what the invariant reads of it.
SameJob(j) ==
    /\ j.status = job.status /\ j.generation = job.generation /\ j.attempts = job.attempts
    /\ j.error = job.error /\ j.attentionResolved = job.attentionResolved

LEMMA FinalizedTyped ==
  ASSUME NEW j \in Job
  PROVE  /\ Finalized(j) \in Job
         /\ Finalized(j).status = j.status /\ Finalized(j).generation = j.generation
         /\ Finalized(j).attempts = j.attempts /\ Finalized(j).error = j.error
         /\ Finalized(j).attentionResolved = j.attentionResolved
         /\ Finalized(j).owned = j.owned /\ Finalized(j).live = j.live
         /\ Finalized(j).cancelRequested = j.cancelRequested
         /\ Finalized(j).deferred = j.deferred
<1>1. UsageUncertain \in BOOLEAN
  BY DEF UsageUncertain
<1> QED
  BY <1>1 DEF Finalized, Job

LEMMA ReleasedTyped ==
  ASSUME NEW j \in Job
  PROVE  /\ Released(j) \in Job
         /\ Released(j).status = j.status /\ Released(j).generation = j.generation
         /\ Released(j).attempts = j.attempts /\ Released(j).error = j.error
         /\ Released(j).attentionResolved = j.attentionResolved
         /\ ~Released(j).owned /\ ~Released(j).live
         /\ Released(j).cancelRequested = j.cancelRequested
         /\ Released(j).deferred = j.deferred
  BY DEF Released, Job

LEMMA FinishEffect ==
  ASSUME job \in Job, NEW status \in Status, NEW error \in ErrorCode
  PROVE  LET j == Finish(job, status, error)
         IN  /\ j \in Job /\ j.status = status /\ j.error = error
             /\ j.generation = job.generation /\ j.attempts = job.attempts
             /\ j.attentionResolved = job.attentionResolved
             /\ ~j.owned /\ ~j.live /\ j.cancelRequested = job.cancelRequested
             /\ j.deferred = job.deferred
<1> DEFINE i == [job EXCEPT !.status = status, !.error = error]
<1>1. /\ i \in Job /\ i.status = status /\ i.error = error
      /\ i.generation = job.generation /\ i.attempts = job.attempts
      /\ i.attentionResolved = job.attentionResolved
      /\ i.cancelRequested = job.cancelRequested /\ i.deferred = job.deferred
  BY DEF Job
<1> HIDE DEF i
<1>2. Finish(job, status, error) = Finalized(Released(i))
  BY DEF Finish, i
<1> QED
  BY <1>1, <1>2, FinalizedTyped, ReleasedTyped

LEMMA RequeuedEffect ==
  ASSUME job \in Job, NEW deferred \in BOOLEAN
  PROVE  LET j == Requeued(job, deferred)
         IN  /\ j \in Job /\ j.status = "queued" /\ j.error = "none"
             /\ j.generation = job.generation /\ j.attempts = job.attempts
             /\ j.attentionResolved = job.attentionResolved
             /\ ~j.owned /\ ~j.live /\ j.cancelRequested = job.cancelRequested
             /\ j.deferred = deferred
<1> DEFINE i == [job EXCEPT !.status = "queued", !.error = "none", !.deferred = deferred]
<1>1. /\ i \in Job /\ i.status = "queued" /\ i.error = "none"
      /\ i.generation = job.generation /\ i.attempts = job.attempts
      /\ i.attentionResolved = job.attentionResolved
      /\ i.cancelRequested = job.cancelRequested /\ i.deferred = deferred
  BY DEF Job, Status, ErrorCode
<1> HIDE DEF i
<1>2. Requeued(job, deferred) = Released(i)
  BY DEF Requeued, i
<1> QED
  BY <1>1, <1>2, ReleasedTyped

LEMMA FlagEffect ==
  ASSUME job \in Job, NEW flag \in BOOLEAN,
         NEW j \in {[job EXCEPT !.cancelRequested = flag], [job EXCEPT !.live = flag],
                    [job EXCEPT !.deferred = flag], [job EXCEPT !.accountingComplete = flag],
                    [job EXCEPT !.accountingUncertain = flag]}
  PROVE  j \in Job /\ SameJob(j)
<1>1. CASE j = [job EXCEPT !.cancelRequested = flag]
  BY <1>1 DEF Job, SameJob
<1>2. CASE j = [job EXCEPT !.live = flag]
  BY <1>2 DEF Job, SameJob
<1>3. CASE j = [job EXCEPT !.deferred = flag]
  BY <1>3 DEF Job, SameJob
<1>4. CASE j = [job EXCEPT !.accountingComplete = flag]
  BY <1>4 DEF Job, SameJob
<1>5. CASE j = [job EXCEPT !.accountingUncertain = flag]
  BY <1>5 DEF Job, SameJob
<1> QED
  BY <1>1, <1>2, <1>3, <1>4, <1>5

\* Both marks of an uncertain amount, and a confirmed part.
LEMMA AccountingEffect ==
  ASSUME job \in Job
  PROVE  /\ LET j == [job EXCEPT !.accountingUncertain = TRUE, !.accountingComplete = FALSE]
            IN  j \in Job /\ SameJob(j)
         /\ LET j == [job EXCEPT !.billed = @ + 1, !.accountingComplete = FALSE]
            IN  j \in Job /\ SameJob(j)
<1> DEFINE yes == TRUE
           no == FALSE
           n == job.billed + 1
<1>1. yes \in BOOLEAN /\ no \in BOOLEAN /\ n \in Nat
  BY DEF Job
<1> HIDE DEF yes, no, n
<1>2. LET j == [job EXCEPT !.accountingUncertain = yes, !.accountingComplete = no]
      IN  j \in Job /\ SameJob(j)
  BY <1>1 DEF Job, SameJob
<1>3. LET j == [job EXCEPT !.billed = n, !.accountingComplete = no]
      IN  j \in Job /\ SameJob(j)
  BY <1>1 DEF Job, SameJob
<1>4. LET j == [job EXCEPT !.accountingUncertain = TRUE, !.accountingComplete = FALSE]
      IN  j \in Job /\ SameJob(j)
  BY <1>2, Zenon DEF yes, no
<1>5. LET j == [job EXCEPT !.billed = @ + 1, !.accountingComplete = FALSE]
      IN  j \in Job /\ SameJob(j)
  BY <1>3, Zenon DEF n, no
<1> QED
  BY <1>4, <1>5, Zenon

-----------------------------------------------------------------------------
(***************************************************************************)
(* The rows of the ledger.                                                 *)
(***************************************************************************)

LEMMA FreshRows ==
  /\ NoRow \in Row /\ PreparedRow \in Row
  /\ Fresh(NoRow) /\ Fresh(PreparedRow) /\ PreparedRow.stage = "prepared"
  /\ ~CompleteRow(NoRow) /\ ~CompleteRow(PreparedRow) /\ NoRow.stage = "none"
<1>1. "none" \in FailureCode /\ 0 \in {0, Parts} /\ 0 \in 0..Parts
  BY PartsAssumption DEF FailureCode
<1>2. NoRow \in Row
  BY <1>1 DEF NoRow, Row, Stage, Disposition, Accounting
<1>3. PreparedRow \in Row
  BY <1>2 DEF PreparedRow, Row, Stage
<1>4. Fresh(NoRow) /\ Fresh(PreparedRow) /\ PreparedRow.stage = "prepared"
  BY DEF Fresh, PreparedRow, NoRow
<1>5. ~CompleteRow(NoRow) /\ ~CompleteRow(PreparedRow) /\ NoRow.stage = "none"
  BY DEF CompleteRow, PreparedRow, NoRow
<1> QED
  BY <1>2, <1>3, <1>4, <1>5

LEMMA FreshIsNotComplete ==
  ASSUME NEW row, Fresh(row) PROVE ~CompleteRow(row) /\ ~Doubtful(row)
  BY DEF Fresh, CompleteRow, Doubtful

LEMMA StartedEffect ==
  ASSUME NEW row \in Row, NEW held \in 0..Parts
  PROVE  LET r == StartedRow(row, held)
         IN  /\ r \in Row
             /\ r.stage = "provider_request_started" /\ r.disposition = "undetermined"
             /\ r.code = row.code /\ r.started /\ r.total = Parts /\ r.done = held
<1> DEFINE yes == TRUE
           r == [row EXCEPT !.stage = "provider_request_started", !.disposition = "undetermined",
                            !.started = yes, !.total = Parts, !.done = held]
<1>1. yes \in BOOLEAN /\ Parts \in {0, Parts} /\ yes
  OBVIOUS
<1> HIDE DEF yes
<1>2. /\ r \in Row
      /\ r.stage = "provider_request_started" /\ r.disposition = "undetermined"
      /\ r.code = row.code /\ r.started /\ r.total = Parts /\ r.done = held
  BY <1>1 DEF Row, Stage, Disposition
<1>3. StartedRow(row, held) = r
  BY Zenon DEF StartedRow, yes
<1> HIDE DEF r
<1> QED
  BY <1>2, <1>3

LEMMA PartCompletedEffect ==
  ASSUME NEW row \in Row, NEW part \in 0..Parts
  PROVE  LET r == PartCompletedRow(row, part)
         IN  /\ r \in Row
             /\ r.stage = row.stage /\ r.disposition = row.disposition /\ r.code = row.code
             /\ r.started = row.started /\ r.total = row.total /\ r.done = part
  BY DEF PartCompletedRow, Row

LEMMA ReturnedEffect ==
  ASSUME NEW row \in Row
  PROVE  LET r == ReturnedRow(row)
         IN  /\ r \in Row /\ r.stage = "provider_response_returned"
             /\ r.started = row.started /\ r.total = row.total /\ r.done = row.total
             /\ r.code = row.code
<1> DEFINE yes == TRUE
           n == row.total
           r == [row EXCEPT !.stage = "provider_response_returned",
                            !.disposition = "provider_result_lost", !.returned = yes, !.done = n]
<1>1. yes \in BOOLEAN /\ n \in 0..Parts /\ n = row.total
  BY Ranges DEF Row
<1> HIDE DEF yes, n
<1>2. /\ r \in Row /\ r.stage = "provider_response_returned" /\ r.started = row.started
      /\ r.total = row.total /\ r.done = n /\ r.code = row.code
  BY <1>1 DEF Row, Stage, Disposition
<1>3. ReturnedRow(row) = r
  BY Zenon DEF ReturnedRow, yes, n
<1> HIDE DEF r
<1> QED
  BY <1>1, <1>2, <1>3

\* The writes that leave the parts of a row alone.
SameParts(r, row) == r.started = row.started /\ r.total = row.total /\ r.done = row.done

LEMMA HandedOffEffect ==
  ASSUME NEW row \in Row
  PROVE  LET r == HandedOffRow(row)
         IN  r \in Row /\ SameParts(r, row) /\ r.code = row.code /\ r.stage = "google_handoff"
  BY DEF HandedOffRow, Row, Stage, Disposition, SameParts

LEMMA CompletedEffect ==
  ASSUME NEW row \in Row
  PROVE  LET r == CompletedRow(row)
         IN  r \in Row /\ SameParts(r, row) /\ r.code = row.code /\ r.stage = "output_persisted"
  BY DEF CompletedRow, Row, Stage, Disposition, SameParts

LEMMA OutputUncertainEffect ==
  ASSUME NEW row \in Row
  PROVE  LET r == OutputUncertainRow(row)
         IN  /\ r \in Row /\ SameParts(r, row) /\ r.code \in {row.code, "output_uncertain"}
             /\ r.stage = row.stage /\ (row.stage = "none" => r = row)
<1>1. "output_uncertain" \in FailureCode
  BY DEF FailureCode
<1> QED
  BY <1>1 DEF OutputUncertainRow, Row, Disposition, SameParts

LEMMA AccountingFieldEffect ==
  ASSUME NEW row \in Row, NEW a \in Accounting
  PROVE  LET r == [row EXCEPT !.accounting = a]
         IN  /\ r \in Row /\ SameParts(r, row) /\ r.code = row.code /\ r.stage = row.stage
             /\ r.disposition = row.disposition
  BY DEF Row, SameParts

LEMMA UsageUncertainEffect ==
  ASSUME NEW row \in Row
  PROVE  LET r == UsageUncertainRow(row)
         IN  /\ r \in Row /\ SameParts(r, row) /\ r.code = row.code /\ r.stage = row.stage
             /\ r.disposition = row.disposition /\ r.providerCode = row.providerCode
             /\ r.returned = row.returned
<1>1. "uncertain" \in Accounting
  BY DEF Accounting
<1> QED
  BY <1>1 DEF UsageUncertainRow, Row, SameParts

\* What a classification writes; a failure that may have cost a call leaves
\* the doubt about it.
LEMMA ClassifiedEffect ==
  ASSUME NEW row \in Row, NEW code \in FailureCode, NEW providerCode \in FailureCode
  PROVE  LET r == ClassifiedRow(UsageUncertainRow(row), code, providerCode)
         IN  /\ r \in Row /\ SameParts(r, row)
             /\ r.stage \in {row.stage, "failed"}
             /\ r.stage = "none" => row.disposition = "completed"
             /\ Doubtful(row) /\ code \notin SafePreTransport => Doubtful(r)
<1> DEFINE u == UsageUncertainRow(row)
           kept == IF providerCode = "none" /\ code = "partial_provider_result"
                   THEN u.providerCode ELSE providerCode
           disposition == FailureDisposition(u, code)
           c == [u EXCEPT !.stage = "failed", !.code = code, !.disposition = disposition,
                          !.providerCode = kept]
<1>1. /\ u \in Row /\ SameParts(u, row) /\ u.code = row.code /\ u.stage = row.stage
      /\ u.disposition = row.disposition
  BY UsageUncertainEffect
<1>2. ClassifiedRow(u, code, providerCode) = IF u.disposition = "completed" THEN u ELSE c
  BY DEF ClassifiedRow
<1>3. disposition \in Disposition
  BY DEF FailureDisposition, Disposition
<1>4. Doubtful(u) /\ code \notin SafePreTransport => disposition # "retry_safe"
  BY DEF FailureDisposition, Doubtful
<1>5. kept \in FailureCode
  BY <1>1 DEF Row
<1>6. Doubtful(row) => Doubtful(u)
  BY <1>1 DEF Doubtful, SameParts
<1> HIDE DEF u, disposition, kept
<1>7. /\ c \in Row /\ SameParts(c, u) /\ c.stage = "failed" /\ c.disposition = disposition
      /\ c.started = u.started
  BY <1>1, <1>3, <1>5 DEF Row, Stage, SameParts
<1> HIDE DEF c
<1>8. ClassifiedRow(UsageUncertainRow(row), code, providerCode)
        = IF u.disposition = "completed" THEN u ELSE c
  BY <1>2 DEF u
<1>9. CASE u.disposition = "completed"
  BY <1>1, <1>6, <1>8, <1>9
<1>10. CASE u.disposition # "completed"
  <2>1. Doubtful(row) /\ code \notin SafePreTransport => Doubtful(c)
    BY <1>4, <1>6, <1>7 DEF Doubtful
  <2> QED
    BY <1>1, <1>7, <1>8, <1>10, <2>1 DEF SameParts
<1> QED
  BY <1>9, <1>10

Typed == [Sources -> [Attempts -> Row]]

LEMMA SetRowEffect ==
  ASSUME att \in Typed, NEW s \in Sources, job.attempts \in Attempts, NEW row \in Row,
         SetRow(s, row)
  PROVE  /\ att' \in Typed
         /\ att'[s][job.attempts] = row
         /\ \A n \in Attempts : n # job.attempts => att'[s][n] = att[s][n]
         /\ \A t \in Sources : t # s => att'[t] = att[t]
<1> DEFINE rows == [att[s] EXCEPT ![job.attempts] = row]
<1>1. /\ rows \in [Attempts -> Row] /\ rows[job.attempts] = row
      /\ \A n \in Attempts : n # job.attempts => rows[n] = att[s][n]
  BY DEF Typed
<1>2. att' = [att EXCEPT ![s] = rows]
  BY DEF SetRow
<1> HIDE DEF rows
<1> QED
  BY <1>1, <1>2 DEF Typed

LEMMA CurrentTyped ==
  ASSUME TypeOK, NEW s \in Sources, job.attempts \in Attempts
  PROVE  Current(s) \in Row
  BY DEF TypeOK, Current

\* A row of a complete attempt stays one when its parts do.
LEMMA SamePartsComplete ==
  ASSUME NEW r, NEW row, SameParts(r, row)
  PROVE  CompleteRow(r) <=> CompleteRow(row)
  BY DEF SameParts, CompleteRow

LEMMA CompleteKept ==
  ASSUME NEW s, NEW a \in 0..MaxAttempts, job.attempts \in 0..MaxAttempts, a >= job.attempts,
         \A n \in Attempts : n <= job.attempts /\ CompleteRow(att[s][n]) => CompleteRow(att'[s][n]),
         CompleteBefore(s, job.attempts), job'.attempts = a
  PROVE  CompleteBefore(s, job.attempts)'
<1>1. PICK n \in 1..job.attempts : CompleteRow(att[s][n])
  BY DEF CompleteBefore
<1>2. n \in Attempts /\ n <= job.attempts /\ n \in 1..a
  BY <1>1, PipelineAssumption DEF Attempts
<1>3. CompleteRow(att'[s][n])
  BY <1>1, <1>2
<1> QED
  BY <1>2, <1>3 DEF CompleteBefore

\* The current attempt is the last one of those.
LEMMA CompleteSplit ==
  ASSUME NEW s, job.attempts \in Attempts
  PROVE  CompleteBefore(s, job.attempts)
           <=> CompleteBefore(s, job.attempts - 1) \/ CompleteRow(Current(s))
<1>1. /\ job.attempts \in Nat /\ job.attempts >= 1
      /\ \A n \in 1..job.attempts : n = job.attempts \/ n \in 1..(job.attempts - 1)
      /\ \A n \in 1..(job.attempts - 1) : n \in 1..job.attempts
      /\ job.attempts \in 1..job.attempts
  BY PipelineAssumption DEF Attempts
<1> QED
  BY <1>1 DEF CompleteBefore, Current

-----------------------------------------------------------------------------
(***************************************************************************)
(* Kinds of steps.                                                         *)
(***************************************************************************)

Only(g) == \A h \in Generations : h # g => run'[h] = run[h]

\* What a run that left the orchestrator owes: nothing.
LEMMA Left ==
  ASSUME NEW g \in Generations, run'[g].step \in {"gone", "ended"},
         run'[g].error # "output_reconciliation_required", ~(g > job'.generation)
  PROVE  Local(g)' /\ Sparing(g)'
<1>1. /\ run'[g].step \notin AtSource /\ run'[g].step \in Outside
      /\ run'[g].step \notin {"preparing", "failing", "idle", "claimed"}
  BY DEF AtSource, Outside, Paying, Received
<1>2. Placed(g)'
  BY <1>1 DEF Placed, At, AtSource, Paying, Received
<1>3. Advanced(g)' /\ Clean(g)' /\ Untouched(g)'
  BY <1>1 DEF Advanced, Clean, Untouched, At, AtSource, Received
<1>4. Creating(g)' /\ Complete(g)' /\ Stuck(g)' /\ Sparing(g)'
  BY <1>1 DEF Creating, Complete, Stuck, Sparing, At, AtSource, Received
<1> QED
  BY <1>2, <1>3, <1>4 DEF Local

\* A run that failed still knows whose case it may have opened.
LEMMA Stopped ==
  ASSUME NEW g \in Generations, run'[g].step \in {"failing", "recording"},
         run'[g].error # "output_reconciliation_required", ~(g > job'.generation),
         job'.attempts \in Attempts,
         run'[g].step = "failing" /\ Working(g)' =>
            \A s \in Missing' : cases'[s].status \in {"none", "prepared"}
  PROVE  Local(g)' /\ Sparing(g)'
<1>1. /\ run'[g].step \notin AtSource
      /\ run'[g].step \notin {"preparing", "idle", "claimed"}
  BY DEF AtSource, Paying, Received
<1>2. Placed(g)'
  BY <1>1 DEF Placed, At, AtSource, Paying, Received
<1>3. Advanced(g)' /\ Clean(g)' /\ Untouched(g)'
  BY <1>1 DEF Advanced, Clean, Untouched, At, AtSource, Received
<1>4. Creating(g)' /\ Complete(g)' /\ Stuck(g)' /\ Sparing(g)'
  BY <1>1 DEF Creating, Complete, Stuck, Sparing, At, AtSource, Received
<1> QED
  BY <1>2, <1>3, <1>4 DEF Local

\* A run is not idle once its generation was claimed, and the other way round.
LEMMA Claimed ==
  ASSUME PipelineInvariant, NEW g \in Generations, ~At(g, "idle")
  PROVE  ~(g > job.generation)
  BY DEF PipelineInvariant, Local, Placed

\* A step that moves a run and nothing else.
LEMMA QuietStep ==
  ASSUME PipelineInvariant, NEW g \in Generations, UNCHANGED <<database, world, consent>>,
         run' \in [Generations -> Run], Only(g), Local(g)',
         ~job.attentionResolved => Sparing(g)'
  PROVE  PipelineInvariant'
<1> USE DEF PipelineInvariant
<1>1. UNCHANGED <<job, att, checkpoints, cases, outputs, docs, creates, calls, consent>>
  BY DEF database, world
<1>2. TypeOK'
  BY <1>1 DEF TypeOK
<1>3. Ledger' /\ Documents' /\ Queued' /\ Failed' /\ CancelledKeepsNoText'
  BY <1>1 DEF Ledger, Documents, Queued, Failed, CancelledKeepsNoText, Missing, NoCase,
              CompleteBefore
<1>4. ASSUME NEW h \in Generations, h # g
      PROVE  Local(h)' /\ (Sparing(h) => Sparing(h)')
  <2>1. run'[h] = run[h] /\ Local(h)
    BY <1>4 DEF Only
  <2>2. Placed(h)' /\ Advanced(h)' /\ Clean(h)'
    BY <1>1, <2>1 DEF Local, Placed, Advanced, Clean, Working, At, Src, Missing, NoCase, Current
  <2>3. Creating(h)' /\ Untouched(h)' /\ Complete(h)' /\ Stuck(h)'
    BY <1>1, <2>1 DEF Local, Creating, Untouched, Complete, Stuck, Working, At, Src, Missing,
                      NoCase, Current, CompleteBefore
  <2>4. Sparing(h) => Sparing(h)'
    BY <1>1, <2>1 DEF Sparing, At, Src, InFlight, Spent
  <2> QED
    BY <2>2, <2>3, <2>4 DEF Local
<1>5. \A s \in Missing : Covered(s) => Covered(s)'
  BY <1>1 DEF Covered, Payable, Spent, CompleteBefore, Current
<1>6. Payments'
  BY <1>1, <1>4, <1>5 DEF Payments, Missing
<1> QED
  BY <1>2, <1>3, <1>4, <1>6

\* A step of the working run at a source, after which it works on.  No other
\* run pays or is worked with.
LEMMA WorkingStep ==
  ASSUME PipelineInvariant, NEW g \in Generations, Working(g),
         SameJob(job'), outputs' = outputs, consent' = consent,
         TypeOK', Only(g), Ledger', Documents', Local(g)',
         ~job.attentionResolved => Sparing(g)',
         \A s \in Sources, n \in Attempts :
            n <= job.attempts /\ CompleteRow(att[s][n]) => CompleteRow(att'[s][n]),
         \A h \in Generations : h # g => Creating(h)',
         \A s \in Missing : ~job.attentionResolved /\ Covered(s) => Covered(s)',
         \A s \in Sources, p \in PartIndexes :
            ~job.attentionResolved => calls'[s][p] <= 1 + consent.given
  PROVE  PipelineInvariant'
<1> USE DEF PipelineInvariant
<1>1. /\ job.status = "processing" /\ job.generation = g
      /\ job'.status = "processing" /\ job'.generation = g /\ job'.attempts = job.attempts
      /\ job'.attentionResolved = job.attentionResolved
  BY DEF SameJob, Working
<1>2. Queued' /\ Failed' /\ CancelledKeepsNoText'
  BY <1>1 DEF Queued, Failed, CancelledKeepsNoText
<1>3. ASSUME NEW h \in Generations, h # g PROVE Local(h)' /\ Sparing(h)'
  <2>1. run'[h] = run[h] /\ Local(h) /\ ~Working(h) /\ ~Working(h)'
    BY <1>1, <1>3 DEF Only, Working
  <2>2. run[h].step \notin Paying
    BY <1>1, <1>3, <2>1 DEF Local, Stuck
  <2>3. Placed(h)'
    BY <1>1, <1>3, <2>1 DEF Local, Placed, At, Src
  <2>4. Advanced(h)' /\ Clean(h)' /\ Untouched(h)'
    BY <2>1 DEF Advanced, Clean, Untouched
  <2>5. Complete(h)'
    <3> SUFFICES ASSUME run[h].step \in Received PROVE CompleteBefore(Src(h), job.attempts)'
      BY <2>1 DEF Complete
    <3>1. PICK s \in Sources : s = Src(h) /\ s = Src(h)' /\ CompleteBefore(s, job.attempts)
      BY <2>1 DEF Local, Placed, Complete, AtSource, Src
    <3>2. job.attempts \in 0..MaxAttempts /\ job.attempts >= job.attempts
      BY PipelineAssumption DEF TypeOK, Job
    <3>3. CompleteBefore(s, job.attempts)'
      BY <1>1, <3>1, <3>2, CompleteKept
    <3> QED
      BY <3>1, <3>3 DEF CompleteBefore
  <2>6. Stuck(h)' /\ Sparing(h)'
    BY <2>1, <2>2 DEF Stuck, Sparing
  <2> QED
    BY <1>3, <2>3, <2>4, <2>5, <2>6 DEF Local
<1>4. Payments'
  BY <1>1, <1>3 DEF Payments, Missing
<1> QED
  BY <1>2, <1>3, <1>4

\* Steps before the document of a source is asked for.
BeforeCreation == {"transcribing"} \cup Paying \cup {"returning", "merging", "output", "handing",
                                                     "googling"}

\* A run that goes on with its source knows what it knew of the others.
LEMMA Onward ==
  ASSUME PipelineInvariant, NEW g \in Generations, SameJob(job'), UNCHANGED <<cases, outputs>>,
         run'[g].source = run[g].source, run'[g].error = run[g].error,
         \A t \in Sources : t # Src(g) => att'[t] = att[t],
         run[g].step \in AtSource \ {"source"}, run'[g].step \in AtSource \ {"source", "transcribing"},
         run'[g].step \notin {"creating", "created", "persisting"},
         run'[g].step # "uncertain" => run[g].step \in BeforeCreation,
         run'[g].step \in {"billing", "sending", "answered"} => run'[g].held < Parts,
         run'[g].step = "checkpointing" => run'[g].held # 0,
         run'[g].step = "answered" => run'[g].answer # "none",
         Complete(g)', Stuck(g)'
  PROVE  Local(g)'
<1> USE DEF PipelineInvariant, Local
<1>1. /\ Src(g)' = Src(g) /\ Src(g) \in Sources /\ job.attempts \in Attempts
      /\ Working(g)' <=> Working(g)
      /\ job'.attempts = job.attempts /\ job'.generation = job.generation
      /\ run[g].step # "idle"
      /\ run[g].step \notin Outside
  BY DEF Src, Working, SameJob, Placed, AtSource, Outside, Paying, Received
<1>2. Placed(g)'
  <2>1. run'[g].step \notin {"idle", "claimed", "preparing"}
    BY DEF AtSource, Paying, Received
  <2>2. ~(g > job'.generation)
    BY <1>1 DEF Placed, At
  <2> QED
    BY <1>1, <2>1, <2>2 DEF Placed, At, Src
<1>3. Advanced(g)'
  BY <1>1 DEF Advanced, At
<1>4. Clean(g)'
  <2>1. CASE run'[g].step = "uncertain"
    BY <2>1 DEF Clean, At, AtSource
  <2>2. CASE run'[g].step # "uncertain"
    <3>1. Working(g) => \A s \in Missing : NoCase(s)
      BY <2>2 DEF Clean, BeforeCreation, AtSource, Paying, Received
    <3> QED
      BY <1>1, <3>1 DEF Clean, At, AtSource, Paying, Received, Missing, NoCase
  <2> QED
    BY <2>1, <2>2
<1>5. Creating(g)'
  BY DEF Creating, At
<1>6. Untouched(g)'
  <2> SUFFICES ASSUME Working(g)', NEW s \in Missing', s > Src(g)' PROVE Fresh(Current(s))'
    BY DEF Untouched, AtSource
  <2>1. s \in Missing /\ s > Src(g) /\ Working(g) /\ s \in Sources
    BY <1>1 DEF Missing
  <2>2. Fresh(Current(s))
    BY <2>1 DEF Untouched
  <2>3. att'[s] = att[s]
    BY <1>1, <2>1, Ranges
  <2> QED
    BY <1>1, <2>2, <2>3 DEF Current, Fresh
<1> QED
  BY <1>2, <1>3, <1>4, <1>5, <1>6

\* Quiet steps, by where they lead.
LEMMA LeaveStep ==
  ASSUME PipelineInvariant, NEW g \in Generations, ~At(g, "idle"), Leave(g),
         UNCHANGED <<database, world, consent>>
  PROVE  PipelineInvariant'
<1>1. run \in [Generations -> Run] /\ job' = job
  BY DEF PipelineInvariant, TypeOK, database
<1>2. /\ run' \in [Generations -> Run] /\ Only(g)
      /\ run'[g].step = "gone" /\ run'[g].error = "none"
  BY <1>1, ForgetEffect DEF Leave, Step, Only
<1>3. Local(g)' /\ Sparing(g)'
  BY <1>1, <1>2, Claimed, Left
<1> QED
  BY <1>2, <1>3, QuietStep

LEMMA GiveUpStep ==
  ASSUME PipelineInvariant, NEW g \in Generations, NEW error \in ErrorCode,
         error # "output_reconciliation_required", GiveUp(g, error),
         run[g].step \in {"preparing", "source"} \cup BeforeCreation,
         UNCHANGED <<database, world, consent>>
  PROVE  PipelineInvariant'
<1>1. /\ run \in [Generations -> Run] /\ job' = job /\ cases' = cases /\ outputs' = outputs
      /\ Placed(g) /\ Clean(g)
  BY DEF PipelineInvariant, TypeOK, database, Local
<1>2. /\ run' \in [Generations -> Run] /\ Only(g)
      /\ run'[g].step = "failing" /\ run'[g].error = error
  BY <1>1, GiveUpEffect DEF Only
<1>3. run[g].step \notin Outside /\ ~At(g, "idle") /\ job.attempts \in Attempts
  BY <1>1 DEF Placed, Outside, BeforeCreation, Paying, At
<1>4. Working(g) => \A s \in Missing : NoCase(s)
  BY <1>1 DEF Clean, AtSource, BeforeCreation, Paying, Received
<1>5. Working(g)' => \A s \in Missing' : cases'[s].status \in {"none", "prepared"}
  BY <1>1, <1>4 DEF Working, Missing, NoCase
<1>6. Local(g)' /\ Sparing(g)'
  BY <1>1, <1>2, <1>3, <1>5, Claimed, Stopped
<1> QED
  BY <1>2, <1>6, QuietStep

\* After the transcript is there.
LEMMA OnwardStep ==
  ASSUME PipelineInvariant, NEW g \in Generations, NEW step \in {"output", "handing", "uncertain"},
         Goto(g, step), run[g].step \in Received,
         step # "uncertain" => run[g].step \in BeforeCreation,
         UNCHANGED <<database, world, consent>>
  PROVE  PipelineInvariant'
<1>1. /\ run \in [Generations -> Run] /\ step \in Step
      /\ UNCHANGED <<job, att, cases, outputs>> /\ Complete(g)
  BY DEF PipelineInvariant, TypeOK, database, Local, Step
<1>2. /\ run' \in [Generations -> Run] /\ Only(g) /\ run'[g].step = step
      /\ run'[g].source = run[g].source /\ run'[g].error = run[g].error
  BY <1>1, GotoEffect DEF Only
<1>3. Complete(g)'
  BY <1>1, <1>2 DEF Complete, CompleteBefore, Src
<1>4. Stuck(g)' /\ Sparing(g)'
  BY <1>2 DEF Stuck, Sparing, Paying
<1>5. SameJob(job')
  BY <1>1 DEF SameJob
<1>6. Local(g)'
  <2>1. /\ run[g].step \in AtSource \ {"source"}
        /\ run'[g].step \in AtSource \ {"source", "transcribing"}
        /\ run'[g].step \notin {"creating", "created", "persisting", "answered", "checkpointing",
                                "billing", "sending"}
    BY <1>2 DEF AtSource, Received
  <2> QED
    BY <1>1, <1>2, <1>3, <1>4, <1>5, <2>1, Onward
<1> QED
  BY <1>2, <1>4, <1>6, QuietStep

\* The loop of the orchestrator has a next source as long as one is missing.
LEMMA NextExists ==
  ASSUME PipelineInvariant, NEW g \in Generations, Working(g), run[g].step \in AtSource,
         outputs \subseteq outputs', Src(g) \in outputs', Missing' # {}
  PROVE  Src(g) + 1 \in Sources
<1>1. PICK s \in Sources : s \notin outputs'
  BY DEF Missing
<1>2. Src(g) \in Sources /\ (s < Src(g) => s \in outputs)
  BY <1>1 DEF PipelineInvariant, Local, Placed, Advanced
<1>3. s > Src(g)
  <2>1. s \in Nat /\ Src(g) \in Nat
    BY <1>1, <1>2, Ranges
  <2>2. s # Src(g) /\ ~(s < Src(g))
    BY <1>1, <1>2
  <2> QED
    BY <2>1, <2>2
<1> QED
  BY <1>1, <1>2, <1>3, PipelineAssumption DEF Sources

LEMMA NextLocal ==
  ASSUME PipelineInvariant, NEW g \in Generations, Working(g), run[g].step \in AtSource,
         SameJob(job'), outputs \subseteq outputs', Src(g) \in outputs', Src(g) + 1 \in Sources,
         run'[g].step = "source", run'[g].source = run[g].source + 1, run'[g].error = "none",
         \A s \in Missing' : NoCase(s)',
         \A s \in Missing' : s > Src(g) => att'[s] = att[s]
  PROVE  Local(g)' /\ Sparing(g)'
<1> USE DEF PipelineInvariant, Local
<1>1. /\ Src(g)' = Src(g) + 1 /\ Src(g) \in Sources /\ Src(g) \in Nat
      /\ job'.attempts = job.attempts /\ job'.generation = job.generation
      /\ job.attempts \in Attempts /\ Working(g)'
      /\ At(g, "source")' /\ run[g].step \notin {"idle", "claimed", "gone", "ended"}
  <2>1. Src(g) \in Sources /\ Src(g)' = Src(g) + 1 /\ At(g, "source")' /\ Placed(g)
    BY DEF Src, Placed, At
  <2>2. run[g].step \notin Outside
    BY DEF AtSource, Outside, Paying, Received
  <2>3. job.attempts \in Attempts
    BY <2>1, <2>2 DEF Placed
  <2> QED
    BY <2>1, <2>2, <2>3, Ranges DEF SameJob, Working, Outside
<1>2. Placed(g)'
  <2>1. ~(g > job'.generation)
    BY <1>1 DEF Placed, At
  <2> QED
    BY <1>1, <2>1 DEF Placed, At, Src
<1>3. Advanced(g)'
  <2> SUFFICES ASSUME NEW s \in Sources, s < Src(g) + 1 PROVE s \in outputs'
    BY <1>1 DEF Advanced
  <2>1. s \in Nat /\ (s < Src(g) \/ s = Src(g))
    BY <1>1, Ranges
  <2> QED
    BY <1>1, <2>1 DEF Advanced
<1>4. Clean(g)'
  BY <1>1 DEF Clean, At
<1>5. Creating(g)' /\ Complete(g)' /\ Stuck(g)' /\ Sparing(g)'
  BY <1>1 DEF Creating, Complete, Stuck, Sparing, At, Received, Paying
<1>6. \A s \in Missing' : s > Src(g) => Fresh(Current(s))'
  <2> SUFFICES ASSUME NEW s \in Missing', s > Src(g) PROVE Fresh(Current(s))'
    OBVIOUS
  <2>1. s \in Missing /\ Fresh(Current(s))
    BY DEF Untouched, Missing
  <2> QED
    BY <1>1, <2>1 DEF Current, Fresh
<1>7. Untouched(g)'
  <2>1. ASSUME NEW s \in Missing', s > Src(g) + 1 PROVE Fresh(Current(s))'
    <3>1. s \in Nat
      BY Ranges DEF Missing
    <3>2. s > Src(g)
      BY <1>1, <2>1, <3>1
    <3> QED
      BY <1>6, <3>2
  <2>2. ASSUME Src(g) + 1 \notin outputs' PROVE Fresh(Current(Src(g)))'
    <3>1. PICK s \in Sources : s = Src(g) + 1 /\ s = Src(g)'
      BY <1>1
    <3>2. s \in Missing' /\ s > Src(g)
      BY <1>1, <2>2, <3>1 DEF Missing
    <3> QED
      BY <1>6, <3>1, <3>2 DEF Current, Fresh
  <2> QED
    BY <1>1, <2>1, <2>2 DEF Untouched
<1> QED
  BY <1>2, <1>3, <1>4, <1>5, <1>7

LEMMA WorkingNow ==
  ASSUME NEW g \in Generations, Active(g) \/ Authorized(g)
  PROVE  Working(g)
  BY DEF Active, Authorized, Working

LEMMA BeginSourceStep ==
  ASSUME PipelineInvariant, NEW g \in Generations, BeginSource(g)
  PROVE  PipelineInvariant'
<1>1. /\ Working(g) /\ At(g, "source") /\ run[g].step \in AtSource
      /\ UNCHANGED <<database, world, consent>>
      /\ UNCHANGED <<job, att, checkpoints, cases, outputs>>
      /\ SameJob(job') /\ run \in [Generations -> Run]
  BY WorkingNow DEF BeginSource, At, AtSource, database, SameJob, PipelineInvariant, TypeOK
<1>2. /\ Src(g) \in Sources /\ Missing # {} /\ \A s \in Missing : NoCase(s)
      /\ job.attempts \in Attempts /\ ~At(g, "idle") /\ run[g].error # "output_reconciliation_required"
      /\ ~(g > job.generation)
  BY <1>1, Ranges DEF PipelineInvariant, Ledger, Working, Local, Clean, At, AtSource, Placed, Outside
<1>3. CASE Src(g) \in outputs
  <2>1. NextSource(g)
    BY <1>3 DEF BeginSource
  <2>2. Src(g) + 1 \in Sources
    BY <1>1, <1>2, <1>3, NextExists DEF Missing
  <2>3. /\ run' \in [Generations -> Run] /\ Only(g)
        /\ run'[g].step = "source" /\ run'[g].source = run[g].source + 1
        /\ run'[g].error = "none"
    BY <1>1, <2>1, <2>2, NextSourceEffect DEF Only
  <2>4. Local(g)' /\ Sparing(g)'
    BY <1>1, <1>2, <1>3, <2>2, <2>3, NextLocal DEF Missing, NoCase
  <2> QED
    BY <1>1, <2>3, <2>4, QuietStep
<1>4. CASE Src(g) \notin outputs
  <2>1. cases[Src(g)].status = "none"
    BY <1>2, <1>4 DEF Missing, NoCase
  <2>2. Goto(g, "transcribing")
    BY <1>4, <2>1 DEF BeginSource
  <2>3. /\ run' \in [Generations -> Run] /\ Only(g) /\ run'[g].step = "transcribing"
        /\ run'[g].source = run[g].source /\ run'[g].error = run[g].error
    BY <1>1, <2>2, GotoEffect DEF Only, Step
  <2>4. Placed(g)'
    BY <1>1, <1>2, <2>3 DEF Placed, At, Src
  <2>5. Advanced(g)' /\ Clean(g)' /\ Untouched(g)'
    BY <1>1, <1>2, <1>4, <2>3 DEF PipelineInvariant, Local, Advanced, Clean, Untouched, At, Src,
       Working, Missing, NoCase, Current, AtSource, Received
  <2>6. Creating(g)' /\ Complete(g)' /\ Stuck(g)' /\ Sparing(g)'
    BY <2>3 DEF Creating, Complete, Stuck, Sparing, At, Received, Paying
  <2> QED
    BY <1>1, <2>3, <2>4, <2>5, <2>6, QuietStep DEF Local
<1> QED
  BY <1>3, <1>4

-----------------------------------------------------------------------------
(***************************************************************************)
(* Steps that write the row of the source at hand.                         *)
(***************************************************************************)

\* The rows of the ledger after one of them is written.
LEMMA RowWritten ==
  ASSUME PipelineInvariant, NEW s \in Sources, job.attempts \in Attempts, NEW row \in Row,
         SetRow(s, row), row.stage # "none" \/ row = Current(s),
         CompleteRow(Current(s)) => CompleteRow(row), SameJob(job'), outputs' = outputs
  PROVE  /\ att' \in Typed /\ Ledger'
         /\ \A t \in Sources : t # s => att'[t] = att[t]
         /\ Current(s)' = row
         /\ \A t \in Sources, n \in Attempts :
               CompleteRow(att[t][n]) => CompleteRow(att'[t][n])
         /\ CompleteBefore(s, job.attempts - 1)' <=> CompleteBefore(s, job.attempts - 1)
<1> USE DEF PipelineInvariant
<1>1. /\ att' \in Typed /\ att'[s][job.attempts] = row
      /\ \A n \in Attempts : n # job.attempts => att'[s][n] = att[s][n]
      /\ \A t \in Sources : t # s => att'[t] = att[t]
  BY SetRowEffect DEF TypeOK, Typed
<1>2. /\ job'.status = job.status /\ job'.attempts = job.attempts
  BY DEF SameJob
<1>3. ASSUME NEW t \in Sources, NEW n \in Attempts,
             att'[t][n].stage = "none" \/ n > job.attempts
      PROVE  att'[t][n] = NoRow
  <2>1. CASE t = s /\ n = job.attempts
    <3>1. row = Current(s) /\ att'[t][n] = att[t][n]
      BY <1>1, <1>3, <2>1, Ranges DEF Current
    <3> QED
      BY <1>3, <3>1 DEF Ledger
  <2>2. CASE ~(t = s /\ n = job.attempts)
    BY <1>1, <1>3, <2>2 DEF Ledger
  <2> QED
    BY <2>1, <2>2
<1>4. Ledger'
  BY <1>2, <1>3 DEF Ledger, Missing
<1>5. Current(s)' = row
  BY <1>1, <1>2 DEF Current
<1>6. \A t \in Sources, n \in Attempts : CompleteRow(att[t][n]) => CompleteRow(att'[t][n])
  BY <1>1 DEF Current
<1>7. CompleteBefore(s, job.attempts - 1)' <=> CompleteBefore(s, job.attempts - 1)
  <2>1. \A n \in 1..(job.attempts - 1) : n \in Attempts /\ n # job.attempts
    BY PipelineAssumption DEF Attempts
  <2> QED
    BY <1>1, <1>2, <2>1 DEF CompleteBefore
<1> QED
  BY <1>1, <1>4, <1>5, <1>6, <1>7

\* What says that a source may be asked for again, unless its row changed.
LEMMA CoveredKept ==
  ASSUME PipelineInvariant, NEW t \in Sources, SameJob(job'), att'[t] = att[t],
         calls'[t] = calls[t], consent' = consent, checkpoints[t] \subseteq checkpoints'[t]
  PROVE  Covered(t) => Covered(t)'
  BY DEF Covered, Payable, Spent, CompleteBefore, Current, SameJob

LEMMA DocumentsKept ==
  ASSUME PipelineInvariant, SameJob(job'), UNCHANGED <<cases, outputs, docs, creates>>,
         \A t \in Sources, n \in Attempts :
            n <= job.attempts /\ CompleteRow(att[t][n]) => CompleteRow(att'[t][n])
  PROVE  Documents'
<1>1. job.attempts \in 0..MaxAttempts /\ job.attempts >= job.attempts /\ job'.attempts = job.attempts
  BY PipelineAssumption DEF PipelineInvariant, TypeOK, Job, SameJob
<1>2. ASSUME NEW t \in Sources, CompleteBefore(t, job.attempts)
      PROVE  CompleteBefore(t, job.attempts)'
  BY <1>1, <1>2, CompleteKept
<1> QED
  BY <1>2 DEF PipelineInvariant, Documents, SameJob, NoCase

LEMMA WorkingRowStep ==
  ASSUME PipelineInvariant, NEW g \in Generations, Working(g), run[g].step \in AtSource,
         NEW s \in Sources, s = Src(g), NEW row \in Row, SetRow(s, row), row.stage # "none",
         CompleteRow(Current(s)) => CompleteRow(row),
         job' \in Job, SameJob(job'), UNCHANGED <<cases, outputs, world, consent>>,
         checkpoints' \in [Sources -> SUBSET PartIndexes],
         \A t \in Sources : checkpoints[t] \subseteq checkpoints'[t],
         run' \in [Generations -> Run], Only(g), Local(g)', ~job.attentionResolved => Sparing(g)',
         ~job.attentionResolved /\ s \in Missing /\ Covered(s) => Covered(s)'
  PROVE  PipelineInvariant'
<1> USE DEF PipelineInvariant
<1>1. job.attempts \in Attempts /\ UNCHANGED <<docs, creates, calls>>
  BY DEF Ledger, Working, world
<1>2. /\ att' \in Typed /\ Ledger'
      /\ \A t \in Sources : t # s => att'[t] = att[t]
      /\ \A t \in Sources, n \in Attempts : CompleteRow(att[t][n]) => CompleteRow(att'[t][n])
  BY <1>1, RowWritten
<1>3. TypeOK'
  BY <1>1, <1>2 DEF TypeOK, Typed
<1>4. Documents'
  BY <1>1, <1>2, DocumentsKept
<1>5. \A h \in Generations : h # g => Creating(h)'
  BY <1>1 DEF Local, Creating, Only, At, Src, NoCase
<1>6. \A t \in Missing : ~job.attentionResolved /\ Covered(t) => Covered(t)'
  BY <1>1, <1>2, CoveredKept DEF Missing
<1>7. \A t \in Sources, p \in PartIndexes :
         ~job.attentionResolved => calls'[t][p] <= 1 + consent.given
  BY <1>1 DEF Payments
<1> QED
  BY <1>2, <1>3, <1>4, <1>5, <1>6, <1>7, WorkingStep

\* A failure of the provider stage, classified if the run still has authority.
LEMMA ClassifyStep ==
  ASSUME PipelineInvariant, NEW g \in Generations, run[g].step \in BeforeCreation,
         NEW code \in FailureCode, NEW providerCode \in FailureCode,
         ClassifyAndGiveUp(g, code, providerCode),
         \/ code \notin SafePreTransport
         \/ Working(g) /\ ~job.attentionResolved =>
               Payable(Src(g)) \/ ~Doubtful(Current(Src(g)))
  PROVE  PipelineInvariant'
<1> USE DEF PipelineInvariant
<1>1. /\ GiveUp(g, "other") /\ UNCHANGED <<checkpoints, cases, outputs, world, consent>>
      /\ UNCHANGED <<docs, creates, calls>>
      /\ "other" \in ErrorCode /\ run \in [Generations -> Run] /\ job \in Job
      /\ run[g].step \in AtSource /\ Local(g) /\ ~At(g, "idle") /\ run[g].step \notin Outside
  BY DEF ClassifyAndGiveUp, ErrorCode, TypeOK, world, BeforeCreation, AtSource, Paying, Received,
         At, Outside
<1>2. /\ run' \in [Generations -> Run] /\ Only(g) /\ run'[g].step = "failing"
      /\ run'[g].source = run[g].source /\ run'[g].error = "other"
  BY <1>1, GiveUpEffect DEF Only
<1>3. CASE ~Authorized(g)
  <2>1. UNCHANGED <<database, world, consent>>
    BY <1>1, <1>3 DEF ClassifyAndGiveUp, database
  <2> QED
    BY <1>1, <2>1, GiveUpStep
<1>4. CASE Authorized(g)
  <2> DEFINE row == ClassifiedRow(UsageUncertainRow(Current(Src(g))), code, providerCode)
  <2>1. Working(g) /\ job.attempts \in Attempts /\ Src(g) \in Sources
    BY <1>1, <1>4, WorkingNow DEF Local, Placed
  <2>2. PICK s \in Sources : s = Src(g)
    BY <2>1
  <2>3. Current(s) \in Row
    BY <2>1, CurrentTyped
  <2>4. /\ row \in Row /\ SameParts(row, Current(s))
        /\ row.stage = "none" => Current(s).stage = "none" /\ Current(s).disposition = "completed"
        /\ Doubtful(Current(s)) /\ code \notin SafePreTransport => Doubtful(row)
    BY <2>2, <2>3, ClassifiedEffect
  <2>5. SetRow(s, row)
    BY <1>4, <2>2 DEF ClassifyAndGiveUp
  <2> HIDE DEF row
  <2>6. row.stage # "none"
    BY <2>1, <2>4, FreshRows DEF Ledger, Current, NoRow
  <2>7. job' \in Job /\ SameJob(job')
    BY <1>1, <1>4, AccountingEffect DEF ClassifyAndGiveUp, SameJob
  <2>8. CompleteRow(row) <=> CompleteRow(Current(s))
    BY <2>4, SamePartsComplete
  <2>9. Local(g)' /\ Sparing(g)'
    <3>1. Working(g)' => \A t \in Missing' : cases'[t].status \in {"none", "prepared"}
      BY <1>1, <2>1 DEF Local, Clean, Missing, NoCase, AtSource, BeforeCreation, Paying, Received
    <3>2. job'.attempts \in Attempts /\ ~(g > job'.generation)
      BY <1>1, <2>1, <2>7, Claimed DEF SameJob
    <3> QED
      BY <1>2, <3>1, <3>2, Stopped
  <2>10. ~job.attentionResolved /\ s \in Missing /\ Covered(s) => Covered(s)'
    <3> SUFFICES ASSUME ~job.attentionResolved, s \in Missing, Covered(s) PROVE Covered(s)'
      OBVIOUS
    <3>1. /\ Current(s)' = row /\ job'.attempts = job.attempts /\ job'.status = job.status
          /\ \A n \in Attempts : CompleteRow(att[s][n]) => CompleteRow(att'[s][n])
      BY <1>1, <2>1, <2>4, <2>5, <2>6, <2>7, <2>8, RowWritten DEF SameJob
    <3>2. CASE Payable(s)
      BY <1>1, <3>2 DEF Covered, Payable, Spent
    <3>3. CASE CompleteBefore(s, job.attempts)
      <4>1. job.attempts \in 0..MaxAttempts /\ job.attempts >= job.attempts
        BY <1>1, PipelineAssumption DEF Job
      <4>2. CompleteBefore(s, job.attempts)'
        BY <3>1, <3>3, <4>1, CompleteKept
      <4> QED
        BY <4>2 DEF Covered
    <3>4. CASE job.status # "queued" /\ Doubtful(Current(s)) /\ ~Payable(s)
      <4>1. Doubtful(row)
        BY <2>1, <2>2, <2>4, <3>4
      <4> QED
        BY <3>1, <3>4, <4>1 DEF Covered
    <3> QED
      BY <3>2, <3>3, <3>4 DEF Covered
  <2> QED
    BY <1>1, <1>2, <2>1, <2>2, <2>4, <2>5, <2>6, <2>7, <2>8, <2>9, <2>10, WorkingRowStep
       DEF TypeOK
<1> QED
  BY <1>3, <1>4

LEMMA NowComplete ==
  ASSUME NEW s, job'.attempts \in Attempts, CompleteRow(Current(s)')
  PROVE  CompleteBefore(s, job.attempts)'
<1>1. job'.attempts \in 1..job'.attempts
  BY PipelineAssumption DEF Attempts
<1> QED
  BY <1>1 DEF CompleteBefore, Current

LEMMA StillComplete ==
  ASSUME PipelineInvariant, NEW s \in Sources, SameJob(job'),
         \A n \in Attempts : CompleteRow(att[s][n]) => CompleteRow(att'[s][n]),
         CompleteBefore(s, job.attempts)
  PROVE  CompleteBefore(s, job.attempts)'
<1>1. job.attempts \in 0..MaxAttempts /\ job.attempts >= job.attempts /\ job'.attempts = job.attempts
  BY PipelineAssumption DEF PipelineInvariant, TypeOK, Job, SameJob
<1> QED
  BY <1>1, CompleteKept

\* What the working run knows at its source.
LEMMA AtHand ==
  ASSUME PipelineInvariant, NEW g \in Generations, Working(g),
         run[g].step \in AtSource \ {"source"}
  PROVE  /\ Src(g) \in Sources /\ Src(g) \in Missing /\ job.attempts \in Attempts
         /\ Current(Src(g)) \in Row /\ ~At(g, "idle")
         /\ run[g].step \in BeforeCreation => \A t \in Missing : NoCase(t)
         /\ run[g].step = "transcribing" => Fresh(Current(Src(g)))
         /\ job \in Job /\ run \in [Generations -> Run] /\ att \in Typed
         /\ checkpoints \in [Sources -> SUBSET PartIndexes]
<1> USE DEF PipelineInvariant, Local
<1>1. Src(g) \in Sources /\ Src(g) \in Missing
  BY DEF Placed, Advanced, At, Missing
<1>2. job.attempts \in Attempts
  BY DEF Ledger, Working
<1>3. Current(Src(g)) \in Row
  BY <1>1, <1>2, CurrentTyped
<1>4. run[g].step \in BeforeCreation => \A t \in Missing : NoCase(t)
  BY DEF Clean, BeforeCreation, AtSource, Paying, Received
<1>5. run[g].step = "transcribing" => Fresh(Current(Src(g)))
  BY <1>1 DEF Untouched, Missing
<1> QED
  BY <1>1, <1>2, <1>3, <1>4, <1>5 DEF TypeOK, Typed, At, AtSource, Paying, Received

LEMMA RestoreTranscriptStep ==
  ASSUME PipelineInvariant, NEW g \in Generations, RestoreTranscript(g)
  PROVE  PipelineInvariant'
<1> DEFINE row == ReturnedRow(StartedRow(Current(Src(g)), Parts))
<1>1. /\ Working(g) /\ run[g].step = "transcribing" /\ SetRow(Src(g), row) /\ Goto(g, "output")
      /\ UNCHANGED <<job, checkpoints, cases, outputs, world, consent>>
      /\ run[g].step \in AtSource \ {"source"} /\ run[g].step \in BeforeCreation
  BY WorkingNow DEF RestoreTranscript, At, AtSource, BeforeCreation
<1>2. /\ Src(g) \in Sources /\ job.attempts \in Attempts /\ Current(Src(g)) \in Row
      /\ job \in Job /\ run \in [Generations -> Run] /\ Fresh(Current(Src(g)))
      /\ checkpoints \in [Sources -> SUBSET PartIndexes]
  BY <1>1, AtHand
<1>3. row \in Row /\ CompleteRow(row) /\ row.stage # "none"
  <2>1. StartedRow(Current(Src(g)), Parts) \in Row /\ StartedRow(Current(Src(g)), Parts).total = Parts
    BY <1>2, StartedEffect, Ranges
  <2> QED
    BY <2>1, ReturnedEffect, Ranges DEF CompleteRow
<1> HIDE DEF row
<1>4. PICK s \in Sources : s = Src(g)
  BY <1>2
<1>5. /\ run' \in [Generations -> Run] /\ Only(g) /\ run'[g].step = "output"
      /\ run'[g].source = run[g].source /\ run'[g].error = run[g].error
  BY <1>1, <1>2, GotoEffect DEF Only, Step
<1>6. SameJob(job') /\ job' \in Job
  BY <1>1, <1>2 DEF SameJob
<1>7. Current(s)' = row /\ \A t \in Sources : t # s => att'[t] = att[t]
  BY <1>1, <1>2, <1>3, <1>4, <1>6, RowWritten
<1>8. CompleteBefore(s, job.attempts)'
  BY <1>1, <1>2, <1>3, <1>7, NowComplete
<1>9. Complete(g)' /\ Stuck(g)' /\ Sparing(g)'
  BY <1>4, <1>5, <1>8 DEF Complete, Stuck, Sparing, Paying, Src, CompleteBefore
<1>10. Local(g)'
  <2>1. run'[g].step \in AtSource \ {"source", "transcribing"}
    BY <1>5 DEF AtSource, Received
  <2> QED
    BY <1>1, <1>4, <1>5, <1>6, <1>7, <1>9, <2>1, Onward
<1> QED
  BY <1>1, <1>2, <1>3, <1>4, <1>5, <1>6, <1>8, <1>9, <1>10, WorkingRowStep DEF Covered

LEMMA HeldParts ==
  ASSUME NEW kept \in SUBSET PartIndexes, LeadingParts(kept)
  PROVE  /\ Cardinality(kept) \in 0..Parts /\ kept = 1..Cardinality(kept)
<1>1. IsFiniteSet(PartIndexes)
  BY PartsAssumption, FS_Interval DEF PartIndexes
<1>2. IsFiniteSet(kept)
  BY <1>1, FS_Subset
<1>3. Cardinality(kept) \in Nat
  BY <1>2, FS_CardinalityType
<1> DEFINE c == Cardinality(kept)
<1>4. kept = 1..c
  BY DEF LeadingParts
<1> HIDE DEF c
<1>5. c = 0 \/ c \in 1..c
  BY <1>3 DEF c
<1>6. c \in 0..Parts
  BY <1>3, <1>4, <1>5, PartsAssumption DEF PartIndexes, c
<1> QED
  BY <1>4, <1>6 DEF c

LEMMA StartProviderStep ==
  ASSUME PipelineInvariant, NEW g \in Generations, StartProvider(g)
  PROVE  PipelineInvariant'
<1> DEFINE held == Cardinality(checkpoints[Src(g)])
           row == StartedRow(Current(Src(g)), held)
           step == IF held = Parts THEN "returning" ELSE "billing"
<1>1. /\ Working(g) /\ run[g].step = "transcribing" /\ SetRow(Src(g), row)
      /\ LeadingParts(checkpoints[Src(g)]) /\ ~CompleteBefore(Src(g), job.attempts - 1)
      /\ run' = [run EXCEPT ![g].held = held, ![g].step = step]
      /\ UNCHANGED <<job, checkpoints, cases, outputs, world, consent>>
      /\ run[g].step \in AtSource \ {"source"} /\ run[g].step \in BeforeCreation
  BY WorkingNow DEF StartProvider, At, AtSource, BeforeCreation, RestoreRequired
<1>2. /\ Src(g) \in Sources /\ Src(g) \in Missing /\ job.attempts \in Attempts
      /\ Current(Src(g)) \in Row /\ Fresh(Current(Src(g))) /\ NoCase(Src(g))
      /\ job \in Job /\ run \in [Generations -> Run]
      /\ checkpoints \in [Sources -> SUBSET PartIndexes]
  BY <1>1, AtHand
<1>3. held \in 0..Parts /\ checkpoints[Src(g)] = 1..held
  BY <1>1, <1>2, HeldParts
<1>4. /\ row \in Row /\ row.stage # "none" /\ Begun(row) /\ row.done = held /\ Doubtful(row)
      /\ held = Parts => CompleteRow(row)
  <2>1. Current(Src(g)).code # "partial_provider_result"
    BY <1>2 DEF Fresh
  <2>2. /\ row \in Row /\ row.stage = "provider_request_started"
        /\ row.disposition = "undetermined" /\ row.code = Current(Src(g)).code
        /\ row.started /\ row.total = Parts /\ row.done = held
    BY <1>2, <1>3, StartedEffect
  <2> HIDE DEF row, held
  <2> QED
    BY <2>1, <2>2, Ranges DEF Begun, Doubtful, CompleteRow
<1>5. /\ run' \in [Generations -> Run] /\ Only(g) /\ run'[g].step = step /\ run'[g].held = held
      /\ run'[g].source = run[g].source /\ run'[g].error = run[g].error
  <2>1. step \in Step
    BY DEF Step
  <2> HIDE DEF step, held
  <2> DEFINE r == [[run[g] EXCEPT !.held = held] EXCEPT !.step = step]
  <2>2. [run[g] EXCEPT !.held = held] \in Run /\ [run[g] EXCEPT !.held = held].held = held
    BY <1>2, <1>3 DEF Run
  <2>3. r \in Run /\ r.step = step /\ r.held = held /\ r.source = run[g].source /\ r.error = run[g].error
    BY <1>2, <2>1, <2>2 DEF Run
  <2>4. run' = [run EXCEPT ![g] = r]
    BY <1>1
  <2> HIDE DEF r
  <2> QED
    BY <1>2, <2>3, <2>4, TwoFields DEF Only
<1>6. PICK s \in Sources : s = Src(g)
  BY <1>2
<1>7. SameJob(job') /\ job' \in Job
  BY <1>1, <1>2 DEF SameJob
<1> HIDE DEF row
<1>8. ~CompleteRow(Current(s)) /\ ~Doubtful(Current(s))
  BY <1>2, <1>6, FreshIsNotComplete
<1>9. /\ Current(s)' = row /\ \A t \in Sources : t # s => att'[t] = att[t]
      /\ ~CompleteBefore(s, job.attempts - 1)'
  BY <1>1, <1>2, <1>4, <1>6, <1>7, <1>8, RowWritten
<1> HIDE DEF held
<1>10. Complete(g)'
  <2>1. CASE held = Parts
    <3>1. CompleteBefore(s, job.attempts)'
      BY <1>1, <1>2, <1>4, <1>9, <2>1, NowComplete
    <3> QED
      BY <1>5, <1>6, <3>1 DEF Complete, Src, CompleteBefore
  <2>2. CASE held # Parts
    BY <1>5, <2>2 DEF Complete, Received
  <2> QED
    BY <2>1, <2>2
<1>11. Stuck(g)'
  <2>1. /\ job'.generation = g /\ job'.status # "queued" /\ NoCase(s)' /\ s \notin outputs'
    BY <1>1, <1>2, <1>6 DEF Working, NoCase, Missing
  <2>2. s = Src(g)'
    BY <1>5, <1>6 DEF Src
  <2> QED
    BY <1>4, <1>5, <1>9, <2>1, <2>2 DEF Stuck, At, NoCase, CompleteBefore, Current, Paying
<1>12. Local(g)'
  <2>1. /\ run'[g].step \in AtSource \ {"source", "transcribing"}
        /\ run'[g].step \in {"billing", "returning"}
        /\ run'[g].step = "billing" => run'[g].held < Parts
    BY <1>3, <1>5, Ranges DEF AtSource, Received, Paying
  <2> QED
    BY <1>1, <1>5, <1>6, <1>7, <1>9, <1>10, <1>11, <2>1, Onward
<1>13. ~job.attentionResolved => Sparing(g)'
  <2> SUFFICES ASSUME ~job.attentionResolved PROVE Sparing(g)'
    OBVIOUS
  <2>1. Covered(s) /\ ~CompleteBefore(s, job.attempts)
    <3>1. ~CompleteBefore(s, job.attempts)
      BY <1>1, <1>2, <1>6, <1>8, CompleteSplit
    <3> QED
      BY <1>1, <1>2, <1>6, <3>1 DEF PipelineInvariant, Payments, Working
  <2>2. Payable(s)
    BY <1>8, <2>1 DEF Covered
  <2>3. s = Src(g)' /\ checkpoints'[s] = 1..held /\ calls' = calls /\ consent' = consent
    BY <1>1, <1>3, <1>5, <1>6 DEF Src, world
  <2>4. \A p \in PartIndexes : p > held => ~Spent(s, p)'
    <3> SUFFICES ASSUME NEW p \in PartIndexes, p > held PROVE ~Spent(s, p)'
      OBVIOUS
    <3>1. p \notin checkpoints[s]
      BY <1>3, <1>6, Ranges
    <3> QED
      BY <2>2, <2>3, <3>1 DEF Payable, Spent
  <2>5. \A p \in PartIndexes : p <= held => p \in checkpoints'[s]
    BY <1>3, <2>3, Ranges DEF PartIndexes
  <2>6. run'[g].step # "checkpointing" /\ run'[g].step # "answered"
    BY <1>5
  <2>7. \A p \in PartIndexes : p \in Nat /\ (p < held \/ p = held => p <= held)
    BY <1>3, Ranges
  <2> QED
    BY <1>5, <2>3, <2>4, <2>5, <2>6, <2>7 DEF Sparing, Src, At, InFlight, Spent
<1>14. Covered(s)'
  BY <1>4, <1>7, <1>9, <1>1 DEF Covered, Working, SameJob
<1> QED
  BY <1>1, <1>2, <1>4, <1>5, <1>6, <1>7, <1>8, <1>12, <1>13, <1>14, WorkingRowStep

\* A paying step that keeps the row as it began: its parts are unchanged.
LEMMA BegunStays ==
  ASSUME PipelineInvariant, NEW g \in Generations, Working(g), run[g].step \in Paying,
         NEW s \in Sources, s = Src(g), NEW row \in Row, SetRow(s, row),
         row = [Current(s) EXCEPT !.accounting = row.accounting],
         SameJob(job'), job' \in Job, UNCHANGED <<checkpoints, cases, outputs, world, consent>>,
         run' \in [Generations -> Run], Only(g),
         run'[g].source = run[g].source, run'[g].error = run[g].error,
         \/ /\ At(g, "billing") /\ run'[g].step = "sending" /\ run'[g].held = run[g].held
         \/ /\ At(g, "answered") /\ run[g].answer = "ok" /\ run'[g].step = "checkpointing"
            /\ run'[g].held = run[g].held + 1
  PROVE  PipelineInvariant'
<1>1. /\ Src(g) \in Sources /\ s \in Missing /\ job.attempts \in Attempts
      /\ Current(s) \in Row /\ NoCase(s) /\ run[g] \in Run /\ run[g].held \in Nat
      /\ run[g].step \in AtSource \ {"source"} /\ run[g].step \in BeforeCreation
      /\ checkpoints \in [Sources -> SUBSET PartIndexes]
  <2>1. run[g].step \in AtSource \ {"source"} /\ run[g].step \in BeforeCreation
    BY DEF AtSource, BeforeCreation, Paying
  <2>2. run[g] \in Run /\ run[g].held \in Nat
    BY Ranges DEF PipelineInvariant, TypeOK, Run
  <2> QED
    BY <2>1, <2>2, AtHand
<1>2. /\ Begun(Current(s)) /\ Current(s).done = run[g].held
      /\ ~CompleteBefore(s, job.attempts - 1) /\ run[g].held < Parts
  BY DEF PipelineInvariant, Local, Stuck, Placed, At
<1>3. /\ SameParts(row, Current(s)) /\ row.stage = Current(s).stage
      /\ row.code = Current(s).code /\ row.disposition = Current(s).disposition
  <2> DEFINE a == row.accounting
  <2>1. a \in Accounting /\ row = [Current(s) EXCEPT !.accounting = a]
    BY DEF Row
  <2> HIDE DEF a
  <2> QED
    BY <1>1, <2>1, AccountingFieldEffect
<1>4. Begun(row) /\ row.done = run[g].held /\ row.stage # "none" /\ Doubtful(row)
  BY <1>2, <1>3 DEF Begun, SameParts, Doubtful
<1>5. CompleteRow(row) <=> CompleteRow(Current(s))
  BY <1>3, SamePartsComplete
<1>6. /\ Current(s)' = row /\ \A t \in Sources : t # s => att'[t] = att[t]
      /\ ~CompleteBefore(s, job.attempts - 1)'
  BY <1>1, <1>2, <1>4, <1>5, RowWritten
<1>7. s = Src(g)' /\ run'[g].step \in Paying /\ run'[g].step \notin Received
  BY DEF Src, Paying, Received
<1>8. Complete(g)'
  BY <1>7 DEF Complete
<1>9. Stuck(g)'
  <2>1. /\ job'.generation = g /\ job'.status # "queued" /\ NoCase(s)' /\ s \notin outputs'
    BY <1>1 DEF Working, SameJob, NoCase, Missing
  <2>2. (IF At(g, "checkpointing")' THEN run'[g].held - 1 ELSE run'[g].held) = run[g].held
    BY <1>1 DEF At
  <2> QED
    BY <1>4, <1>6, <1>7, <2>1, <2>2 DEF Stuck, NoCase, CompleteBefore, Current, At
<1>10. Local(g)'
  <2>1. /\ run'[g].step \in AtSource \ {"source", "transcribing"}
        /\ run'[g].step \in {"sending", "checkpointing"}
        /\ run'[g].step = "sending" => run'[g].held < Parts
        /\ run'[g].step = "checkpointing" => run'[g].held # 0
    BY <1>1, <1>2 DEF AtSource, Paying
  <2> QED
    BY <1>1, <1>6, <1>8, <1>9, <2>1, Onward
<1>11. ~job.attentionResolved => Sparing(g)'
  <2> SUFFICES ASSUME ~job.attentionResolved PROVE Sparing(g)'
    OBVIOUS
  <2>1. Sparing(g) /\ job.status = "processing"
    BY DEF PipelineInvariant, Payments, Working
  <2>2. UNCHANGED <<checkpoints, calls, consent>>
    BY DEF world
  <2>3. ASSUME NEW p \in PartIndexes, p > run'[g].held PROVE ~Spent(s, p)'
    <3>1. p \in Nat /\ p > run[g].held /\ (At(g, "answered") => p # run[g].held + 1)
      BY <1>1, <2>3, Ranges DEF At
    <3>2. ~Spent(s, p)
      BY <2>1, <3>1 DEF Sparing, InFlight
    <3> QED
      BY <2>2, <3>2 DEF Spent
  <2>4. ASSUME NEW p \in PartIndexes,
               p < run'[g].held \/ (p = run'[g].held /\ ~At(g, "checkpointing")')
        PROVE  p \in checkpoints'[s]
    <3>1. p \in Nat /\ (p < run[g].held \/ p = run[g].held) /\ ~At(g, "checkpointing")
      BY <1>1, <2>4, Ranges DEF At
    <3> QED
      BY <2>1, <2>2, <3>1 DEF Sparing
  <2> QED
    BY <1>7, <2>3, <2>4 DEF Sparing, Src, Spent, At
<1>12. Covered(s)'
  BY <1>4, <1>6 DEF Covered, Working, SameJob
<1> QED
  BY <1>1, <1>4, <1>5, <1>10, <1>11, <1>12, WorkingRowStep

LEMMA BeginPartUsageStep ==
  ASSUME PipelineInvariant, NEW g \in Generations, BeginPartUsage(g)
  PROVE  PipelineInvariant'
<1> DEFINE row == [Current(Src(g)) EXCEPT !.accounting = "pending"]
<1>1. /\ Working(g) /\ At(g, "billing") /\ SetRow(Src(g), row) /\ Goto(g, "sending")
      /\ job' = [job EXCEPT !.accountingComplete = FALSE]
      /\ UNCHANGED <<checkpoints, cases, outputs, world, consent>>
      /\ run[g].step \in Paying /\ run[g].step \in AtSource \ {"source"}
  BY WorkingNow DEF BeginPartUsage, At, AtSource, Paying
<1>2. /\ Src(g) \in Sources /\ Current(Src(g)) \in Row
      /\ job \in Job /\ run \in [Generations -> Run]
  BY <1>1, AtHand
<1>3. PICK s \in Sources : s = Src(g)
  BY <1>2
<1>4. job' \in Job /\ SameJob(job')
  BY <1>1, <1>2, FlagEffect DEF SameJob
<1>5. "pending" \in Accounting
  BY DEF Accounting
<1>6. row \in Row /\ row.accounting = "pending"
  BY <1>2, <1>5 DEF Row
<1>7. row = [Current(s) EXCEPT !.accounting = row.accounting]
  BY <1>3, <1>6
<1>8. /\ run' \in [Generations -> Run] /\ Only(g) /\ run'[g].step = "sending"
      /\ run'[g].held = run[g].held
      /\ run'[g].source = run[g].source /\ run'[g].error = run[g].error
  BY <1>1, <1>2, GotoEffect DEF Only, Step
<1> HIDE DEF row
<1> QED
  BY <1>1, <1>3, <1>4, <1>6, <1>7, <1>8, BegunStays

LEMMA ConfirmPartUsageStep ==
  ASSUME PipelineInvariant, NEW g \in Generations, ConfirmPartUsage(g)
  PROVE  PipelineInvariant'
<1> DEFINE row == [Current(Src(g)) EXCEPT !.accounting = "confirmed"]
           n == run[g].held + 1
<1>1. /\ Working(g) /\ At(g, "answered") /\ run[g].answer = "ok" /\ SetRow(Src(g), row)
      /\ run' = [run EXCEPT ![g].step = "checkpointing", ![g].held = @ + 1, ![g].answer = "none"]
      /\ job' = [job EXCEPT !.billed = @ + 1, !.accountingComplete = FALSE]
      /\ UNCHANGED <<checkpoints, cases, outputs, world, consent>>
      /\ run[g].step \in Paying /\ run[g].step \in AtSource \ {"source"}
  BY WorkingNow DEF ConfirmPartUsage, At, AtSource, Paying
<1>2. /\ Src(g) \in Sources /\ Current(Src(g)) \in Row
      /\ job \in Job /\ run \in [Generations -> Run] /\ run[g] \in Run
  BY <1>1, AtHand
<1>3. PICK s \in Sources : s = Src(g)
  BY <1>2
<1>4. job' \in Job /\ SameJob(job')
  BY <1>1, <1>2, AccountingEffect DEF SameJob
<1>5. "confirmed" \in Accounting
  BY DEF Accounting
<1>6. row \in Row /\ row.accounting = "confirmed"
  BY <1>2, <1>5 DEF Row
<1>7. row = [Current(s) EXCEPT !.accounting = row.accounting]
  BY <1>3, <1>6
<1>8. /\ run' \in [Generations -> Run] /\ Only(g) /\ run'[g].step = "checkpointing"
      /\ run'[g].held = n
      /\ run'[g].source = run[g].source /\ run'[g].error = run[g].error
  <2>1. n \in 0..Parts
    <3>1. run[g].held < Parts /\ run[g].held \in 0..Parts
      BY <1>1, <1>2 DEF PipelineInvariant, Local, Placed, At, Run
    <3> QED
      BY <3>1, Ranges
  <2> HIDE DEF n
  <2> DEFINE r == [[[run[g] EXCEPT !.step = "checkpointing"] EXCEPT !.held = n] EXCEPT !.answer = "none"]
  <2>2. [run[g] EXCEPT !.step = "checkpointing"] \in Run
    BY <1>2 DEF Run, Step
  <2>3. [[run[g] EXCEPT !.step = "checkpointing"] EXCEPT !.held = n] \in Run
    BY <2>1, <2>2 DEF Run
  <2>4. /\ r \in Run /\ r.step = "checkpointing" /\ r.held = n /\ r.source = run[g].source
        /\ r.error = run[g].error
    BY <1>2, <2>3 DEF Run, Answer
  <2>5. run' = [run EXCEPT ![g] = r]
    <3>1. [run[g] EXCEPT !.step = "checkpointing"].held = run[g].held
      BY <1>2 DEF Run
    <3> QED
      BY <1>1, <1>2, <3>1 DEF n
  <2> HIDE DEF r
  <2> QED
    BY <1>2, <2>4, <2>5, TwoFields DEF Only
<1> HIDE DEF row
<1> QED
  BY <1>1, <1>3, <1>4, <1>6, <1>7, <1>8, BegunStays

LEMMA SavePartStep ==
  ASSUME PipelineInvariant, NEW g \in Generations, SavePart(g)
  PROVE  PipelineInvariant'
<1> DEFINE held == run[g].held
           row == PartCompletedRow(Current(Src(g)), held)
           step == IF held = Parts THEN "returning" ELSE "billing"
<1>1. /\ Working(g) /\ run[g].step = "checkpointing" /\ SetRow(Src(g), row) /\ Goto(g, step)
      /\ checkpoints' = [checkpoints EXCEPT ![Src(g)] = @ \cup {held}]
      /\ UNCHANGED <<job, cases, outputs, world, consent>>
      /\ run[g].step \in AtSource \ {"source"} /\ run[g].step \in BeforeCreation
      /\ run[g].step \in Paying
  BY WorkingNow DEF SavePart, At, AtSource, BeforeCreation, Paying
<1>2. /\ Src(g) \in Sources /\ Src(g) \in Missing /\ job.attempts \in Attempts
      /\ Current(Src(g)) \in Row /\ NoCase(Src(g))
      /\ job \in Job /\ run \in [Generations -> Run]
      /\ checkpoints \in [Sources -> SUBSET PartIndexes]
  BY <1>1, AtHand
<1>3. PICK s \in Sources : s = Src(g)
  BY <1>2
<1>4. /\ Begun(Current(s)) /\ Current(s).done = held - 1 /\ held # 0
      /\ ~CompleteBefore(s, job.attempts - 1)
  BY <1>1, <1>3 DEF PipelineInvariant, Local, Stuck, Placed, At
<1>5. held \in PartIndexes /\ held \in 0..Parts /\ held \in Nat
  <2>1. run[g] \in Run
    BY <1>2
  <2>2. held \in 0..Parts
    BY <2>1 DEF Run
  <2> QED
    BY <1>4, <2>2, Ranges DEF PartIndexes
<1>6. /\ row \in Row /\ row.stage # "none" /\ Begun(row) /\ row.done = held /\ Doubtful(row)
      /\ held = Parts => CompleteRow(row)
  <2>1. /\ row \in Row /\ row.stage = Current(s).stage /\ row.disposition = Current(s).disposition
        /\ row.code = Current(s).code /\ row.started = Current(s).started
        /\ row.total = Current(s).total /\ row.done = held
    BY <1>2, <1>3, <1>5, PartCompletedEffect
  <2> HIDE DEF row, held
  <2> QED
    BY <1>4, <2>1, Ranges DEF Begun, Doubtful, CompleteRow
<1>7. step \in Step /\ (held < Parts <=> held # Parts)
  BY <1>5, Ranges DEF Step
<1>8. /\ run' \in [Generations -> Run] /\ Only(g) /\ run'[g].step = step
      /\ run'[g].held = held
      /\ run'[g].source = run[g].source /\ run'[g].error = run[g].error
  <2> HIDE DEF step
  <2> QED
    BY <1>1, <1>2, <1>7, GotoEffect DEF Only
<1>9. SameJob(job') /\ job' \in Job
  BY <1>1, <1>2 DEF SameJob
<1>10. ~CompleteRow(Current(s))
  BY <1>4, <1>5, Ranges DEF CompleteRow, Begun
<1> HIDE DEF row
<1>11. /\ Current(s)' = row /\ \A t \in Sources : t # s => att'[t] = att[t]
       /\ ~CompleteBefore(s, job.attempts - 1)'
  BY <1>1, <1>2, <1>3, <1>4, <1>6, <1>9, <1>10, RowWritten
<1>12. /\ checkpoints' \in [Sources -> SUBSET PartIndexes]
       /\ checkpoints'[s] = checkpoints[s] \cup {held}
       /\ \A t \in Sources : checkpoints[t] \subseteq checkpoints'[t]
  BY <1>1, <1>2, <1>3, <1>5
<1>13. s = Src(g)'
  BY <1>3, <1>8 DEF Src
<1> HIDE DEF held
<1>14. Complete(g)'
  <2>1. CASE held = Parts
    <3>1. CompleteBefore(s, job.attempts)'
      BY <1>1, <1>2, <1>6, <1>11, <2>1, NowComplete
    <3> QED
      BY <1>13, <3>1 DEF Complete, CompleteBefore
  <2>2. CASE held # Parts
    BY <1>8, <2>2 DEF Complete, Received
  <2> QED
    BY <2>1, <2>2
<1>15. Stuck(g)'
  <2>1. /\ job'.generation = g /\ job'.status # "queued" /\ NoCase(s)' /\ s \notin outputs'
    BY <1>1, <1>2, <1>3 DEF Working, NoCase, Missing
  <2> QED
    BY <1>6, <1>8, <1>11, <1>13, <2>1 DEF Stuck, At, NoCase, CompleteBefore, Current, Paying
<1>16. Local(g)'
  <2>1. /\ run'[g].step \in AtSource \ {"source", "transcribing"}
        /\ run'[g].step \in {"billing", "returning"}
        /\ run'[g].step = "billing" => run'[g].held < Parts
    BY <1>7, <1>8 DEF AtSource, Received, Paying
  <2> QED
    BY <1>1, <1>3, <1>8, <1>9, <1>11, <1>14, <1>15, <2>1, Onward
<1>17. ~job.attentionResolved => Sparing(g)'
  <2> SUFFICES ASSUME ~job.attentionResolved PROVE Sparing(g)'
    OBVIOUS
  <2>1. Sparing(g) /\ job.status = "processing"
    BY <1>1 DEF PipelineInvariant, Payments, Working
  <2>2. UNCHANGED <<calls, consent>> /\ run'[g].step \notin {"checkpointing", "answered"}
    BY <1>1, <1>8 DEF world
  <2>3. ASSUME NEW p \in PartIndexes, p > held PROVE ~Spent(s, p)'
    <3>1. ~Spent(s, p)
      BY <1>1, <1>3, <2>1, <2>3 DEF Sparing, InFlight, At, held
    <3> QED
      BY <2>2, <3>1 DEF Spent
  <2>4. ASSUME NEW p \in PartIndexes, p < held \/ p = held PROVE p \in checkpoints'[s]
    BY <1>1, <1>3, <1>12, <2>1, <2>4 DEF Sparing, held
  <2> QED
    BY <1>8, <1>13, <2>2, <2>3, <2>4 DEF Sparing, Src, Spent, At, InFlight
<1>18. Covered(s)'
  BY <1>1, <1>6, <1>9, <1>11 DEF Covered, Working, SameJob
<1> QED
  BY <1>1, <1>2, <1>3, <1>6, <1>8, <1>9, <1>10, <1>12, <1>16, <1>17, <1>18, WorkingRowStep

LEMMA MarkReturnedStep ==
  ASSUME PipelineInvariant, NEW g \in Generations, MarkReturned(g)
  PROVE  PipelineInvariant'
<1> DEFINE row == ReturnedRow(Current(Src(g)))
<1>1. /\ Working(g) /\ run[g].step = "returning" /\ SetRow(Src(g), row) /\ Goto(g, "merging")
      /\ UNCHANGED <<job, checkpoints, cases, outputs, world, consent>>
      /\ run[g].step \in AtSource \ {"source"} /\ run[g].step \in BeforeCreation
  BY WorkingNow DEF MarkReturned, At, AtSource, BeforeCreation, Received
<1>2. /\ Src(g) \in Sources /\ job.attempts \in Attempts /\ Current(Src(g)) \in Row
      /\ job \in Job /\ run \in [Generations -> Run]
      /\ checkpoints \in [Sources -> SUBSET PartIndexes]
  BY <1>1, AtHand
<1>3. PICK s \in Sources : s = Src(g)
  BY <1>2
<1>4. /\ row \in Row /\ row.stage # "none"
      /\ CompleteRow(Current(s)) => CompleteRow(row)
  <2>1. /\ row \in Row /\ row.stage = "provider_response_returned"
        /\ row.total = Current(s).total /\ row.done = Current(s).total
    BY <1>2, <1>3, ReturnedEffect
  <2> HIDE DEF row
  <2> QED
    BY <2>1 DEF CompleteRow
<1> HIDE DEF row
<1>5. /\ run' \in [Generations -> Run] /\ Only(g) /\ run'[g].step = "merging"
      /\ run'[g].source = run[g].source /\ run'[g].error = run[g].error
  BY <1>1, <1>2, GotoEffect DEF Only, Step
<1>6. SameJob(job') /\ job' \in Job
  BY <1>1, <1>2 DEF SameJob
<1>7. /\ Current(s)' = row /\ \A t \in Sources : t # s => att'[t] = att[t]
      /\ \A t \in Sources, n \in Attempts : CompleteRow(att[t][n]) => CompleteRow(att'[t][n])
  BY <1>1, <1>2, <1>3, <1>4, <1>6, RowWritten
<1>8. CompleteBefore(s, job.attempts)'
  <2>1. CompleteBefore(s, job.attempts)
    BY <1>1, <1>3 DEF PipelineInvariant, Local, Complete, Received
  <2> QED
    BY <1>6, <1>7, <2>1, StillComplete
<1>9. Complete(g)' /\ Stuck(g)' /\ Sparing(g)'
  BY <1>3, <1>5, <1>8 DEF Complete, Stuck, Sparing, Paying, Src, CompleteBefore
<1>10. Local(g)'
  <2>1. run'[g].step \in AtSource \ {"source", "transcribing"}
    BY <1>5 DEF AtSource, Received
  <2> QED
    BY <1>1, <1>3, <1>5, <1>6, <1>7, <1>9, <2>1, Onward
<1> QED
  BY <1>1, <1>2, <1>3, <1>4, <1>5, <1>6, <1>8, <1>9, <1>10, WorkingRowStep DEF Covered

\* The provider is called whether or not the run still has the job.
LEMMA SendPartStep ==
  ASSUME PipelineInvariant, NEW g \in Generations, SendPart(g)
  PROVE  PipelineInvariant'
<1> USE DEF PipelineInvariant
<1> DEFINE part == run[g].held + 1
<1>1. PICK answer \in Answer \ {"none"} :
         /\ run' = [run EXCEPT ![g].step = "answered", ![g].answer = answer]
         /\ calls' = IF answer \in ProviderRejections THEN calls
                     ELSE [calls EXCEPT ![Src(g)][part] = @ + 1]
  BY DEF SendPart
<1>2. /\ At(g, "sending") /\ run[g].step = "sending" /\ Local(g)
      /\ UNCHANGED <<job, att, checkpoints, cases, outputs, docs, creates, consent>>
      /\ run[g].step \in AtSource \ {"source"} /\ run[g].step \in BeforeCreation
      /\ run \in [Generations -> Run] /\ run[g] \in Run
  BY DEF SendPart, At, database, AtSource, BeforeCreation, Paying, TypeOK
<1>3. /\ run' \in [Generations -> Run] /\ Only(g) /\ run'[g].step = "answered"
      /\ run'[g].answer = answer /\ run'[g].held = run[g].held
      /\ run'[g].source = run[g].source /\ run'[g].error = run[g].error
  <2> DEFINE r == [[run[g] EXCEPT !.step = "answered"] EXCEPT !.answer = answer]
  <2>1. [run[g] EXCEPT !.step = "answered"] \in Run
    BY <1>2 DEF Run, Step
  <2>2. /\ r \in Run /\ r.step = "answered" /\ r.answer = answer /\ r.held = run[g].held
        /\ r.source = run[g].source /\ r.error = run[g].error
    BY <1>2, <2>1 DEF Run
  <2>3. run' = [run EXCEPT ![g] = r]
    BY <1>1
  <2> HIDE DEF r
  <2> QED
    BY <1>2, <2>2, <2>3, TwoFields DEF Only
<1>4. PICK s \in Sources : s = Src(g) /\ s = Src(g)'
  BY <1>2, <1>3 DEF Placed, Local, Src
<1>5. part \in PartIndexes /\ run[g].held \in Nat /\ run[g].held < Parts
  <2>1. run[g].held < Parts /\ run[g].held \in 0..Parts
    BY <1>2 DEF Local, Placed, At, Run
  <2> QED
    BY <2>1, Ranges DEF PartIndexes
<1>6. /\ calls' \in [Sources -> [PartIndexes -> Nat]]
      /\ \A t \in Sources, p \in PartIndexes : t # s \/ p # part => calls'[t][p] = calls[t][p]
      /\ answer \in ProviderRejections => calls' = calls
      /\ calls'[s][part] <= calls[s][part] + 1
  <2>1. calls \in [Sources -> [PartIndexes -> Nat]]
    BY DEF TypeOK
  <2>2. CASE answer \in ProviderRejections
    BY <1>1, <1>5, <2>1, <2>2
  <2>3. CASE answer \notin ProviderRejections
    <3> DEFINE n == calls[s][part] + 1
               c == [calls[s] EXCEPT ![part] = n]
    <3>1. n \in Nat
      BY <1>5, <2>1
    <3>2. calls' = [calls EXCEPT ![s] = c]
      BY <1>1, <1>4, <2>3
    <3>3. /\ c \in [PartIndexes -> Nat] /\ c[part] = n
          /\ \A p \in PartIndexes : p # part => c[p] = calls[s][p]
      BY <1>5, <2>1, <3>1
    <3> HIDE DEF c
    <3> QED
      BY <1>5, <2>1, <2>3, <3>1, <3>2, <3>3
  <2> QED
    BY <2>2, <2>3
<1> HIDE DEF part
<1>7. TypeOK'
  BY <1>2, <1>3, <1>6 DEF TypeOK
<1>8. /\ Ledger' /\ Documents' /\ Queued' /\ Failed' /\ CancelledKeepsNoText'
  BY <1>2 DEF Ledger, Documents, Queued, Failed, CancelledKeepsNoText, Missing, NoCase,
              CompleteBefore
<1>9. ASSUME NEW h \in Generations, h # g PROVE Local(h)' /\ Sparing(h)'
  <2>1. run'[h] = run[h] /\ Local(h)
    BY <1>3, <1>9 DEF Only
  <2>2. Placed(h)' /\ Advanced(h)' /\ Clean(h)'
    BY <1>2, <2>1 DEF Local, Placed, Advanced, Clean, Working, At, Src, Missing, NoCase, Current
  <2>3. Creating(h)' /\ Untouched(h)' /\ Complete(h)' /\ Stuck(h)'
    BY <1>2, <2>1 DEF Local, Creating, Untouched, Complete, Stuck, Working, At, Src, Missing,
                      NoCase, Current, CompleteBefore
  <2>4. run[h].step \notin Paying
    BY <1>2, <1>9, <2>1 DEF Local, Stuck, Paying
  <2>5. Sparing(h)'
    BY <2>1, <2>4 DEF Sparing
  <2> QED
    BY <2>2, <2>3, <2>5 DEF Local
<1>10. Local(g)'
  <2>1. Stuck(g)' /\ Complete(g)'
    BY <1>2, <1>3, <1>4 DEF Local, Stuck, Complete, Paying, Received, NoCase, CompleteBefore,
                            Current, Src, At
  <2>2. /\ run'[g].step \in AtSource \ {"source", "transcribing"} /\ run'[g].held < Parts
        /\ run'[g].answer # "none" /\ SameJob(job')
    BY <1>2, <1>3, <1>5 DEF AtSource, Paying, SameJob
  <2> QED
    BY <1>2, <1>3, <2>1, <2>2, Onward
<1>11. Payments'
  <2> SUFFICES ASSUME ~job.attentionResolved PROVE Payments'
    BY <1>2 DEF Payments
  <2>1. /\ \A t \in Sources, p \in PartIndexes : calls[t][p] <= 1 + consent.given
        /\ Sparing(g) /\ consent' = consent /\ consent.given \in Nat
        /\ calls \in [Sources -> [PartIndexes -> Nat]]
    BY <1>2 DEF Payments, TypeOK
  <2>2. \A p \in PartIndexes : p > run[g].held => ~Spent(s, p)
    BY <1>2, <1>4, <2>1 DEF Sparing, Paying, InFlight, At
  <2>3. part > run[g].held /\ ~Spent(s, part)
    BY <1>5, <2>2 DEF part
  <2>4. \A t \in Sources, p \in PartIndexes : calls'[t][p] <= 1 + consent'.given
    BY <1>5, <1>6, <2>1, <2>3 DEF Spent
  <2>5. Sparing(g)'
    <3>1. ASSUME NEW p \in PartIndexes, p > run'[g].held, InFlight(g)' => p # run'[g].held + 1
          PROVE  ~Spent(s, p)'
      <4>1. ~Spent(s, p)
        BY <1>3, <2>2, <3>1
      <4>2. calls'[s][p] = calls[s][p]
        BY <1>3, <1>6, <3>1 DEF InFlight, At, part
      <4> QED
        BY <2>1, <4>1, <4>2 DEF Spent
    <3>2. ASSUME job.status = "processing", NEW p \in PartIndexes,
                 p < run[g].held \/ p = run[g].held
          PROVE  p \in checkpoints[s]
      BY <1>2, <1>4, <2>1, <3>2 DEF Sparing, Paying, At
    <3> QED
      BY <1>2, <1>3, <1>4, <3>1, <3>2 DEF Sparing, Spent, At, Src
  <2>6. ASSUME NEW t \in Missing, job.status \notin {"completed", "cancelled"}
        PROVE  Covered(t)'
    <3>1. CASE t # s
      <4>1. \A p \in PartIndexes : Spent(t, p)' <=> Spent(t, p)
        BY <1>2, <1>6, <3>1 DEF Spent, Missing
      <4> QED
        BY <1>2, <2>6, <4>1 DEF Payments, Covered, Payable, CompleteBefore, Current
    <3>2. CASE t = s
      <4>1. Begun(Current(t)) /\ job.status # "queued"
        BY <1>2, <1>4, <3>2 DEF Local, Stuck, Paying
      <4> QED
        BY <1>2, <4>1 DEF Covered, Doubtful, Begun, Current
    <3> QED
      BY <3>1, <3>2
  <2> QED
    BY <1>2, <1>9, <2>4, <2>5, <2>6 DEF Payments, Missing
<1> QED
  BY <1>7, <1>8, <1>9, <1>10, <1>11

-----------------------------------------------------------------------------
(***************************************************************************)
(* Failures of a run, and its steps between two stages.                    *)
(***************************************************************************)

LEMMA JustGiveUpStep ==
  ASSUME PipelineInvariant, NEW g \in Generations,
         \/ PrepareFails(g) \/ RestoreFails(g) \/ MaterializationFails(g)
         \/ TranscriptionInterrupted(g) \/ OutputRefused(g)
  PROVE  PipelineInvariant'
<1>1. PICK error \in {"other", "pipeline_retry_state_prepare_failed"} : GiveUp(g, error)
  BY DEF PrepareFails, RestoreFails, MaterializationFails, TranscriptionInterrupted,
         OutputRefused, JustGiveUp
<1>2. /\ UNCHANGED <<database, world, consent>>
      /\ run[g].step \in {"preparing"} \cup BeforeCreation
  BY DEF PrepareFails, RestoreFails, MaterializationFails, TranscriptionInterrupted,
         OutputRefused, JustGiveUp, At, BeforeCreation, Paying
<1>3. error \in ErrorCode /\ error # "output_reconciliation_required"
  BY DEF ErrorCode
<1> QED
  BY <1>1, <1>2, <1>3, GiveUpStep

LEMMA Codes ==
  /\ {"none", "media_preparation_timeout", "media_preparation_failed", "existing_result_conflict",
      "provider_usage_accounting_unavailable", "provider_usage_outcome_uncertain",
      "partial_provider_result", "malformed_provider_response", "provider_timeout"}
        \subseteq FailureCode
  /\ ProviderRejections \subseteq FailureCode /\ ProviderRejections \subseteq SafePreTransport
  /\ {"media_preparation_timeout", "media_preparation_failed", "existing_result_conflict",
      "provider_usage_outcome_uncertain", "partial_provider_result",
      "malformed_provider_response", "provider_timeout"} \cap SafePreTransport = {}
  BY DEF FailureCode, PreProviderSafe, SafePreTransport, Uncertainties, ProviderRejections

\* The parts a run has received are kept, and those it refused unpaid.
LEMMA SparingPays ==
  ASSUME PipelineInvariant, NEW g \in Generations, Working(g), ~job.attentionResolved,
         run[g].step \in {"billing", "answered"}, ~InFlight(g)
  PROVE  Payable(Src(g))
<1>1. Sparing(g) /\ run[g].step \in Paying /\ job.status = "processing"
  BY DEF PipelineInvariant, Payments, Working, Paying
<1>2. run[g].held \in Nat /\ ~At(g, "checkpointing")
  BY Ranges DEF PipelineInvariant, TypeOK, Run, At
<1>3. ASSUME NEW p \in PartIndexes PROVE p \in checkpoints[Src(g)] \/ ~Spent(Src(g), p)
  <2>1. p \in Nat /\ (p > run[g].held \/ p < run[g].held \/ p = run[g].held)
    BY <1>2, Ranges
  <2> QED
    BY <1>1, <1>2, <2>1 DEF Sparing
<1> QED
  BY <1>3 DEF Payable

LEMMA ClassifiedFailures ==
  ASSUME PipelineInvariant, NEW g \in Generations,
         \/ PreparationFails(g) \/ PartUsageUnavailable(g) \/ ConfirmationFails(g)
         \/ ProviderFails(g) \/ SavePartFails(g) \/ MergeFails(g)
  PROVE  PipelineInvariant'
<1>1. CASE PreparationFails(g)
  <2>1. PICK code \in {"media_preparation_timeout", "media_preparation_failed",
                       "existing_result_conflict"} : ClassifyAndGiveUp(g, code, "none")
    BY <1>1 DEF PreparationFails
  <2>2. run[g].step \in BeforeCreation
    BY <1>1 DEF PreparationFails, At, BeforeCreation
  <2>3. code \in FailureCode /\ "none" \in FailureCode /\ code \notin SafePreTransport
    BY Codes
  <2> QED
    BY <2>1, <2>2, <2>3, ClassifyStep
<1>2. CASE PartUsageUnavailable(g)
  <2>1. /\ ClassifyAndGiveUp(g, "provider_usage_accounting_unavailable", "none")
        /\ run[g].step = "billing" /\ run[g].step \in BeforeCreation /\ ~InFlight(g)
    BY <1>2 DEF PartUsageUnavailable, At, BeforeCreation, Paying, InFlight
  <2>2. Working(g) /\ ~job.attentionResolved => Payable(Src(g))
    BY <2>1, SparingPays
  <2> QED
    BY <2>1, <2>2, Codes, ClassifyStep
<1>3. CASE ConfirmationFails(g)
  <2>1. /\ ClassifyAndGiveUp(g, "provider_usage_outcome_uncertain", "none")
        /\ run[g].step \in BeforeCreation
    BY <1>3 DEF ConfirmationFails, At, BeforeCreation, Paying
  <2> QED
    BY <2>1, Codes, ClassifyStep
<1>4. CASE ProviderFails(g)
  <2> DEFINE answer == run[g].answer
             code == IF run[g].held > 0 THEN "partial_provider_result" ELSE answer
  <2>1. /\ ClassifyAndGiveUp(g, code, answer) /\ run[g].step = "answered" /\ answer # "ok"
        /\ run[g].step \in BeforeCreation
    BY <1>4 DEF ProviderFails, At, BeforeCreation, Paying
  <2>2. answer \in Answer /\ answer # "none"
    BY <2>1 DEF PipelineInvariant, TypeOK, Run, Local, Placed, At
  <2>3. answer \in FailureCode /\ code \in FailureCode
    BY <2>1, <2>2, Codes DEF Answer
  <2>4. code \in SafePreTransport => answer \in ProviderRejections
    BY <2>1, <2>2, Codes DEF Answer
  <2>5. Working(g) /\ ~job.attentionResolved /\ code \in SafePreTransport => Payable(Src(g))
    BY <2>1, <2>4, SparingPays DEF InFlight
  <2> HIDE DEF code, answer
  <2> QED
    BY <2>1, <2>3, <2>5, ClassifyStep
<1>5. CASE SavePartFails(g)
  <2>1. /\ ClassifyAndGiveUp(g, "partial_provider_result", "none")
        /\ run[g].step \in BeforeCreation
    BY <1>5 DEF SavePartFails, At, BeforeCreation, Paying
  <2> QED
    BY <2>1, Codes, ClassifyStep
<1>6. CASE MergeFails(g)
  <2>1. /\ ClassifyAndGiveUp(g, "malformed_provider_response", "none")
        /\ run[g].step \in BeforeCreation
    BY <1>6 DEF MergeFails, At, BeforeCreation
  <2> QED
    BY <2>1, Codes, ClassifyStep
<1> QED
  BY <1>1, <1>2, <1>3, <1>4, <1>5, <1>6

LEMMA BetweenStages ==
  ASSUME PipelineInvariant, NEW g \in Generations,
         \/ MergeParts(g) \/ CheckpointBeforeOutput(g) \/ OutputStageFails(g)
         \/ MarkCreatedFails(g) \/ Abandon(g)
  PROVE  PipelineInvariant'
<1>1. CASE MergeParts(g)
  BY <1>1, OnwardStep DEF MergeParts, At, Received, BeforeCreation
<1>2. CASE CheckpointBeforeOutput(g)
  BY <1>2, OnwardStep DEF CheckpointBeforeOutput, At, Received, BeforeCreation
<1>3. CASE OutputStageFails(g)
  BY <1>3, OnwardStep DEF OutputStageFails, Received
<1>4. CASE MarkCreatedFails(g)
  BY <1>4, OnwardStep DEF MarkCreatedFails, At, Received
<1>5. CASE Abandon(g)
  BY <1>5, LeaveStep DEF Abandon, Alive, At
<1> QED
  BY <1>1, <1>2, <1>3, <1>4, <1>5

\* What a run writes to the row of the job's current attempt without looking
\* whether it still has the job: only rows whose result is known are touched.
LEMMA LateRowStep ==
  ASSUME PipelineInvariant, NEW g \in Generations, run[g].step \in Received,
         NEW s \in Sources, s = Src(g), NEW row \in Row, SetRow(s, row),
         SameParts(row, Current(s)), row.code \in {Current(s).code, "output_uncertain"},
         row = Current(s) \/ (row.stage # "none" /\ Current(s).stage # "none"),
         UNCHANGED <<job, checkpoints, cases, outputs, world, consent>>,
         run' \in [Generations -> Run], Only(g), run'[g].source = run[g].source,
         run'[g].error = run[g].error,
         \/ run[g].step = "handing" /\ run'[g].step = "googling"
         \/ run'[g].step = "recording"
  PROVE  PipelineInvariant'
<1> USE DEF PipelineInvariant
<1>1. /\ Local(g) /\ job.attempts \in Attempts /\ SameJob(job') /\ ~At(g, "idle")
      /\ UNCHANGED <<docs, creates, calls>>
  BY DEF Local, Placed, SameJob, world, Received, Outside, At
<1>2. CompleteRow(Current(s)) <=> CompleteRow(row)
  BY SamePartsComplete
<1>3. /\ att' \in Typed /\ Ledger' /\ Current(s)' = row
      /\ \A t \in Sources : t # s => att'[t] = att[t]
      /\ \A t \in Sources, n \in Attempts : CompleteRow(att[t][n]) => CompleteRow(att'[t][n])
  BY <1>1, <1>2, RowWritten
<1>4. CompleteBefore(s, job.attempts) /\ CompleteBefore(s, job.attempts)'
  <2>1. CompleteBefore(s, job.attempts)
    BY <1>1 DEF Local, Complete
  <2> QED
    BY <1>1, <1>3, <2>1, StillComplete
<1>5. TypeOK' /\ Documents' /\ Queued' /\ Failed' /\ CancelledKeepsNoText'
  <2>1. Documents'
    BY <1>1, <1>3, DocumentsKept
  <2> QED
    BY <1>1, <1>3, <2>1 DEF TypeOK, Typed, Queued, Failed, CancelledKeepsNoText, Missing, NoCase
<1>6. \A t \in Sources : Fresh(Current(t)) => Fresh(Current(t))'
  BY <1>1, <1>3 DEF Fresh, SameParts, Current
<1>7. \A t \in Sources : Current(t) = NoRow => Current(t)' = NoRow
  <2>1. Current(s) = NoRow => row = NoRow
    BY FreshRows
  <2> QED
    BY <1>1, <1>3, <2>1 DEF Current
<1>8. ASSUME NEW h \in Generations, h # g
      PROVE  Local(h)' /\ (Sparing(h) => Sparing(h)')
  <2>1. run'[h] = run[h] /\ Local(h)
    BY <1>8 DEF Only
  <2>2. Placed(h)' /\ Advanced(h)' /\ Clean(h)' /\ Creating(h)'
    BY <1>1, <1>7, <2>1 DEF Local, Placed, Advanced, Clean, Creating, Working, At, Src, Missing,
                            NoCase
  <2>3. Untouched(h)'
    <3>1. Missing' = Missing /\ Working(h)' = Working(h) /\ Src(h)' = Src(h)
      BY <2>1 DEF Missing, Working, Src
    <3>2. run[h].step \in {"source", "transcribing"} => Src(h) \in Sources
      BY <2>1 DEF Local, Placed, AtSource
    <3>3. \A t \in Sources : t = Src(h) /\ Fresh(Current(Src(h))) => Fresh(Current(Src(h)))'
      BY <1>6, <3>1 DEF Current, Fresh
    <3> QED
      BY <1>6, <2>1, <3>1, <3>2, <3>3 DEF Local, Untouched, Missing
  <2>4. Complete(h)'
    <3> SUFFICES ASSUME run[h].step \in Received PROVE CompleteBefore(Src(h), job.attempts)'
      BY <2>1 DEF Complete
    <3>1. PICK t \in Sources : t = Src(h) /\ t = Src(h)' /\ CompleteBefore(t, job.attempts)
      BY <2>1 DEF Local, Placed, Complete, AtSource, Src
    <3>2. CompleteBefore(t, job.attempts)'
      BY <1>1, <1>3, <3>1, StillComplete
    <3> QED
      BY <3>1, <3>2 DEF CompleteBefore
  <2>5. Stuck(h)'
    <3> SUFFICES ASSUME run[h].step \in Paying PROVE Stuck(h)'
      BY <2>1 DEF Stuck
    <3>1. Src(h) # s
      <4>1. ~CompleteBefore(Src(h), job.attempts - 1) /\ Begun(Current(Src(h)))
        BY <2>1 DEF Local, Stuck
      <4>2. ~CompleteRow(Current(Src(h)))
        <5>1. run[h].held < Parts \/ At(h, "checkpointing")
          BY <2>1 DEF Local, Placed, Paying, At
        <5>2. run[h].held \in 0..Parts
          BY DEF TypeOK, Run
        <5>3. Current(Src(h)).done < Parts
          BY <2>1, <5>1, <5>2, Ranges DEF Local, Stuck, Placed, At
        <5> QED
          BY <4>1, <5>3, Ranges DEF CompleteRow, Begun
      <4> QED
        BY <1>1, <1>4, <4>1, <4>2, CompleteSplit
    <3>2. Src(h) \in Sources /\ att'[Src(h)] = att[Src(h)]
      BY <1>3, <2>1, <3>1 DEF Local, Placed, AtSource
    <3>3. PICK t \in Sources : t = Src(h) /\ t = Src(h)' /\ att'[t] = att[t]
      BY <2>1, <3>2 DEF Src
    <3>4. Current(t)' = Current(t)
      BY <1>1, <3>3 DEF Current
    <3>5. CompleteBefore(t, job.attempts - 1)' <=> CompleteBefore(t, job.attempts - 1)
      BY <1>1, <3>3 DEF CompleteBefore
    <3>6. At(h, "checkpointing")' <=> At(h, "checkpointing")
      BY <2>1 DEF At
    <3> QED
      BY <1>1, <2>1, <3>3, <3>4, <3>5, <3>6 DEF Local, Stuck, NoCase
  <2>6. Sparing(h) => Sparing(h)'
    BY <1>1, <2>1 DEF Sparing, At, Src, InFlight, Spent
  <2> QED
    BY <2>2, <2>3, <2>4, <2>5, <2>6 DEF Local
<1>9. Local(g)' /\ Sparing(g)'
  <2>1. CASE run'[g].step = "recording"
    <3>1. job'.attempts \in Attempts /\ ~(g > job'.generation)
          /\ run'[g].error # "output_reconciliation_required"
      BY <1>1, Claimed DEF Local, Placed
    <3> QED
      BY <2>1, <3>1, Stopped
  <2>2. CASE run[g].step = "handing" /\ run'[g].step = "googling"
    <3>1. Complete(g)'
      BY <1>4, <2>2 DEF Complete, Src, CompleteBefore
    <3>2. Stuck(g)' /\ Sparing(g)'
      BY <2>2 DEF Stuck, Sparing, Paying
    <3>3. /\ run[g].step \in AtSource \ {"source"} /\ run[g].step \in BeforeCreation
          /\ run'[g].step \in AtSource \ {"source", "transcribing"}
      BY <2>2 DEF AtSource, BeforeCreation, Received
    <3> QED
      BY <1>1, <1>3, <2>2, <3>1, <3>2, <3>3, Onward
  <2> QED
    BY <2>1, <2>2
<1>10. ASSUME NEW t \in Missing, Covered(t) PROVE Covered(t)'
  <2>1. CASE t = s
    BY <1>4, <2>1 DEF Covered
  <2>2. CASE t # s
    BY <1>1, <1>3, <1>10, <2>2, CoveredKept DEF Missing
  <2> QED
    BY <2>1, <2>2
<1>11. Payments'
  BY <1>1, <1>8, <1>9, <1>10 DEF Payments, Missing
<1> QED
  BY <1>3, <1>5, <1>8, <1>9, <1>11

LEMMA HandOffStep ==
  ASSUME PipelineInvariant, NEW g \in Generations, HandOff(g)
  PROVE  PipelineInvariant'
<1> DEFINE row == HandedOffRow(Current(Src(g)))
<1>1. /\ run[g].step = "handing" /\ SetRow(Src(g), row) /\ Goto(g, "googling")
      /\ Current(Src(g)).stage # "none"
      /\ UNCHANGED <<job, checkpoints, cases, outputs, world, consent>>
      /\ run[g].step \in Received
  BY DEF HandOff, At, CanHandOff, Received
<1>2. /\ Src(g) \in Sources /\ job.attempts \in Attempts /\ run \in [Generations -> Run]
  BY <1>1 DEF PipelineInvariant, Local, Placed, AtSource, Outside, TypeOK
<1>3. Current(Src(g)) \in Row
  BY <1>2, CurrentTyped DEF PipelineInvariant
<1>4. /\ row \in Row /\ SameParts(row, Current(Src(g))) /\ row.code = Current(Src(g)).code
      /\ row.stage # "none"
  BY <1>3, HandedOffEffect
<1> HIDE DEF row
<1>5. /\ run' \in [Generations -> Run] /\ Only(g) /\ run'[g].step = "googling"
      /\ run'[g].source = run[g].source /\ run'[g].error = run[g].error
  BY <1>1, <1>2, GotoEffect DEF Only, Step
<1>6. PICK s \in Sources : s = Src(g)
  BY <1>2
<1> QED
  BY <1>1, <1>4, <1>5, <1>6, LateRowStep

LEMMA MarkUncertainStep ==
  ASSUME PipelineInvariant, NEW g \in Generations, MarkUncertain(g)
  PROVE  PipelineInvariant'
<1> DEFINE row == IF att' = att THEN Current(Src(g)) ELSE OutputUncertainRow(Current(Src(g)))
<1>1. /\ run[g].step = "uncertain" /\ Goto(g, "recording")
      /\ UNCHANGED <<job, checkpoints, cases, outputs, world, consent>>
      /\ run[g].step \in Received
      /\ SetRow(Src(g), OutputUncertainRow(Current(Src(g)))) \/ att' = att
  BY DEF MarkUncertain, At, Received
<1>2. /\ Src(g) \in Sources /\ job.attempts \in Attempts /\ run \in [Generations -> Run]
      /\ att \in Typed
  BY <1>1 DEF PipelineInvariant, Local, Placed, AtSource, Outside, TypeOK, Typed
<1>3. Current(Src(g)) \in Row
  BY <1>2, CurrentTyped DEF PipelineInvariant
<1>4. SetRow(Src(g), row)
  <2>1. [att EXCEPT ![Src(g)][job.attempts] = Current(Src(g))] = att
    BY <1>2 DEF Typed, Current
  <2> QED
    BY <1>1, <2>1 DEF SetRow
<1>5. /\ row \in Row /\ SameParts(row, Current(Src(g)))
      /\ row.code \in {Current(Src(g)).code, "output_uncertain"}
      /\ row = Current(Src(g)) \/ (row.stage # "none" /\ Current(Src(g)).stage # "none")
  <2>1. SameParts(Current(Src(g)), Current(Src(g)))
    BY DEF SameParts
  <2> QED
    BY <1>3, <2>1, OutputUncertainEffect
<1> HIDE DEF row
<1>6. /\ run' \in [Generations -> Run] /\ Only(g) /\ run'[g].step = "recording"
      /\ run'[g].source = run[g].source /\ run'[g].error = run[g].error
  BY <1>1, <1>2, GotoEffect DEF Only, Step
<1>7. PICK s \in Sources : s = Src(g)
  BY <1>2
<1> QED
  BY <1>1, <1>4, <1>5, <1>6, <1>7, LateRowStep

-----------------------------------------------------------------------------
(***************************************************************************)
(* The beginning of a run.                                                 *)
(***************************************************************************)

LEMMA PrepareAttemptsStep ==
  ASSUME PipelineInvariant, NEW g \in Generations, PrepareAttempts(g)
  PROVE  PipelineInvariant'
<1> USE DEF PipelineInvariant
<1>1. /\ Working(g) /\ At(g, "preparing") /\ run[g].step = "preparing" /\ Local(g)
      /\ UNCHANGED <<job, checkpoints, cases, outputs, world, consent>>
      /\ UNCHANGED <<docs, creates, calls>>
      /\ run \in [Generations -> Run] /\ att \in Typed /\ job \in Job
      /\ SameJob(job')
  BY WorkingNow DEF PrepareAttempts, At, world, TypeOK, Typed, SameJob
<1>2. /\ job.attempts \in Attempts /\ \A s \in Sources : Current(s) = NoRow
      /\ \A s \in Missing : NoCase(s)
      /\ ~(g > job.generation) /\ run[g].error # "output_reconciliation_required"
  BY <1>1, Claimed DEF Local, Placed, Clean, Ledger, Working, At
<1>3. CASE \E s \in Missing : UnresolvedCase(s)
  BY <1>2, <1>3 DEF UnresolvedCase, NoCase
<1>4. CASE ~ \E s \in Missing : UnresolvedCase(s)
  <2>1. /\ att' = [s \in Sources |-> IF s \in Missing
                                     THEN [att[s] EXCEPT ![job.attempts] = PreparedRow]
                                     ELSE att[s]]
        /\ run' = [run EXCEPT ![g].step = "source", ![g].source = 1]
    BY <1>4 DEF PrepareAttempts
  <2>2. /\ att' \in Typed
        /\ \A s \in Missing : Current(s)' = PreparedRow
        /\ \A s \in Sources : s \notin Missing => att'[s] = att[s]
        /\ \A s \in Sources, n \in Attempts : n # job.attempts => att'[s][n] = att[s][n]
    <3>1. ASSUME NEW s \in Missing
          PROVE  /\ att'[s] \in [Attempts -> Row] /\ att'[s][job.attempts] = PreparedRow
                 /\ \A n \in Attempts : n # job.attempts => att'[s][n] = att[s][n]
      <4>1. s \in Sources /\ att[s] \in [Attempts -> Row]
        BY <1>1 DEF Missing, Typed
      <4>2. att'[s] = [att[s] EXCEPT ![job.attempts] = PreparedRow]
        BY <2>1, <4>1
      <4> QED
        BY <1>2, <4>1, <4>2, FreshRows
    <3>2. ASSUME NEW s \in Sources, s \notin Missing PROVE att'[s] = att[s]
      BY <2>1, <3>2
    <3>3. DOMAIN att' = Sources /\ att' = [s \in Sources |-> att'[s]]
      BY <2>1
    <3>4. \A s \in Sources : att'[s] \in [Attempts -> Row]
      BY <1>1, <3>1, <3>2 DEF Typed
    <3>5. att' \in Typed
      BY <3>3, <3>4 DEF Typed
    <3> QED
      BY <1>1, <3>1, <3>2, <3>5 DEF Current
  <2>3. /\ run' \in [Generations -> Run] /\ Only(g) /\ run'[g].step = "source"
        /\ run'[g].source = 1 /\ run'[g].error = run[g].error
    <3> DEFINE r == [[run[g] EXCEPT !.step = "source"] EXCEPT !.source = 1]
    <3>1. 1 \in 0..NumSources
      BY PipelineAssumption
    <3>2. [run[g] EXCEPT !.step = "source"] \in Run
      BY <1>1 DEF Run, Step
    <3>3. r \in Run /\ r.step = "source" /\ r.source = 1 /\ r.error = run[g].error
      BY <1>1, <3>1, <3>2 DEF Run
    <3>4. run' = [run EXCEPT ![g] = r]
      BY <2>1
    <3> HIDE DEF r
    <3> QED
      BY <1>1, <3>3, <3>4, TwoFields DEF Only
  <2>4. \A s \in Sources, n \in Attempts : CompleteRow(att[s][n]) => CompleteRow(att'[s][n])
    BY <1>2, <2>2, FreshRows DEF Current
  <2>5. TypeOK'
    BY <1>1, <2>2, <2>3 DEF TypeOK, Typed
  <2>6. Ledger'
    <3>1. ASSUME NEW s \in Sources, NEW n \in Attempts,
                 att'[s][n].stage = "none" \/ n > job.attempts
          PROVE  att'[s][n] = NoRow
      <4>1. CASE s \in Missing /\ n = job.attempts
        <5>1. att'[s][n] = PreparedRow
          BY <1>1, <2>2, <4>1 DEF Current
        <5> QED
          BY <1>2, <3>1, <4>1, <5>1, FreshRows, Ranges
      <4>2. CASE ~(s \in Missing /\ n = job.attempts)
        BY <2>2, <3>1, <4>2 DEF Ledger
      <4> QED
        BY <4>1, <4>2
    <3> QED
      BY <1>1, <3>1 DEF Ledger, Missing
  <2>7. Documents'
    BY <1>1, <2>4, DocumentsKept
  <2>8. 1 \in Sources /\ Src(g)' = 1 /\ Missing' = Missing
    BY <1>1, <2>3, PipelineAssumption DEF Sources, Src, Missing
  <2>9. Local(g)'
    <3>1. Placed(g)'
      BY <1>1, <1>2, <2>3, <2>8 DEF Placed, At
    <3>2. Advanced(g)'
      BY <2>3, <2>8, Ranges DEF Advanced, At, Sources
    <3>3. Clean(g)'
      BY <1>1, <1>2, <2>3, <2>8 DEF Clean, At, NoCase
    <3>4. Untouched(g)'
      <4>1. \A s \in Missing' : Fresh(Current(s))'
        BY <2>2, <2>8, FreshRows DEF Fresh
      <4>2. Src(g)' \notin outputs' => Fresh(Current(Src(g)))'
        <5>1. PICK s \in Sources : s = 1 /\ s = Src(g)'
          BY <2>8
        <5> QED
          BY <4>1, <5>1 DEF Missing, Current, Fresh
      <4> QED
        BY <4>1, <4>2 DEF Untouched
    <3>5. Creating(g)' /\ Complete(g)' /\ Stuck(g)'
      BY <2>3 DEF Creating, Complete, Stuck, At, Received, Paying
    <3> QED
      BY <3>1, <3>2, <3>3, <3>4, <3>5 DEF Local
  <2>10. Sparing(g)'
    BY <2>3 DEF Sparing, Paying
  <2>11. \A h \in Generations : h # g => Creating(h)'
    BY <1>1, <2>3 DEF Local, Creating, Only, At, Src, NoCase
  <2>12. ASSUME NEW t \in Missing, Covered(t) PROVE Covered(t)'
    <3>1. CASE Payable(t)
      BY <1>1, <3>1 DEF Covered, Payable, Spent
    <3>2. CASE CompleteBefore(t, job.attempts)
      <4>1. CompleteBefore(t, job.attempts)'
        BY <1>1, <2>4, <3>2, StillComplete DEF Missing
      <4> QED
        BY <4>1 DEF Covered
    <3>3. ~Doubtful(Current(t))
      BY <1>2, FreshRows, FreshIsNotComplete DEF Missing
    <3> QED
      BY <2>12, <3>1, <3>2, <3>3 DEF Covered
  <2>13. \A s \in Sources, p \in PartIndexes :
            ~job.attentionResolved => calls'[s][p] <= 1 + consent.given
    BY <1>1 DEF Payments
  <2> QED
    BY <1>1, <2>3, <2>4, <2>5, <2>6, <2>7, <2>9, <2>10, <2>11, <2>12, <2>13, WorkingStep
<1> QED
  BY <1>3, <1>4


\* A run that does not move and is not worked with after the step.
LEMMA Bystander ==
  ASSUME PipelineInvariant, NEW h \in Generations, run'[h] = run[h], ~Working(h)',
         job'.attempts \in 0..MaxAttempts, job'.attempts >= job.attempts,
         job'.generation \in Nat, job'.generation >= job.generation,
         At(h, "claimed") /\ job'.generation = h => job'.status \notin {"processing", "failed"},
         \A s \in Sources : /\ creates'[s] = creates[s] /\ docs'[s] = docs[s]
                            /\ cases'[s].generation = cases[s].generation
                            /\ ~NoCase(s) => ~NoCase(s)',
         \A s \in Sources, n \in Attempts :
            n <= job.attempts /\ CompleteRow(att[s][n]) => CompleteRow(att'[s][n]),
         run[h].step \in Paying => Stuck(h)'
  PROVE  Local(h)'
<1> USE DEF PipelineInvariant
<1>1. /\ Local(h) /\ Src(h)' = Src(h) /\ (run[h].step \in AtSource => Src(h) \in Sources)
      /\ job.attempts \in 0..MaxAttempts /\ job.generation \in Nat /\ h \in Nat
  BY Ranges DEF Src, Local, Placed, TypeOK, Job, Generations
<1>2. Placed(h)'
  <2>1. run[h].step \notin Outside => job'.attempts \in Attempts
    BY <1>1, PipelineAssumption DEF Local, Placed, Attempts
  <2>2. h > job'.generation => h > job.generation
    BY <1>1
  <2> QED
    BY <1>1, <2>1, <2>2 DEF Local, Placed, At
<1>3. Advanced(h)' /\ Clean(h)' /\ Untouched(h)'
  BY DEF Advanced, Clean, Untouched
<1>4. Creating(h)'
  <2>1. run[h].step \in {"creating", "created", "persisting"} => Src(h) \in Sources
    BY <1>1 DEF AtSource, Received
  <2> QED
    BY <1>1, <2>1 DEF Local, Creating, At
<1>5. Complete(h)'
  <2> SUFFICES ASSUME run[h].step \in Received PROVE CompleteBefore(Src(h), job.attempts)'
    BY DEF Complete
  <2>1. PICK s \in Sources : s = Src(h) /\ s = Src(h)' /\ CompleteBefore(s, job.attempts)
    BY <1>1 DEF Local, Complete, AtSource
  <2>2. CompleteBefore(s, job.attempts)'
    BY <1>1, <2>1, CompleteKept
  <2> QED
    BY <2>1, <2>2 DEF CompleteBefore
<1>6. Stuck(h)'
  BY DEF Stuck
<1> QED
  BY <1>2, <1>3, <1>4, <1>5, <1>6 DEF Local

\* A queued job has no run that pays.
LEMMA NobodyPays ==
  ASSUME PipelineInvariant, job.status = "queued", NEW h \in Generations
  PROVE  run[h].step \notin Paying
  BY DEF PipelineInvariant, Local, Stuck

LEMMA ClaimStep ==
  ASSUME PipelineInvariant, NEW g \in Generations, Claim(g)
  PROVE  PipelineInvariant'
<1> USE DEF PipelineInvariant
<1>1. /\ g = job.generation + 1 /\ At(g, "idle") /\ Goto(g, "claimed") /\ job.status = "queued"
      /\ job' = [job EXCEPT !.generation = g, !.owned = TRUE, !.live = TRUE]
      /\ UNCHANGED <<att, checkpoints, cases, outputs, docs, creates, calls, consent>>
      /\ run \in [Generations -> Run] /\ job \in Job /\ job.generation \in Nat
      /\ job.attempts \in 0..MaxAttempts
  BY Ranges DEF Claim, world, TypeOK, Job
<1>2. /\ job' \in Job /\ job'.status = "queued" /\ job'.generation = g
      /\ job'.attempts = job.attempts /\ job'.error = job.error
      /\ job'.attentionResolved = job.attentionResolved
  <2> DEFINE yes == TRUE
             j == [job EXCEPT !.generation = g, !.owned = yes, !.live = yes]
  <2>1. g \in 0..MaxGeneration /\ yes \in BOOLEAN
    BY Ranges
  <2> HIDE DEF yes
  <2>2. /\ j \in Job /\ j.status = job.status /\ j.generation = g /\ j.attempts = job.attempts
        /\ j.error = job.error /\ j.attentionResolved = job.attentionResolved
    BY <1>1, <2>1 DEF Job
  <2>3. job' = j
    BY <1>1, Zenon DEF yes
  <2> HIDE DEF j
  <2> QED
    BY <1>1, <2>2, <2>3
<1>3. /\ run' \in [Generations -> Run] /\ run'[g].step = "claimed" /\ Only(g)
      /\ run'[g].error = run[g].error
  BY <1>1, GotoEffect DEF Only, Step
<1>4. TypeOK'
  BY <1>1, <1>2, <1>3 DEF TypeOK
<1>5. Ledger' /\ Documents' /\ Queued' /\ Failed' /\ CancelledKeepsNoText'
  BY <1>1, <1>2 DEF Ledger, Documents, Queued, Failed, CancelledKeepsNoText, Missing, NoCase,
                    CompleteBefore
<1>6. ASSUME NEW h \in Generations, h # g PROVE Local(h)' /\ Sparing(h)'
  <2>1. run'[h] = run[h] /\ ~Working(h)' /\ run[h].step \notin Paying
    BY <1>1, <1>2, <1>3, <1>6, NobodyPays DEF Only, Working
  <2>2. Sparing(h)'
    BY <2>1 DEF Sparing
  <2>3. Local(h)'
    BY <1>1, <1>2, <1>6, <2>1, Bystander DEF NoCase
  <2> QED
    BY <2>2, <2>3
<1>7. Local(g)' /\ Sparing(g)'
  <2>1. run'[g].step \notin AtSource /\ run'[g].step \in Outside
    BY <1>3 DEF AtSource, Paying, Received, Outside
  <2>2. Placed(g)'
    BY <1>1, <1>2, <1>3, <2>1 DEF Local, Placed, At, AtSource, Paying, Received
  <2>3. Advanced(g)' /\ Clean(g)' /\ Untouched(g)'
    BY <1>2 DEF Advanced, Clean, Untouched, Working
  <2>4. Creating(g)' /\ Complete(g)' /\ Stuck(g)' /\ Sparing(g)'
    BY <1>3 DEF Creating, Complete, Stuck, Sparing, At, Paying, Received
  <2> QED
    BY <2>2, <2>3, <2>4 DEF Local
<1>8. Payments'
  <2>1. \A s \in Missing : Covered(s) => Covered(s)'
    BY <1>1, <1>2 DEF Covered, Payable, Spent, CompleteBefore, Current
  <2> QED
    BY <1>1, <1>2, <1>6, <1>7, <2>1 DEF Payments, Missing
<1> QED
  BY <1>4, <1>5, <1>6, <1>7, <1>8

LEMMA EnterStep ==
  ASSUME PipelineInvariant, NEW g \in Generations, Enter(g)
  PROVE  PipelineInvariant'
<1> USE DEF PipelineInvariant
<1> DEFINE entering == /\ job.status = "queued" /\ job.owned /\ job.generation = g /\ job.live
                       /\ ~job.cancelRequested
<1>1. /\ At(g, "claimed") /\ ~At(g, "idle") /\ Local(g)
      /\ UNCHANGED <<att, checkpoints, cases, outputs, world, consent>>
      /\ UNCHANGED <<docs, creates, calls>>
      /\ run \in [Generations -> Run] /\ job \in Job /\ job.attempts \in 0..MaxAttempts
  BY DEF Enter, world, TypeOK, Job, At
<1>2. CASE ~entering
  <2>1. Leave(g) /\ UNCHANGED <<database, world, consent>>
    BY <1>1, <1>2 DEF Enter, database
  <2> QED
    BY <1>1, <2>1, LeaveStep
<1>3. CASE entering
  <2>1. /\ job.status = "queued" /\ job.generation = g /\ Goto(g, "preparing")
        /\ job' = [job EXCEPT !.status = "processing", !.attempts = @ + 1, !.error = "none",
                              !.deferred = FALSE]
    BY <1>3 DEF Enter
  <2>2. job.attempts + 1 \in Attempts /\ job.attempts + 1 \in 0..MaxAttempts
    BY <1>1, <2>1, PipelineAssumption DEF Ledger, Attempts
  <2>3. /\ job' \in Job /\ job'.status = "processing" /\ job'.generation = g
        /\ job'.attempts = job.attempts + 1
        /\ job'.attentionResolved = job.attentionResolved
    <3> DEFINE n == job.attempts + 1
               no == FALSE
               j == [job EXCEPT !.status = "processing", !.attempts = n, !.error = "none",
                                !.deferred = no]
    <3>1. n \in 0..MaxAttempts /\ no \in BOOLEAN
      BY <2>2
    <3> HIDE DEF n, no
    <3>2. /\ j \in Job /\ j.status = "processing" /\ j.generation = job.generation
          /\ j.attempts = n /\ j.attentionResolved = job.attentionResolved
      BY <1>1, <3>1 DEF Job, Status, ErrorCode
    <3>3. job' = j
      BY <2>1, Zenon DEF n, no
    <3> HIDE DEF j
    <3> QED
      BY <2>1, <3>2, <3>3 DEF n
  <2>4. /\ run' \in [Generations -> Run] /\ run'[g].step = "preparing" /\ Only(g)
        /\ run'[g].error = run[g].error
    BY <1>1, <2>1, GotoEffect DEF Only, Step
  <2>5. TypeOK'
    BY <1>1, <2>3, <2>4 DEF TypeOK
  <2>6. \A s \in Sources, n \in Attempts : n > job.attempts => att[s][n] = NoRow
    BY DEF Ledger
  <2>7. Ledger'
    <3>1. \A n \in Attempts : n > job.attempts + 1 => n > job.attempts
      BY <1>1, Ranges
    <3>2. Missing # {}
      BY <2>1 DEF Ledger
    <3> QED
      BY <1>1, <2>2, <2>3, <3>1, <3>2 DEF Ledger, Missing
  <2>8. ASSUME NEW s \in Sources, CompleteBefore(s, job.attempts)
        PROVE  CompleteBefore(s, job.attempts)'
    <3>1. job.attempts + 1 >= job.attempts
      BY <1>1
    <3> QED
      BY <1>1, <2>2, <2>3, <2>8, <3>1, CompleteKept
  <2>9. Documents'
    BY <1>1, <2>3, <2>8 DEF Documents, NoCase
  <2>10. Queued' /\ Failed' /\ CancelledKeepsNoText'
    BY <2>3 DEF Queued, Failed, CancelledKeepsNoText
  <2>11. ASSUME NEW h \in Generations, h # g PROVE Local(h)' /\ Sparing(h)'
    <3>1. run'[h] = run[h] /\ ~Working(h)' /\ run[h].step \notin Paying /\ job'.generation # h
      BY <2>1, <2>3, <2>4, <2>11, NobodyPays DEF Only, Working
    <3>2. Sparing(h)'
      BY <3>1 DEF Sparing
    <3>3. /\ job'.attempts \in 0..MaxAttempts /\ job'.attempts >= job.attempts
          /\ job'.generation \in Nat /\ job'.generation >= job.generation
      BY <1>1, <2>1, <2>2, <2>3, Ranges
    <3>4. Local(h)'
      BY <1>1, <3>1, <3>3, Bystander DEF NoCase
    <3> QED
      BY <3>2, <3>4
  <2>12. Local(g)' /\ Sparing(g)'
    <3>1. \A s \in Sources : Current(s)' = NoRow
      BY <1>1, <2>2, <2>3, <2>6 DEF Current
    <3>2. Placed(g)'
      BY <1>1, <2>1, <2>2, <2>3, <2>4, <3>1, Ranges
         DEF Local, Placed, At, AtSource, Paying, Received
    <3>3. \A s \in Missing' : NoCase(s)'
      BY <1>1, <2>1 DEF Queued, Missing, NoCase
    <3>4. Advanced(g)' /\ Clean(g)' /\ Untouched(g)'
      BY <2>4, <3>3 DEF Advanced, Clean, Untouched, At, AtSource, Paying, Received, NoCase
    <3>5. Creating(g)' /\ Complete(g)' /\ Stuck(g)' /\ Sparing(g)'
      BY <2>4 DEF Creating, Complete, Stuck, Sparing, At, Paying, Received
    <3> QED
      BY <3>2, <3>4, <3>5 DEF Local
  <2>13. Payments'
    <3>1. ASSUME NEW s \in Missing, Covered(s) PROVE Covered(s)'
      <4>1. Payable(s) \/ CompleteBefore(s, job.attempts)
        BY <2>1, <3>1 DEF Covered
      <4>2. Payable(s) => Payable(s)'
        BY <1>1 DEF Payable, Spent
      <4> QED
        BY <2>8, <4>1, <4>2 DEF Covered, Missing
    <3> QED
      BY <1>1, <2>1, <2>3, <2>11, <2>12, <3>1 DEF Payments, Missing
  <2> QED
    BY <2>5, <2>7, <2>9, <2>10, <2>11, <2>12, <2>13
<1> QED
  BY <1>2, <1>3


-----------------------------------------------------------------------------
(***************************************************************************)
(* The document of a source.                                               *)
(***************************************************************************)

\* The working run writes the case of its source, before or after the request.
LEMMA CaseStep ==
  ASSUME PipelineInvariant, NEW g \in Generations, Working(g), NEW s \in Sources, s = Src(g),
         s \notin outputs,
         NEW c \in [status : CaseStatus, generation : 0..MaxGeneration],
         cases' = [cases EXCEPT ![s] = c], NEW step \in Step, Goto(g, step),
         UNCHANGED <<job, att, checkpoints, outputs, world, consent>>,
         \/ /\ run[g].step = "googling" /\ step = "creating"
            /\ NoCase(s) /\ c.status = "prepared" /\ c.generation = g
         \/ /\ run[g].step = "created" /\ step = "persisting"
            /\ c.status = "creation_returned" /\ c.generation = cases[s].generation
  PROVE  PipelineInvariant'
<1> USE DEF PipelineInvariant
<1>1. /\ run[g].step \in AtSource \ {"source"} /\ run[g].step \in Received
      /\ UNCHANGED <<docs, creates, calls>> /\ Local(g) /\ ~At(g, "idle")
      /\ run[g].step \notin Outside
      /\ c.status \notin {"none", "resolved"}
      /\ run \in [Generations -> Run]
      /\ SameJob(job') /\ cases' \in [Sources -> [status : CaseStatus, generation : 0..MaxGeneration]]
      /\ cases'[s] = c /\ \A t \in Sources : t # s => cases'[t] = cases[t]
  BY DEF AtSource, Received, world, At, TypeOK, SameJob, Outside
<1>2. /\ run' \in [Generations -> Run] /\ Only(g) /\ run'[g].step = step
      /\ run'[g].source = run[g].source /\ run'[g].error = run[g].error
  BY <1>1, GotoEffect DEF Only
<1>3. TypeOK' /\ Ledger'
  BY <1>1, <1>2 DEF TypeOK, Ledger, Missing
<1>4. Documents'
  <2>1. CompleteBefore(s, job.attempts)
    BY <1>1 DEF Local, Complete
  <2>2. \A t \in Sources : CompleteBefore(t, job.attempts)' <=> CompleteBefore(t, job.attempts)
    BY DEF CompleteBefore
  <2> QED
    BY <1>1, <2>1, <2>2 DEF Documents, NoCase
<1>5. Local(g)'
  <2>1. Src(g)' = s /\ Missing' = Missing /\ Working(g)' /\ run'[g].step \in {"creating", "persisting"}
    BY <1>2 DEF Src, Missing, Working
  <2>2. Placed(g)'
    BY <1>1, <1>2, <2>1 DEF Local, Placed, At, AtSource, Paying, Received, Src
  <2>3. Advanced(g)'
    BY <1>1, <1>2, <2>1 DEF Local, Advanced, At
  <2>4. Clean(g)'
    <3>1. \A t \in Missing \ {s} : NoCase(t)
      BY <1>1 DEF Local, Clean, AtSource, Received
    <3>2. \A t \in Missing \ {s} : NoCase(t)'
      BY <1>1, <3>1 DEF NoCase, Missing
    <3> QED
      BY <1>1, <1>2, <2>1, <3>2 DEF Clean, At
  <2>5. Creating(g)'
    <3>1. NoCase(s) => creates[s] = 0
      BY DEF Documents
    <3> QED
      BY <1>1, <1>2, <2>1, <3>1 DEF Local, Creating, At, NoCase, Src
  <2>6. Untouched(g)'
    BY <1>1, <1>2, <2>1 DEF Local, Untouched, Current
  <2>7. Complete(g)'
    BY <1>1, <2>1 DEF Local, Complete, CompleteBefore
  <2>8. Stuck(g)'
    BY <2>1 DEF Stuck, Paying
  <2> QED
    BY <2>2, <2>3, <2>4, <2>5, <2>6, <2>7, <2>8 DEF Local
<1>6. Sparing(g)'
  BY <1>2 DEF Sparing, Paying
<1>7. ASSUME NEW h \in Generations, h # g PROVE Creating(h)'
  <2>1. run'[h] = run[h] /\ Creating(h) /\ (run[h].step \in AtSource => Src(h) \in Sources)
    BY <1>2, <1>7 DEF Only, Local, Placed
  <2>2. At(h, "creating") => Src(h) \in Sources /\ (Src(h) = s => cases'[s].generation = h)
    <3>1. At(h, "creating") => Src(h) \in Sources
      BY <2>1 DEF At, AtSource, Received
    <3>2. At(h, "creating") /\ Src(h) = s => ~NoCase(s) /\ cases[s].generation = h
      BY <2>1 DEF Creating
    <3> QED
      BY <1>1, <3>1, <3>2
  <2> QED
    BY <1>1, <2>1, <2>2 DEF Creating, At, Src, NoCase
<1>8. \A t \in Missing : Covered(t) => Covered(t)'
  BY <1>1, CoveredKept DEF Missing
<1>9. \A t \in Sources, p \in PartIndexes :
         ~job.attentionResolved => calls'[t][p] <= 1 + consent.given
  BY <1>1 DEF Payments
<1> QED
  BY <1>1, <1>2, <1>3, <1>4, <1>5, <1>6, <1>7, <1>8, <1>9, WorkingStep

LEMMA PrepareCaseStep ==
  ASSUME PipelineInvariant, NEW g \in Generations, PrepareCase(g)
  PROVE  PipelineInvariant'
<1>1. /\ Working(g) /\ run[g].step = "googling" /\ Src(g) \notin outputs
      /\ run[g].step \in AtSource \ {"source"} /\ run[g].step \in BeforeCreation
      /\ UNCHANGED <<job, att, checkpoints, outputs, world, consent>>
  BY WorkingNow DEF PrepareCase, At, AtSource, Received, BeforeCreation
<1>2. Src(g) \in Sources /\ NoCase(Src(g))
  BY <1>1, AtHand
<1>3. PICK s \in Sources : s = Src(g)
  BY <1>2
<1> DEFINE c == [status |-> "prepared", generation |-> g]
<1>4. cases' = [cases EXCEPT ![s] = c] /\ Goto(g, "creating")
  BY <1>2, <1>3 DEF PrepareCase, NoCase
<1>5. /\ c \in [status : CaseStatus, generation : 0..MaxGeneration]
      /\ c.status = "prepared" /\ c.generation = g
  BY Ranges DEF CaseStatus
<1>6. "creating" \in Step
  BY DEF Step
<1> HIDE DEF c
<1> QED
  BY <1>1, <1>2, <1>3, <1>4, <1>5, <1>6, CaseStep

LEMMA MarkCreatedStep ==
  ASSUME PipelineInvariant, NEW g \in Generations, MarkCreated(g)
  PROVE  PipelineInvariant'
<1>1. /\ Working(g) /\ run[g].step = "created" /\ run[g].step \in AtSource \ {"source"}
      /\ cases' = [cases EXCEPT ![Src(g)].status = "creation_returned"]
      /\ Goto(g, "persisting")
      /\ UNCHANGED <<job, att, checkpoints, outputs, world, consent>>
  BY WorkingNow DEF MarkCreated, At, AtSource, Received
<1>2. Src(g) \in Missing /\ Src(g) \in Sources
  BY <1>1, AtHand
<1>3. PICK s \in Sources : s = Src(g) /\ s \notin outputs
  BY <1>2 DEF Missing
<1> DEFINE c == [cases[s] EXCEPT !.status = "creation_returned"]
<1>4. cases' = [cases EXCEPT ![s] = c]
  BY <1>1, <1>3
<1>5. /\ c \in [status : CaseStatus, generation : 0..MaxGeneration]
      /\ c.status = "creation_returned" /\ c.generation = cases[s].generation
  BY DEF PipelineInvariant, TypeOK, CaseStatus
<1>6. "persisting" \in Step
  BY DEF Step
<1> HIDE DEF c
<1> QED
  BY <1>1, <1>3, <1>4, <1>5, <1>6, CaseStep

\* The request itself; the run may have lost the job long before.
LEMMA CreateDocumentStep ==
  ASSUME PipelineInvariant, NEW g \in Generations, CreateDocument(g)
  PROVE  PipelineInvariant'
<1> USE DEF PipelineInvariant
<1>1. /\ run[g].step = "creating" /\ run[g].step \in AtSource \ {"source"}
      /\ run[g].step \in Received /\ run[g].step \notin Outside /\ ~At(g, "idle")
      /\ UNCHANGED <<job, att, checkpoints, cases, outputs, calls, consent>>
      /\ run \in [Generations -> Run] /\ Local(g) /\ SameJob(job')
      /\ docs \in [Sources -> Nat] /\ creates \in [Sources -> Nat]
  BY DEF CreateDocument, At, AtSource, Received, Outside, database, TypeOK, SameJob
<1>2. PICK s \in Sources : s = Src(g)
  BY <1>1 DEF Local, Placed
<1>3. /\ creates[s] = 0 /\ docs[s] = 0 /\ ~NoCase(s) /\ cases[s].generation = g
  <2>1. creates[s] = 0 /\ ~NoCase(s) /\ cases[s].generation = g
    BY <1>1, <1>2 DEF Local, Creating, At
  <2> QED
    BY <1>1, <2>1 DEF Documents
<1>4. PICK exists \in BOOLEAN, next \in {"created", "uncertain", "failing"} :
         /\ next = "created" => exists
         /\ docs' = IF exists THEN [docs EXCEPT ![s] = @ + 1] ELSE docs
         /\ IF next = "failing" THEN GiveUp(g, "other") ELSE Goto(g, next)
  BY <1>2 DEF CreateDocument
<1>5. /\ creates' \in [Sources -> Nat] /\ creates'[s] = 1
      /\ \A t \in Sources : t # s => creates'[t] = creates[t]
  <2>1. creates' = [creates EXCEPT ![s] = creates[s] + 1]
    BY <1>2 DEF CreateDocument
  <2> QED
    BY <1>1, <1>3, <2>1
<1>6. /\ docs' \in [Sources -> Nat] /\ docs'[s] \in {0, 1} /\ (next = "created" => docs'[s] = 1)
      /\ \A t \in Sources : t # s => docs'[t] = docs[t]
  <2>1. CASE exists
    <3>1. docs' = [docs EXCEPT ![s] = docs[s] + 1]
      BY <1>4, <2>1
    <3> QED
      BY <1>1, <1>3, <3>1
  <2>2. CASE ~exists
    BY <1>1, <1>3, <1>4, <2>2
  <2> QED
    BY <2>1, <2>2
<1>7. /\ run' \in [Generations -> Run] /\ Only(g) /\ run'[g].step = next
      /\ run'[g].source = run[g].source
      /\ run'[g].error \in {run[g].error, "other"}
  <2>1. CASE next = "failing"
    BY <1>1, <1>4, <2>1, GiveUpEffect DEF Only, ErrorCode
  <2>2. CASE next # "failing"
    <3>1. next \in Step
      BY <2>2 DEF Step
    <3> QED
      BY <1>1, <1>4, <2>2, <3>1, GotoEffect DEF Only
  <2> QED
    BY <2>1, <2>2
<1>8. TypeOK' /\ Ledger' /\ Queued' /\ Failed' /\ CancelledKeepsNoText'
  BY <1>1, <1>5, <1>6, <1>7 DEF TypeOK, Ledger, Queued, Failed, CancelledKeepsNoText, Missing, NoCase
<1>9. Documents'
  <2>1. s \notin outputs
    BY <1>3 DEF Documents
  <2>2. \A t \in Sources : CompleteBefore(t, job.attempts)' <=> CompleteBefore(t, job.attempts)
    BY <1>1 DEF CompleteBefore
  <2>3. docs'[s] <= creates'[s] /\ creates'[s] <= 1
    BY <1>5, <1>6
  <2>4. \A t \in Sources : docs'[t] <= creates'[t] /\ creates'[t] <= 1
    BY <1>5, <1>6, <2>3 DEF Documents
  <2> QED
    BY <1>1, <1>3, <1>5, <1>6, <2>1, <2>2, <2>4 DEF Documents, NoCase
<1>10. ASSUME NEW h \in Generations, h # g
       PROVE  Local(h)' /\ (Sparing(h) => Sparing(h)')
  <2>1. run'[h] = run[h] /\ Local(h) /\ (run[h].step \in AtSource => Src(h) \in Sources)
    BY <1>7, <1>10 DEF Only, Local, Placed
  <2>2. Placed(h)' /\ Advanced(h)' /\ Clean(h)'
    BY <1>1, <2>1 DEF Local, Placed, Advanced, Clean, Working, At, Src, Missing, NoCase, Current
  <2>3. Untouched(h)' /\ Complete(h)' /\ Stuck(h)'
    BY <1>1, <2>1 DEF Local, Untouched, Complete, Stuck, Working, At, Src, Missing, NoCase,
                      Current, CompleteBefore
  <2>4. Creating(h)'
    <3>1. run[h].step \in {"creating", "created", "persisting"} => Src(h) \in Sources /\ Src(h) # s
      <4>1. At(h, "creating") => Src(h) # s
        BY <1>3, <1>10, <2>1 DEF Local, Creating
      <4>2. run[h].step \in {"created", "persisting"} => Src(h) # s
        BY <1>3, <2>1 DEF Local, Creating
      <4> QED
        BY <2>1, <4>1, <4>2 DEF At, AtSource, Received
    <3> QED
      BY <1>1, <1>5, <1>6, <2>1, <3>1 DEF Local, Creating, At, Src, NoCase
  <2>5. Sparing(h) => Sparing(h)'
    BY <1>1, <2>1 DEF Sparing, At, Src, InFlight, Spent
  <2> QED
    BY <2>2, <2>3, <2>4, <2>5 DEF Local
<1>11. Local(g)' /\ Sparing(g)'
  <2>1. /\ Working(g)' <=> Working(g)
        /\ Missing' = Missing /\ Src(g)' = s
        /\ job'.attempts \in Attempts /\ ~(g > job'.generation)
        /\ run'[g].error # "output_reconciliation_required"
    BY <1>1, <1>2, <1>7, Claimed DEF Working, Missing, Src, Local, Placed
  <2>2. Sparing(g)' /\ Stuck(g)'
    BY <1>4, <1>7 DEF Sparing, Stuck, Paying
  <2>3. Complete(g)'
    BY <1>1, <1>2, <2>1 DEF Local, Complete, CompleteBefore
  <2>4. Working(g) => \A t \in Missing \ {s} : NoCase(t)
    BY <1>1, <1>2 DEF Local, Clean
  <2>5. Working(g) => cases[s].status = "prepared"
    BY <1>1, <1>2 DEF Local, Clean
  <2>6. CASE next = "failing"
    <3>1. Working(g)' => \A t \in Missing' : cases'[t].status \in {"none", "prepared"}
      BY <1>1, <2>1, <2>4, <2>5 DEF NoCase
    <3> QED
      BY <1>7, <2>1, <2>6, <3>1, Stopped
  <2>7. CASE next = "uncertain"
    <3>1. /\ run'[g].step \in AtSource \ {"source", "transcribing"} /\ run'[g].step = "uncertain"
          /\ run'[g].error = run[g].error
      <4>1. run'[g].error = run[g].error
        BY <1>1, <1>4, <2>7, GotoEffect DEF Step
      <4> QED
        BY <1>7, <2>7, <4>1 DEF AtSource, Received
    <3> QED
      BY <1>1, <1>7, <2>2, <2>3, <3>1, Onward
  <2>8. CASE next = "created"
    <3>1. Placed(g)'
      BY <1>2, <1>7, <2>1, <2>8 DEF Placed, At, AtSource, Paying, Received
    <3>2. Advanced(g)' /\ Untouched(g)'
      BY <1>1, <1>2, <1>7, <2>1, <2>8 DEF Local, Advanced, Untouched, Current, At, AtSource, Received
    <3>3. Clean(g)'
      BY <1>1, <1>7, <2>1, <2>4, <2>5, <2>8 DEF Clean, At, NoCase
    <3>4. Creating(g)'
      BY <1>6, <1>7, <2>1, <2>8 DEF Creating, At
    <3> QED
      BY <2>2, <2>3, <3>1, <3>2, <3>3, <3>4 DEF Local
  <2> QED
    BY <2>6, <2>7, <2>8
<1>12. Payments'
  <2>1. \A t \in Missing : Covered(t) => Covered(t)'
    BY <1>1 DEF Covered, Payable, Spent, CompleteBefore, Current
  <2> QED
    BY <1>1, <1>10, <1>11, <2>1 DEF Payments, Missing
<1> QED
  BY <1>8, <1>9, <1>10, <1>11, <1>12

LEMMA OutputExistsStep ==
  ASSUME PipelineInvariant, NEW g \in Generations, OutputExists(g)
  PROVE  PipelineInvariant'
<1>1. run[g].step = "googling" /\ Src(g) \in outputs
  BY DEF OutputExists, At
<1>2. ~Working(g)
  BY <1>1 DEF PipelineInvariant, Local, Advanced, AtSource, Received, At
<1>3. ~Active(g) /\ ~Authorized(g)
  BY <1>2, WorkingNow
<1>4. Leave(g) /\ UNCHANGED <<database, world, consent>>
  BY <1>3 DEF OutputExists, database
<1> QED
  BY <1>1, <1>4, LeaveStep DEF At

LEMMA PersistOutputStep ==
  ASSUME PipelineInvariant, NEW g \in Generations, PersistOutput(g)
  PROVE  PipelineInvariant'
<1> USE DEF PipelineInvariant
<1> DEFINE row == CompletedRow(Current(Src(g)))
<1>1. /\ Working(g) /\ run[g].step = "persisting" /\ run[g].step \in AtSource \ {"source"}
      /\ SetRow(Src(g), row) /\ outputs' = outputs \cup {Src(g)}
      /\ cases' = [cases EXCEPT ![Src(g)].status = "resolved"]
      /\ checkpoints' = [checkpoints EXCEPT ![Src(g)] = {}]
      /\ UNCHANGED <<world, consent>> /\ UNCHANGED <<docs, creates, calls>>
      /\ Local(g)
  BY WorkingNow DEF PersistOutput, At, AtSource, Received, world
<1>2. /\ Src(g) \in Sources /\ Src(g) \in Missing /\ job.attempts \in Attempts
      /\ Current(Src(g)) \in Row /\ ~At(g, "idle")
      /\ job \in Job /\ run \in [Generations -> Run] /\ att \in Typed
      /\ checkpoints \in [Sources -> SUBSET PartIndexes]
  BY <1>1, AtHand
<1>3. PICK s \in Sources : s = Src(g) /\ s \notin outputs
  BY <1>2 DEF Missing
<1>4. row \in Row /\ SameParts(row, Current(s)) /\ row.stage # "none"
  BY <1>2, <1>3, CompletedEffect
<1>5. CompleteRow(row) <=> CompleteRow(Current(s))
  BY <1>4, SamePartsComplete
<1> HIDE DEF row
<1>6. /\ att' \in Typed /\ att'[s][job.attempts] = row
      /\ \A n \in Attempts : n # job.attempts => att'[s][n] = att[s][n]
      /\ \A t \in Sources : t # s => att'[t] = att[t]
  BY <1>1, <1>2, <1>3, <1>4, SetRowEffect
<1>7. \A t \in Sources, n \in Attempts : CompleteRow(att[t][n]) => CompleteRow(att'[t][n])
  BY <1>5, <1>6 DEF Current
<1>8. /\ checkpoints' \in [Sources -> SUBSET PartIndexes]
      /\ \A t \in Sources : t # s => checkpoints'[t] = checkpoints[t]
  BY <1>1, <1>2, <1>3
<1>9. /\ cases' \in [Sources -> [status : CaseStatus, generation : 0..MaxGeneration]]
      /\ cases'[s].status = "resolved" /\ cases'[s].generation = cases[s].generation
      /\ \A t \in Sources : t # s => cases'[t] = cases[t]
  <2> DEFINE c == [cases[s] EXCEPT !.status = "resolved"]
  <2>1. cases \in [Sources -> [status : CaseStatus, generation : 0..MaxGeneration]]
    BY DEF TypeOK
  <2>2. cases' = [cases EXCEPT ![s] = c]
    BY <1>1, <1>3, <2>1
  <2>3. /\ c \in [status : CaseStatus, generation : 0..MaxGeneration]
        /\ c.status = "resolved" /\ c.generation = cases[s].generation
    BY <2>1 DEF CaseStatus
  <2> HIDE DEF c
  <2> QED
    BY <2>1, <2>2, <2>3
<1>10. /\ job' \in Job /\ job'.generation = g /\ job'.attempts = job.attempts
       /\ job'.attentionResolved = job.attentionResolved
       /\ job'.status \in {"processing", "completed"}
       /\ job'.status = "completed" => outputs' = Sources /\ End(g)
       /\ job'.status = "processing" => outputs' # Sources /\ job' = job /\ NextSource(g)
  <2>1. CASE outputs' = Sources
    <3>1. job' = Finish(job, "completed", "none") /\ End(g)
      BY <2>1 DEF PersistOutput
    <3> QED
      BY <1>1, <1>2, <2>1, <3>1, FinishEffect DEF Status, ErrorCode, Working
  <2>2. CASE outputs' # Sources
    BY <1>1, <1>2, <2>2 DEF PersistOutput, Working
  <2> QED
    BY <2>1, <2>2
<1>11. /\ outputs' \subseteq Sources /\ outputs \subseteq outputs' /\ s \in outputs'
       /\ \A t \in Sources : t \in Missing' => t \in Missing /\ t # s
       /\ Missing' \subseteq Sources
  BY <1>1, <1>3 DEF TypeOK, Missing
<1>12. /\ run' \in [Generations -> Run] /\ Only(g) /\ Local(g)' /\ Sparing(g)'
  <2>1. CASE job'.status = "completed"
    <3>1. /\ run' \in [Generations -> Run] /\ Only(g)
          /\ run'[g].step = "ended" /\ run'[g].error = "none"
      BY <1>2, <1>10, <2>1, ForgetEffect DEF End, Only, Step
    <3>2. ~(g > job'.generation)
      BY <1>1, <1>2, <1>10, Claimed DEF Working
    <3> QED
      BY <3>1, <3>2, Left
  <2>2. CASE job'.status = "processing"
    <3>1. outputs' # Sources /\ NextSource(g) /\ SameJob(job')
      BY <1>10, <2>2 DEF SameJob
    <3>2. Missing' # {}
      BY <1>11, <3>1 DEF Missing
    <3>3. Src(g) + 1 \in Sources
      BY <1>1, <1>3, <1>11, <3>2, NextExists
    <3>4. /\ run' \in [Generations -> Run] /\ Only(g)
          /\ run'[g].step = "source" /\ run'[g].source = run[g].source + 1
          /\ run'[g].error = "none"
      BY <1>2, <3>1, <3>3, NextSourceEffect DEF Only
    <3>5. \A t \in Missing' : NoCase(t)'
      <4>1. \A t \in Missing \ {s} : NoCase(t)
        BY <1>1, <1>3 DEF Local, Clean
      <4> QED
        BY <1>9, <1>11, <4>1 DEF NoCase
    <3>6. \A t \in Missing' : t > Src(g) => att'[t] = att[t]
      BY <1>6, <1>11
    <3>7. Local(g)' /\ Sparing(g)'
      BY <1>1, <1>3, <1>11, <3>1, <3>3, <3>4, <3>5, <3>6, NextLocal
    <3> QED
      BY <3>4, <3>7
  <2> QED
    BY <1>10, <2>1, <2>2
<1>13. TypeOK'
  BY <1>1, <1>6, <1>8, <1>9, <1>10, <1>11, <1>12 DEF TypeOK, Typed
<1>14. Ledger'
  <2>1. ASSUME NEW t \in Sources, NEW n \in Attempts,
               att'[t][n].stage = "none" \/ n > job.attempts
        PROVE  att'[t][n] = NoRow
    <3>1. CASE t = s /\ n = job.attempts
      BY <1>2, <1>4, <1>6, <2>1, <3>1, Ranges
    <3>2. CASE ~(t = s /\ n = job.attempts)
      BY <1>6, <2>1, <3>2 DEF Ledger
    <3> QED
      BY <3>1, <3>2
  <2>2. job'.status = "processing" => Missing' # {}
    BY <1>10, <1>11 DEF Missing
  <2> QED
    BY <1>2, <1>10, <2>1, <2>2 DEF Ledger
<1>15. ASSUME NEW t \in Sources, CompleteBefore(t, job.attempts)
       PROVE  CompleteBefore(t, job.attempts)'
  <2>1. job.attempts \in 0..MaxAttempts /\ job.attempts >= job.attempts
    BY <1>2, PipelineAssumption DEF Job
  <2> QED
    BY <1>7, <1>10, <1>15, <2>1, CompleteKept
<1>16. Documents'
  <2>1. docs[s] = 1 /\ CompleteBefore(s, job.attempts)
    BY <1>1, <1>3 DEF Local, Creating, Complete, Received
  <2>2. \A t \in Sources : t # s => (t \in outputs' <=> t \in outputs)
    BY <1>1, <1>3
  <2>3. ASSUME NEW t \in Sources
        PROVE  /\ docs'[t] <= creates'[t] /\ creates'[t] <= 1
               /\ NoCase(t)' => creates'[t] = 0
               /\ t \in outputs' <=> cases'[t].status = "resolved"
               /\ t \in outputs' => docs'[t] = 1
               /\ ~NoCase(t)' => CompleteBefore(t, job.attempts)'
    <3>1. CASE t = s
      BY <1>1, <1>9, <1>11, <1>15, <2>1, <3>1 DEF Documents, NoCase
    <3>2. CASE t # s
      BY <1>1, <1>9, <1>15, <2>2, <3>2 DEF Documents, NoCase
    <3> QED
      BY <3>1, <3>2
  <2> QED
    BY <1>10, <2>3 DEF Documents
<1>17. Queued' /\ Failed' /\ CancelledKeepsNoText'
  BY <1>10 DEF Queued, Failed, CancelledKeepsNoText
<1>18. ASSUME NEW h \in Generations, h # g PROVE Local(h)' /\ Sparing(h)'
  <2>1. run'[h] = run[h] /\ ~Working(h)' /\ Local(h) /\ job'.generation # h
    BY <1>10, <1>12, <1>18 DEF Only, Working
  <2>2. run[h].step \notin Paying
    BY <1>1, <1>18, <2>1 DEF Local, Stuck, Working
  <2>3. Sparing(h)'
    BY <2>1, <2>2 DEF Sparing
  <2>4. /\ job'.attempts \in 0..MaxAttempts /\ job'.attempts >= job.attempts
        /\ job'.generation \in Nat /\ job'.generation >= job.generation
    BY <1>1, <1>2, <1>10, PipelineAssumption, Ranges DEF Job, Working
  <2>5. \A t \in Sources : /\ creates'[t] = creates[t] /\ docs'[t] = docs[t]
                           /\ cases'[t].generation = cases[t].generation
                           /\ ~NoCase(t) => ~NoCase(t)'
    BY <1>1, <1>9 DEF NoCase
  <2>6. Local(h)'
    BY <1>7, <1>10, <2>1, <2>2, <2>4, <2>5, Bystander
  <2> QED
    BY <2>3, <2>6
<1>19. Payments'
  <2>1. ASSUME NEW t \in Missing', Covered(t), job'.status = "processing" PROVE Covered(t)'
    BY <1>1, <1>6, <1>8, <1>10, <1>11, <2>1, CoveredKept DEF SameJob
  <2> QED
    BY <1>1, <1>10, <1>11, <1>12, <1>18, <2>1 DEF Payments, Working
<1> QED
  BY <1>12, <1>13, <1>14, <1>16, <1>17, <1>18, <1>19


-----------------------------------------------------------------------------
(***************************************************************************)
(* What a verdict on the sources implies.                                  *)
(***************************************************************************)

LEMMA RowVerdicts ==
  ASSUME NEW row \in Row, NEW kept, NEW explicit \in BOOLEAN, NEW prepareFailed \in BOOLEAN,
         row.stage = "none" => row = NoRow
  PROVE  /\ Begun(row) =>
               RowVerdict(row, kept, explicit, prepareFailed) = "provider_outcome_uncertain"
         /\ RowVerdict(row, kept, explicit, prepareFailed) = "safe" => ~Doubtful(row)
         /\ RowVerdict(row, kept, explicit, prepareFailed) # "cached"
         /\ ~explicit => RowVerdict(row, kept, explicit, prepareFailed) \notin {"resume", "restart"}
<1>1. Begun(row) => RowVerdict(row, kept, explicit, prepareFailed) = "provider_outcome_uncertain"
  BY DEF Begun, RowVerdict, NothingSent
<1>2. CASE row.stage = "none"
  BY <1>1, <1>2, FreshRows DEF RowVerdict, Doubtful, Fresh
<1>3. CASE row.stage # "none" /\ NothingSent(row)
  BY <1>1, <1>3 DEF RowVerdict, Doubtful, NothingSent
<1>4. CASE /\ row.stage # "none" /\ ~NothingSent(row)
           /\ row.disposition = "retry_safe" /\ (~row.started \/ row.code \in SafePreTransport)
  BY <1>1, <1>4 DEF RowVerdict, Doubtful
<1>5. CASE /\ row.stage # "none" /\ ~NothingSent(row)
           /\ ~(row.disposition = "retry_safe" /\ (~row.started \/ row.code \in SafePreTransport))
  BY <1>1, <1>5 DEF RowVerdict
<1> QED
  BY <1>2, <1>3, <1>4, <1>5

\* A source whose run pays gets no verdict that lets the job be queued.
LEMMA StuckVerdict ==
  ASSUME PipelineInvariant, NEW h \in Generations, run[h].step \in Paying,
         NEW explicit \in BOOLEAN, NEW error
  PROVE  /\ Src(h) \in Missing /\ Src(h) \in Sources
         /\ ~CompleteBefore(Src(h), job.attempts)
         /\ Verdict(Src(h), explicit, error) \notin SafeVerdicts
<1> USE DEF PipelineInvariant
<1>1. /\ Src(h) \in Sources /\ Src(h) \in Missing /\ NoCase(Src(h))
      /\ ~CompleteBefore(Src(h), job.attempts - 1) /\ Begun(Current(Src(h)))
      /\ run[h].step \notin Outside
  BY DEF Local, Placed, Stuck, AtSource, Missing, Paying, Outside
<1>2. job.attempts \in Attempts /\ Current(Src(h)) \in Row
  BY <1>1, CurrentTyped DEF Local, Placed
<1>3. ~CompleteRow(Current(Src(h)))
  <2>1. run[h].held < Parts \/ At(h, "checkpointing")
    BY DEF Local, Placed, Paying, At
  <2>2. run[h].held \in 0..Parts
    BY DEF TypeOK, Run
  <2>3. Current(Src(h)).done < Parts
    BY <2>1, <2>2, Ranges DEF Local, Stuck, Placed, At
  <2> QED
    BY <1>1, <2>3, Ranges DEF CompleteRow, Begun
<1>4. ~CompleteBefore(Src(h), job.attempts)
  BY <1>1, <1>2, <1>3, CompleteSplit
<1>5. Verdict(Src(h), explicit, error) = "provider_outcome_uncertain"
  <2>1. ~UnresolvedCase(Src(h))
    BY <1>1 DEF UnresolvedCase, NoCase
  <2>2. Current(Src(h)).stage # "none"
    BY <1>1 DEF Begun
  <2>3. (error = "pipeline_retry_state_prepare_failed") \in BOOLEAN
    OBVIOUS
  <2>4. RowVerdict(Current(Src(h)), checkpoints[Src(h)], explicit,
                   error = "pipeline_retry_state_prepare_failed") = "provider_outcome_uncertain"
    BY <1>1, <1>2, <2>2, <2>3, RowVerdicts
  <2> QED
    BY <1>4, <2>1, <2>4 DEF Verdict
<1> QED
  BY <1>1, <1>4, <1>5 DEF SafeVerdicts

\* What is known of a source whose verdict lets the job be queued.
LEMMA SafeSource ==
  ASSUME PipelineInvariant, job.attempts \in Attempts, NEW s \in Missing,
         NEW explicit \in BOOLEAN, NEW error,
         Verdict(s, explicit, error) \in SafeVerdicts
  PROVE  /\ NoCase(s)
         /\ Verdict(s, explicit, error) = "safe" =>
               ~CompleteBefore(s, job.attempts) /\ ~Doubtful(Current(s))
         /\ Verdict(s, explicit, error) = "cached" =>
               CompleteBefore(s, job.attempts) /\ FullyHeld(s)
         /\ ~explicit => Verdict(s, explicit, error) = "safe"
<1> USE DEF PipelineInvariant
<1>1. s \in Sources /\ s \notin outputs /\ Current(s) \in Row
      /\ (Current(s).stage = "none" => Current(s) = NoRow)
  BY CurrentTyped DEF Missing, Ledger, Current
<1>2. ~UnresolvedCase(s) /\ NoCase(s)
  <2>1. ~UnresolvedCase(s)
    BY DEF Verdict, SafeVerdicts
  <2> QED
    BY <1>1, <2>1 DEF UnresolvedCase, NoCase, Documents
<1>3. (error = "pipeline_retry_state_prepare_failed") \in BOOLEAN
  OBVIOUS
<1> DEFINE v == RowVerdict(Current(s), checkpoints[s], explicit,
                           error = "pipeline_retry_state_prepare_failed")
<1>4. /\ v = "safe" => ~Doubtful(Current(s))
      /\ v # "cached"
      /\ ~explicit => v \notin {"resume", "restart"}
  BY <1>1, <1>3, RowVerdicts
<1>5. Verdict(s, explicit, error) =
        IF CompleteBefore(s, job.attempts)
        THEN IF explicit /\ FullyHeld(s) THEN "cached" ELSE "provider_result_lost"
        ELSE v
  BY <1>2 DEF Verdict
<1> HIDE DEF v
<1> QED
  BY <1>2, <1>4, <1>5 DEF SafeVerdicts

\* A retry that is allowed finds no run that pays, no case and attempts left.
LEMMA RetryFacts ==
  ASSUME PipelineInvariant, job.status \in {"processing", "failed"},
         NEW explicit \in BOOLEAN, NEW error, RetryAllowed(explicit, error)
  PROVE  /\ job.attempts < MaxAttempts /\ job.attempts \in Attempts /\ Missing # {}
         /\ \A s \in Missing : NoCase(s)
         /\ \A h \in Generations : run[h].step \notin Paying
<1>1. /\ job.attempts < MaxAttempts /\ Missing # {}
      /\ \A s \in Missing : Verdict(s, explicit, error) \in SafeVerdicts
  BY DEF RetryAllowed
<1>2. job.attempts \in Attempts
  BY DEF PipelineInvariant, Ledger
<1>3. \A s \in Missing : NoCase(s)
  BY <1>1, <1>2, SafeSource
<1>4. \A h \in Generations : run[h].step \notin Paying
  BY <1>1, StuckVerdict
<1> QED
  BY <1>1, <1>2, <1>3, <1>4

\* Nothing that was paid is lost when every verdict is "safe" or "cached".
LEMMA CoveredWhenSafe ==
  ASSUME PipelineInvariant, job.status \in {"processing", "failed"}, ~job.attentionResolved,
         NEW s \in Missing, NEW explicit \in BOOLEAN, NEW error,
         Verdict(s, explicit, error) \in {"safe", "cached"}
  PROVE  Payable(s) \/ CompleteBefore(s, job.attempts)
<1>1. job.attempts \in Attempts /\ Verdict(s, explicit, error) \in SafeVerdicts /\ Covered(s)
  BY DEF PipelineInvariant, Ledger, SafeVerdicts, Payments
<1> QED
  BY <1>1, SafeSource DEF Covered

LEMMA MaxExists ==
  ASSUME NEW S \in SUBSET Attempts, S # {}
  PROVE  Max(S) \in S
<1> DEFINE T == {MaxAttempts - n : n \in S}
           R == OpToRel(<, Nat)
<1>1. T \subseteq Nat /\ T # {}
  BY PipelineAssumption DEF Attempts
<1>2. PICK x \in T : \A y \in T : <<y, x>> \notin R
  <2>1. IsWellFoundedOn(R, Nat)
    BY NatLessThanWellFounded
  <2> HIDE DEF T, R
  <2> QED
    BY <1>1, <2>1, WFMin
<1>3. \A y \in T : ~(y < x)
  BY <1>1, <1>2 DEF OpToRel
<1>4. PICK n \in S : x = MaxAttempts - n
  BY <1>2
<1>5. \A m \in S : n >= m
  <2> SUFFICES ASSUME NEW m \in S PROVE n >= m
    OBVIOUS
  <2>1. ~(MaxAttempts - m < MaxAttempts - n)
    BY <1>3, <1>4
  <2>2. m \in Nat /\ n \in Nat /\ MaxAttempts \in Nat
    BY PipelineAssumption DEF Attempts
  <2> QED
    BY <2>1, <2>2
<1> QED
  BY <1>5 DEF Max


-----------------------------------------------------------------------------
(***************************************************************************)
(* Steps that take the job off the run it had.                             *)
(***************************************************************************)

CasesTyped == [Sources -> [status : CaseStatus, generation : 0..MaxGeneration]]

\* A run that left, in a step that keeps the generation.
Departs(h) ==
    /\ run'[h].step \in {"gone", "ended"} /\ run'[h].error = "none"
    /\ ~At(h, "idle")

LEMMA JobMoves ==
  ASSUME PipelineInvariant,
         job' \in Job, job'.status # "processing", job'.generation = job.generation,
         job'.attempts = job.attempts, job'.attentionResolved = job.attentionResolved,
         UNCHANGED <<att, outputs, docs, creates, calls>>,
         cases' \in CasesTyped,
         \A s \in Sources : /\ NoCase(s)' <=> NoCase(s)
                            /\ cases'[s].status = "resolved" <=> cases[s].status = "resolved"
                            /\ cases'[s].generation = cases[s].generation,
         checkpoints' \in [Sources -> SUBSET PartIndexes],
         run' \in [Generations -> Run], \A h \in Generations : run'[h] = run[h] \/ Departs(h),
         consent' \in [kind : RetryKind, given : Nat], consent'.given >= consent.given,
         job'.status = "failed" =>
            job.status \in {"processing", "failed"} /\ checkpoints' = checkpoints /\ Failed',
         job'.status = "queued" =>
            /\ job.attempts < MaxAttempts /\ Missing # {} /\ \A s \in Missing : NoCase(s)
            /\ \A h \in Generations : run[h].step \notin Paying
            /\ ~job.attentionResolved =>
                  \A s \in Missing : Payable(s)' \/ CompleteBefore(s, job.attempts),
         job'.status = "completed" => Missing = {},
         job'.status = "cancelled" => \A s \in Sources : checkpoints'[s] = {}
  PROVE  PipelineInvariant'
<1> USE DEF PipelineInvariant
<1>1. /\ Missing' = Missing /\ job.attempts \in 0..MaxAttempts /\ job.generation \in Nat
      /\ \A s \in Sources : CompleteBefore(s, job.attempts)' <=> CompleteBefore(s, job.attempts)
      /\ \A s \in Sources : Current(s)' = Current(s)
      /\ calls \in [Sources -> [PartIndexes -> Nat]] /\ consent.given \in Nat /\ consent'.given \in Nat
  BY Ranges DEF Missing, TypeOK, Job, CompleteBefore, Current
<1>2. TypeOK'
  BY DEF TypeOK, CasesTyped
<1>3. Ledger'
  BY <1>1 DEF Ledger
<1>4. Documents'
  <2>1. job'.status = "completed" => outputs' = Sources
    BY DEF Missing, TypeOK
  <2> QED
    BY <1>1, <2>1 DEF Documents
<1>5. Queued' /\ Failed' /\ CancelledKeepsNoText'
  <2>1. Queued'
    BY <1>1 DEF Queued, Missing
  <2>2. Failed'
    BY DEF Failed
  <2>3. CancelledKeepsNoText'
    BY DEF CancelledKeepsNoText
  <2> QED
    BY <2>1, <2>2, <2>3
<1>6. \A s \in Sources, p \in PartIndexes : Spent(s, p)' => Spent(s, p)
  BY <1>1 DEF Spent
<1>7. ASSUME NEW h \in Generations
      PROVE  Local(h)' /\ (~job.attentionResolved => Sparing(h)')
  <2>1. CASE Departs(h)
    <3>1. ~(h > job'.generation)
      BY <2>1, Claimed DEF Departs
    <3> QED
      BY <2>1, <3>1, Left DEF Departs
  <2>2. CASE run'[h] = run[h]
    <3>1. ~Working(h)' /\ Local(h) /\ Src(h)' = Src(h)
      BY <2>2 DEF Working, Src
    <3>2. run[h].step \in Paying => Stuck(h)'
      <4> SUFFICES ASSUME run[h].step \in Paying PROVE Stuck(h)'
        OBVIOUS
      <4>1. PICK s \in Sources : s = Src(h)
        BY <3>1 DEF Local, Placed, AtSource
      <4>2. /\ job.generation = h /\ job'.status # "queued" /\ NoCase(s)' /\ s \notin outputs
            /\ ~CompleteBefore(s, job.attempts - 1) /\ Begun(Current(s))
            /\ Current(s).done = IF At(h, "checkpointing") THEN run[h].held - 1 ELSE run[h].held
        BY <3>1, <4>1 DEF Local, Stuck
      <4>3. ~CompleteBefore(s, job.attempts - 1)'
        BY <4>2 DEF CompleteBefore
      <4> QED
        BY <1>1, <2>2, <3>1, <4>1, <4>2, <4>3 DEF Stuck, NoCase, CompleteBefore, Current, At
    <3>3. At(h, "claimed") /\ job'.generation = h => job'.status \notin {"processing", "failed"}
      BY <3>1 DEF Local, Placed
    <3>4. Local(h)'
      BY <1>1, <2>2, <3>1, <3>2, <3>3, Bystander
    <3>5. ~job.attentionResolved => Sparing(h)'
      <4> SUFFICES ASSUME ~job.attentionResolved, run[h].step \in Paying PROVE Sparing(h)'
        BY <2>2 DEF Sparing
      <4>1. PICK s \in Sources : s = Src(h)
        BY <3>1 DEF Local, Placed, AtSource
      <4>2. \A p \in PartIndexes :
               p > run[h].held /\ (InFlight(h) => p # run[h].held + 1) => ~Spent(s, p)
        BY <4>1 DEF Payments, Sparing
      <4> QED
        BY <1>6, <2>2, <3>1, <4>1, <4>2 DEF Sparing, InFlight, At, Spent
    <3> QED
      BY <3>4, <3>5
  <2> QED
    BY <2>1, <2>2
<1>8. Payments'
  <2> SUFFICES ASSUME ~job.attentionResolved PROVE Payments'
    BY DEF Payments
  <2>1. \A s \in Sources, p \in PartIndexes : calls'[s][p] <= 1 + consent'.given
    <3> SUFFICES ASSUME NEW s \in Sources, NEW p \in PartIndexes
                 PROVE  calls'[s][p] <= 1 + consent'.given
      OBVIOUS
    <3>1. calls[s][p] <= 1 + consent.given /\ calls[s][p] \in Nat
      BY <1>1 DEF Payments
    <3> QED
      BY <1>1, <3>1
  <2>2. ASSUME NEW s \in Missing, job'.status \notin {"completed", "cancelled"} PROVE Covered(s)'
    <3>0. s \in Sources
      BY DEF Missing
    <3>1. CASE job'.status = "queued"
      BY <1>1, <3>0, <3>1 DEF Covered
    <3>2. CASE job'.status = "failed"
      <4>1. Covered(s)
        BY <3>2 DEF Payments
      <4>2. Payable(s) => Payable(s)'
        BY <1>6, <3>0, <3>2 DEF Payable
      <4> QED
        BY <1>1, <3>0, <3>2, <4>1, <4>2 DEF Covered
    <3>3. job'.status \in {"queued", "failed"}
      BY <2>2 DEF Job, Status
    <3> QED
      BY <3>1, <3>2, <3>3
  <2> QED
    BY <1>1, <1>7, <2>1, <2>2 DEF Payments
<1> QED
  BY <1>2, <1>3, <1>4, <1>5, <1>7, <1>8

LEMMA AutomaticKeeps ==
  ASSUME PipelineInvariant, job.status = "processing", ~job.attentionResolved,
         NEW error, AutomaticRetryAllowed(error), NEW s \in Missing
  PROVE  Payable(s) \/ CompleteBefore(s, job.attempts)
<1> DEFINE explicit == TRUE
<1>1. explicit \in BOOLEAN /\ Verdict(s, explicit, error) \in {"safe", "cached"}
  BY DEF AutomaticRetryAllowed
<1> HIDE DEF explicit
<1> QED
  BY <1>1, CoveredWhenSafe

LEMMA RecoveryKeeps ==
  ASSUME PipelineInvariant, job.status = "processing", ~job.attentionResolved,
         NEW error, RetryAllowed(FALSE, error), NEW s \in Missing
  PROVE  Payable(s) \/ CompleteBefore(s, job.attempts)
<1> DEFINE explicit == FALSE
<1>1. explicit \in BOOLEAN /\ ~explicit /\ Verdict(s, explicit, error) \in SafeVerdicts
  BY DEF RetryAllowed
<1>2. job.attempts \in Attempts
  BY DEF PipelineInvariant, Ledger
<1> HIDE DEF explicit
<1>3. Verdict(s, explicit, error) = "safe"
  BY <1>1, <1>2, SafeSource
<1> QED
  BY <1>1, <1>3, CoveredWhenSafe

\* The end of the run that has the job: a failure, or an automatic retry.
LEMMA FailJobStep ==
  ASSUME PipelineInvariant, job.status = "processing", NEW error \in ErrorCode, FailJob(error),
         UNCHANGED <<att, checkpoints, outputs, docs, creates, calls>>,
         cases' \in CasesTyped,
         \A s \in Sources : /\ NoCase(s)' <=> NoCase(s)
                            /\ cases'[s].status = "resolved" <=> cases[s].status = "resolved"
                            /\ cases'[s].generation = cases[s].generation,
         error # "output_reconciliation_required" =>
            \A s \in Missing : cases'[s].status \notin Looked,
         ConsentAfter(job'.status),
         run' \in [Generations -> Run], \A h \in Generations : run'[h] = run[h] \/ Departs(h)
  PROVE  PipelineInvariant'
<1> USE DEF PipelineInvariant
<1>1. /\ job \in Job /\ Missing # {} /\ Missing' = Missing
      /\ checkpoints \in [Sources -> SUBSET PartIndexes]
  BY DEF TypeOK, Ledger, Missing
<1>2. /\ consent' \in [kind : RetryKind, given : Nat] /\ consent'.given = consent.given
      /\ consent'.given >= consent.given
  BY DEF ConsentAfter, TypeOK, RetryKind
<1>3. CASE job' = Finish(job, "failed", error)
  <2>1. /\ job' \in Job /\ job'.status = "failed" /\ job'.error = error
        /\ job'.generation = job.generation /\ job'.attempts = job.attempts
        /\ job'.attentionResolved = job.attentionResolved
    BY <1>1, <1>3, FinishEffect DEF Status
  <2>2. Failed'
    BY <1>1, <2>1 DEF Failed
  <2> QED
    BY <1>1, <1>2, <2>1, <2>2, JobMoves
<1>4. CASE AutomaticRetryAllowed(error) /\ job' = Requeued(job, TRUE)
  <2>1. /\ job' \in Job /\ job'.status = "queued"
        /\ job'.generation = job.generation /\ job'.attempts = job.attempts
        /\ job'.attentionResolved = job.attentionResolved
    BY <1>1, <1>4, RequeuedEffect
  <2>2. /\ RetryAllowed(TRUE, error)
        /\ \A s \in Missing : Verdict(s, TRUE, error) \in {"safe", "cached"}
    BY <1>4 DEF AutomaticRetryAllowed
  <2>3. /\ job.attempts < MaxAttempts /\ \A s \in Missing : NoCase(s)
        /\ \A h \in Generations : run[h].step \notin Paying
    BY <2>2, RetryFacts
  <2>4. ASSUME ~job.attentionResolved, NEW s \in Missing
        PROVE  Payable(s)' \/ CompleteBefore(s, job.attempts)
    <3>1. Payable(s) \/ CompleteBefore(s, job.attempts)
      BY <1>4, <2>4, AutomaticKeeps
    <3> QED
      BY <1>2, <3>1 DEF Payable, Spent
  <2> QED
    BY <1>1, <1>2, <2>1, <2>3, <2>4, JobMoves
<1> QED
  BY <1>3, <1>4 DEF FailJob

LEMMA CasesAre ==
  ASSUME PipelineInvariant, cases' = cases
  PROVE  /\ cases' \in CasesTyped
         /\ \A s \in Sources : /\ NoCase(s)' <=> NoCase(s)
                               /\ cases'[s].status = "resolved" <=> cases[s].status = "resolved"
                               /\ cases'[s].generation = cases[s].generation
  BY DEF PipelineInvariant, TypeOK, CasesTyped, NoCase

\* A run that leaves with the commit that took the job, or that lost it.
LEMMA RunLeaves ==
  ASSUME PipelineInvariant, NEW g \in Generations, ~At(g, "idle"), Leave(g) \/ End(g)
  PROVE  /\ run' \in [Generations -> Run] /\ \A h \in Generations : run'[h] = run[h] \/ Departs(h)
<1>1. run \in [Generations -> Run] /\ "gone" \in Step /\ "ended" \in Step
  BY DEF PipelineInvariant, TypeOK, Step
<1> QED
  BY <1>1, ForgetEffect DEF Leave, End, Departs

\* The job is cancelled, by its run, by recovery or in the queue.
LEMMA CancelStep ==
  ASSUME PipelineInvariant, job' \in Job, job'.status = "cancelled",
         job'.generation = job.generation, job'.attempts = job.attempts,
         job'.attentionResolved = job.attentionResolved,
         checkpoints' = [s \in Sources |-> {}],
         UNCHANGED <<att, cases, outputs, docs, creates, calls>>, consent' = consent,
         run' \in [Generations -> Run], \A h \in Generations : run'[h] = run[h] \/ Departs(h)
  PROVE  PipelineInvariant'
<1>1. /\ consent' \in [kind : RetryKind, given : Nat] /\ consent'.given >= consent.given
      /\ checkpoints' \in [Sources -> SUBSET PartIndexes]
      /\ \A s \in Sources : checkpoints'[s] = {}
  BY DEF PipelineInvariant, TypeOK
<1> QED
  BY <1>1, CasesAre, JobMoves

\* The run lost the job: it leaves, and whatever the job is remains.
LEMMA LostStep ==
  ASSUME PipelineInvariant, NEW g \in Generations, ~At(g, "idle"), Leave(g),
         UNCHANGED <<database, world>>, ConsentAfter(job'.status)
  PROVE  PipelineInvariant'
<1>1. consent' = consent
  BY DEF ConsentAfter, database
<1> QED
  BY <1>1, LeaveStep

LEMMA FinishIsCancelled ==
  ASSUME PipelineInvariant, job' = Finish(job, "cancelled", job.error)
  PROVE  /\ job' \in Job /\ job'.status = "cancelled"
         /\ job'.generation = job.generation /\ job'.attempts = job.attempts
         /\ job'.attentionResolved = job.attentionResolved
<1>1. job \in Job /\ job.error \in ErrorCode /\ "cancelled" \in Status
  BY DEF PipelineInvariant, TypeOK, Job, Status
<1> QED
  BY <1>1, FinishEffect

LEMMA StopAtCheckpointStep ==
  ASSUME PipelineInvariant, NEW g \in Generations, StopAtCheckpoint(g)
  PROVE  PipelineInvariant'
<1>1. /\ ~At(g, "idle") /\ UNCHANGED <<att, cases, outputs, world, consent>>
      /\ UNCHANGED <<docs, creates, calls>>
  BY DEF StopAtCheckpoint, At, world
<1>2. CASE Active(g)
  <2>1. Acknowledge(g) /\ End(g)
    BY <1>2 DEF StopAtCheckpoint
  <2> QED
    BY <1>1, <2>1, FinishIsCancelled, RunLeaves, CancelStep DEF Acknowledge
<1>3. CASE ~Active(g)
  <2>1. Leave(g) /\ UNCHANGED <<database, world, consent>>
    BY <1>1, <1>3 DEF StopAtCheckpoint, database
  <2> QED
    BY <1>1, <2>1, LeaveStep
<1> QED
  BY <1>2, <1>3

LEMMA FailSourceStep ==
  ASSUME PipelineInvariant, NEW g \in Generations, FailSource(g)
  PROVE  PipelineInvariant'
<1>1. /\ ~At(g, "idle") /\ UNCHANGED <<att, cases, outputs, world>> /\ run[g].step = "failing"
      /\ UNCHANGED <<docs, creates, calls>> /\ ConsentAfter(job'.status)
  BY DEF FailSource, At, world
<1>2. CASE Authorized(g)
  <2>1. /\ FailJob(run[g].error) /\ UNCHANGED checkpoints /\ End(g) /\ Working(g)
        /\ job.status = "processing"
    BY <1>2, WorkingNow DEF FailSource, Working
  <2>2. run[g].error \in ErrorCode /\ run[g].error # "output_reconciliation_required"
    BY DEF PipelineInvariant, TypeOK, Run, Local, Placed
  <2>3. \A s \in Missing : cases'[s].status \notin Looked
    BY <1>1, <2>1 DEF PipelineInvariant, Local, Clean, At, Looked
  <2> QED
    BY <1>1, <2>1, <2>2, <2>3, CasesAre, RunLeaves, FailJobStep
<1>3. CASE ~Authorized(g) /\ Active(g)
  <2>1. Acknowledge(g) /\ End(g)
    BY <1>3 DEF FailSource
  <2>2. job' = Finish(job, "cancelled", job.error) /\ checkpoints' = [s \in Sources |-> {}]
    BY <2>1 DEF Acknowledge
  <2>3. consent' = consent
    BY <1>1, <2>2, FinishIsCancelled DEF ConsentAfter
  <2> QED
    BY <1>1, <2>1, <2>2, <2>3, FinishIsCancelled, RunLeaves, CancelStep
<1>4. CASE ~Authorized(g) /\ ~Active(g)
  <2>1. Leave(g) /\ UNCHANGED <<database, world>>
    BY <1>1, <1>4 DEF FailSource, database
  <2> QED
    BY <1>1, <2>1, LostStep
<1> QED
  BY <1>2, <1>3, <1>4

LEMMA RecordUncertaintyStep ==
  ASSUME PipelineInvariant, NEW g \in Generations, RecordUncertainty(g)
  PROVE  PipelineInvariant'
<1>1. /\ ~At(g, "idle") /\ UNCHANGED <<att, checkpoints, outputs, world>>
      /\ UNCHANGED <<docs, creates, calls>> /\ ConsentAfter(job'.status)
  BY DEF RecordUncertainty, At, world
<1>2. CASE Authorized(g)
  <2> DEFINE error == "output_reconciliation_required"
  <2>1. /\ cases' = [s \in Sources |->
                       IF /\ cases[s].generation = g
                          /\ cases[s].status \notin {"none", "resolved", "conflict"}
                       THEN [cases[s] EXCEPT !.status = "reconciliation_required"]
                       ELSE cases[s]]
        /\ FailJob(error) /\ End(g) /\ job.status = "processing" /\ error \in ErrorCode
    BY <1>2, WorkingNow DEF RecordUncertainty, Working, ErrorCode
  <2>2. cases \in CasesTyped
    BY DEF PipelineInvariant, TypeOK, CasesTyped
  <2>3. ASSUME NEW s \in Sources
        PROVE  /\ cases'[s] \in [status : CaseStatus, generation : 0..MaxGeneration]
               /\ NoCase(s)' <=> NoCase(s)
               /\ cases'[s].status = "resolved" <=> cases[s].status = "resolved"
               /\ cases'[s].generation = cases[s].generation
    <3> DEFINE c == [cases[s] EXCEPT !.status = "reconciliation_required"]
    <3>1. /\ c \in [status : CaseStatus, generation : 0..MaxGeneration]
          /\ c.status = "reconciliation_required" /\ c.generation = cases[s].generation
      BY <2>2 DEF CasesTyped, CaseStatus
    <3>2. cases'[s] = IF /\ cases[s].generation = g
                         /\ cases[s].status \notin {"none", "resolved", "conflict"}
                      THEN c ELSE cases[s]
      BY <2>1
    <3> HIDE DEF c
    <3> QED
      BY <2>2, <3>1, <3>2 DEF CasesTyped, NoCase
  <2>4. cases' \in CasesTyped
    BY <2>1, <2>3 DEF CasesTyped
  <2> QED
    BY <1>1, <2>1, <2>3, <2>4, RunLeaves, FailJobStep
<1>3. CASE ~Authorized(g)
  <2>1. Leave(g) /\ UNCHANGED <<database, world>>
    BY <1>1, <1>3 DEF RecordUncertainty, database
  <2> QED
    BY <1>1, <2>1, LostStep
<1> QED
  BY <1>2, <1>3


-----------------------------------------------------------------------------
(***************************************************************************)
(* Recovery, the owner's requests, cleanup and time.                       *)
(***************************************************************************)

LEMMA RecoveryNamesCases ==
  ASSUME ~(job.attempts >= MaxAttempts), NEW s \in Missing, UnresolvedCase(s)
  PROVE  RecoveryError = "output_reconciliation_required"
<1>1. \E t \in Missing : UnresolvedCase(t)
  OBVIOUS
<1> QED
  BY <1>1 DEF RecoveryError

LEMMA RecoverExpiredStep ==
  ASSUME PipelineInvariant, RecoverExpired
  PROVE  PipelineInvariant'
<1> USE DEF PipelineInvariant
<1>1. /\ job.status = "processing" /\ Missing # {} /\ Missing' = Missing
      /\ UNCHANGED <<att, cases, outputs, run, docs, creates, calls>>
      /\ ConsentAfter(job'.status)
      /\ job \in Job /\ checkpoints \in [Sources -> SUBSET PartIndexes]
      /\ run' \in [Generations -> Run] /\ \A h \in Generations : run'[h] = run[h]
  BY DEF RecoverExpired, world, Ledger, TypeOK, Missing
<1>2. /\ consent' \in [kind : RetryKind, given : Nat] /\ consent'.given = consent.given
      /\ consent'.given >= consent.given
  BY <1>1 DEF ConsentAfter, TypeOK, RetryKind
<1>3. CASE job.cancelRequested
  <2>1. job' = Finish(job, "cancelled", job.error) /\ checkpoints' = [s \in Sources |-> {}]
    BY <1>3 DEF RecoverExpired
  <2>2. consent' = consent
    BY <1>1, <2>1, FinishIsCancelled DEF ConsentAfter
  <2> QED
    BY <1>1, <2>1, <2>2, FinishIsCancelled, CancelStep
<1>4. CASE ~job.cancelRequested /\ job' = Finish(job, "failed", RecoveryError)
  <2>1. RecoveryError \in ErrorCode
    BY DEF RecoveryError, ErrorCode
  <2>2. /\ job' \in Job /\ job'.status = "failed" /\ job'.error = RecoveryError
        /\ job'.generation = job.generation /\ job'.attempts = job.attempts
        /\ job'.attentionResolved = job.attentionResolved
    BY <1>1, <1>4, <2>1, FinishEffect DEF Status
  <2>3. job.attempts < MaxAttempts /\ RecoveryError # "output_reconciliation_required" =>
           \A s \in Missing : cases[s].status \notin Looked
    <3>1. job.attempts \in Nat /\ MaxAttempts \in Nat
      BY <1>1, PipelineAssumption DEF Job
    <3> QED
      BY <3>1, RecoveryNamesCases DEF UnresolvedCase, Looked
  <2>4. Failed'
    BY <1>1, <2>2, <2>3 DEF Failed
  <2>5. checkpoints' = checkpoints
    BY <1>1, <1>4 DEF RecoverExpired
  <2> QED
    BY <1>1, <1>2, <2>2, <2>4, <2>5, CasesAre, JobMoves
<1>5. CASE ~job.cancelRequested /\ RetryAllowed(FALSE, job.error) /\ job' = Requeued(job, FALSE)
  <2>1. /\ job' \in Job /\ job'.status = "queued"
        /\ job'.generation = job.generation /\ job'.attempts = job.attempts
        /\ job'.attentionResolved = job.attentionResolved
    BY <1>1, <1>5, RequeuedEffect
  <2>2. checkpoints' = checkpoints
    BY <1>1, <1>5 DEF RecoverExpired
  <2>3. /\ job.attempts < MaxAttempts /\ \A s \in Missing : NoCase(s)
        /\ \A h \in Generations : run[h].step \notin Paying
    BY <1>1, <1>5, RetryFacts
  <2>4. ASSUME ~job.attentionResolved, NEW s \in Missing
        PROVE  Payable(s)' \/ CompleteBefore(s, job.attempts)
    <3>1. Payable(s) \/ CompleteBefore(s, job.attempts)
      BY <1>1, <1>5, <2>4, RecoveryKeeps
    <3> QED
      BY <1>1, <1>2, <2>2, <3>1 DEF Payable, Spent
  <2> QED
    BY <1>1, <1>2, <2>1, <2>2, <2>3, <2>4, CasesAre, JobMoves
<1> QED
  BY <1>1, <1>3, <1>4, <1>5 DEF RecoverExpired

\* A step of the row of the job, or of the kept parts, that moves no run.
LEMMA QuietJobStep ==
  ASSUME PipelineInvariant, job' \in Job,
         job'.status = job.status, job'.generation = job.generation,
         job'.attempts = job.attempts, job'.error = job.error,
         job.attentionResolved => job'.attentionResolved,
         UNCHANGED <<att, cases, outputs, run, world, consent>>,
         checkpoints' \in [Sources -> SUBSET PartIndexes],
         \/ checkpoints' = checkpoints
         \/ /\ \A s \in Sources : checkpoints'[s] = {}
            /\ job.status \in {"completed", "cancelled"} \/ job.attentionResolved
  PROVE  PipelineInvariant'
<1> USE DEF PipelineInvariant
<1>1. /\ UNCHANGED <<docs, creates, calls>> /\ Missing' = Missing
      /\ \A s \in Sources : CompleteBefore(s, job.attempts)' <=> CompleteBefore(s, job.attempts)
      /\ \A s \in Sources : Current(s)' = Current(s)
  BY DEF world, Missing, CompleteBefore, Current
<1>2. TypeOK' /\ Ledger' /\ Queued' /\ Failed' /\ CancelledKeepsNoText'
  BY <1>1 DEF TypeOK, Ledger, Queued, Failed, CancelledKeepsNoText, NoCase
<1>3. Documents'
  BY <1>1 DEF Documents, NoCase
<1>4. ASSUME NEW h \in Generations PROVE Local(h)'
  <2>1. Placed(h)' /\ Advanced(h)' /\ Clean(h)' /\ Creating(h)'
    BY <1>1 DEF Local, Placed, Advanced, Clean, Creating, Working, At, Src, NoCase, Current
  <2>2. Untouched(h)' /\ Complete(h)' /\ Stuck(h)'
    BY <1>1 DEF Local, Untouched, Complete, Stuck, Working, At, Src, NoCase, Current,
                CompleteBefore
  <2> QED
    BY <2>1, <2>2 DEF Local
<1>5. Payments'
  <2> SUFFICES ASSUME ~job'.attentionResolved PROVE Payments'
    BY DEF Payments
  <2>1. ~job.attentionResolved
    BY DEF TypeOK, Job
  <2>2. ASSUME NEW h \in Generations PROVE Sparing(h)'
    <3>1. Sparing(h)
      BY <2>1 DEF Payments
    <3> QED
      BY <1>1, <2>1, <3>1 DEF Sparing, At, Src, InFlight, Spent
  <2>3. ASSUME NEW s \in Missing, job.status \notin {"completed", "cancelled"} PROVE Covered(s)'
    <3>1. Covered(s) /\ checkpoints' = checkpoints /\ s \in Sources
      BY <2>1, <2>3 DEF Payments, Missing
    <3> QED
      BY <1>1, <3>1 DEF Covered, Payable, Spent
  <2> QED
    BY <1>1, <2>1, <2>2, <2>3 DEF Payments
<1> QED
  BY <1>2, <1>3, <1>4, <1>5

LEMMA RequestCancellationStep ==
  ASSUME PipelineInvariant, RequestCancellation
  PROVE  PipelineInvariant'
<1>1. /\ UNCHANGED <<att, cases, outputs, run, world, consent>>
      /\ UNCHANGED <<docs, creates, calls>> /\ job \in Job
      /\ run' \in [Generations -> Run] /\ checkpoints \in [Sources -> SUBSET PartIndexes]
  BY DEF RequestCancellation, world, PipelineInvariant, TypeOK
<1>2. CASE job.status = "queued"
  <2> DEFINE no == FALSE
             i == [job EXCEPT !.status = "cancelled", !.cancelRequested = no]
  <2>1. no \in BOOLEAN
    OBVIOUS
  <2> HIDE DEF no
  <2>2. /\ i \in Job /\ i.status = "cancelled"
        /\ i.generation = job.generation /\ i.attempts = job.attempts
        /\ i.attentionResolved = job.attentionResolved
    BY <1>1, <2>1 DEF Job, Status
  <2>3. job' = Finalized(Released(i)) /\ checkpoints' = [s \in Sources |-> {}]
    BY <1>2, Zenon DEF RequestCancellation, no
  <2> HIDE DEF i
  <2>4. /\ job' \in Job /\ job'.status = "cancelled"
        /\ job'.generation = job.generation /\ job'.attempts = job.attempts
        /\ job'.attentionResolved = job.attentionResolved
    BY <2>2, <2>3, ReleasedTyped, FinalizedTyped
  <2> QED
    BY <1>1, <2>3, <2>4, CancelStep
<1>3. CASE job.status # "queued"
  <2>1. job' = [job EXCEPT !.cancelRequested = TRUE] /\ checkpoints' = checkpoints
    BY <1>3 DEF RequestCancellation
  <2>2. job' \in Job /\ SameJob(job')
    BY <1>1, <2>1, FlagEffect DEF SameJob
  <2> QED
    BY <1>1, <2>1, <2>2, QuietJobStep DEF SameJob
<1> QED
  BY <1>2, <1>3

LEMMA TimeStep ==
  ASSUME PipelineInvariant, ExpireLease \/ BackoffElapses \/ CleanupCheckpoints \/ ResolveAttention
  PROVE  PipelineInvariant'
<1>1. job \in Job /\ checkpoints \in [Sources -> SUBSET PartIndexes]
  BY DEF PipelineInvariant, TypeOK
<1>2. CASE ExpireLease
  <2>1. job' \in Job /\ SameJob(job')
    BY <1>1, <1>2, FlagEffect DEF ExpireLease, SameJob
  <2> QED
    BY <1>1, <1>2, <2>1, QuietJobStep DEF SameJob, ExpireLease
<1>3. CASE BackoffElapses
  <2>1. job' \in Job /\ SameJob(job')
    BY <1>1, <1>3, FlagEffect DEF BackoffElapses, SameJob
  <2> QED
    BY <1>1, <1>3, <2>1, QuietJobStep DEF SameJob, BackoffElapses
<1>4. CASE CleanupCheckpoints
  <2>1. /\ checkpoints' \in [Sources -> SUBSET PartIndexes]
        /\ \A s \in Sources : checkpoints'[s] = {}
    BY <1>4 DEF CleanupCheckpoints
  <2> QED
    BY <1>1, <1>4, <2>1, QuietJobStep DEF CleanupCheckpoints
<1>5. CASE ResolveAttention
  <2> DEFINE yes == TRUE
             j == [job EXCEPT !.attentionResolved = yes]
  <2>1. yes \in BOOLEAN /\ yes
    OBVIOUS
  <2> HIDE DEF yes
  <2>2. /\ j \in Job /\ j.status = job.status /\ j.generation = job.generation
        /\ j.attempts = job.attempts /\ j.error = job.error /\ j.attentionResolved
    BY <1>1, <2>1 DEF Job
  <2>3. job' = j
    BY <1>5, Zenon DEF ResolveAttention, yes
  <2> HIDE DEF j
  <2> QED
    BY <1>1, <1>5, <2>2, <2>3, QuietJobStep DEF ResolveAttention
<1> QED
  BY <1>2, <1>3, <1>4, <1>5

\* Without a confirmed cost, an explicit retry repeats nothing that was paid.
LEMMA FreeRetry ==
  ASSUME PipelineInvariant, job.status = "failed", RetryAllowed(TRUE, job.error),
         ExplicitKind \notin CostKinds, ~job.attentionResolved, NEW s \in Missing
  PROVE  Payable(s) \/ CompleteBefore(s, job.attempts)
<1> DEFINE explicit == TRUE
           verdicts == {Verdict(t, explicit, job.error) : t \in Missing}
<1>1. /\ verdicts \subseteq SafeVerdicts
      /\ Verdict(s, explicit, job.error) \in verdicts /\ explicit \in BOOLEAN
  BY DEF RetryAllowed
<1>2. "restart" \notin verdicts /\ "resume" \notin verdicts
  <2>1. ExplicitKind = IF verdicts = {"cached"} THEN "full_restore"
                       ELSE IF verdicts \cap {"cached", "resume"} # {} THEN "resume"
                       ELSE IF "restart" \in verdicts THEN "restart"
                       ELSE "available"
    BY DEF ExplicitKind
  <2> HIDE DEF verdicts
  <2>2. verdicts \cap {"cached", "resume"} # {} => verdicts = {"cached"}
    BY <2>1 DEF CostKinds
  <2> QED
    BY <2>1, <2>2 DEF CostKinds
<1> HIDE DEF explicit
<1>3. Verdict(s, explicit, job.error) \in {"safe", "cached"}
  <2> HIDE DEF verdicts
  <2> QED
    BY <1>1, <1>2 DEF SafeVerdicts
<1> QED
  BY <1>1, <1>3, CoveredWhenSafe

LEMMA QueueRetryStep ==
  ASSUME PipelineInvariant, QueueRetry
  PROVE  PipelineInvariant'
<1>1. /\ job.status = "failed" /\ RetryAllowed(TRUE, job.error)
      /\ job' = Requeued(job, FALSE)
      /\ UNCHANGED <<att, cases, outputs, run, docs, creates, calls>>
      /\ job \in Job /\ checkpoints \in [Sources -> SUBSET PartIndexes]
      /\ run' \in [Generations -> Run] /\ consent.given \in Nat
      /\ calls \in [Sources -> [PartIndexes -> Nat]]
      /\ \A h \in Generations : run'[h] = run[h]
  BY DEF QueueRetry, world, PipelineInvariant, TypeOK
<1>2. /\ job' \in Job /\ job'.status = "queued"
      /\ job'.generation = job.generation /\ job'.attempts = job.attempts
      /\ job'.attentionResolved = job.attentionResolved
  BY <1>1, RequeuedEffect
<1>3. checkpoints' \in [Sources -> SUBSET PartIndexes]
  BY <1>1 DEF QueueRetry
<1>4. ExplicitKind \in RetryKind
  BY DEF ExplicitKind, RetryKind
<1>5. /\ consent' \in [kind : RetryKind, given : Nat] /\ consent'.given >= consent.given
      /\ consent'.given = IF ExplicitKind \in CostKinds THEN consent.given + 1 ELSE consent.given
  BY <1>1, <1>4 DEF QueueRetry
<1>6. /\ job.attempts < MaxAttempts /\ Missing # {} /\ \A s \in Missing : NoCase(s)
      /\ \A h \in Generations : run[h].step \notin Paying
  BY <1>1, RetryFacts
<1>7. ASSUME ~job.attentionResolved, NEW s \in Missing
      PROVE  Payable(s)' \/ CompleteBefore(s, job.attempts)
  <2>0. s \in Sources
    BY DEF Missing
  <2>1. CASE ExplicitKind \in CostKinds
    <3>1. ASSUME NEW p \in PartIndexes PROVE ~Spent(s, p)'
      <4>1. calls[s][p] <= 1 + consent.given /\ calls[s][p] \in Nat
        BY <1>1, <1>7, <2>0 DEF PipelineInvariant, Payments
      <4> QED
        BY <1>1, <1>5, <2>1, <4>1 DEF Spent
    <3> QED
      BY <3>1 DEF Payable
  <2>2. CASE ExplicitKind \notin CostKinds
    <3>1. Payable(s) \/ CompleteBefore(s, job.attempts)
      BY <1>1, <1>7, <2>2, FreeRetry
    <3>2. checkpoints' = checkpoints /\ consent'.given = consent.given
      BY <1>5, <2>2 DEF QueueRetry, CostKinds
    <3> QED
      BY <1>1, <3>1, <3>2 DEF Payable, Spent
  <2> QED
    BY <2>1, <2>2
<1> QED
  BY <1>1, <1>2, <1>3, <1>5, <1>6, <1>7, CasesAre, JobMoves


\* An output that turns up completes the latest attempt of its source.
LEMMA LatestExists ==
  ASSUME PipelineInvariant, NEW s \in Sources, ~NoCase(s)
  PROVE  /\ LatestAttempt(s) \in Attempts /\ ~(LatestAttempt(s) > job.attempts)
         /\ att[s][LatestAttempt(s)] \in Row /\ att[s][LatestAttempt(s)].stage # "none"
<1> DEFINE rows == {n \in Attempts : att[s][n].stage # "none"}
<1>1. PICK n \in 1..job.attempts : CompleteRow(att[s][n])
  BY DEF PipelineInvariant, Documents, CompleteBefore
<1>2. n \in Attempts
  BY <1>1, PipelineAssumption DEF Attempts, PipelineInvariant, TypeOK, Job
<1>3. att[s][n].stage # "none"
  BY <1>1, <1>2, FreshRows DEF PipelineInvariant, Ledger
<1>4. rows # {} /\ rows \subseteq Attempts
  BY <1>2, <1>3
<1>5. Max(rows) \in rows
  BY <1>4, MaxExists
<1>6. Max(rows) \in Attempts /\ att[s][Max(rows)].stage # "none"
  BY <1>5
<1>7. LatestAttempt(s) = Max(rows)
  BY DEF LatestAttempt
<1>8. PICK m \in Attempts : m = LatestAttempt(s) /\ att[s][m].stage # "none"
  BY <1>6, <1>7
<1> HIDE DEF rows
<1>9. att[s][m] \in Row
  BY DEF PipelineInvariant, TypeOK
<1>10. ~(m > job.attempts)
  BY <1>8, FreshRows DEF PipelineInvariant, Ledger
<1>11. m = LatestAttempt(s)
  BY <1>8
<1>12. att[s][m].stage # "none"
  BY <1>8
<1> HIDE DEF PipelineInvariant
<1> QED
  BY <1>9, <1>10, <1>11, <1>12, Zenon

LEMMA CheckReconciliationStep ==
  ASSUME PipelineInvariant, CheckReconciliation
  PROVE  PipelineInvariant'
<1> USE DEF PipelineInvariant
<1> DEFINE looked == {s \in Sources :
                        cases[s].status \in {"reconciliation_required", "creation_returned"}}
           found  == {s \in looked : docs[s] > 0}
<1>1. /\ job.status \in {"failed", "cancelled"}
      /\ UNCHANGED <<checkpoints, run, docs, creates, calls, consent>>
      /\ att \in Typed /\ cases \in CasesTyped /\ job \in Job /\ outputs \subseteq Sources
      /\ job.attempts \in 0..MaxAttempts /\ job.generation \in Nat
  BY Ranges DEF CheckReconciliation, world, TypeOK, Typed, CasesTyped, Job
<1>3. PICK verified \in SUBSET {s \in found : docs[s] = 1} :
        /\ cases' = [s \in Sources |->
                       IF s \in verified THEN [cases[s] EXCEPT !.status = "resolved"]
                       ELSE IF s \in found THEN [cases[s] EXCEPT !.status = "conflict"]
                       ELSE cases[s]]
        /\ outputs' = outputs \cup verified
        /\ att' = [s \in Sources |->
                     IF s \in verified
                     THEN [att[s] EXCEPT ![LatestAttempt(s)] = CompletedRow(@)]
                     ELSE att[s]]
        /\ job' = IF /\ verified # {}
                     /\ job.status = "failed"
                     /\ job.error = "output_reconciliation_required"
                     /\ outputs' = Sources
                  THEN Finalized([job EXCEPT !.status = "completed", !.error = "none"])
                  ELSE job
  BY Zenon DEF CheckReconciliation
<1>4. /\ verified \subseteq Sources /\ \A s \in verified : docs[s] = 1
      /\ \A s \in Sources : s \in found \/ s \in verified =>
            cases[s].status \in Looked /\ ~NoCase(s) /\ s \notin outputs
  BY DEF Looked, NoCase, Documents
<1> HIDE DEF looked, found
<1>5. /\ cases' \in CasesTyped
      /\ \A s \in Sources :
            /\ cases'[s].generation = cases[s].generation
            /\ NoCase(s)' <=> NoCase(s)
            /\ s \in verified => cases'[s].status = "resolved"
            /\ s \notin verified => (cases'[s].status = "resolved" <=> cases[s].status = "resolved")
            /\ cases[s].status \notin Looked => cases'[s] = cases[s]
  <2>1. ASSUME NEW s \in Sources
        PROVE  /\ cases'[s] \in [status : CaseStatus, generation : 0..MaxGeneration]
               /\ cases'[s].generation = cases[s].generation
               /\ NoCase(s)' <=> NoCase(s)
               /\ s \in verified => cases'[s].status = "resolved"
               /\ s \notin verified => (cases'[s].status = "resolved" <=> cases[s].status = "resolved")
               /\ cases[s].status \notin Looked => cases'[s] = cases[s]
    <3> DEFINE r == [cases[s] EXCEPT !.status = "resolved"]
               c == [cases[s] EXCEPT !.status = "conflict"]
    <3>1. /\ r \in [status : CaseStatus, generation : 0..MaxGeneration]
          /\ r.status = "resolved" /\ r.generation = cases[s].generation
          /\ c \in [status : CaseStatus, generation : 0..MaxGeneration]
          /\ c.status = "conflict" /\ c.generation = cases[s].generation
      BY <1>1 DEF CasesTyped, CaseStatus
    <3>2. cases'[s] = IF s \in verified THEN r ELSE IF s \in found THEN c ELSE cases[s]
      BY <1>3
    <3> HIDE DEF r, c
    <3>3. cases[s] \in [status : CaseStatus, generation : 0..MaxGeneration]
      BY <1>1 DEF CasesTyped
    <3> QED
      BY <1>4, <3>1, <3>2, <3>3 DEF NoCase, Looked
  <2> QED
    BY <1>3, <2>1 DEF CasesTyped
<1>6. /\ att' \in Typed
      /\ \A s \in Sources : s \notin verified => att'[s] = att[s]
      /\ \A s \in Sources, n \in Attempts :
            /\ CompleteRow(att[s][n]) => CompleteRow(att'[s][n])
            /\ att'[s][n] = att[s][n] \/ (att'[s][n].stage # "none" /\ ~(n > job.attempts))
  <2>1. ASSUME NEW s \in Sources, s \in verified
        PROVE  /\ att'[s] \in [Attempts -> Row]
               /\ \A n \in Attempts :
                     /\ CompleteRow(att[s][n]) => CompleteRow(att'[s][n])
                     /\ att'[s][n] = att[s][n] \/ (att'[s][n].stage # "none" /\ ~(n > job.attempts))
    <3> DEFINE m == LatestAttempt(s)
               row == CompletedRow(att[s][m])
    <3>1. m \in Attempts /\ ~(m > job.attempts) /\ att[s][m] \in Row
      BY <1>4, <2>1, LatestExists
    <3>2. row \in Row /\ SameParts(row, att[s][m]) /\ row.stage # "none"
      BY <3>1, CompletedEffect
    <3>3. CompleteRow(row) <=> CompleteRow(att[s][m])
      BY <3>2, SamePartsComplete
    <3>4. att[s] \in [Attempts -> Row]
      BY <1>1 DEF Typed
    <3>5. att'[s] = [att[s] EXCEPT ![m] = row]
      BY <1>3, <2>1, <3>1, <3>4
    <3> HIDE DEF m, row
    <3> QED
      BY <3>1, <3>2, <3>3, <3>4, <3>5
  <2>2. \A s \in Sources : s \notin verified => att'[s] = att[s]
    BY <1>3
  <2>3. \A s \in Sources : att'[s] \in [Attempts -> Row]
    BY <1>1, <2>1, <2>2 DEF Typed
  <2>4. att' \in Typed
    BY <1>3, <2>3 DEF Typed
  <2> QED
    BY <2>1, <2>2, <2>4
<1>7. /\ job' \in Job /\ job'.generation = job.generation /\ job'.attempts = job.attempts
      /\ job'.attentionResolved = job.attentionResolved
      /\ job'.status \in {job.status, "completed"}
      /\ job'.status = "completed" => outputs' = Sources
      /\ job'.status # "completed" => job' = job
      /\ /\ verified # {} /\ job.status = "failed"
         /\ job.error = "output_reconciliation_required" /\ outputs' = Sources
         => job'.status = "completed"
  <2> DEFINE i == [job EXCEPT !.status = "completed", !.error = "none"]
             done == /\ verified # {} /\ job.status = "failed"
                     /\ job.error = "output_reconciliation_required" /\ outputs' = Sources
  <2>1. /\ i \in Job /\ i.status = "completed" /\ i.generation = job.generation
        /\ i.attempts = job.attempts /\ i.attentionResolved = job.attentionResolved
    BY <1>1 DEF Job, Status, ErrorCode
  <2> HIDE DEF i
  <2>2. CASE done
    <3>1. job' = Finalized(i)
      BY <1>3, <2>2 DEF i
    <3> QED
      BY <2>1, <2>2, <3>1, FinalizedTyped
  <2>3. CASE ~done
    <3>1. job' = job
      BY <1>3, <2>3
    <3> QED
      BY <1>1, <2>3, <3>1
  <2> QED
    BY <2>2, <2>3
<1>8. /\ outputs' \subseteq Sources
      /\ \A s \in Sources : s \in outputs' <=> s \in outputs \/ s \in verified
      /\ Missing' \subseteq Missing /\ Missing \subseteq Sources
      /\ \A s \in Missing' : s \notin verified
  BY <1>1, <1>3, <1>4 DEF Missing
<1>9. TypeOK'
  BY <1>1, <1>5, <1>6, <1>7, <1>8 DEF TypeOK, Typed, CasesTyped
<1>10. Ledger'
  <2>1. job'.status = "failed" => job.attempts \in Attempts
    BY <1>1, <1>7 DEF Ledger
  <2> QED
    BY <1>1, <1>6, <1>7, <2>1 DEF Ledger
<1>11. ASSUME NEW s \in Sources, CompleteBefore(s, job.attempts)
       PROVE  CompleteBefore(s, job.attempts)'
  <2>1. job.attempts >= job.attempts
    BY <1>1
  <2> QED
    BY <1>1, <1>6, <1>7, <1>11, <2>1, CompleteKept
<1>12. Documents'
  <2>1. ASSUME NEW s \in Sources
        PROVE  /\ docs'[s] <= creates'[s] /\ creates'[s] <= 1
               /\ NoCase(s)' => creates'[s] = 0
               /\ s \in outputs' <=> cases'[s].status = "resolved"
               /\ s \in outputs' => docs'[s] = 1
               /\ ~NoCase(s)' => CompleteBefore(s, job.attempts)'
    BY <1>1, <1>4, <1>5, <1>8, <1>11 DEF Documents
  <2> QED
    BY <1>7, <2>1 DEF Documents
<1>13. Queued' /\ CancelledKeepsNoText'
  BY <1>1, <1>7 DEF Queued, CancelledKeepsNoText
<1>14. Failed'
  <2> SUFFICES ASSUME job'.status = "failed", job.attempts < MaxAttempts
               PROVE  /\ Missing' # {}
                      /\ job.error # "output_reconciliation_required" =>
                            \E s \in Missing' : cases'[s].status \notin Looked
    BY <1>7 DEF Failed
  <2>1. job' = job /\ job.status = "failed" /\ Missing # {}
    BY <1>7 DEF Failed
  <2>2. CASE job.error # "output_reconciliation_required"
    <3>1. PICK s \in Missing : cases[s].status \notin Looked
      BY <2>1, <2>2 DEF Failed
    <3>2. s \in Missing' /\ cases'[s].status \notin Looked
      BY <1>4, <1>5, <1>8, <3>1 DEF Missing
    <3> QED
      BY <3>2
  <2>3. CASE job.error = "output_reconciliation_required"
    <3>1. outputs' # Sources \/ verified = {}
      BY <1>7, <2>1, <2>3
    <3>2. Missing' # {}
      BY <1>3, <1>8, <2>1, <3>1 DEF Missing
    <3> QED
      BY <2>3, <3>2
  <2> QED
    BY <2>2, <2>3
<1>15. ASSUME NEW h \in Generations PROVE Local(h)' /\ (Sparing(h) => Sparing(h)')
  <2>1. run'[h] = run[h] /\ ~Working(h)' /\ Local(h) /\ Src(h)' = Src(h)
    BY <1>1, <1>7 DEF Working, Src
  <2>2. run[h].step \in Paying => Stuck(h)'
    <3> SUFFICES ASSUME run[h].step \in Paying PROVE Stuck(h)'
      OBVIOUS
    <3>1. PICK s \in Sources : s = Src(h)
      BY <2>1 DEF Local, Placed, AtSource
    <3>2. /\ job.generation = h /\ NoCase(s) /\ s \notin outputs
          /\ ~CompleteBefore(s, job.attempts - 1) /\ Begun(Current(s))
          /\ Current(s).done = IF At(h, "checkpointing") THEN run[h].held - 1 ELSE run[h].held
      BY <2>1, <3>1 DEF Local, Stuck
    <3>3. s \notin verified /\ att'[s] = att[s] /\ NoCase(s)' /\ s \notin outputs'
      BY <1>4, <1>5, <1>6, <1>8, <3>2
    <3>4. ~CompleteBefore(s, job.attempts - 1)' /\ Current(s)' = Current(s)
      BY <1>7, <3>2, <3>3 DEF CompleteBefore, Current
    <3>5. job'.generation = h /\ job'.status # "queued"
      BY <1>1, <1>7, <3>2
    <3> QED
      BY <2>1, <3>1, <3>2, <3>3, <3>4, <3>5 DEF Stuck, NoCase, CompleteBefore, Current, At
  <2>3. At(h, "claimed") /\ job'.generation = h => job'.status \notin {"processing", "failed"}
    BY <1>1, <1>7, <2>1 DEF Local, Placed
  <2>4. job'.attempts >= job.attempts /\ job'.generation >= job.generation
    BY <1>1, <1>7
  <2>5. Local(h)'
    BY <1>1, <1>5, <1>6, <1>7, <2>1, <2>2, <2>3, <2>4, Bystander
  <2>6. Sparing(h) => Sparing(h)'
    BY <1>1, <1>7, <2>1 DEF Sparing, At, InFlight, Spent
  <2> QED
    BY <2>5, <2>6
<1>16. Payments'
  <2>1. ASSUME NEW s \in Missing', Covered(s), job'.status = "failed" PROVE Covered(s)'
    <3>1. s \in Sources /\ att'[s] = att[s] /\ job' = job
      BY <1>6, <1>7, <1>8, <2>1
    <3> QED
      BY <1>1, <2>1, <3>1, CoveredKept DEF SameJob
  <2>2. job'.status \in {"failed", "completed", "cancelled"}
    BY <1>1, <1>7
  <2> QED
    BY <1>1, <1>7, <1>8, <1>15, <2>1, <2>2 DEF Payments
<1> QED
  BY <1>9, <1>10, <1>12, <1>13, <1>14, <1>15, <1>16

-----------------------------------------------------------------------------
(***************************************************************************)
(* The invariant.                                                          *)
(***************************************************************************)

LEMMA InitInvariant ==
  ASSUME Init
  PROVE  PipelineInvariant
<1>1. /\ job.status = "queued" /\ job.generation = 0 /\ job.attempts = 0
      /\ job.error = "none" /\ ~job.attentionResolved
  BY DEF Init
<1>2. job \in Job
  BY Ranges DEF Init, Job, Status, ErrorCode
<1>3. /\ \A s \in Sources, n \in Attempts : att[s][n] = NoRow
      /\ att \in Typed
  BY FreshRows DEF Init, Typed
<1>4. /\ \A s \in Sources : /\ NoCase(s) /\ docs[s] = 0 /\ creates[s] = 0
                            /\ \A p \in PartIndexes : calls[s][p] = 0
      /\ outputs = {} /\ Missing = Sources /\ consent.given = 0
  BY DEF Init, NoCase, Missing
<1>5. \A g \in Generations : /\ run[g].step = "idle" /\ run[g].error = "none"
                             /\ run[g].step \notin AtSource /\ run[g].step \in Outside
  BY DEF Init, AtSource, Paying, Received, Outside
<1>6. run \in [Generations -> Run]
  BY Ranges DEF Init, Run, Step, Answer, ErrorCode
<1>7. cases \in CasesTyped
  BY Ranges DEF Init, CasesTyped, CaseStatus
<1>8. TypeOK
  BY <1>2, <1>3, <1>6, <1>7 DEF TypeOK, Typed, CasesTyped, Init, RetryKind
<1>9. 1 \in Sources
  BY PipelineAssumption DEF Sources
<1>10. Ledger /\ Queued /\ Failed /\ CancelledKeepsNoText
  BY <1>1, <1>3, <1>4, <1>9, PipelineAssumption DEF Ledger, Queued, Failed, CancelledKeepsNoText
<1>11. Documents
  BY <1>1, <1>4 DEF Documents, NoCase
<1>12. ASSUME NEW g \in Generations PROVE Local(g) /\ Sparing(g)
  <2>1. Placed(g)
    BY <1>1, <1>5, <1>12 DEF Placed, At, AtSource, Paying, Received
  <2>2. Advanced(g) /\ Clean(g) /\ Untouched(g)
    BY <1>1 DEF Advanced, Clean, Untouched, Working
  <2>3. Creating(g) /\ Complete(g) /\ Stuck(g) /\ Sparing(g)
    BY <1>5, <1>12 DEF Creating, Complete, Stuck, Sparing, At, Paying, Received
  <2> QED
    BY <2>1, <2>2, <2>3 DEF Local
<1>13. Payments
  <2>1. \A s \in Sources : Covered(s)
    BY <1>4 DEF Covered, Payable, Spent
  <2> QED
    BY <1>4, <1>12, <2>1 DEF Payments
<1> QED
  BY <1>8, <1>10, <1>11, <1>12, <1>13 DEF PipelineInvariant

LEMMA NextInvariant ==
  ASSUME PipelineInvariant, Next
  PROVE  PipelineInvariant'
<1>1. ASSUME NEW g \in Generations, Begin(g) PROVE PipelineInvariant'
  <2>1. CASE PrepareFails(g)
    BY <2>1, JustGiveUpStep
  <2> QED
    BY <1>1, <2>1, ClaimStep, EnterStep, PrepareAttemptsStep, StopAtCheckpointStep, BeginSourceStep
       DEF Begin
<1>2. ASSUME NEW g \in Generations, Transcribe(g) PROVE PipelineInvariant'
  <2>1. CASE RestoreFails(g) \/ MaterializationFails(g) \/ TranscriptionInterrupted(g)
    BY <2>1, JustGiveUpStep
  <2>2. CASE \/ PreparationFails(g) \/ PartUsageUnavailable(g) \/ ConfirmationFails(g)
             \/ ProviderFails(g) \/ SavePartFails(g) \/ MergeFails(g)
    BY <2>2, ClassifiedFailures
  <2>3. CASE MergeParts(g)
    BY <2>3, BetweenStages
  <2> QED
    BY <1>2, <2>1, <2>2, <2>3, RestoreTranscriptStep, StartProviderStep, BeginPartUsageStep,
       SendPartStep, ConfirmPartUsageStep, SavePartStep, MarkReturnedStep DEF Transcribe
<1>3. ASSUME NEW g \in Generations, Deliver(g) PROVE PipelineInvariant'
  <2>1. CASE CheckpointBeforeOutput(g) \/ OutputStageFails(g) \/ MarkCreatedFails(g)
    BY <2>1, BetweenStages
  <2>2. CASE OutputRefused(g)
    BY <2>2, JustGiveUpStep
  <2> QED
    BY <1>3, <2>1, <2>2, HandOffStep, OutputExistsStep, PrepareCaseStep, CreateDocumentStep,
       MarkCreatedStep, PersistOutputStep, MarkUncertainStep DEF Deliver
<1>4. ASSUME NEW g \in Generations, Conclude(g) PROVE PipelineInvariant'
  BY <1>4, RecordUncertaintyStep, FailSourceStep, BetweenStages DEF Conclude
<1>5. CASE Environment
  BY <1>5, RecoverExpiredStep, RequestCancellationStep, QueueRetryStep, CheckReconciliationStep,
     TimeStep DEF Environment
<1> QED
  BY <1>1, <1>2, <1>3, <1>4, <1>5 DEF Next

LEMMA StutterInvariant ==
  ASSUME PipelineInvariant, UNCHANGED vars
  PROVE  PipelineInvariant'
<1>1. /\ UNCHANGED <<att, cases, outputs, run, world, consent, checkpoints>> /\ job' = job
      /\ job \in Job /\ checkpoints \in [Sources -> SUBSET PartIndexes]
  BY DEF vars, database, PipelineInvariant, TypeOK
<1> QED
  BY <1>1, QuietJobStep

\* The invariant holds in every reachable state, whatever the numbers of
\* sources, parts, attempts, claims and worker processes.
THEOREM PipelineInvariantHolds == Spec => []PipelineInvariant
<1>1. Init => PipelineInvariant
  BY InitInvariant
<1>2. PipelineInvariant /\ [Next]_vars => PipelineInvariant'
  BY NextInvariant, StutterInvariant
<1> QED
  BY <1>1, <1>2, PTL DEF Spec


-----------------------------------------------------------------------------
(***************************************************************************)
(* What the invariant says of the documents, the payments and the job.     *)
(***************************************************************************)

\* The rows, the runs and the counts of the world keep their types.
THEOREM TypeCorrect == Spec => []TypeOK
  BY PipelineInvariantHolds, PTL DEF PipelineInvariant

\* No source gets a second create request: not from a later attempt, a retry
\* of an uncertain outcome, a zombie run or one that recovery replaced.
THEOREM OneDocumentPerSourceHolds == Spec => []OneDocumentPerSource
<1>1. PipelineInvariant => OneDocumentPerSource
  BY DEF PipelineInvariant, Documents, OneDocumentPerSource
<1> QED
  BY <1>1, PipelineInvariantHolds, PTL

\* A document without an output has a case with its token, an output has
\* exactly one document, and a completed job has every output.
THEOREM DocumentsAreTraceableHolds == Spec => []DocumentsAreTraceable
<1>1. ASSUME PipelineInvariant PROVE DocumentsAreTraceable
  <2>1. Documents /\ docs \in [Sources -> Nat] /\ creates \in [Sources -> Nat]
        /\ outputs \subseteq Sources
    BY <1>1 DEF PipelineInvariant, TypeOK
  <2>2. ASSUME NEW s \in Sources, docs[s] > 0, s \notin outputs PROVE UnresolvedCase(s)
    <3>1. creates[s] # 0
      BY <2>1, <2>2 DEF Documents
    <3> QED
      BY <2>1, <2>2, <3>1 DEF Documents, NoCase, UnresolvedCase
  <2> QED
    BY <2>1, <2>2 DEF DocumentsAreTraceable, Documents
<1> QED
  BY <1>1, PipelineInvariantHolds, PTL

\* No run that was at work when the job was cancelled leaves recognised text.
THEOREM CancelledKeepsNoTextHolds == Spec => []CancelledKeepsNoText
  BY PipelineInvariantHolds, PTL DEF PipelineInvariant

\* A failed job with attempts left still misses a document.
THEOREM FailedMeansMissingHolds == Spec => []FailedMeansMissing
<1>1. PipelineInvariant => FailedMeansMissing
  BY DEF PipelineInvariant, Failed, FailedMeansMissing
<1> QED
  BY <1>1, PipelineInvariantHolds, PTL

\* A part is paid once, and once more for every cost the owner confirmed.
THEOREM PaidOncePerConsentHolds == Spec => []PaidOncePerConsent
<1>1. PipelineInvariant => PaidOncePerConsent
  BY DEF PipelineInvariant, Payments, PaidOncePerConsent
<1> QED
  BY <1>1, PipelineInvariantHolds, PTL

\* Only the transport call reaches the provider.
LEMMA OnlySendPays ==
  ASSUME Next
  PROVE  UNCHANGED calls \/ \E g \in Generations : SendPart(g)
<1>1. ASSUME NEW g \in Generations, Begin(g) PROVE UNCHANGED calls
  BY <1>1 DEF Begin, Claim, Enter, PrepareAttempts, PrepareFails, StopAtCheckpoint, BeginSource,
              world
<1>2. ASSUME NEW g \in Generations, Transcribe(g), ~SendPart(g) PROVE UNCHANGED calls
  <2>1. CASE \/ RestoreTranscript(g) \/ StartProvider(g) \/ BeginPartUsage(g)
             \/ ConfirmPartUsage(g) \/ SavePart(g) \/ MarkReturned(g) \/ MergeParts(g)
    BY <2>1 DEF RestoreTranscript, StartProvider, BeginPartUsage, ConfirmPartUsage, SavePart,
                MarkReturned, MergeParts, world
  <2>2. CASE RestoreFails(g) \/ MaterializationFails(g) \/ TranscriptionInterrupted(g)
    BY <2>2 DEF RestoreFails, MaterializationFails, TranscriptionInterrupted, JustGiveUp, world
  <2>3. CASE \/ PreparationFails(g) \/ PartUsageUnavailable(g) \/ ConfirmationFails(g)
             \/ ProviderFails(g) \/ SavePartFails(g) \/ MergeFails(g)
    BY <2>3 DEF PreparationFails, PartUsageUnavailable, ConfirmationFails, ProviderFails,
                SavePartFails, MergeFails, ClassifyAndGiveUp, world
  <2> QED
    BY <1>2, <2>1, <2>2, <2>3 DEF Transcribe
<1>3. ASSUME NEW g \in Generations, Deliver(g) PROVE UNCHANGED calls
  BY <1>3 DEF Deliver, CheckpointBeforeOutput, HandOff, OutputStageFails, OutputExists,
              OutputRefused, PrepareCase, CreateDocument, MarkCreated, MarkCreatedFails,
              PersistOutput, MarkUncertain, JustGiveUp, world
<1>4. ASSUME NEW g \in Generations, Conclude(g) PROVE UNCHANGED calls
  BY <1>4 DEF Conclude, RecordUncertainty, FailSource, Abandon, world
<1>5. CASE Environment
  BY <1>5 DEF Environment, RecoverExpired, RequestCancellation, QueueRetry, CheckReconciliation,
              ResolveAttention, CleanupCheckpoints, ExpireLease, BackoffElapses, world
<1> QED
  BY <1>1, <1>2, <1>3, <1>4, <1>5 DEF Next

\* A source whose parts all came back in an earlier attempt is not paid again.
THEOREM FullResultNeverRepaidHolds == Spec => FullResultNeverRepaid
<1> DEFINE Act == \A s \in Sources : calls'[s] # calls[s] => ~CompleteBefore(s, job.attempts - 1)
<1>1. ASSUME PipelineInvariant, [Next]_vars PROVE [Act]_vars
  <2> SUFFICES ASSUME Next, NEW s \in Sources, calls'[s] # calls[s]
               PROVE  ~CompleteBefore(s, job.attempts - 1)
    BY <1>1
  <2>1. PICK g \in Generations : SendPart(g)
    BY OnlySendPays
  <2>2. s = Src(g)
    <3>1. calls \in [Sources -> [PartIndexes -> Nat]]
      BY <1>1 DEF PipelineInvariant, TypeOK
    <3> QED
      BY <2>1, <3>1 DEF SendPart
  <2>3. run[g].step \in Paying
    BY <2>1 DEF SendPart, At, Paying
  <2> QED
    BY <1>1, <2>2, <2>3 DEF PipelineInvariant, Local, Stuck
<1>2. []PipelineInvariant /\ [][Next]_vars => [][Act]_vars
  BY <1>1, PTL
<1> QED
  BY <1>2, PipelineInvariantHolds, PTL DEF Spec, FullResultNeverRepaid

\* The steps that put a job back without its owner find every source safe to
\* ask for again, or its whole result kept.
LEMMA UnattendedRequeue ==
  ASSUME PipelineInvariant, Next, job.status = "processing", job'.status = "queued"
  PROVE  /\ \A s \in Missing : NoCase(s)
         /\ ~job.attentionResolved =>
               \A s \in Missing : Payable(s) \/ FullyHeld(s)
<1>1. job \in Job /\ job.attempts \in Attempts
  BY DEF PipelineInvariant, TypeOK, Ledger
<1>2. ASSUME NEW explicit \in BOOLEAN, NEW error, RetryAllowed(explicit, error),
             \A s \in Missing : Verdict(s, explicit, error) \in {"safe", "cached"}
      PROVE  /\ \A s \in Missing : NoCase(s)
             /\ ~job.attentionResolved =>
                   \A s \in Missing : Payable(s) \/ FullyHeld(s)
  <2>1. \A s \in Missing : NoCase(s)
    BY <1>2, RetryFacts
  <2>2. ASSUME ~job.attentionResolved, NEW s \in Missing PROVE Payable(s) \/ FullyHeld(s)
    <3>1. Verdict(s, explicit, error) \in SafeVerdicts /\ Verdict(s, explicit, error) \in {"safe", "cached"}
      BY <1>2 DEF SafeVerdicts
    <3>2. Covered(s)
      BY <2>2 DEF PipelineInvariant, Payments
    <3> QED
      BY <1>1, <1>2, <3>1, <3>2, SafeSource DEF Covered
  <2> QED
    BY <2>1, <2>2
<1> DEFINE explicit == TRUE
           implicit == FALSE
<1>3. ASSUME NEW error, AutomaticRetryAllowed(error)
      PROVE  /\ RetryAllowed(explicit, error)
             /\ \A s \in Missing : Verdict(s, explicit, error) \in {"safe", "cached"}
  BY <1>3 DEF AutomaticRetryAllowed
<1>4. ASSUME NEW error, FailJob(error) PROVE AutomaticRetryAllowed(error)
  BY <1>1, <1>4, FinishEffect DEF FailJob, Finish, Finalized, Released, Job
<1>5. explicit \in BOOLEAN /\ implicit \in BOOLEAN /\ ~implicit
  OBVIOUS
<1> HIDE DEF explicit, implicit
<1>6. CASE \E g \in Generations : RecordUncertainty(g) \/ FailSource(g)
  <2>1. PICK g \in Generations : RecordUncertainty(g) \/ FailSource(g)
    BY <1>6
  <2>2. ~(\E s \in {"cancelled"} : job'.status = s) /\ job'.status # job.status
    OBVIOUS
  <2>3. \E error : FailJob(error)
    <3>1. CASE RecordUncertainty(g)
      BY <2>2, <3>1 DEF RecordUncertainty
    <3>2. CASE FailSource(g)
      <4>1. ~Acknowledge(g)
        BY FinishIsCancelled DEF Acknowledge
      <4> QED
        BY <2>2, <3>2, <4>1 DEF FailSource
    <3> QED
      BY <2>1, <3>1, <3>2
  <2> QED
    BY <1>2, <1>3, <1>4, <1>5, <2>3
<1>7. CASE RecoverExpired
  <2>1. RetryAllowed(implicit, job.error)
    <3>1. job' # Finish(job, "cancelled", job.error)
      BY FinishIsCancelled
    <3>2. job' # Finish(job, "completed", "none")
      BY <1>1, FinishEffect DEF Status, ErrorCode
    <3>3. job' # Finish(job, "failed", RecoveryError)
      <4>1. RecoveryError \in ErrorCode
        BY DEF RecoveryError, ErrorCode
      <4> QED
        BY <1>1, <4>1, FinishEffect DEF Status
    <3> QED
      BY <1>7, <3>1, <3>2, <3>3 DEF RecoverExpired, implicit
  <2>2. ASSUME NEW s \in Missing PROVE Verdict(s, implicit, job.error) \in {"safe", "cached"}
    <3>1. Verdict(s, implicit, job.error) \in SafeVerdicts
      BY <2>1 DEF RetryAllowed
    <3> QED
      BY <1>1, <1>5, <3>1, SafeSource
  <2> QED
    BY <1>2, <1>5, <2>1, <2>2
<1>8. ASSUME NEW g \in Generations, Begin(g) PROVE FALSE
  <2>1. CASE StopAtCheckpoint(g)
    BY <2>1, FinishIsCancelled DEF StopAtCheckpoint, Acknowledge
  <2>2. CASE ~StopAtCheckpoint(g)
    BY <1>8, <2>2 DEF Begin, Claim, Enter, PrepareAttempts, PrepareFails, BeginSource, database
  <2> QED
    BY <2>1, <2>2
<1>9. ASSUME NEW g \in Generations, Transcribe(g) PROVE FALSE
  <2>1. CASE \/ RestoreTranscript(g) \/ StartProvider(g) \/ SendPart(g)
             \/ SavePart(g) \/ MarkReturned(g) \/ MergeParts(g)
    BY <2>1 DEF RestoreTranscript, StartProvider, SavePart, SendPart, MarkReturned, MergeParts,
                database
  <2>2. CASE RestoreFails(g) \/ MaterializationFails(g) \/ TranscriptionInterrupted(g)
    BY <2>2 DEF RestoreFails, MaterializationFails, TranscriptionInterrupted, JustGiveUp, database
  <2>3. CASE \/ PreparationFails(g) \/ PartUsageUnavailable(g) \/ ConfirmationFails(g)
             \/ ProviderFails(g) \/ SavePartFails(g) \/ MergeFails(g)
    <3>1. PICK code, providerCode : ClassifyAndGiveUp(g, code, providerCode)
      BY <2>3 DEF PreparationFails, PartUsageUnavailable, ConfirmationFails, ProviderFails,
                  SavePartFails, MergeFails
    <3> QED
      BY <1>1, <3>1, AccountingEffect DEF ClassifyAndGiveUp, SameJob
  <2>4. CASE BeginPartUsage(g)
    BY <1>1, <2>4, FlagEffect DEF BeginPartUsage, SameJob
  <2>5. CASE ConfirmPartUsage(g)
    BY <1>1, <2>5, AccountingEffect DEF ConfirmPartUsage, SameJob
  <2> QED
    BY <1>9, <2>1, <2>2, <2>3, <2>4, <2>5 DEF Transcribe
<1>10. ASSUME NEW g \in Generations, Deliver(g) PROVE FALSE
  <2>1. CASE PersistOutput(g)
    BY <1>1, <2>1, FinishEffect DEF PersistOutput, Status, ErrorCode
  <2>2. CASE OutputExists(g)
    BY <2>2, FinishIsCancelled DEF OutputExists, Acknowledge
  <2> QED
    BY <1>10, <2>1, <2>2 DEF Deliver, CheckpointBeforeOutput, HandOff, OutputStageFails,
              OutputRefused, PrepareCase, CreateDocument, MarkCreated, MarkCreatedFails,
              MarkUncertain, JustGiveUp, database
<1>11. ASSUME NEW g \in Generations, Abandon(g) PROVE FALSE
  BY <1>11 DEF Abandon, database
<1>12. ASSUME RequestCancellation \/ QueueRetry \/ CheckReconciliation PROVE FALSE
  BY <1>1, <1>12 DEF RequestCancellation, QueueRetry, CheckReconciliation, Job
<1>13. ASSUME ResolveAttention \/ CleanupCheckpoints \/ ExpireLease \/ BackoffElapses PROVE FALSE
  BY <1>1, <1>13 DEF ResolveAttention, CleanupCheckpoints, ExpireLease, BackoffElapses, Job
<1> QED
  BY <1>6, <1>7, <1>8, <1>9, <1>10, <1>11, <1>12, <1>13 DEF Next, Environment, Conclude

\* Automatic retry and recovery leave no creation under way and no part whose
\* call may have been billed without its result being kept.
THEOREM UnattendedRequeueIsSafeHolds == Spec => UnattendedRequeueIsSafe
<1> DEFINE Act == job.status = "processing" /\ job'.status = "queued" /\ ~job.attentionResolved =>
          \A s \in Missing :
             /\ creates[s] = 0
             /\ ~UnresolvedCase(s)
             /\ \A p \in PartIndexes : p \in checkpoints[s] \/ calls[s][p] <= consent.given
<1>1. ASSUME PipelineInvariant, [Next]_vars PROVE [Act]_vars
  <2> SUFFICES ASSUME Next, job.status = "processing", job'.status = "queued",
                      ~job.attentionResolved, NEW s \in Missing
               PROVE  /\ creates[s] = 0
                      /\ ~UnresolvedCase(s)
                      /\ \A p \in PartIndexes : p \in checkpoints[s] \/ calls[s][p] <= consent.given
    BY <1>1
  <2>1. NoCase(s) /\ (Payable(s) \/ FullyHeld(s)) /\ s \in Sources
    BY <1>1, UnattendedRequeue DEF Missing
  <2>2. creates[s] = 0 /\ ~UnresolvedCase(s)
    BY <1>1, <2>1 DEF PipelineInvariant, Documents, NoCase, UnresolvedCase
  <2>3. ASSUME NEW p \in PartIndexes PROVE p \in checkpoints[s] \/ calls[s][p] <= consent.given
    <3>1. calls[s][p] \in Nat /\ consent.given \in Nat
      BY <1>1, <2>1 DEF PipelineInvariant, TypeOK
    <3> QED
      BY <2>1, <3>1 DEF Payable, FullyHeld, Spent
  <2> QED
    BY <2>2, <2>3
<1>2. []PipelineInvariant /\ [][Next]_vars => [][Act]_vars
  BY <1>1, PTL
<1> QED
  BY <1>2, PipelineInvariantHolds, PTL DEF Spec, UnattendedRequeueIsSafe

-----------------------------------------------------------------------------
(***************************************************************************)
(* The pipeline implements the lifecycle.                                  *)
(***************************************************************************)

\* What the refinement mapping makes of the runs.
Handle == [g \in Generations |-> IF run[g].step \in {"idle", "gone"} THEN 0 ELSE g]

\* What a step that concludes nothing leaves alone in the row.
SameLease ==
    /\ job'.status = job.status /\ job'.generation = job.generation
    /\ job'.attempts = job.attempts /\ job'.error = job.error
    /\ job'.owned = job.owned /\ job'.live = job.live
    /\ job'.cancelRequested = job.cancelRequested /\ job'.deferred = job.deferred

Kept(g) == run[g].step \notin {"idle", "gone"}

\* A run that goes on, or ends with its own commit, keeps its handle.
LEMMA HandleKept ==
  ASSUME NEW g \in Generations, Kept(g), Kept(g)',
         \A h \in Generations : h # g => run'[h].step = run[h].step
  PROVE  Handle' = Handle
  BY DEF Handle, Kept

\* A run that leaves lets go of it.
LEMMA HandleDropped ==
  ASSUME NEW g \in Generations, run'[g].step = "gone",
         \A h \in Generations : h # g => run'[h].step = run[h].step
  PROVE  Handle' = [Handle EXCEPT ![g] = 0]
  BY DEF Handle

LEMMA Stutters ==
  ASSUME SameLease, Handle' = Handle
  PROVE  UNCHANGED Lifecycle!vars
  BY DEF SameLease, Handle, Lifecycle!vars

\* A step of a run that is at work and neither leaves nor touches the lease.
LEMMA RunStutters ==
  ASSUME NEW g \in Generations, Kept(g), Kept(g)', SameLease,
         \A h \in Generations : h # g => run'[h].step = run[h].step
  PROVE  UNCHANGED Lifecycle!vars
  BY HandleKept, Stutters

LEMMA GotoStays ==
  ASSUME run \in [Generations -> Run], NEW g \in Generations, NEW step, Goto(g, step)
  PROVE  /\ run'[g].step = step
         /\ \A h \in Generations : h # g => run'[h].step = run[h].step
  BY DEF Goto, Run

LEMMA ForgetStays ==
  ASSUME run \in [Generations -> Run], NEW g \in Generations, NEW step, Forget(g, step)
  PROVE  /\ run'[g].step = step
         /\ \A h \in Generations : h # g => run'[h].step = run[h].step
  BY DEF Forget

LEMMA NextSourceStays ==
  ASSUME run \in [Generations -> Run], NEW g \in Generations, NextSource(g)
  PROVE  /\ run'[g].step = "source"
         /\ \A h \in Generations : h # g => run'[h].step = run[h].step
  BY DEF NextSource

LEMMA GiveUpStays ==
  ASSUME run \in [Generations -> Run], NEW g \in Generations, NEW error, GiveUp(g, error)
  PROVE  /\ run'[g].step = "failing"
         /\ \A h \in Generations : h # g => run'[h].step = run[h].step
  BY DEF GiveUp, Run

\* The holder the row names is the owner the lifecycle asks for.
LEMMA ActiveIsOwner ==
  ASSUME TypeOK, NEW g \in Generations, Active(g), Kept(g)
  PROVE  Lifecycle!InProcessing /\ Lifecycle!ActiveOwner(g)
<1>1. Handle[g] = g
  BY DEF Handle, Kept
<1> QED
  BY <1>1 DEF Lifecycle!InProcessing, Lifecycle!ActiveOwner, Active, Handle

\* Leaving the orchestrator without a commit is to abandon the job.
LEMMA LeaveAbandons ==
  ASSUME TypeOK, NEW g \in Generations, Kept(g), Leave(g), job' = job
  PROVE  Lifecycle!Abandon(g)
<1>1. Handle' = [Handle EXCEPT ![g] = 0]
  BY ForgetStays, HandleDropped DEF TypeOK, Leave
<1>2. Handle[g] # 0
  BY Ranges, PipelineAssumption DEF Handle, Kept, Generations
<1> QED
  BY <1>1, <1>2 DEF Lifecycle!Abandon, Handle

LEMMA EndKeeps ==
  ASSUME TypeOK, NEW g \in Generations, Kept(g), End(g)
  PROVE  Handle' = Handle
  BY ForgetStays, HandleKept DEF TypeOK, End, Kept


\* A cancellation the run finds is acknowledged by the run that holds the lease.
LEMMA AcknowledgeImplements ==
  ASSUME TypeOK, NEW g \in Generations, Kept(g), Active(g), ~Authorized(g), Acknowledge(g), End(g)
  PROVE  Lifecycle!AcknowledgeCancellation(g)
<1>1. Handle' = Handle
  BY EndKeeps
<1>2. Lifecycle!InProcessing /\ Lifecycle!ActiveOwner(g)
  BY ActiveIsOwner
<1>3. job \in Job /\ job.error \in ErrorCode
  BY DEF TypeOK, Job
<1>4. /\ job'.status = "cancelled" /\ job'.error = job.error
      /\ job'.generation = job.generation /\ job'.attempts = job.attempts
      /\ job' \in Job /\ ~job'.owned /\ ~job'.live
      /\ job'.cancelRequested = job.cancelRequested /\ job'.deferred = job.deferred
  BY <1>3, FinishEffect DEF Acknowledge, Status
<1>5. job.cancelRequested /\ (job'.live = FALSE)
  BY <1>3, <1>4 DEF Authorized, Job
<1> QED
  BY <1>1, <1>2, <1>4, <1>5 DEF Lifecycle!AcknowledgeCancellation, Lifecycle!InvalidateLease, Handle

LEMMA BeginImplements ==
  ASSUME TypeOK, NEW g \in Generations, Begin(g)
  PROVE  Lifecycle!Next \/ UNCHANGED Lifecycle!vars
<1>0. job \in Job /\ run \in [Generations -> Run]
  BY DEF TypeOK
<1>1. CASE Claim(g)
  <2>1. run'[g].step = "claimed" /\ \A h \in Generations : h # g => run'[h].step = run[h].step
    BY <1>0, <1>1, GotoStays DEF Claim
  <2>2. Handle' = [Handle EXCEPT ![g] = g] /\ Handle[g] = 0
    BY <1>1, <2>1 DEF Handle, Claim, At
  <2>3. g = job.generation + 1 /\ job.generation < MaxGeneration
    BY <1>0, <1>1, PipelineAssumption DEF Claim, Generations, Job
  <2>4. /\ job'.status = job.status /\ job'.generation = g /\ job'.attempts = job.attempts
        /\ job'.error = job.error /\ job'.owned = TRUE /\ job'.live = TRUE
        /\ job'.cancelRequested = job.cancelRequested /\ job'.deferred = job.deferred
    BY <1>0, <1>1 DEF Claim, Job
  <2>5. job.status = "queued" /\ ~job.deferred /\ ~job.live
    BY <1>1 DEF Claim
  <2>6. Lifecycle!Claim(g)
    BY <2>2, <2>3, <2>4, <2>5 DEF Lifecycle!Claim, Lifecycle!NextGeneration, Handle
  <2> QED
    BY <2>6 DEF Lifecycle!Next
<1>2. CASE Enter(g)
  <2>1. Kept(g)
    BY <1>2 DEF Enter, At, Kept
  <2>2. CASE Leave(g) /\ UNCHANGED job
    BY <2>1, <2>2, LeaveAbandons DEF Lifecycle!Next, Lifecycle!Work
  <2>3. CASE ~(Leave(g) /\ UNCHANGED job)
    <3>1. /\ job.status = "queued" /\ job.owned /\ job.generation = g /\ job.live
          /\ ~job.cancelRequested
          /\ job' = [job EXCEPT !.status = "processing", !.attempts = @ + 1,
                                !.error = "none", !.deferred = FALSE]
          /\ Goto(g, "preparing")
      BY <1>2, <2>3 DEF Enter
    <3>2. Handle' = Handle
      BY <1>0, <2>1, <3>1, GotoStays, HandleKept DEF Kept
    <3>3. /\ job'.status = "processing" /\ job'.generation = job.generation
          /\ job'.attempts = job.attempts + 1 /\ job'.error = "none"
          /\ job'.owned = job.owned /\ job'.live = job.live
          /\ job'.cancelRequested = job.cancelRequested /\ job'.deferred = FALSE
      BY <1>0, <3>1 DEF Job
    <3>4. Handle[g] = g
      BY <2>1 DEF Handle, Kept
    <3>5. Lifecycle!ActiveOwner(g)
      BY <3>1, <3>4 DEF Lifecycle!ActiveOwner, Handle
    <3>6. Lifecycle!BeginProcessing(g)
      BY <3>1, <3>2, <3>3, <3>5 DEF Lifecycle!BeginProcessing, Lifecycle!NoCancelPending,
                                    Lifecycle!KeepLease, Handle
    <3> QED
      BY <3>6 DEF Lifecycle!Next
  <2> QED
    BY <2>2, <2>3
<1>3. CASE StopAtCheckpoint(g)
  <2>1. Kept(g) /\ ~Authorized(g)
    BY <1>3 DEF StopAtCheckpoint, At, Kept
  <2>2. CASE Active(g)
    BY <1>3, <2>1, <2>2, AcknowledgeImplements DEF StopAtCheckpoint, Lifecycle!Next, Lifecycle!Work
  <2>3. CASE ~Active(g)
    BY <1>3, <2>1, <2>3, LeaveAbandons DEF StopAtCheckpoint, Lifecycle!Next, Lifecycle!Work
  <2> QED
    BY <2>2, <2>3
<1>4. CASE PrepareAttempts(g) \/ PrepareFails(g) \/ BeginSource(g)
  <2>1. Kept(g)
    BY <1>4 DEF PrepareAttempts, PrepareFails, BeginSource, At, Kept
  <2>2. SameLease
    BY <1>4 DEF PrepareAttempts, PrepareFails, BeginSource, SameLease, database
  <2>3. /\ run'[g].step \notin {"idle", "gone"}
        /\ \A h \in Generations : h # g => run'[h].step = run[h].step
    <3>1. CASE PrepareAttempts(g)
      <4>1. CASE Goto(g, "recording")
        BY <1>0, <4>1, GotoStays
      <4>2. CASE run' = [run EXCEPT ![g].step = "source", ![g].source = 1]
        BY <1>0, <4>2 DEF Run
      <4> QED
        BY <3>1, <4>1, <4>2 DEF PrepareAttempts
    <3>2. CASE PrepareFails(g)
      BY <1>0, <3>2, GiveUpStays DEF PrepareFails
    <3>3. CASE BeginSource(g)
      <4>1. \/ NextSource(g) \/ Goto(g, "transcribing") \/ Goto(g, "recording")
            \/ GiveUp(g, "other")
        BY <3>3 DEF BeginSource
      <4> QED
        BY <1>0, <4>1, NextSourceStays, GotoStays, GiveUpStays
    <3> QED
      BY <1>4, <3>1, <3>2, <3>3
  <2> QED
    BY <2>1, <2>2, <2>3, RunStutters DEF Kept
<1> QED
  BY <1>1, <1>2, <1>3, <1>4 DEF Begin


LEMMA ClassifyStutters ==
  ASSUME TypeOK, NEW g \in Generations, Kept(g), NEW code, NEW providerCode,
         ClassifyAndGiveUp(g, code, providerCode)
  PROVE  UNCHANGED Lifecycle!vars
<1>1. /\ run'[g].step = "failing"
      /\ \A h \in Generations : h # g => run'[h].step = run[h].step
  BY GiveUpStays DEF TypeOK, ClassifyAndGiveUp
<1>2. SameLease
  BY DEF TypeOK, Job, ClassifyAndGiveUp, SameLease
<1> QED
  BY <1>1, <1>2, RunStutters DEF Kept

LEMMA JustGiveUpStutters ==
  ASSUME TypeOK, NEW g \in Generations, Kept(g), JustGiveUp(g)
  PROVE  UNCHANGED Lifecycle!vars
<1>1. /\ run'[g].step = "failing"
      /\ \A h \in Generations : h # g => run'[h].step = run[h].step
  BY GiveUpStays DEF TypeOK, JustGiveUp
<1>2. SameLease
  BY DEF JustGiveUp, SameLease, database
<1> QED
  BY <1>1, <1>2, RunStutters DEF Kept

\* A step that only moves the run.
LEMMA GotoStutters ==
  ASSUME TypeOK, NEW g \in Generations, Kept(g), SameLease, NEW step, step \notin {"idle", "gone"},
         Goto(g, step)
  PROVE  UNCHANGED Lifecycle!vars
<1>1. /\ run'[g].step = step
      /\ \A h \in Generations : h # g => run'[h].step = run[h].step
  BY GotoStays DEF TypeOK
<1> QED
  BY <1>1, RunStutters DEF Kept

LEMMA TranscribeImplements ==
  ASSUME TypeOK, NEW g \in Generations, Transcribe(g)
  PROVE  UNCHANGED Lifecycle!vars
<1>0. job \in Job /\ run \in [Generations -> Run]
  BY DEF TypeOK
<1>1. CASE RestoreFails(g) \/ MaterializationFails(g) \/ TranscriptionInterrupted(g)
  <2>1. Kept(g) /\ JustGiveUp(g)
    BY <1>1 DEF RestoreFails, MaterializationFails, TranscriptionInterrupted, At, Kept
  <2> QED
    BY <2>1, JustGiveUpStutters
<1>2. CASE \/ PreparationFails(g) \/ PartUsageUnavailable(g) \/ ConfirmationFails(g)
           \/ ProviderFails(g) \/ SavePartFails(g) \/ MergeFails(g)
  <2>1. Kept(g)
    BY <1>2 DEF PreparationFails, PartUsageUnavailable, ConfirmationFails, ProviderFails,
                SavePartFails, MergeFails, At, Kept
  <2>2. PICK code, providerCode : ClassifyAndGiveUp(g, code, providerCode)
    BY <1>2 DEF PreparationFails, PartUsageUnavailable, ConfirmationFails, ProviderFails,
                SavePartFails, MergeFails
  <2> QED
    BY <2>1, <2>2, ClassifyStutters
<1>3. CASE RestoreTranscript(g) \/ MarkReturned(g) \/ MergeParts(g) \/ SavePart(g)
  <2>1. Kept(g) /\ SameLease
    BY <1>3 DEF RestoreTranscript, MarkReturned, MergeParts, SavePart, At, Kept, SameLease, database
  <2>2. PICK step \in Step \ {"idle", "gone"} : Goto(g, step)
    BY <1>3 DEF RestoreTranscript, MarkReturned, MergeParts, SavePart, Step
  <2> QED
    BY <2>1, <2>2, GotoStutters
<1>4. CASE BeginPartUsage(g)
  <2>1. Kept(g) /\ SameLease
    BY <1>0, <1>4 DEF BeginPartUsage, At, Kept, SameLease, Job
  <2> QED
    BY <1>4, <2>1, GotoStutters DEF BeginPartUsage
<1>5. CASE StartProvider(g) \/ SendPart(g) \/ ConfirmPartUsage(g)
  <2>1. Kept(g)
    BY <1>5 DEF StartProvider, SendPart, ConfirmPartUsage, At, Kept
  <2>2. SameLease
    BY <1>0, <1>5 DEF StartProvider, SendPart, ConfirmPartUsage, SameLease, Job, database
  <2>3. /\ run'[g].step \notin {"idle", "gone"}
        /\ \A h \in Generations : h # g => run'[h].step = run[h].step
    BY <1>0, <1>5 DEF StartProvider, SendPart, ConfirmPartUsage, Run
  <2> QED
    BY <2>1, <2>2, <2>3, RunStutters DEF Kept
<1> QED
  BY <1>1, <1>2, <1>3, <1>4, <1>5 DEF Transcribe

LEMMA PersistImplements ==
  ASSUME TypeOK, NEW g \in Generations, PersistOutput(g)
  PROVE  Lifecycle!Next \/ UNCHANGED Lifecycle!vars
<1>0. job \in Job /\ run \in [Generations -> Run]
  BY DEF TypeOK
<1>1. Kept(g) /\ Authorized(g)
  BY DEF PersistOutput, At, Kept
<1>2. CASE UNCHANGED job /\ NextSource(g)
  <2>1. SameLease
    BY <1>2 DEF SameLease
  <2>2. run'[g].step = "source" /\ \A h \in Generations : h # g => run'[h].step = run[h].step
    BY <1>0, <1>2, NextSourceStays
  <2> QED
    BY <1>1, <2>1, <2>2, RunStutters DEF Kept
<1>3. CASE job' = Finish(job, "completed", "none") /\ End(g)
  <2>1. Handle' = Handle
    BY <1>1, <1>3, EndKeeps
  <2>2. Lifecycle!InProcessing /\ Lifecycle!ActiveOwner(g) /\ ~job.cancelRequested
    BY <1>1, ActiveIsOwner DEF Authorized
  <2>3. /\ job' \in Job /\ job'.status = "completed" /\ job'.error = "none"
        /\ job'.generation = job.generation /\ job'.attempts = job.attempts
        /\ ~job'.owned /\ ~job'.live
        /\ job'.cancelRequested = job.cancelRequested /\ job'.deferred = job.deferred
    BY <1>0, <1>3, FinishEffect DEF Status, ErrorCode
  <2>4. job'.live = FALSE
    BY <2>3 DEF Job
  <2>5. Lifecycle!CompleteProcessing(g)
    BY <2>1, <2>2, <2>3, <2>4 DEF Lifecycle!CompleteProcessing, Lifecycle!NoCancelPending,
                                  Lifecycle!InvalidateLease, Handle
  <2> QED
    BY <2>5 DEF Lifecycle!Next, Lifecycle!Work
<1> QED
  BY <1>2, <1>3 DEF PersistOutput

LEMMA DeliverImplements ==
  ASSUME TypeOK, NEW g \in Generations, Deliver(g)
  PROVE  Lifecycle!Next \/ UNCHANGED Lifecycle!vars
<1>0. job \in Job /\ run \in [Generations -> Run]
  BY DEF TypeOK
<1>1. CASE OutputRefused(g)
  <2>1. Kept(g) /\ JustGiveUp(g)
    BY <1>1 DEF OutputRefused, At, Kept
  <2> QED
    BY <2>1, JustGiveUpStutters
<1>2. CASE \/ CheckpointBeforeOutput(g) \/ HandOff(g) \/ OutputStageFails(g) \/ PrepareCase(g)
           \/ MarkCreated(g) \/ MarkCreatedFails(g) \/ MarkUncertain(g)
  <2>1. Kept(g)
    BY <1>2 DEF CheckpointBeforeOutput, HandOff, OutputStageFails, PrepareCase, MarkCreated,
                MarkCreatedFails, MarkUncertain, At, Kept
  <2>2. SameLease
    BY <1>2 DEF CheckpointBeforeOutput, HandOff, OutputStageFails, PrepareCase, MarkCreated,
                MarkCreatedFails, MarkUncertain, SameLease, database
  <2>3. PICK step \in Step \ {"idle", "gone"} : Goto(g, step)
    BY <1>2 DEF CheckpointBeforeOutput, HandOff, OutputStageFails, PrepareCase, MarkCreated,
                MarkCreatedFails, MarkUncertain, Step
  <2> QED
    BY <2>1, <2>2, <2>3, GotoStutters
<1>3. CASE CreateDocument(g)
  <2>1. Kept(g) /\ SameLease
    BY <1>3 DEF CreateDocument, At, Kept, SameLease, database
  <2>2. CASE GiveUp(g, "other")
    BY <1>0, <2>1, <2>2, GiveUpStays, RunStutters DEF Kept
  <2>3. CASE ~GiveUp(g, "other")
    <3>1. PICK step \in Step \ {"idle", "gone"} : Goto(g, step)
      BY <1>3, <2>3 DEF CreateDocument, Step
    <3> QED
      BY <2>1, <3>1, GotoStutters
  <2> QED
    BY <2>2, <2>3
<1>4. CASE OutputExists(g)
  <2>1. Kept(g)
    BY <1>4 DEF OutputExists, At, Kept
  <2>2. CASE Authorized(g)
    <3>1. NextSource(g) /\ SameLease
      BY <1>4, <2>2 DEF OutputExists, SameLease
    <3> QED
      BY <1>0, <2>1, <3>1, NextSourceStays, RunStutters DEF Kept
  <2>3. CASE ~Authorized(g) /\ Active(g)
    BY <1>4, <2>1, <2>3, AcknowledgeImplements DEF OutputExists, Lifecycle!Next, Lifecycle!Work
  <2>4. CASE ~Authorized(g) /\ ~Active(g)
    BY <1>4, <2>1, <2>4, LeaveAbandons DEF OutputExists, Lifecycle!Next, Lifecycle!Work
  <2> QED
    BY <2>2, <2>3, <2>4
<1>5. CASE PersistOutput(g)
  BY <1>5, PersistImplements
<1> QED
  BY <1>1, <1>2, <1>3, <1>4, <1>5 DEF Deliver


\* A run that fails its job: a terminal failure, or an automatic retry.
LEMMA FailJobImplements ==
  ASSUME TypeOK, NEW g \in Generations, Kept(g), Authorized(g), NEW error \in ErrorCode,
         FailJob(error), End(g)
  PROVE  Lifecycle!FailProcessing(g)
<1>1. Handle' = Handle
  BY EndKeeps
<1>2. Lifecycle!InProcessing /\ Lifecycle!ActiveOwner(g) /\ Lifecycle!NoCancelPending
  BY ActiveIsOwner DEF Authorized, Lifecycle!NoCancelPending
<1>3. job \in Job
  BY DEF TypeOK
<1>4. CASE job' = Finish(job, "failed", error)
  <2>1. /\ job' \in Job /\ job'.status = "failed"
        /\ job'.generation = job.generation /\ job'.attempts = job.attempts
        /\ ~job'.owned /\ ~job'.live
        /\ job'.cancelRequested = job.cancelRequested /\ job'.deferred = job.deferred
    BY <1>3, <1>4, FinishEffect DEF Status
  <2>2. job'.live = FALSE
    BY <2>1 DEF Job
  <2>3. (job'.error = "output_reconciliation_required") \in BOOLEAN
    OBVIOUS
  <2> QED
    BY <1>1, <1>2, <2>1, <2>2, <2>3 DEF Lifecycle!FailProcessing, Lifecycle!InvalidateLease, Handle
<1>5. CASE AutomaticRetryAllowed(error) /\ job' = Requeued(job, TRUE)
  <2> DEFINE later == TRUE
  <2>0. later \in BOOLEAN /\ job' = Requeued(job, later) /\ later = TRUE
    BY <1>5
  <2> HIDE DEF later
  <2>1. /\ job' \in Job /\ job'.status = "queued" /\ job'.error = "none"
        /\ job'.generation = job.generation /\ job'.attempts = job.attempts
        /\ ~job'.owned /\ ~job'.live
        /\ job'.cancelRequested = job.cancelRequested /\ job'.deferred = later
    BY <1>3, <2>0, RequeuedEffect
  <2>2. job'.live = FALSE
    BY <2>1 DEF Job
  <2>3. Lifecycle!AttemptsLeft
    BY <1>5 DEF AutomaticRetryAllowed, RetryAllowed, Lifecycle!AttemptsLeft
  <2>4. job'.deferred = TRUE
    BY <2>0, <2>1
  <2> QED
    BY <1>1, <1>2, <2>1, <2>2, <2>3, <2>4 DEF Lifecycle!FailProcessing, Lifecycle!InvalidateLease,
                                              Handle
<1> QED
  BY <1>4, <1>5 DEF FailJob

LEMMA ConcludeImplements ==
  ASSUME TypeOK, NEW g \in Generations, Conclude(g)
  PROVE  Lifecycle!Next \/ UNCHANGED Lifecycle!vars
<1>1. Kept(g)
  BY DEF Conclude, RecordUncertainty, FailSource, Abandon, At, Alive, Kept
<1>2. CASE RecordUncertainty(g)
  <2>1. "output_reconciliation_required" \in ErrorCode
    BY DEF ErrorCode
  <2>2. CASE Authorized(g)
    BY <1>1, <1>2, <2>1, <2>2, FailJobImplements DEF RecordUncertainty, Lifecycle!Next, Lifecycle!Work
  <2>3. CASE ~Authorized(g)
    BY <1>1, <1>2, <2>3, LeaveAbandons DEF RecordUncertainty, Lifecycle!Next, Lifecycle!Work
  <2> QED
    BY <2>2, <2>3
<1>3. CASE FailSource(g)
  <2>1. run[g].error \in ErrorCode
    BY DEF TypeOK, Run
  <2>2. CASE Authorized(g)
    BY <1>1, <1>3, <2>1, <2>2, FailJobImplements DEF FailSource, Lifecycle!Next, Lifecycle!Work
  <2>3. CASE ~Authorized(g) /\ Active(g)
    BY <1>1, <1>3, <2>3, AcknowledgeImplements DEF FailSource, Lifecycle!Next, Lifecycle!Work
  <2>4. CASE ~Authorized(g) /\ ~Active(g)
    BY <1>1, <1>3, <2>4, LeaveAbandons DEF FailSource, Lifecycle!Next, Lifecycle!Work
  <2> QED
    BY <2>2, <2>3, <2>4
<1>4. CASE Abandon(g)
  BY <1>1, <1>4, LeaveAbandons DEF Abandon, database, Lifecycle!Next, Lifecycle!Work
<1> QED
  BY <1>2, <1>3, <1>4 DEF Conclude

\* Recovery of an expired lease: the four outcomes the lifecycle allows.
LEMMA RecoverImplements ==
  ASSUME TypeOK, RecoverExpired
  PROVE  Lifecycle!RecoverExpired
<1>1. job \in Job /\ job.error \in ErrorCode /\ Handle' = Handle
  BY DEF TypeOK, Job, RecoverExpired, Handle
<1>2. Lifecycle!InProcessing /\ Lifecycle!LeaseExpired
  BY DEF RecoverExpired, Lifecycle!InProcessing, Lifecycle!LeaseExpired
<1>3. ASSUME NEW status \in Status, NEW error \in ErrorCode, job' = Finish(job, status, error)
      PROVE  /\ job'.status = status /\ job'.error = error
             /\ job'.generation = job.generation /\ job'.attempts = job.attempts
             /\ ~job'.owned /\ job'.live = FALSE
             /\ job'.cancelRequested = job.cancelRequested /\ job'.deferred = job.deferred
  <2>1. /\ job' \in Job /\ job'.status = status /\ job'.error = error
        /\ job'.generation = job.generation /\ job'.attempts = job.attempts
        /\ ~job'.owned /\ ~job'.live
        /\ job'.cancelRequested = job.cancelRequested /\ job'.deferred = job.deferred
    BY <1>1, <1>3, FinishEffect
  <2> QED
    BY <2>1 DEF Job
<1> USE <1>1, <1>2 DEF Lifecycle!RecoverExpired, Lifecycle!InvalidateLease, Handle
<1>4. CASE job.cancelRequested
  <2>1. job' = Finish(job, "cancelled", job.error)
    BY <1>4 DEF RecoverExpired
  <2>2. /\ job'.status = "cancelled" /\ job'.error = job.error
        /\ job'.generation = job.generation /\ job'.attempts = job.attempts
        /\ ~job'.owned /\ job'.live = FALSE
        /\ job'.cancelRequested = job.cancelRequested /\ job'.deferred = job.deferred
    BY <1>3, <2>1 DEF Status
  <2> QED
    BY <1>4, <2>2
<1>5. CASE ~job.cancelRequested
  <2>0. Lifecycle!NoCancelPending
    BY <1>5 DEF Lifecycle!NoCancelPending
  <2>1. CASE job' = Finish(job, "completed", "none")
    <3>1. /\ job'.status = "completed" /\ job'.error = "none"
          /\ job'.generation = job.generation /\ job'.attempts = job.attempts
          /\ ~job'.owned /\ job'.live = FALSE
          /\ job'.cancelRequested = job.cancelRequested /\ job'.deferred = job.deferred
      BY <1>3, <2>1 DEF Status, ErrorCode
    <3> QED
      BY <2>0, <3>1
  <2>2. CASE job' = Finish(job, "failed", RecoveryError)
    <3>1. RecoveryError \in ErrorCode
      BY DEF RecoveryError, ErrorCode
    <3>2. /\ job'.status = "failed"
          /\ job'.generation = job.generation /\ job'.attempts = job.attempts
          /\ ~job'.owned /\ job'.live = FALSE
          /\ job'.cancelRequested = job.cancelRequested /\ job'.deferred = job.deferred
      BY <1>3, <2>2, <3>1 DEF Status
    <3>3. (job'.error = "output_reconciliation_required") \in BOOLEAN
      OBVIOUS
    <3> QED
      BY <2>0, <3>2, <3>3
  <2>3. CASE RetryAllowed(FALSE, job.error) /\ job' = Requeued(job, FALSE)
    <3> DEFINE now == FALSE
    <3>0. now \in BOOLEAN /\ job' = Requeued(job, now) /\ now = FALSE
      BY <2>3
    <3> HIDE DEF now
    <3>1. /\ job' \in Job /\ job'.status = "queued" /\ job'.error = "none"
          /\ job'.generation = job.generation /\ job'.attempts = job.attempts
          /\ ~job'.owned /\ ~job'.live
          /\ job'.cancelRequested = job.cancelRequested /\ job'.deferred = now
      BY <3>0, RequeuedEffect
    <3>2. Lifecycle!AttemptsLeft
      BY <2>3 DEF RetryAllowed, Lifecycle!AttemptsLeft
    <3>3. job'.live = FALSE /\ job'.deferred = FALSE
      BY <3>0, <3>1 DEF Job
    <3> QED
      BY <2>0, <3>1, <3>2, <3>3
  <2> QED
    BY <1>5, <2>1, <2>2, <2>3 DEF RecoverExpired
<1> QED
  BY <1>4, <1>5

LEMMA RequestImplements ==
  ASSUME TypeOK, RequestCancellation
  PROVE  Lifecycle!RequestCancellation
<1>1. job \in Job /\ Handle' = Handle
  BY DEF TypeOK, RequestCancellation, Handle
<1>2. CASE /\ job.status = "queued"
           /\ job' = Finalized(Released([job EXCEPT !.status = "cancelled",
                                                    !.cancelRequested = FALSE]))
  <2> DEFINE j == [job EXCEPT !.status = "cancelled", !.cancelRequested = FALSE]
  <2>1. /\ j \in Job /\ j.status = "cancelled" /\ j.cancelRequested = FALSE
        /\ j.generation = job.generation /\ j.attempts = job.attempts
        /\ j.deferred = job.deferred /\ j.error = job.error
    BY <1>1 DEF Job, Status
  <2>2. job' = Finalized(Released(j))
    BY <1>2
  <2> HIDE DEF j
  <2>3. /\ job' \in Job /\ job'.status = "cancelled" /\ job'.cancelRequested = j.cancelRequested
        /\ job'.generation = job.generation /\ job'.attempts = job.attempts
        /\ job'.deferred = job.deferred /\ job'.error = job.error
        /\ ~job'.owned /\ ~job'.live
    BY <2>1, <2>2, ReleasedTyped, FinalizedTyped
  <2>4. job'.live = FALSE /\ job'.cancelRequested = FALSE
    BY <2>1, <2>3 DEF Job
  <2> QED
    BY <1>1, <1>2, <2>3, <2>4 DEF Lifecycle!RequestCancellation, Lifecycle!InvalidateLease, Handle
<1>3. CASE /\ job.status = "processing"
           /\ ~job.cancelRequested
           /\ job' = [job EXCEPT !.cancelRequested = TRUE]
  <2>1. /\ job'.status = job.status /\ job'.cancelRequested = TRUE
        /\ job'.generation = job.generation /\ job'.attempts = job.attempts
        /\ job'.deferred = job.deferred /\ job'.error = job.error
        /\ job'.owned = job.owned /\ job'.live = job.live
    BY <1>1, <1>3 DEF Job
  <2> QED
    BY <1>1, <1>3, <2>1 DEF Lifecycle!RequestCancellation, Lifecycle!KeepLease,
                            Lifecycle!InProcessing, Lifecycle!NoCancelPending, Handle
<1> QED
  BY <1>2, <1>3 DEF RequestCancellation

LEMMA RetryImplements ==
  ASSUME TypeOK, QueueRetry
  PROVE  Lifecycle!QueueRetry
<1>1. job \in Job /\ Handle' = Handle
  BY DEF TypeOK, QueueRetry, Handle
<1> DEFINE now == FALSE
<1>2. now \in BOOLEAN /\ job' = Requeued(job, now) /\ now = FALSE
  BY DEF QueueRetry
<1> HIDE DEF now
<1>3. /\ job' \in Job /\ job'.status = "queued" /\ job'.error = "none"
      /\ job'.generation = job.generation /\ job'.attempts = job.attempts
      /\ ~job'.owned /\ ~job'.live
      /\ job'.cancelRequested = job.cancelRequested /\ job'.deferred = now
  BY <1>1, <1>2, RequeuedEffect
<1>4. job'.live = FALSE /\ job'.deferred = FALSE
  BY <1>2, <1>3 DEF Job
<1>5. /\ job.status = "failed" /\ ~job.live /\ Lifecycle!NoCancelPending /\ Lifecycle!AttemptsLeft
  BY DEF QueueRetry, RetryAllowed, Lifecycle!NoCancelPending, Lifecycle!AttemptsLeft
<1> QED
  BY <1>1, <1>3, <1>4, <1>5 DEF Lifecycle!QueueRetry, Lifecycle!InvalidateLease, Handle

LEMMA ReconciliationImplements ==
  ASSUME TypeOK, CheckReconciliation
  PROVE  Lifecycle!CompleteByReconciliation \/ UNCHANGED Lifecycle!vars
<1>1. job \in Job /\ Handle' = Handle
  BY DEF TypeOK, CheckReconciliation, Handle
<1>2. CASE job' = job
  BY <1>1, <1>2, Stutters DEF SameLease
<1>3. CASE /\ job.status = "failed"
           /\ job.error = "output_reconciliation_required"
           /\ job' = Finalized([job EXCEPT !.status = "completed", !.error = "none"])
  <2> DEFINE j == [job EXCEPT !.status = "completed", !.error = "none"]
  <2>1. /\ j \in Job /\ j.status = "completed" /\ j.error = "none"
        /\ j.generation = job.generation /\ j.attempts = job.attempts
        /\ j.deferred = job.deferred /\ j.cancelRequested = job.cancelRequested
        /\ j.owned = job.owned /\ j.live = job.live
    BY <1>1 DEF Job, Status, ErrorCode
  <2>2. job' = Finalized(j)
    BY <1>3
  <2> HIDE DEF j
  <2>3. /\ job'.status = "completed" /\ job'.error = "none"
        /\ job'.generation = job.generation /\ job'.attempts = job.attempts
        /\ job'.deferred = job.deferred /\ job'.cancelRequested = job.cancelRequested
        /\ job'.owned = job.owned /\ job'.live = job.live
    BY <2>1, <2>2, FinalizedTyped
  <2> QED
    BY <1>1, <1>3, <2>3 DEF Lifecycle!CompleteByReconciliation, Handle
<1>4. \/ job' = job
      \/ /\ job.status = "failed"
         /\ job.error = "output_reconciliation_required"
         /\ job' = Finalized([job EXCEPT !.status = "completed", !.error = "none"])
  BY DEF CheckReconciliation
<1> QED
  BY <1>2, <1>3, <1>4

LEMMA EnvironmentImplements ==
  ASSUME TypeOK, Environment
  PROVE  Lifecycle!Next \/ UNCHANGED Lifecycle!vars
<1>0. job \in Job
  BY DEF TypeOK
<1>1. CASE RecoverExpired \/ RequestCancellation \/ QueueRetry \/ CheckReconciliation
  BY <1>1, RecoverImplements, RequestImplements, RetryImplements, ReconciliationImplements
     DEF Lifecycle!Next
<1>2. CASE ResolveAttention \/ CleanupCheckpoints
  <2>1. SameLease
    BY <1>0, <1>2 DEF ResolveAttention, CleanupCheckpoints, SameLease, Job
  <2>2. Handle' = Handle
    BY <1>2 DEF ResolveAttention, CleanupCheckpoints, Handle
  <2> QED
    BY <2>1, <2>2, Stutters
<1>3. CASE ExpireLease
  <2>1. Handle' = Handle
    BY <1>3 DEF ExpireLease, Handle
  <2>2. /\ job.live /\ job'.live = FALSE
        /\ job'.status = job.status /\ job'.cancelRequested = job.cancelRequested
        /\ job'.generation = job.generation /\ job'.attempts = job.attempts
        /\ job'.deferred = job.deferred /\ job'.error = job.error /\ job'.owned = job.owned
    BY <1>0, <1>3 DEF ExpireLease, Job
  <2>3. CASE Lifecycle!Held
    BY <2>1, <2>2, <2>3 DEF Lifecycle!ExpireHeldLease, Lifecycle!Next, Handle
  <2>4. CASE ~Lifecycle!Held
    BY <2>1, <2>2, <2>4 DEF Lifecycle!ExpireOrphanLease, Lifecycle!Next, Handle
  <2> QED
    BY <2>3, <2>4
<1>4. CASE BackoffElapses
  <2>1. Handle' = Handle
    BY <1>4 DEF BackoffElapses, Handle
  <2>2. /\ job.deferred /\ job'.deferred = FALSE
        /\ job'.status = job.status /\ job'.cancelRequested = job.cancelRequested
        /\ job'.generation = job.generation /\ job'.attempts = job.attempts
        /\ job'.live = job.live /\ job'.error = job.error /\ job'.owned = job.owned
    BY <1>0, <1>4 DEF BackoffElapses, Job
  <2> QED
    BY <2>1, <2>2 DEF Lifecycle!BackoffElapses, Lifecycle!Next, Handle
<1> QED
  BY <1>1, <1>2, <1>3, <1>4 DEF Environment

\* Every step of the pipeline is a step of the lifecycle or a stutter.
LEMMA NextImplements ==
  ASSUME TypeOK, [Next]_vars
  PROVE  [Lifecycle!Next]_(Lifecycle!vars)
<1>1. CASE UNCHANGED vars
  <2>1. SameLease /\ Handle' = Handle
    BY <1>1 DEF vars, database, SameLease, Handle
  <2> QED
    BY <2>1, Stutters
<1>2. CASE Next
  BY <1>2, BeginImplements, TranscribeImplements, DeliverImplements, ConcludeImplements,
     EnvironmentImplements DEF Next
<1> QED
  BY <1>1, <1>2

LEMMA InitImplements ==
  ASSUME Init
  PROVE  Lifecycle!Init
<1>1. Handle = [g \in Generations |-> 0]
  BY DEF Init, Handle
<1> QED
  BY <1>1 DEF Init, Lifecycle!Init, Handle

\* The pipeline implements the lifecycle: whatever the data of a job makes of
\* a run, its row goes through a behaviour JobLifecycle allows.
THEOREM ImplementsLifecycleHolds == Spec => ImplementsLifecycle
<1>1. Init => Lifecycle!Init
  BY InitImplements
<1>2. TypeOK /\ [Next]_vars => [Lifecycle!Next]_(Lifecycle!vars)
  BY NextImplements
<1> QED
  BY <1>1, <1>2, TypeCorrect, PTL DEF Spec, ImplementsLifecycle, Lifecycle!Spec


-----------------------------------------------------------------------------
(***************************************************************************)
(* What is proved of the lifecycle holds of the pipeline.                  *)
(***************************************************************************)

Promises == INSTANCE JobLifecycleProofs WITH
    Workers         <- Generations,
    NoWorker        <- 0,
    status          <- job.status,
    owner           <- IF job.owned THEN job.generation ELSE 0,
    generation      <- job.generation,
    leaseLive       <- job.live,
    cancelRequested <- job.cancelRequested,
    attempts        <- job.attempts,
    deferred        <- job.deferred,
    reconcilable    <- job.error = "output_reconciliation_required",
    handle          <- [g \in Generations |-> IF run[g].step \in {"idle", "gone"} THEN 0 ELSE g]

\* The two instances are the same specification.
LEMMA SameLifecycle == ImplementsLifecycle => Promises!Spec
<1>1. Lifecycle!Init => Promises!Init
  BY DEF Lifecycle!Init, Promises!Init
<1>2. Lifecycle!Next => Promises!Next
  BY DEF Lifecycle!Next, Promises!Next, Lifecycle!Claim, Promises!Claim,
         Lifecycle!BeginProcessing, Promises!BeginProcessing, Lifecycle!Work, Promises!Work,
         Lifecycle!AcknowledgeCancellation, Promises!AcknowledgeCancellation,
         Lifecycle!CompleteProcessing, Promises!CompleteProcessing,
         Lifecycle!FailProcessing, Promises!FailProcessing, Lifecycle!Abandon, Promises!Abandon,
         Lifecycle!RecoverExpired, Promises!RecoverExpired,
         Lifecycle!RequestCancellation, Promises!RequestCancellation,
         Lifecycle!QueueRetry, Promises!QueueRetry,
         Lifecycle!CompleteByReconciliation, Promises!CompleteByReconciliation,
         Lifecycle!ExpireHeldLease, Promises!ExpireHeldLease,
         Lifecycle!ExpireOrphanLease, Promises!ExpireOrphanLease,
         Lifecycle!BackoffElapses, Promises!BackoffElapses,
         Lifecycle!ActiveOwner, Promises!ActiveOwner,
         Lifecycle!InvalidateLease, Promises!InvalidateLease, Lifecycle!KeepLease, Promises!KeepLease,
         Lifecycle!NextGeneration, Promises!NextGeneration,
         Lifecycle!AttemptsLeft, Promises!AttemptsLeft, Lifecycle!InProcessing, Promises!InProcessing,
         Lifecycle!NoCancelPending, Promises!NoCancelPending,
         Lifecycle!LeaseExpired, Promises!LeaseExpired, Lifecycle!Held, Promises!Held
<1>3. UNCHANGED Lifecycle!vars => UNCHANGED Promises!vars
  BY DEF Lifecycle!vars, Promises!vars
<1>4. [Lifecycle!Next]_(Lifecycle!vars) => [Promises!Next]_(Promises!vars)
  BY <1>2, <1>3
<1> QED
  BY <1>1, <1>4, PTL DEF ImplementsLifecycle, Lifecycle!Spec, Promises!Spec

LEMMA LifecycleAssumptions ==
  /\ 0 \notin Generations
  /\ MaxAttempts \in Nat \ {0} /\ MaxGeneration \in Nat
  BY PipelineAssumption DEF Generations

\* However many runs work, stall or die over the data of a job, its attempts
\* stay within the budget, one claim starts at most one attempt, and a lease
\* handle is a fencing token.
THEOREM LeasesAreFenced == Spec => []Promises!LeaseInvariant
<1>1. Promises!Spec => []Promises!LeaseInvariant
  BY LifecycleAssumptions, Promises!LeaseInvariantHolds
<1> QED
  BY <1>1, SameLifecycle, ImplementsLifecycleHolds, PTL

\* Whatever the runs of the pipeline do after the owner asked to cancel, the
\* job ends cancelled.
THEOREM CancellationWinsOverRuns == Spec => Promises!CancellationWins
<1>1. Promises!Spec => Promises!CancellationWins
  BY LifecycleAssumptions, Promises!CancellationWinsHolds
<1> QED
  BY <1>1, SameLifecycle, ImplementsLifecycleHolds, PTL

\* No late write of the pipeline resurrects a job that is over.
THEOREM FinishedJobsStayFinished == Spec => Promises!FinishedStaysFinished
<1>1. Promises!Spec => Promises!FinishedStaysFinished
  BY LifecycleAssumptions, Promises!FinishedStaysFinishedHolds
<1> QED
  BY <1>1, SameLifecycle, ImplementsLifecycleHolds, PTL

-----------------------------------------------------------------------------
(***************************************************************************)
(* The account.  Between the reservation of a part and its confirmation the *)
(* account may be one call short; every other row that is not settled       *)
(* keeps the amount incomplete.                                            *)
(***************************************************************************)

Unsettled(row) == row.accounting \in {"pending", "uncertain"}

NoneUnsettled == \A s \in Sources, n \in Attempts : ~Unsettled(att[s][n])

\* A run between reservation and confirmation.
Sender(g) == run[g].step \in {"sending", "answered"}

\* The row such a run has reserved.
Excused(s, n) == n = job.attempts /\ \E g \in Generations : Sender(g) /\ Src(g) = s

OthersSettled == \A s \in Sources, n \in Attempts : Unsettled(att[s][n]) => Excused(s, n)

Booked == job.billed + (IF \E g \in Generations : InFlight(g) THEN 1 ELSE 0)

\* What is inductive together with PipelineInvariant.
Accounts ==
    /\ IsFiniteSet(BilledCalls)
    /\ job.accountingComplete => NoneUnsettled
    /\ \A g \in Generations : Sender(g) => Current(Src(g)).accounting = "pending"
    /\ OthersSettled => Cardinality(BilledCalls) = Booked

SameBooks == \A s \in Sources, n \in Attempts : att'[s][n].accounting = att[s][n].accounting

LEMMA SendersPay ==
  ASSUME PipelineInvariant, NEW g \in Generations, Sender(g)
  PROVE  /\ run[g].step \in Paying /\ job.generation = g
         /\ Src(g) \in Sources /\ job.attempts \in Attempts
<1>1. run[g].step \in Paying /\ run[g].step \in AtSource /\ run[g].step \notin Outside
  BY DEF Sender, Paying, AtSource, Outside
<1> QED
  BY <1>1 DEF PipelineInvariant, Local, Placed, Stuck

\* Unless a run reserves, calls or confirms, the account stays as it is: a run
\* that drops a reservation leaves a row that is not settled.
LEMMA AccountsKept ==
  ASSUME PipelineInvariant, PipelineInvariant', Accounts, calls' = calls, job'.billed = job.billed,
         \A s \in Sources, n \in Attempts : Unsettled(att'[s][n]) <=> Unsettled(att[s][n]),
         job'.accountingComplete => job.accountingComplete \/ NoneUnsettled,
         \A h \in Generations : Sender(h)' =>
            /\ run'[h] = run[h] /\ job'.attempts = job.attempts
            /\ att'[Src(h)][job.attempts].accounting = att[Src(h)][job.attempts].accounting
  PROVE  Accounts'
<1>1. BilledCalls' = BilledCalls
  BY DEF BilledCalls
<1>2. ASSUME NEW h \in Generations, Sender(h)'
      PROVE  Sender(h) /\ Src(h)' = Src(h) /\ (InFlight(h)' <=> InFlight(h))
  BY <1>2 DEF Sender, Src, InFlight, At
<1>3. ASSUME NEW h \in Generations, Sender(h)' PROVE Current(Src(h))'.accounting = "pending"
  BY <1>2, <1>3 DEF Accounts, Current
<1>4. job'.accountingComplete => NoneUnsettled'
  BY DEF Accounts, NoneUnsettled
<1>5. ASSUME OthersSettled' PROVE Cardinality(BilledCalls') = Booked'
  <2>1. OthersSettled
    <3> SUFFICES ASSUME NEW s \in Sources, NEW n \in Attempts, Unsettled(att[s][n])
                 PROVE  Excused(s, n)
      BY DEF OthersSettled
    <3>1. Excused(s, n)'
      BY <1>5 DEF OthersSettled
    <3>2. PICK h \in Generations : Sender(h)' /\ Src(h)' = s /\ n = job'.attempts
      BY <3>1 DEF Excused
    <3> QED
      BY <1>2, <3>2 DEF Excused
  <2>2. ASSUME NEW g \in Generations, InFlight(g) PROVE InFlight(g)'
    <3>1. Sender(g)
      BY <2>2 DEF InFlight, At, Sender
    <3>2. Src(g) \in Sources /\ job.attempts \in Attempts /\ job.generation = g
      BY <3>1, SendersPay
    <3>3. Unsettled(att[Src(g)][job.attempts])
      BY <3>1 DEF Accounts, Current, Unsettled
    <3>4. Unsettled(att'[Src(g)][job.attempts])
      BY <3>2, <3>3
    <3>5. PICK s \in Sources, n \in Attempts : s = Src(g) /\ n = job.attempts
      BY <3>2
    <3>6. Excused(s, n)'
      BY <1>5, <3>4, <3>5 DEF OthersSettled
    <3>7. PICK h \in Generations : Sender(h)'
      BY <3>6 DEF Excused
    <3>8. h = g
      BY <1>2, <3>2, <3>7, SendersPay
    <3> QED
      BY <1>2, <2>2, <3>7, <3>8
  <2>3. ASSUME NEW g \in Generations, InFlight(g)' PROVE InFlight(g)
    <3>1. Sender(g)'
      BY <2>3 DEF InFlight, At, Sender
    <3> QED
      BY <1>2, <2>3, <3>1
  <2>4. Booked' = Booked
    BY <2>2, <2>3 DEF Booked
  <2> QED
    BY <1>1, <2>1, <2>4 DEF Accounts
<1> QED
  BY <1>1, <1>3, <1>4, <1>5 DEF Accounts

\* One run moves, not to a call, and the rows keep their books.
LEMMA OneRunMoves ==
  ASSUME PipelineInvariant, PipelineInvariant', Accounts, NEW g \in Generations, Only(g),
         run'[g].step \notin {"sending", "answered"}, SameBooks, calls' = calls,
         job'.billed = job.billed, job'.attempts = job.attempts,
         job'.accountingComplete => job.accountingComplete \/ NoneUnsettled
  PROVE  Accounts'
<1>1. ASSUME NEW h \in Generations, Sender(h)'
      PROVE  /\ run'[h] = run[h]
             /\ att'[Src(h)][job.attempts].accounting = att[Src(h)][job.attempts].accounting
  <2>1. h # g /\ run'[h] = run[h] /\ Sender(h)
    BY <1>1 DEF Sender, Only
  <2>2. Src(h) \in Sources /\ job.attempts \in Attempts
    BY <2>1, SendersPay
  <2> QED
    BY <2>1, <2>2 DEF SameBooks
<1>2. \A s \in Sources, n \in Attempts : Unsettled(att'[s][n]) <=> Unsettled(att[s][n])
  BY DEF SameBooks, Unsettled
<1> QED
  BY <1>1, <1>2, AccountsKept

\* No run moves, and the rows keep their books.
LEMMA NoRunMoves ==
  ASSUME PipelineInvariant, PipelineInvariant', Accounts, run' = run, SameBooks, calls' = calls,
         job'.billed = job.billed, job'.attempts = job.attempts,
         job'.accountingComplete => job.accountingComplete \/ NoneUnsettled
  PROVE  Accounts'
<1>1. ASSUME NEW h \in Generations, Sender(h)'
      PROVE  att'[Src(h)][job.attempts].accounting = att[Src(h)][job.attempts].accounting
  <2>1. Sender(h)
    BY <1>1 DEF Sender
  <2>2. Src(h) \in Sources /\ job.attempts \in Attempts
    BY <2>1, SendersPay
  <2> QED
    BY <2>2 DEF SameBooks
<1>2. \A s \in Sources, n \in Attempts : Unsettled(att'[s][n]) <=> Unsettled(att[s][n])
  BY DEF SameBooks, Unsettled
<1> QED
  BY <1>1, <1>2, AccountsKept


\* What becomes of the amount when a job ends or returns to the queue.
SameAccount(j) ==
    /\ j.billed = job.billed /\ j.attempts = job.attempts
    /\ j.accountingComplete => job.accountingComplete \/ NoneUnsettled

LEMMA FinalizedAccount ==
  ASSUME NEW j \in Job, j.billed = job.billed, j.attempts = job.attempts
  PROVE  SameAccount(Finalized(j))
<1>1. ~UsageUncertain <=> NoneUnsettled
  BY DEF UsageUncertain, NoneUnsettled, Unsettled
<1>2. /\ Finalized(j).billed = j.billed /\ Finalized(j).attempts = j.attempts
      /\ Finalized(j).accountingComplete = ~UsageUncertain
  BY DEF Finalized, Job
<1> QED
  BY <1>1, <1>2 DEF SameAccount

LEMMA FinishAccount ==
  ASSUME job \in Job, NEW status \in Status, NEW error \in ErrorCode
  PROVE  SameAccount(Finish(job, status, error))
<1> DEFINE i == [job EXCEPT !.status = status, !.error = error]
<1>1. i \in Job /\ i.billed = job.billed /\ i.attempts = job.attempts
  BY DEF Job
<1>2. Finish(job, status, error) = Finalized(Released(i))
  BY DEF Finish
<1> HIDE DEF i
<1>3. Released(i) \in Job /\ Released(i).billed = i.billed /\ Released(i).attempts = i.attempts
  BY <1>1, ReleasedTyped DEF Released, Job
<1> QED
  BY <1>1, <1>2, <1>3, FinalizedAccount

LEMMA RequeuedAccount ==
  ASSUME job \in Job, NEW deferred \in BOOLEAN
  PROVE  SameAccount(Requeued(job, deferred))
<1> DEFINE i == [job EXCEPT !.status = "queued", !.error = "none", !.deferred = deferred]
<1>1. /\ i \in Job /\ i.billed = job.billed /\ i.attempts = job.attempts
      /\ i.accountingComplete = job.accountingComplete
  BY DEF Job, Status, ErrorCode
<1>2. Requeued(job, deferred) = Released(i)
  BY DEF Requeued
<1> HIDE DEF i
<1>3. /\ Released(i).billed = i.billed /\ Released(i).attempts = i.attempts
      /\ Released(i).accountingComplete = i.accountingComplete
  BY <1>1 DEF Released, Job
<1> QED
  BY <1>1, <1>2, <1>3 DEF SameAccount

\* Only reservation, confirmation and classification write the usage of a row.
LEMMA RowsKeepUsage ==
  ASSUME NEW row \in Row, NEW n
  PROVE  /\ StartedRow(row, n).accounting = row.accounting
         /\ PartCompletedRow(row, n).accounting = row.accounting
         /\ ReturnedRow(row).accounting = row.accounting
         /\ HandedOffRow(row).accounting = row.accounting
         /\ CompletedRow(row).accounting = row.accounting
         /\ OutputUncertainRow(row).accounting = row.accounting
  BY DEF StartedRow, PartCompletedRow, ReturnedRow, HandedOffRow, CompletedRow,
         OutputUncertainRow, Row

LEMMA ClassifiedUsage ==
  ASSUME NEW row \in Row, NEW code, NEW providerCode
  PROVE  LET r == ClassifiedRow(UsageUncertainRow(row), code, providerCode)
         IN  r.accounting = UsageUncertainRow(row).accounting
<1> DEFINE u == UsageUncertainRow(row)
<1>1. u \in Row
  BY UsageUncertainEffect
<1> HIDE DEF u
<1>2. ClassifiedRow(u, code, providerCode).accounting = u.accounting
  BY <1>1 DEF ClassifiedRow, Row
<1> QED
  BY <1>2 DEF u

LEMMA RowsRead ==
  ASSUME PipelineInvariant, NEW s \in Sources, job.attempts \in Attempts, NEW row, SetRow(s, row)
  PROVE  /\ att'[s][job.attempts] = row
         /\ \A n \in Attempts : n # job.attempts => att'[s][n] = att[s][n]
         /\ \A t \in Sources : t # s => att'[t] = att[t]
<1> DEFINE rows == [att[s] EXCEPT ![job.attempts] = row]
<1>1. att \in [Sources -> [Attempts -> Row]]
  BY DEF PipelineInvariant, TypeOK
<1>2. /\ rows[job.attempts] = row
      /\ \A n \in Attempts : n # job.attempts => rows[n] = att[s][n]
  BY <1>1
<1>3. att' = [att EXCEPT ![s] = rows]
  BY DEF SetRow
<1> HIDE DEF rows
<1> QED
  BY <1>1, <1>2, <1>3

LEMMA RowBooks ==
  ASSUME PipelineInvariant, NEW s \in Sources, job.attempts \in Attempts, NEW row,
         SetRow(s, row), row.accounting = Current(s).accounting
  PROVE  SameBooks
  BY RowsRead DEF SameBooks, Current

\* Where a run with a source stands.
LEMMA Standing ==
  ASSUME PipelineInvariant, NEW g \in Generations, run[g].step \in AtSource
  PROVE  /\ Src(g) \in Sources
         /\ run[g].step # "source" => job.attempts \in Attempts /\ Current(Src(g)) \in Row
<1>1. Src(g) \in Sources /\ job.attempts \in Attempts
  BY DEF PipelineInvariant, Local, Placed, AtSource, Outside, Paying, Received
<1> QED
  BY <1>1, CurrentTyped DEF PipelineInvariant

\* A classification: usage still pending becomes uncertain, and the amount
\* incomplete.
LEMMA ClassifyAccounts ==
  ASSUME PipelineInvariant, PipelineInvariant', Accounts, NEW g \in Generations,
         run[g].step \in AtSource \ {"source"}, NEW code, NEW providerCode,
         ClassifyAndGiveUp(g, code, providerCode)
  PROVE  Accounts'
<1>1. /\ run \in [Generations -> Run] /\ job \in Job /\ Src(g) \in Sources
      /\ job.attempts \in Attempts /\ Current(Src(g)) \in Row
  BY Standing DEF PipelineInvariant, TypeOK
<1>2. GiveUp(g, "other") /\ calls' = calls /\ "other" \in ErrorCode
  BY DEF ClassifyAndGiveUp, world, ErrorCode
<1>3. Only(g) /\ run'[g].step = "failing"
  BY <1>1, <1>2, GiveUpEffect DEF Only
<1>4. CASE ~Authorized(g)
  BY <1>2, <1>3, <1>4, OneRunMoves DEF ClassifyAndGiveUp, SameBooks
<1>5. CASE Authorized(g)
  <2> DEFINE row == ClassifiedRow(UsageUncertainRow(Current(Src(g))), code, providerCode)
  <2>1. SetRow(Src(g), row)
    BY <1>5 DEF ClassifyAndGiveUp
  <2>2. Unsettled(row) <=> Unsettled(Current(Src(g)))
    <3>1. row.accounting = UsageUncertainRow(Current(Src(g))).accounting
      BY <1>1, ClassifiedUsage
    <3>2. Unsettled(UsageUncertainRow(Current(Src(g)))) <=> Unsettled(Current(Src(g)))
      BY <1>1 DEF Unsettled, UsageUncertainRow, Row
    <3> QED
      BY <3>1, <3>2 DEF Unsettled
  <2> HIDE DEF row
  <2>3. \A s \in Sources, n \in Attempts : Unsettled(att'[s][n]) <=> Unsettled(att[s][n])
    BY <1>1, <2>1, <2>2, RowsRead DEF Current
  <2>4. /\ job'.billed = job.billed /\ job'.attempts = job.attempts
        /\ job'.accountingComplete => job.accountingComplete
    BY <1>1, <1>5 DEF ClassifyAndGiveUp, Job
  <2>5. ASSUME NEW h \in Generations, Sender(h)' PROVE FALSE
    <3>1. h # g /\ Sender(h)
      BY <1>3, <2>5 DEF Sender, Only
    <3>2. job.generation = g
      BY <1>5, WorkingNow DEF Working
    <3> QED
      BY <3>1, <3>2, SendersPay
  <2> QED
    BY <1>2, <2>3, <2>4, <2>5, AccountsKept
<1> QED
  BY <1>4, <1>5


LEMMA RunWrites ==
  ASSUME PipelineInvariant, NEW g \in Generations
  PROVE  /\ \A step : Goto(g, step) => Only(g) /\ run'[g].step = step
         /\ \A step : Forget(g, step) => Only(g) /\ run'[g].step = step
         /\ NextSource(g) => Only(g) /\ run'[g].step = "source"
         /\ \A error : GiveUp(g, error) => Only(g) /\ run'[g].step = "failing"
<1>1. run \in [Generations -> Run] /\ run[g] \in Run
  BY DEF PipelineInvariant, TypeOK
<1>2. ASSUME NEW error, GiveUp(g, error) PROVE Only(g) /\ run'[g].step = "failing"
  <2> DEFINE r == [[run[g] EXCEPT !.step = "failing"] EXCEPT !.error = error]
  <2>1. r.step = "failing"
    BY <1>1 DEF Run
  <2>2. run' = [run EXCEPT ![g] = r]
    BY <1>2 DEF GiveUp
  <2> HIDE DEF r
  <2> QED
    BY <1>1, <2>1, <2>2 DEF Only
<1>3. ASSUME NEW step, Goto(g, step) PROVE Only(g) /\ run'[g].step = step
  BY <1>1, <1>3 DEF Goto, Run, Only
<1>4. ASSUME NEW step, Forget(g, step) PROVE Only(g) /\ run'[g].step = step
  BY <1>1, <1>4 DEF Forget, Only
<1>5. NextSource(g) => Only(g) /\ run'[g].step = "source"
  BY <1>1 DEF NextSource, Only
<1> QED
  BY <1>2, <1>3, <1>4, <1>5

\* A run that moves alone, or writes a row of the ledger but not its usage.
LEMMA JobStays ==
  ASSUME job' = job
  PROVE  SameAccount(job')
  BY DEF SameAccount

LEMMA BeginAccounts ==
  ASSUME PipelineInvariant, PipelineInvariant', Accounts, NEW g \in Generations, Begin(g)
  PROVE  Accounts'
<1>0. job \in Job /\ run \in [Generations -> Run] /\ att \in [Sources -> [Attempts -> Row]]
  BY DEF PipelineInvariant, TypeOK
<1>1. CASE Claim(g)
  <2>1. /\ job'.billed = job.billed /\ job'.attempts = job.attempts
        /\ job'.accountingComplete = job.accountingComplete
    BY <1>0, <1>1 DEF Claim, Job
  <2>2. Only(g) /\ run'[g].step = "claimed" /\ att' = att /\ calls' = calls
    BY <1>1, RunWrites DEF Claim, world
  <2> QED
    BY <2>1, <2>2, OneRunMoves DEF SameBooks
<1>2. CASE Enter(g)
  <2>1. att' = att /\ calls' = calls /\ Only(g) /\ run'[g].step \in {"preparing", "gone"}
    BY <1>2, RunWrites DEF Enter, Leave, world
  <2>2. CASE job' = job
    BY <2>1, <2>2, OneRunMoves DEF SameBooks
  <2>3. CASE job' # job
    <3>1. /\ job.generation = g
          /\ job' = [job EXCEPT !.status = "processing", !.attempts = @ + 1,
                                !.error = "none", !.deferred = FALSE]
      BY <1>2, <2>3 DEF Enter
    <3>2. job'.billed = job.billed /\ job'.accountingComplete = job.accountingComplete
      BY <1>0, <3>1 DEF Job
    <3>3. ASSUME NEW h \in Generations, Sender(h)' PROVE FALSE
      <4>1. h # g /\ Sender(h)
        BY <2>1, <3>3 DEF Sender, Only
      <4> QED
        BY <3>1, <4>1, SendersPay
    <3> QED
      BY <2>1, <3>2, <3>3, AccountsKept
  <2> QED
    BY <2>2, <2>3
<1>3. CASE PrepareAttempts(g)
  <2>1. Only(g) /\ run'[g].step \in {"recording", "source"} /\ calls' = calls /\ job' = job
    <3>1. CASE Goto(g, "recording")
      BY <1>3, <3>1, RunWrites DEF PrepareAttempts, world
    <3>2. CASE run' = [run EXCEPT ![g].step = "source", ![g].source = 1]
      <4> DEFINE r == [[run[g] EXCEPT !.step = "source"] EXCEPT !.source = 1]
      <4>1. r.step = "source"
        BY <1>0 DEF Run
      <4>2. run' = [run EXCEPT ![g] = r]
        BY <1>0, <3>2
      <4> HIDE DEF r
      <4> QED
        BY <1>0, <1>3, <4>1, <4>2 DEF PrepareAttempts, Only, world
    <3> QED
      BY <1>3, <3>1, <3>2 DEF PrepareAttempts
  <2>2. SameBooks
    <3>1. At(g, "preparing") /\ Working(g) /\ Placed(g)
      BY <1>3, WorkingNow DEF PrepareAttempts, PipelineInvariant, Local
    <3>2. \A s \in Sources : att[s][job.attempts].accounting = "none"
      BY <3>1 DEF Placed, Current, NoRow
    <3>3. CASE att' = att
      BY <3>3 DEF SameBooks
    <3>4. CASE att' = [s \in Sources |-> IF s \in Missing
                                         THEN [att[s] EXCEPT ![job.attempts] = PreparedRow]
                                         ELSE att[s]]
      <4>1. PreparedRow.accounting = "none"
        BY DEF PreparedRow, NoRow
      <4> SUFFICES ASSUME NEW s \in Sources, NEW n \in Attempts
                   PROVE  att'[s][n].accounting = att[s][n].accounting
        BY DEF SameBooks
      <4> DEFINE row == PreparedRow
                 rows == [att[s] EXCEPT ![job.attempts] = row]
      <4>2. att'[s] = rows \/ att'[s] = att[s]
        BY <3>4
      <4>3. row.accounting = "none"
        BY <4>1
      <4> HIDE DEF row
      <4> QED
        BY <1>0, <3>2, <4>2, <4>3
    <3> QED
      BY <1>3, <3>3, <3>4 DEF PrepareAttempts
  <2> QED
    BY <2>1, <2>2, OneRunMoves
<1>4. CASE PrepareFails(g)
  BY <1>4, RunWrites, OneRunMoves DEF PrepareFails, database, world, SameBooks
<1>5. CASE StopAtCheckpoint(g)
  <2>1. Only(g) /\ run'[g].step \in {"ended", "gone"} /\ att' = att /\ calls' = calls
    BY <1>5, RunWrites DEF StopAtCheckpoint, End, Leave, world
  <2>2. SameAccount(job')
    <3>1. job' = Finish(job, "cancelled", job.error) \/ job' = job
      BY <1>5 DEF StopAtCheckpoint, Acknowledge
    <3> QED
      BY <1>0, <3>1, FinishAccount, JobStays DEF Status, Job
  <2> QED
    BY <2>1, <2>2, OneRunMoves DEF SameAccount, SameBooks
<1>6. CASE BeginSource(g)
  <2>1. /\ UNCHANGED <<database, world>> /\ att' = att /\ calls' = calls /\ job' = job
        /\ \/ NextSource(g) \/ Goto(g, "transcribing") \/ Goto(g, "recording")
           \/ GiveUp(g, "other")
    BY <1>6 DEF BeginSource, database, world
  <2>2. Only(g) /\ run'[g].step \in {"source", "transcribing", "recording", "failing"}
    BY <2>1, RunWrites
  <2> QED
    BY <2>1, <2>2, OneRunMoves DEF SameBooks
<1> QED
  BY <1>1, <1>2, <1>3, <1>4, <1>5, <1>6 DEF Begin


\* A run that pays pays alone.
LEMMA LoneSender ==
  ASSUME PipelineInvariant, NEW g \in Generations, job.generation = g, Only(g)
  PROVE  /\ \A h \in Generations : Sender(h) => h = g
         /\ \A h \in Generations : Sender(h)' => h = g
         /\ \A h \in Generations : InFlight(h) => h = g
         /\ \A h \in Generations : InFlight(h)' => h = g
<1>1. ASSUME NEW h \in Generations, Sender(h) PROVE h = g
  BY <1>1, SendersPay
<1>2. ASSUME NEW h \in Generations, Sender(h)' PROVE h = g
  BY <1>1, <1>2 DEF Only, Sender
<1>3. \A h \in Generations : InFlight(h) => Sender(h)
  BY DEF InFlight, Sender, At
<1>4. \A h \in Generations : InFlight(h)' => Sender(h)'
  BY DEF InFlight, Sender, At
<1> QED
  BY <1>1, <1>2, <1>3, <1>4

LEMMA ReserveAccounts ==
  ASSUME PipelineInvariant, PipelineInvariant', Accounts, NEW g \in Generations, BeginPartUsage(g)
  PROVE  Accounts'
<1> DEFINE row == [Current(Src(g)) EXCEPT !.accounting = "pending"]
<1>1. /\ At(g, "billing") /\ run[g].step \in AtSource \ {"source"} /\ job.generation = g
      /\ SetRow(Src(g), row) /\ Goto(g, "sending") /\ ~Unsettled(Current(Src(g)))
      /\ job' = [job EXCEPT !.accountingComplete = FALSE] /\ calls' = calls
  BY WorkingNow DEF BeginPartUsage, At, AtSource, Paying, Working, Unsettled, world
<1>2. /\ Src(g) \in Sources /\ job.attempts \in Attempts /\ Current(Src(g)) \in Row
      /\ job \in Job /\ run \in [Generations -> Run]
  BY <1>1, Standing DEF PipelineInvariant, TypeOK
<1>3. /\ Only(g) /\ run'[g].step = "sending" /\ Src(g)' = Src(g)
  BY <1>1, <1>2, GotoEffect DEF Only, Src, Step
<1>4. row.accounting = "pending"
  BY <1>2 DEF Row
<1> HIDE DEF row
<1>5. /\ job'.billed = job.billed /\ job'.attempts = job.attempts /\ ~job'.accountingComplete
  <2> DEFINE no == FALSE
  <2>1. job' = [job EXCEPT !.accountingComplete = no] /\ ~no
    BY <1>1
  <2> HIDE DEF no
  <2> QED
    BY <1>2, <2>1 DEF Job
<1>6. /\ att'[Src(g)][job.attempts] = row
      /\ \A s \in Sources, n \in Attempts :
            s # Src(g) \/ n # job.attempts => att'[s][n] = att[s][n]
  BY <1>1, <1>2, RowsRead
<1>7. \A h \in Generations : ~InFlight(h) /\ ~InFlight(h)'
  BY <1>1, <1>3, LoneSender DEF InFlight, At
<1>8. ASSUME NEW h \in Generations, Sender(h)' PROVE Current(Src(h))'.accounting = "pending"
  BY <1>1, <1>3, <1>4, <1>5, <1>6, <1>8, LoneSender DEF Current
<1>9. ASSUME OthersSettled' PROVE OthersSettled
  <2> SUFFICES ASSUME NEW s \in Sources, NEW n \in Attempts, Unsettled(att[s][n]) PROVE FALSE
    BY DEF OthersSettled
  <2>1. s # Src(g) \/ n # job.attempts
    BY <1>1 DEF Current
  <2>2. Unsettled(att'[s][n])
    BY <1>6, <2>1
  <2>3. Excused(s, n)'
    BY <1>9, <2>2 DEF OthersSettled
  <2> QED
    BY <1>1, <1>3, <1>5, <2>1, <2>3, LoneSender DEF Excused
<1>10. BilledCalls' = BilledCalls /\ Booked' = Booked
  BY <1>1, <1>5, <1>7 DEF BilledCalls, Booked
<1> QED
  BY <1>5, <1>8, <1>9, <1>10 DEF Accounts

\* The calls counted by c.
CallSet(c) == UNION {{<<s, p, n>> : n \in 1..c[s][p]} : s \in Sources, p \in PartIndexes}

LEMMA CallMembers ==
  ASSUME NEW c
  PROVE  \A x : x \in CallSet(c)
                   <=> \E t \in Sources, q \in PartIndexes : \E n \in 1..c[t][q] : x = <<t, q, n>>
<1> DEFINE C(t, q) == {<<t, q, n>> : n \in 1..c[t][q]}
           All == {C(t, q) : t \in Sources, q \in PartIndexes}
<1>1. \A t, q, x : x \in C(t, q) <=> \E n \in 1..c[t][q] : x = <<t, q, n>>
  OBVIOUS
<1> HIDE DEF C
<1>2. \A b : b \in All <=> \E t \in Sources, q \in PartIndexes : b = C(t, q)
  OBVIOUS
<1> HIDE DEF All
<1>3. \A x : x \in UNION All <=> \E b \in All : x \in b
  OBVIOUS
<1>4. \A x : x \in UNION All <=> \E t \in Sources, q \in PartIndexes : x \in C(t, q)
  BY <1>2, <1>3
<1>5. ASSUME NEW x \in UNION All
      PROVE  \E t \in Sources, q \in PartIndexes : \E n \in 1..c[t][q] : x = <<t, q, n>>
  <2>1. PICK t \in Sources, q \in PartIndexes : x \in C(t, q)
    BY <1>4
  <2> QED
    BY <1>1, <2>1
<1>6. ASSUME NEW t \in Sources, NEW q \in PartIndexes, NEW n \in 1..c[t][q]
      PROVE  <<t, q, n>> \in UNION All
  <2>1. <<t, q, n>> \in C(t, q)
    BY <1>1
  <2> QED
    BY <1>4, <2>1
<1>7. \A x : x \in UNION All
                <=> \E t \in Sources, q \in PartIndexes : \E n \in 1..c[t][q] : x = <<t, q, n>>
  BY <1>5, <1>6
<1> QED
  BY <1>7 DEF All, C, CallSet

LEMMA OneMoreCall ==
  ASSUME calls \in [Sources -> [PartIndexes -> Nat]], NEW s \in Sources, NEW p \in PartIndexes,
         calls' = [calls EXCEPT ![s][p] = @ + 1]
  PROVE  LET call == <<s, p, calls[s][p] + 1>>
         IN  BilledCalls' = BilledCalls \cup {call} /\ call \notin BilledCalls
<1> DEFINE k == calls[s][p]
           row == [calls[s] EXCEPT ![p] = k + 1]
<1>1. /\ row[p] = k + 1 /\ \A q \in PartIndexes : q # p => row[q] = calls[s][q]
  OBVIOUS
<1>2. calls' = [calls EXCEPT ![s] = row]
  OBVIOUS
<1> HIDE DEF row
<1>3. /\ calls'[s][p] = k + 1
      /\ \A t \in Sources, q \in PartIndexes : t # s \/ q # p => calls'[t][q] = calls[t][q]
  BY <1>1, <1>2
<1>4. /\ k + 1 \in 1..(k + 1) /\ k + 1 \notin 1..k
      /\ \A n \in 1..(k + 1) : n \in 1..k \/ n = k + 1
      /\ \A n \in 1..k : n \in 1..(k + 1)
  <2>1. k \in Nat
    OBVIOUS
  <2> HIDE DEF k
  <2> QED
    BY <2>1
<1>5. \A x : x \in BilledCalls <=>
               \E t \in Sources, q \in PartIndexes : \E n \in 1..calls[t][q] : x = <<t, q, n>>
  <2>1. BilledCalls = CallSet(calls)
    BY DEF BilledCalls, CallSet
  <2> QED
    BY <2>1, CallMembers
<1>6. \A x : x \in BilledCalls' <=>
               \E t \in Sources, q \in PartIndexes : \E n \in 1..calls'[t][q] : x = <<t, q, n>>
  <2> DEFINE c == calls'
  <2>1. BilledCalls' = CallSet(c)
    BY DEF BilledCalls, CallSet
  <2> HIDE DEF c
  <2>2. \A x : x \in BilledCalls' <=>
                \E t \in Sources, q \in PartIndexes : \E n \in 1..c[t][q] : x = <<t, q, n>>
    BY <2>1, CallMembers
  <2> QED
    BY <2>2 DEF c
<1> DEFINE call == <<s, p, k + 1>>
<1>7. call \notin BilledCalls
  BY <1>4, <1>5
<1>8. call \in BilledCalls'
  BY <1>3, <1>4, <1>6
<1>9. ASSUME NEW x \in BilledCalls PROVE x \in BilledCalls'
  <2>1. PICK t \in Sources, q \in PartIndexes : \E n \in 1..calls[t][q] : x = <<t, q, n>>
    BY <1>5
  <2>2. PICK n \in 1..calls[t][q] : x = <<t, q, n>>
    BY <2>1
  <2>3. n \in 1..calls'[t][q]
    BY <1>3, <1>4
  <2> QED
    BY <1>6, <2>2, <2>3
<1>10. ASSUME NEW x \in BilledCalls' PROVE x \in BilledCalls \/ x = call
  <2>1. PICK t \in Sources, q \in PartIndexes : \E n \in 1..calls'[t][q] : x = <<t, q, n>>
    BY <1>6
  <2>2. PICK n \in 1..calls'[t][q] : x = <<t, q, n>>
    BY <2>1
  <2>3. n \in 1..calls[t][q] \/ (t = s /\ q = p /\ n = k + 1)
    BY <1>3, <1>4
  <2> QED
    BY <1>5, <2>2, <2>3
<1>11. BilledCalls' = BilledCalls \cup {call}
  BY <1>8, <1>9, <1>10
<1> QED
  BY <1>7, <1>11


LEMMA SendAccounts ==
  ASSUME PipelineInvariant, PipelineInvariant', Accounts, NEW g \in Generations, SendPart(g)
  PROVE  Accounts'
<1> DEFINE part == run[g].held + 1
<1>1. PICK answer \in Answer \ {"none"} :
         /\ run' = [run EXCEPT ![g].step = "answered", ![g].answer = answer]
         /\ calls' = IF answer \in ProviderRejections THEN calls
                     ELSE [calls EXCEPT ![Src(g)][part] = @ + 1]
  BY DEF SendPart
<1>2. /\ run[g].step = "sending" /\ Sender(g) /\ ~At(g, "answered")
      /\ job' = job /\ att' = att /\ run \in [Generations -> Run] /\ run[g] \in Run
      /\ calls \in [Sources -> [PartIndexes -> Nat]] /\ job \in Job
  BY DEF SendPart, At, Sender, database, PipelineInvariant, TypeOK
<1>3. job.generation = g /\ Src(g) \in Sources /\ job.attempts \in Attempts
  BY <1>2, SendersPay
<1>4. Only(g) /\ run'[g].step = "answered" /\ run'[g].answer = answer /\ Src(g)' = Src(g)
  <2> DEFINE r == [[run[g] EXCEPT !.step = "answered"] EXCEPT !.answer = answer]
  <2>1. r.step = "answered" /\ r.answer = answer /\ r.source = run[g].source
    BY <1>2 DEF Run
  <2>2. run' = [run EXCEPT ![g] = r]
    BY <1>1
  <2> HIDE DEF r
  <2> QED
    BY <1>2, <2>1, <2>2 DEF Only, Src
<1>5. part \in PartIndexes
  <2>1. run[g].held < Parts /\ run[g].held \in 0..Parts
    BY <1>2 DEF PipelineInvariant, Local, Placed, Run
  <2> QED
    BY <2>1, Ranges DEF PartIndexes
<1>6. /\ Sender(g)' /\ (InFlight(g)' <=> answer \notin ProviderRejections)
      /\ \A h \in Generations : ~InFlight(h) /\ (InFlight(h)' => h = g)
      /\ \A h \in Generations : Sender(h) <=> h = g
      /\ \A h \in Generations : Sender(h)' <=> h = g
  BY <1>2, <1>3, <1>4, LoneSender DEF InFlight, Sender, At
<1>7. OthersSettled' => OthersSettled
  BY <1>2, <1>4, <1>6 DEF OthersSettled, Excused
<1>8. \A h \in Generations : Sender(h)' => Current(Src(h))'.accounting = "pending"
  BY <1>2, <1>4, <1>6 DEF Accounts, Current
<1>9. CASE answer \in ProviderRejections
  <2>1. BilledCalls' = BilledCalls /\ Booked' = Booked
    BY <1>1, <1>2, <1>6, <1>9 DEF BilledCalls, Booked
  <2> QED
    BY <1>2, <1>7, <1>8, <2>1 DEF Accounts, NoneUnsettled
<1>10. CASE answer \notin ProviderRejections
  <2> DEFINE call == <<Src(g), part, calls[Src(g)][part] + 1>>
  <2>1. PICK s \in Sources, p \in PartIndexes : s = Src(g) /\ p = part
    BY <1>3, <1>5
  <2>2. calls' = [calls EXCEPT ![s][p] = @ + 1]
    BY <1>1, <1>10, <2>1
  <2>3. BilledCalls' = BilledCalls \cup {call} /\ call \notin BilledCalls
    BY <1>2, <2>1, <2>2, OneMoreCall
  <2> HIDE DEF call
  <2>4. IsFiniteSet(BilledCalls') /\ Cardinality(BilledCalls') = Cardinality(BilledCalls) + 1
    BY <2>3, FS_AddElement DEF Accounts
  <2>5. Booked = job.billed /\ Booked' = job.billed + 1
    BY <1>2, <1>6, <1>10 DEF Booked, Job
  <2> QED
    BY <1>2, <1>7, <1>8, <2>4, <2>5 DEF Accounts, NoneUnsettled
<1> QED
  BY <1>9, <1>10

LEMMA ConfirmAccounts ==
  ASSUME PipelineInvariant, PipelineInvariant', Accounts, NEW g \in Generations, ConfirmPartUsage(g)
  PROVE  Accounts'
<1> DEFINE row == [Current(Src(g)) EXCEPT !.accounting = "confirmed"]
<1>1. /\ At(g, "answered") /\ run[g].answer = "ok" /\ SetRow(Src(g), row) /\ job.generation = g
      /\ run' = [run EXCEPT ![g].step = "checkpointing", ![g].held = @ + 1, ![g].answer = "none"]
      /\ job' = [job EXCEPT !.billed = @ + 1, !.accountingComplete = FALSE]
      /\ calls' = calls /\ Sender(g)
  BY WorkingNow DEF ConfirmPartUsage, At, Sender, Working, world
<1>2. /\ Src(g) \in Sources /\ job.attempts \in Attempts /\ Current(Src(g)) \in Row
      /\ job \in Job /\ run \in [Generations -> Run] /\ run[g] \in Run
  BY <1>1, SendersPay, CurrentTyped DEF PipelineInvariant, TypeOK
<1>3. Only(g) /\ run'[g].step = "checkpointing"
  <2> DEFINE n == run[g].held + 1
             r == [[[run[g] EXCEPT !.step = "checkpointing"] EXCEPT !.held = n] EXCEPT !.answer = "none"]
  <2>1. r.step = "checkpointing"
    BY <1>2 DEF Run
  <2>2. [run[g] EXCEPT !.step = "checkpointing"].held = run[g].held
    BY <1>2 DEF Run
  <2>3. run' = [run EXCEPT ![g] = r]
    BY <1>1, <1>2, <2>2
  <2> HIDE DEF r
  <2> QED
    BY <1>2, <2>1, <2>3 DEF Only
<1>4. row.accounting = "confirmed"
  BY <1>2 DEF Row
<1> HIDE DEF row
<1>5. /\ job'.billed = job.billed + 1 /\ job'.attempts = job.attempts /\ ~job'.accountingComplete
      /\ job.billed \in Nat
  <2> DEFINE no == FALSE
             n == job.billed + 1
  <2>1. job' = [job EXCEPT !.billed = n, !.accountingComplete = no] /\ ~no
    BY <1>1
  <2> HIDE DEF no, n
  <2>2. job'.billed = n /\ job'.attempts = job.attempts /\ ~job'.accountingComplete
    BY <1>2, <2>1 DEF Job
  <2> QED
    BY <1>2, <2>2 DEF n, Job
<1>6. /\ att'[Src(g)][job.attempts] = row
      /\ \A s \in Sources, n \in Attempts :
            s # Src(g) \/ n # job.attempts => att'[s][n] = att[s][n]
  BY <1>1, <1>2, RowsRead
<1>7. InFlight(g)
  BY <1>1 DEF InFlight, ProviderRejections
<1>8. \A h \in Generations : ~Sender(h)' /\ ~InFlight(h)'
  BY <1>1, <1>3, LoneSender DEF InFlight, Sender, At
<1>9. ASSUME OthersSettled' PROVE OthersSettled
  <2> SUFFICES ASSUME NEW s \in Sources, NEW n \in Attempts, Unsettled(att[s][n])
               PROVE  Excused(s, n)
    BY DEF OthersSettled
  <2>1. CASE s = Src(g) /\ n = job.attempts
    BY <1>1, <2>1 DEF Excused
  <2>2. CASE s # Src(g) \/ n # job.attempts
    <3>1. Excused(s, n)'
      BY <1>6, <1>9, <2>2 DEF OthersSettled
    <3> QED
      BY <1>8, <3>1 DEF Excused
  <2> QED
    BY <2>1, <2>2
<1>10. BilledCalls' = BilledCalls /\ Booked' = Booked
  BY <1>1, <1>5, <1>7, <1>8 DEF BilledCalls, Booked
<1> QED
  BY <1>5, <1>8, <1>9, <1>10 DEF Accounts

\* A row written without its usage by a run that does not go on to a call.
LEMMA RowAccounts ==
  ASSUME PipelineInvariant, PipelineInvariant', Accounts, NEW g \in Generations,
         run[g].step \in AtSource \ {"source"}, NEW row, SetRow(Src(g), row),
         row.accounting = Current(Src(g)).accounting,
         Only(g), run'[g].step \notin {"sending", "answered"}, calls' = calls, SameAccount(job')
  PROVE  Accounts'
  BY Standing, RowBooks, OneRunMoves DEF SameAccount

LEMMA TranscribeAccounts ==
  ASSUME PipelineInvariant, PipelineInvariant', Accounts, NEW g \in Generations, Transcribe(g)
  PROVE  Accounts'
<1>0. run \in [Generations -> Run] /\ run[g] \in Run
  BY DEF PipelineInvariant, TypeOK
<1>1. CASE RestoreFails(g) \/ MaterializationFails(g) \/ TranscriptionInterrupted(g)
  <2>1. JustGiveUp(g)
    BY <1>1 DEF RestoreFails, MaterializationFails, TranscriptionInterrupted
  <2> QED
    BY <2>1, RunWrites, OneRunMoves DEF JustGiveUp, database, world, SameBooks
<1>2. CASE \/ PreparationFails(g) \/ PartUsageUnavailable(g) \/ ConfirmationFails(g)
           \/ ProviderFails(g) \/ SavePartFails(g) \/ MergeFails(g)
  <2>1. /\ run[g].step \in AtSource \ {"source"}
        /\ \E code, providerCode : ClassifyAndGiveUp(g, code, providerCode)
    BY <1>2 DEF PreparationFails, PartUsageUnavailable, ConfirmationFails, ProviderFails,
                SavePartFails, MergeFails, At, AtSource, Paying, Received
  <2> QED
    BY <2>1, ClassifyAccounts
<1>3. CASE RestoreTranscript(g)
  <2> DEFINE row == ReturnedRow(StartedRow(Current(Src(g)), Parts))
  <2>1. /\ run[g].step \in AtSource \ {"source"} /\ SetRow(Src(g), row) /\ Goto(g, "output")
        /\ job' = job /\ calls' = calls
    BY <1>3 DEF RestoreTranscript, At, AtSource, world
  <2>2. Parts \in 0..Parts /\ Current(Src(g)) \in Row
    BY <2>1, Standing, Ranges
  <2>3. row.accounting = Current(Src(g)).accounting
    BY <2>2, StartedEffect, RowsKeepUsage
  <2> HIDE DEF row
  <2> QED
    BY <2>1, <2>3, RunWrites, JobStays, RowAccounts
<1>4. CASE StartProvider(g)
  <2> DEFINE held == Cardinality(checkpoints[Src(g)])
             row == StartedRow(Current(Src(g)), held)
             step == IF held = Parts THEN "returning" ELSE "billing"
             r == [[run[g] EXCEPT !.held = held] EXCEPT !.step = step]
  <2>1. /\ run[g].step \in AtSource \ {"source"} /\ SetRow(Src(g), row) /\ run' = [run EXCEPT ![g] = r]
        /\ job' = job /\ calls' = calls
    BY <1>4 DEF StartProvider, At, AtSource, world
  <2>2. row.accounting = Current(Src(g)).accounting
    BY <2>1, Standing, RowsKeepUsage
  <2>3. r.step = step /\ step \in {"returning", "billing"}
    BY <1>0 DEF Run
  <2> HIDE DEF row, r, step
  <2>4. Only(g) /\ run'[g].step \notin {"sending", "answered"}
    BY <1>0, <2>1, <2>3 DEF Only
  <2> QED
    BY <2>1, <2>2, <2>4, JobStays, RowAccounts
<1>5. CASE SavePart(g)
  <2> DEFINE row == PartCompletedRow(Current(Src(g)), run[g].held)
             step == IF run[g].held = Parts THEN "returning" ELSE "billing"
  <2>1. /\ run[g].step \in AtSource \ {"source"} /\ SetRow(Src(g), row) /\ Goto(g, step)
        /\ job' = job /\ calls' = calls /\ step \in {"returning", "billing"}
    BY <1>5 DEF SavePart, At, AtSource, Paying, world
  <2>2. row.accounting = Current(Src(g)).accounting
    BY <2>1, Standing, RowsKeepUsage
  <2> HIDE DEF row, step
  <2> QED
    BY <2>1, <2>2, RunWrites, JobStays, RowAccounts
<1>6. CASE MarkReturned(g)
  <2>1. /\ run[g].step \in AtSource \ {"source"} /\ SetRow(Src(g), ReturnedRow(Current(Src(g))))
        /\ Goto(g, "merging") /\ job' = job /\ calls' = calls
    BY <1>6 DEF MarkReturned, At, AtSource, Received, world
  <2>2. ReturnedRow(Current(Src(g))).accounting = Current(Src(g)).accounting
    BY <2>1, Standing, RowsKeepUsage
  <2> QED
    BY <2>1, <2>2, RunWrites, JobStays, RowAccounts
<1>7. CASE MergeParts(g)
  BY <1>7, RunWrites, OneRunMoves DEF MergeParts, database, world, SameBooks
<1> QED
  BY <1>1, <1>2, <1>3, <1>4, <1>5, <1>6, <1>7, ReserveAccounts, SendAccounts, ConfirmAccounts
     DEF Transcribe


\* A run that moves on, or out, while the rows, the calls and the amount stay.
LEMMA RunAccounts ==
  ASSUME PipelineInvariant, PipelineInvariant', Accounts, NEW g \in Generations,
         att' = att, calls' = calls, SameAccount(job'),
         \/ \E step : step \notin {"sending", "answered"} /\ (Goto(g, step) \/ Forget(g, step))
         \/ NextSource(g)
         \/ \E error : GiveUp(g, error)
  PROVE  Accounts'
<1>1. Only(g) /\ run'[g].step \notin {"sending", "answered"}
  BY RunWrites
<1> QED
  BY <1>1, OneRunMoves DEF SameAccount, SameBooks

LEMMA AcknowledgeAccount ==
  ASSUME PipelineInvariant, Acknowledge(0) \/ job' = job
  PROVE  SameAccount(job')
<1>1. job \in Job
  BY DEF PipelineInvariant, TypeOK
<1> QED
  BY <1>1, FinishAccount, JobStays DEF Acknowledge, Status, Job

LEMMA DeliverAccounts ==
  ASSUME PipelineInvariant, PipelineInvariant', Accounts, NEW g \in Generations, Deliver(g)
  PROVE  Accounts'
<1>0. job \in Job /\ run \in [Generations -> Run]
  BY DEF PipelineInvariant, TypeOK
<1>1. CASE \/ CheckpointBeforeOutput(g) \/ OutputStageFails(g) \/ OutputRefused(g)
           \/ PrepareCase(g) \/ MarkCreated(g) \/ MarkCreatedFails(g)
  <2>1. /\ att' = att /\ calls' = calls /\ job' = job
        /\ \/ \E step : step \notin {"sending", "answered"} /\ Goto(g, step)
           \/ \E error : GiveUp(g, error)
    BY <1>1 DEF CheckpointBeforeOutput, OutputStageFails, OutputRefused, PrepareCase, MarkCreated,
                MarkCreatedFails, JustGiveUp, database, world
  <2> QED
    BY <2>1, RunAccounts, JobStays
<1>2. CASE CreateDocument(g)
  <2>1. PICK next \in {"created", "uncertain", "failing"} :
          IF next = "failing" THEN GiveUp(g, "other") ELSE Goto(g, next)
    BY <1>2 DEF CreateDocument
  <2>2. att' = att /\ calls' = calls /\ job' = job
    BY <1>2 DEF CreateDocument, database
  <2> QED
    BY <2>1, <2>2, RunAccounts, JobStays
<1>3. CASE OutputExists(g)
  <2>1. /\ att' = att /\ calls' = calls /\ (Acknowledge(0) \/ job' = job)
        /\ NextSource(g) \/ Forget(g, "ended") \/ Forget(g, "gone")
    BY <1>3 DEF OutputExists, End, Leave, Acknowledge, world
  <2> QED
    BY <2>1, RunAccounts, AcknowledgeAccount
<1>4. CASE HandOff(g)
  <2>1. /\ run[g].step \in AtSource \ {"source"} /\ SetRow(Src(g), HandedOffRow(Current(Src(g))))
        /\ Goto(g, "googling") /\ job' = job /\ calls' = calls
    BY <1>4 DEF HandOff, At, AtSource, Received, world
  <2>2. HandedOffRow(Current(Src(g))).accounting = Current(Src(g)).accounting
    BY <2>1, Standing, RowsKeepUsage
  <2> QED
    BY <2>1, <2>2, RunWrites, JobStays, RowAccounts
<1>5. CASE MarkUncertain(g)
  <2>1. /\ run[g].step \in AtSource \ {"source"} /\ Goto(g, "recording")
        /\ job' = job /\ calls' = calls
    BY <1>5 DEF MarkUncertain, At, AtSource, Received, world
  <2>2. CASE att' = att
    BY <2>1, <2>2, RunAccounts, JobStays
  <2>3. CASE SetRow(Src(g), OutputUncertainRow(Current(Src(g))))
    <3>1. OutputUncertainRow(Current(Src(g))).accounting = Current(Src(g)).accounting
      BY <2>1, Standing, RowsKeepUsage
    <3> QED
      BY <2>1, <2>3, <3>1, RunWrites, JobStays, RowAccounts
  <2> QED
    BY <1>5, <2>2, <2>3 DEF MarkUncertain
<1>6. CASE PersistOutput(g)
  <2>1. /\ run[g].step \in AtSource \ {"source"} /\ SetRow(Src(g), CompletedRow(Current(Src(g))))
        /\ calls' = calls /\ (Forget(g, "ended") \/ NextSource(g))
    BY <1>6 DEF PersistOutput, At, AtSource, Received, End, world
  <2>2. CompletedRow(Current(Src(g))).accounting = Current(Src(g)).accounting
    BY <2>1, Standing, RowsKeepUsage
  <2>3. SameAccount(job')
    <3>1. job' = Finish(job, "completed", "none") \/ job' = job
      BY <1>6 DEF PersistOutput
    <3> QED
      BY <1>0, <3>1, FinishAccount, JobStays DEF Status, ErrorCode
  <2>4. Only(g) /\ run'[g].step \notin {"sending", "answered"}
    BY <2>1, RunWrites
  <2> QED
    BY <2>1, <2>2, <2>3, <2>4, RowAccounts
<1> QED
  BY <1>1, <1>2, <1>3, <1>4, <1>5, <1>6 DEF Deliver

LEMMA FailJobAccount ==
  ASSUME PipelineInvariant, NEW error \in ErrorCode, FailJob(error)
  PROVE  SameAccount(job')
<1> DEFINE deferred == TRUE
<1>1. job \in Job /\ deferred \in BOOLEAN
  BY DEF PipelineInvariant, TypeOK
<1>2. job' = Finish(job, "failed", error) \/ job' = Requeued(job, deferred)
  BY DEF FailJob
<1> HIDE DEF deferred
<1> QED
  BY <1>1, <1>2, FinishAccount, RequeuedAccount DEF Status

LEMMA ConcludeAccounts ==
  ASSUME PipelineInvariant, PipelineInvariant', Accounts, NEW g \in Generations, Conclude(g)
  PROVE  Accounts'
<1>1. CASE Abandon(g)
  <2>1. att' = att /\ calls' = calls /\ job' = job /\ Forget(g, "gone")
    BY <1>1 DEF Abandon, Leave, database, world
  <2> QED
    BY <2>1, RunAccounts, JobStays
<1>2. CASE RecordUncertainty(g)
  <2>1. /\ att' = att /\ calls' = calls /\ (Forget(g, "ended") \/ Forget(g, "gone"))
        /\ FailJob("output_reconciliation_required") \/ job' = job
    BY <1>2 DEF RecordUncertainty, End, Leave, world
  <2>2. SameAccount(job')
    BY <2>1, FailJobAccount, JobStays DEF ErrorCode
  <2> QED
    BY <2>1, <2>2, RunAccounts
<1>3. CASE FailSource(g)
  <2>1. /\ att' = att /\ calls' = calls /\ (Forget(g, "ended") \/ Forget(g, "gone"))
        /\ FailJob(run[g].error) \/ Acknowledge(0) \/ job' = job
    BY <1>3 DEF FailSource, End, Leave, Acknowledge, world
  <2>2. run[g].error \in ErrorCode
    BY DEF PipelineInvariant, TypeOK, Run
  <2>3. SameAccount(job')
    BY <2>1, <2>2, FailJobAccount, AcknowledgeAccount
  <2> QED
    BY <2>1, <2>3, RunAccounts
<1> QED
  BY <1>1, <1>2, <1>3 DEF Conclude


\* The row found for a document keeps the usage it has.
LEMMA VerifiedBooks ==
  ASSUME att \in [Sources -> [Attempts -> Row]], NEW verified,
         att' = [s \in Sources |->
                   IF s \in verified THEN [att[s] EXCEPT ![LatestAttempt(s)] = CompletedRow(@)]
                   ELSE att[s]]
  PROVE  SameBooks
<1> SUFFICES ASSUME NEW s \in Sources, NEW n \in Attempts
             PROVE  att'[s][n].accounting = att[s][n].accounting
  BY DEF SameBooks
<1> DEFINE row == CompletedRow(att[s][LatestAttempt(s)])
           rows == [att[s] EXCEPT ![LatestAttempt(s)] = row]
<1>1. att'[s] = rows \/ att'[s] = att[s]
  OBVIOUS
<1>2. n = LatestAttempt(s) => row.accounting = att[s][n].accounting
  BY RowsKeepUsage
<1> HIDE DEF row
<1>3. (rows[n] = row /\ n = LatestAttempt(s)) \/ rows[n] = att[s][n]
  OBVIOUS
<1> HIDE DEF rows
<1> QED
  BY <1>1, <1>2, <1>3

LEMMA EnvironmentAccounts ==
  ASSUME PipelineInvariant, PipelineInvariant', Accounts, Environment
  PROVE  Accounts'
<1>0. job \in Job /\ att \in [Sources -> [Attempts -> Row]]
  BY DEF PipelineInvariant, TypeOK
<1>1. run' = run /\ calls' = calls
  BY DEF Environment, RecoverExpired, RequestCancellation, QueueRetry, CheckReconciliation,
         ResolveAttention, CleanupCheckpoints, ExpireLease, BackoffElapses, world
<1> DEFINE no == FALSE
           yes == TRUE
<1>2. no \in BOOLEAN /\ yes \in BOOLEAN
  OBVIOUS
<1>3. SameAccount(job')
  <2>1. CASE RecoverExpired
    <3>1. \/ job' = Finish(job, "cancelled", job.error)
          \/ job' = Finish(job, "completed", "none")
          \/ job' = Requeued(job, no)
          \/ job' = Finish(job, "failed", RecoveryError)
      BY <2>1 DEF RecoverExpired
    <3>2. RecoveryError \in ErrorCode
      BY DEF RecoveryError, ErrorCode
    <3> HIDE DEF no
    <3> QED
      BY <1>0, <1>2, <3>1, <3>2, FinishAccount, RequeuedAccount DEF Status, ErrorCode, Job
  <2>2. CASE RequestCancellation
    <3> DEFINE i == [job EXCEPT !.status = "cancelled", !.cancelRequested = no]
    <3>1. job' = Finalized(Released(i)) \/ job' = [job EXCEPT !.cancelRequested = yes]
      BY <2>2 DEF RequestCancellation
    <3> HIDE DEF no, yes
    <3>2. /\ i \in Job /\ i.billed = job.billed /\ i.attempts = job.attempts
      BY <1>0, <1>2 DEF Job, Status
    <3>3. SameAccount([job EXCEPT !.cancelRequested = yes])
      BY <1>0 DEF SameAccount, Job
    <3> HIDE DEF i
    <3>4. Released(i) \in Job /\ Released(i).billed = i.billed /\ Released(i).attempts = i.attempts
      BY <3>2, ReleasedTyped DEF Released, Job
    <3> QED
      BY <3>1, <3>2, <3>3, <3>4, FinalizedAccount
  <2>3. CASE QueueRetry
    <3>1. job' = Requeued(job, no)
      BY <2>3 DEF QueueRetry
    <3> HIDE DEF no
    <3> QED
      BY <1>0, <1>2, <3>1, RequeuedAccount
  <2>4. CASE CheckReconciliation
    <3> DEFINE i == [job EXCEPT !.status = "completed", !.error = "none"]
    <3>1. job' = Finalized(i) \/ job' = job
      BY <2>4 DEF CheckReconciliation
    <3>2. i \in Job /\ i.billed = job.billed /\ i.attempts = job.attempts
      BY <1>0 DEF Job, Status, ErrorCode
    <3> HIDE DEF i
    <3> QED
      BY <3>1, <3>2, FinalizedAccount, JobStays
  <2>5. CASE CleanupCheckpoints
    BY <2>5, JobStays DEF CleanupCheckpoints
  <2>6. CASE ResolveAttention \/ ExpireLease \/ BackoffElapses
    <3>1. \/ job' = [job EXCEPT !.attentionResolved = yes]
          \/ job' = [job EXCEPT !.live = no]
          \/ job' = [job EXCEPT !.deferred = no]
      BY <2>6 DEF ResolveAttention, ExpireLease, BackoffElapses
    <3> HIDE DEF no, yes
    <3> QED
      BY <1>0, <3>1 DEF SameAccount, Job
  <2> QED
    BY <2>1, <2>2, <2>3, <2>4, <2>5, <2>6 DEF Environment
<1>4. SameBooks
  <2>1. CASE CheckReconciliation
    BY <1>0, <2>1, VerifiedBooks DEF CheckReconciliation
  <2>2. CASE ~CheckReconciliation
    BY <2>2 DEF Environment, RecoverExpired, RequestCancellation, QueueRetry,
                ResolveAttention, CleanupCheckpoints, ExpireLease, BackoffElapses, SameBooks
  <2> QED
    BY <2>1, <2>2
<1> QED
  BY <1>1, <1>3, <1>4, NoRunMoves DEF SameAccount

LEMMA InitAccounts ==
  ASSUME Init
  PROVE  Accounts
<1>1. BilledCalls = {}
  <2>1. BilledCalls = CallSet(calls)
    BY DEF BilledCalls, CallSet
  <2>2. \A t \in Sources, q \in PartIndexes : calls[t][q] = 0
    BY DEF Init
  <2>3. \A x : x \notin CallSet(calls)
    BY <2>2, CallMembers
  <2> QED
    BY <2>1, <2>3
<1>2. IsFiniteSet(BilledCalls) /\ Cardinality(BilledCalls) = 0
  BY <1>1, FS_EmptySet
<1>3. \A g \in Generations : ~Sender(g) /\ ~InFlight(g)
  BY DEF Init, Sender, InFlight, At
<1>4. job.billed = 0 /\ ~job.accountingComplete
  <2> DEFINE no == FALSE
  <2>1. job.billed = 0 /\ job.accountingComplete = no
    BY DEF Init
  <2> QED
    BY <2>1
<1>5. Booked = 0
  BY <1>3, <1>4 DEF Booked
<1> QED
  BY <1>2, <1>3, <1>4, <1>5 DEF Accounts

\* When every row is settled no call is under way, so nothing is missing from
\* an amount that is called complete.
LEMMA CompleteAmount ==
  ASSUME PipelineInvariant, Accounts
  PROVE  AccountingIsHonest
<1> SUFFICES ASSUME job.accountingComplete
             PROVE  job.billed = Cardinality(BilledCalls)
  BY DEF AccountingIsHonest
<1>1. NoneUnsettled
  BY DEF Accounts
<1>2. ASSUME NEW g \in Generations, Sender(g) PROVE FALSE
  BY <1>1, <1>2, SendersPay DEF Accounts, Current, NoneUnsettled, Unsettled
<1>3. \A g \in Generations : ~InFlight(g)
  BY <1>2 DEF InFlight, Sender, At
<1>4. Cardinality(BilledCalls) = Booked
  BY <1>1 DEF Accounts, NoneUnsettled, OthersSettled
<1>5. Booked = job.billed
  BY <1>3 DEF Booked, PipelineInvariant, TypeOK, Job
<1> QED
  BY <1>4, <1>5

\* An amount the job calls complete counts every call the provider may have
\* billed, over all its attempts: a run that dies, loses its lease or gets no
\* answer after reserving leaves a row that keeps the amount incomplete until
\* the end of the job, whichever path ends it.
THEOREM AccountingIsHonestHolds == Spec => []AccountingIsHonest
<1>1. Init => PipelineInvariant /\ Accounts
  BY InitInvariant, InitAccounts
<1>2. ASSUME PipelineInvariant /\ Accounts, [Next]_vars
      PROVE  (PipelineInvariant /\ Accounts)'
  <2>1. PipelineInvariant'
    BY <1>2, NextInvariant, StutterInvariant
  <2>2. CASE Next
    BY <1>2, <2>1, <2>2, BeginAccounts, TranscribeAccounts, DeliverAccounts, ConcludeAccounts,
       EnvironmentAccounts DEF Next
  <2>3. CASE UNCHANGED vars
    BY <1>2, <2>1, <2>3, NoRunMoves DEF vars, database, world, SameBooks
  <2> QED
    BY <1>2, <2>1, <2>2, <2>3
<1>3. PipelineInvariant /\ Accounts => AccountingIsHonest
  BY CompleteAmount
<1> QED
  BY <1>1, <1>2, <1>3, PTL DEF Spec

=============================================================================
