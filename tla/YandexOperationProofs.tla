----------------------- MODULE YandexOperationProofs -----------------------
(***************************************************************************)
(* Proofs about YandexOperation, for any number of attempts and claims:    *)
(* the recording is never at the provider twice, and a job with an         *)
(* operation that may be charged is queued again only to follow it.        *)
(***************************************************************************)
EXTENDS YandexOperation, TLAPS

Exposing == {"billing", "calling", "submitting", "recording"}

\* A run that may still submit, or has submitted and keeps no row yet.
Exposed(g) == run[g].step \in Exposing

\* The provider was asked, and nothing better is known: no verdict is safe.
UnsafeRow(row) ==
    /\ row.started /\ ~row.returned
    /\ row.code \in {"none", "provider_timeout", "malformed_provider_response"}
    /\ \/ row.stage = "provider_request_started" /\ row.disposition = "undetermined"
       \/ row.stage = "failed" /\ row.disposition = "provider_outcome_uncertain"

\* The job is not queued, and nothing but its current run will queue it.
Stuck ==
    /\ job.status # "queued"
    /\ job.attempts \in Attempts
    /\ UnsafeRow(Current)
    /\ operation[job.attempts].status = "none"

\* The current run knows no more of the operation than that it may exist.
Ignorant(g) ==
    \/ At(g, "gone") \/ At(g, "failing")
    \/ At(g, "answered") /\ run[g].answer \in {"provider_timeout", "malformed_provider_response"}

Lost == Stuck /\ \A g \in Generations : g = job.generation => Ignorant(g)

\* The next attempt finds the operation.
Kept(h) ==
    \E n \in Attempts :
        /\ operation[n].run = h
        /\ operation[n].status \in {"pending", "completed"}
        /\ Latest(n)

Unborn(g) == g > job.generation => At(g, "idle")

Numbered ==
    \A n \in Attempts :
        /\ operation[n].status # "none" => n <= job.attempts
        /\ n > job.attempts => att[n] = NoRow

Budget ==
    /\ job.status = "queued" => job.attempts < MaxAttempts
    /\ job.status = "processing" => job.attempts \in Attempts

Followed(g) ==
    run[g].step \in {"polling", "loading"} =>
        run[g].number \in Attempts /\ operation[run[g].number].status # "none"

Begun(g) ==
    /\ g = job.generation
    /\ run[g].step \in Exposing \cup {"preparing", "transcribing"}
    => /\ job.attempts \in Attempts
       /\ operation[job.attempts].status = "none"
       /\ At(g, "preparing") => Current = NoRow
       /\ At(g, "transcribing") => Current = PreparedRow

Guarded(g) ==
    Exposed(g) =>
        /\ g = job.generation
        /\ Stuck
        /\ run[g].step \in {"submitting", "recording"} => run[g].number = job.attempts

Alone(g) ==
    /\ At(g, "submitting") => \A h \in Generations : ~AtRisk(h)
    /\ At(g, "recording") => \A h \in Generations : AtRisk(h) => h = g

Traced(h) == AtRisk(h) => At(h, "recording") \/ Kept(h) \/ Lost

Local(g) == Unborn(g) /\ Followed(g) /\ Begun(g) /\ Guarded(g) /\ Alone(g) /\ Traced(g)

OperationInvariant ==
    /\ TypeOK
    /\ Numbered
    /\ Budget
    /\ \A g \in Generations : Local(g)
    /\ OneOperationAtRisk

-----------------------------------------------------------------------------

LEMMA AttemptRange ==
  /\ Attempts \subseteq Nat /\ Generations \subseteq Nat
  /\ 0 \in 0..MaxAttempts /\ 0 \in 0..MaxGeneration
  /\ \A n \in Attempts : n \in 0..MaxAttempts
  /\ \A g \in Generations : g \in 0..MaxGeneration
  BY YandexAssumption DEF Attempts, Generations

LEMMA GotoEffect ==
  ASSUME run \in [Generations -> Run], NEW g \in Generations, NEW step \in Step, Goto(g, step)
  PROVE  /\ run' \in [Generations -> Run]
         /\ run'[g].step = step /\ run'[g].number = run[g].number
         /\ run'[g].answer = run[g].answer /\ run'[g].error = run[g].error
         /\ \A h \in Generations : h # g => run'[h] = run[h]
  BY DEF Goto, Run

LEMMA AnsweredEffect ==
  ASSUME run \in [Generations -> Run], NEW g \in Generations, NEW answer \in Answer,
         Answered(g, answer)
  PROVE  /\ run' \in [Generations -> Run]
         /\ run'[g].step = "answered" /\ run'[g].answer = answer
         /\ \A h \in Generations : h # g => run'[h] = run[h]
  BY DEF Answered, Run, Step

LEMMA LeaveEffect ==
  ASSUME run \in [Generations -> Run], NEW g \in Generations, Leave(g)
  PROVE  /\ run' \in [Generations -> Run]
         /\ run'[g].step = "gone"
         /\ \A h \in Generations : h # g => run'[h] = run[h]
  BY AttemptRange DEF Leave, IdleRun, Run, Step, Answer, Error

LEMMA GiveUpEffect ==
  ASSUME run \in [Generations -> Run], NEW g \in Generations, NEW error \in Error,
         GiveUp(g, error)
  PROVE  /\ run' \in [Generations -> Run]
         /\ run'[g].step = "failing"
         /\ \A h \in Generations : h # g => run'[h] = run[h]
  BY DEF GiveUp, Run, Step

LEMMA PointEffect ==
  ASSUME run \in [Generations -> Run], NEW g \in Generations, NEW step \in Step,
         NEW n \in 0..MaxAttempts, run' = [run EXCEPT ![g].step = step, ![g].number = n]
  PROVE  /\ run' \in [Generations -> Run]
         /\ run'[g].step = step /\ run'[g].number = n
         /\ \A h \in Generations : h # g => run'[h] = run[h]
<1> DEFINE first == [run EXCEPT ![g].step = step]
<1>1. /\ first \in [Generations -> Run] /\ first[g].step = step
      /\ \A h \in Generations : h # g => first[h] = run[h]
  BY DEF Run
<1> DEFINE m == [first[g] EXCEPT !.number = n]
<1>2. m \in Run /\ m.step = step /\ m.number = n
  <2>1. first[g] \in Run /\ first[g].step = step
    BY <1>1
  <2> HIDE DEF first
  <2> QED
    BY <2>1 DEF Run
<1>3. run' = [first EXCEPT ![g] = m]
  OBVIOUS
<1> HIDE DEF first, m
<1> QED
  BY <1>1, <1>2, <1>3

\* How the row of the job changes.
LEMMA FinishTyped ==
  ASSUME job \in Job, NEW status \in Status, NEW error \in Error
  PROVE  /\ Finish(status, error) \in Job
         /\ Finish(status, error).status = status
         /\ Finish(status, error).generation = job.generation
         /\ Finish(status, error).attempts = job.attempts
         /\ Finish(status, error).billed = job.billed
         /\ Finish(status, error).complete = ~UsageUncertain
  BY DEF Finish, Released, Job

LEMMA RequeuedTyped ==
  ASSUME job \in Job, NEW deferred \in BOOLEAN
  PROVE  /\ Requeued(deferred) \in Job
         /\ Requeued(deferred).status = "queued"
         /\ Requeued(deferred).generation = job.generation
         /\ Requeued(deferred).attempts = job.attempts
         /\ Requeued(deferred).billed = job.billed
         /\ Requeued(deferred).complete = job.complete
  BY DEF Requeued, Released, Job, Status, Error

LEMMA FlagsTyped ==
  ASSUME job \in Job, NEW flag \in BOOLEAN,
         NEW j \in {[job EXCEPT !.cancelRequested = flag], [job EXCEPT !.live = flag],
                    [job EXCEPT !.deferred = flag]}
  PROVE  /\ j \in Job /\ j.generation = job.generation /\ j.attempts = job.attempts
         /\ j.status = job.status
<1>1. CASE j = [job EXCEPT !.cancelRequested = flag]
  BY <1>1 DEF Job
<1>2. CASE j = [job EXCEPT !.live = flag]
  BY <1>2 DEF Job
<1>3. CASE j = [job EXCEPT !.deferred = flag]
  BY <1>3 DEF Job
<1> QED
  BY <1>1, <1>2, <1>3

LEMMA BilledTyped ==
  ASSUME job \in Job
  PROVE  LET j == [job EXCEPT !.billed = @ + 1, !.complete = FALSE]
         IN  /\ j \in Job /\ j.generation = job.generation /\ j.attempts = job.attempts
             /\ j.status = job.status
<1> DEFINE n == job.billed + 1
           no == FALSE
           first == [job EXCEPT !.billed = n]
<1>1. n \in Nat /\ no \in BOOLEAN
  BY DEF Job
<1> HIDE DEF n, no
<1>2. /\ first \in Job /\ first.generation = job.generation /\ first.attempts = job.attempts
      /\ first.status = job.status
  BY <1>1 DEF Job
<1> DEFINE second == [first EXCEPT !.complete = no]
<1> HIDE DEF first
<1>3. /\ second \in Job /\ second.generation = first.generation
      /\ second.attempts = first.attempts /\ second.status = first.status
  BY <1>1, <1>2 DEF Job
<1>4. [job EXCEPT !.billed = @ + 1, !.complete = FALSE] = second
  BY DEF first, n, no
<1> HIDE DEF second
<1> QED
  BY <1>2, <1>3, <1>4

-----------------------------------------------------------------------------

\* The rows of the ledger.
LEMMA FreshRows ==
  NoRow \in Row /\ PreparedRow \in Row
<1>1. "none" \in FailureCode /\ 0 \in {0, Parts} /\ 0 \in 0..Parts
  BY PartsAssumption DEF FailureCode
<1>2. NoRow \in Row
  BY <1>1 DEF NoRow, Row, Stage, Disposition, Accounting
<1>3. PreparedRow \in Row
  BY <1>2 DEF PreparedRow, Row, Stage
<1> QED
  BY <1>2, <1>3

LEMMA RowsTyped ==
  ASSUME NEW row \in Row
  PROVE  /\ StartedRow(row, 0) \in Row /\ PartCompletedRow(row, 1) \in Row
         /\ ReturnedRow(row) \in Row /\ CompletedRow(row) \in Row
         /\ UsageUncertainRow(row) \in Row
         /\ \A a \in Accounting : [row EXCEPT !.accounting = a] \in Row
<1>1. Parts = 1 /\ 0..Parts = {0, 1} /\ {0, Parts} = {0, 1}
  BY YandexAssumption
<1>2. StartedRow(row, 0) \in Row
  <2> DEFINE yes == TRUE
  <2>1. [row EXCEPT !.stage = "provider_request_started", !.disposition = "undetermined",
                    !.started = yes, !.total = Parts, !.done = 0] \in Row
    <3>1. yes \in BOOLEAN
      OBVIOUS
    <3> HIDE DEF yes
    <3> QED
      BY <1>1, <3>1 DEF Row, Stage, Disposition
  <2> QED
    BY <2>1, Zenon DEF StartedRow
<1>3. PartCompletedRow(row, 1) \in Row
  BY <1>1 DEF PartCompletedRow, Row
<1>4. ReturnedRow(row) \in Row
  <2> DEFINE yes == TRUE
  <2>1. [row EXCEPT !.stage = "provider_response_returned", !.disposition = "provider_result_lost",
                    !.returned = yes, !.done = row.total] \in Row
    <3>1. yes \in BOOLEAN
      OBVIOUS
    <3> HIDE DEF yes
    <3> QED
      BY <1>1, <3>1 DEF Row, Stage, Disposition
  <2> QED
    BY <2>1, Zenon DEF ReturnedRow
<1>5. CompletedRow(row) \in Row
  BY DEF CompletedRow, Row, Stage, Disposition
<1>6. ASSUME NEW a \in Accounting PROVE [row EXCEPT !.accounting = a] \in Row
  BY DEF Row
<1>7. UsageUncertainRow(row) \in Row
  <2>1. "uncertain" \in Accounting
    BY DEF Accounting
  <2> QED
    BY <1>6, <2>1 DEF UsageUncertainRow
<1> QED
  BY <1>2, <1>3, <1>4, <1>5, <1>6, <1>7

LEMMA DispositionTyped ==
  ASSUME NEW row \in Row, NEW code \in FailureCode
  PROVE  FailureDisposition(row, code) \in Disposition
  BY DEF FailureDisposition, Disposition

LEMMA ClassifiedTyped ==
  ASSUME NEW row \in Row, NEW code \in FailureCode, NEW providerCode \in FailureCode
  PROVE  ClassifiedRow(row, code, providerCode) \in Row
<1> DEFINE kept == IF providerCode = "none" /\ code = "partial_provider_result"
                   THEN row.providerCode ELSE providerCode
           disposition == FailureDisposition(row, code)
<1>1. kept \in FailureCode /\ disposition \in Disposition
  BY DispositionTyped DEF Row
<1>2. ClassifiedRow(row, code, providerCode) =
        IF row.disposition = "completed" THEN row
        ELSE [row EXCEPT !.stage = "failed", !.code = code, !.disposition = disposition,
                         !.providerCode = kept]
  BY DEF ClassifiedRow
<1> HIDE DEF kept, disposition
<1>3. [row EXCEPT !.stage = "failed", !.code = code, !.disposition = disposition,
                  !.providerCode = kept] \in Row
  BY <1>1 DEF Row, Stage
<1> QED
  BY <1>2, <1>3

LEMMA UncertainKept ==
  ASSUME NEW row \in Row
  PROVE  /\ UsageUncertainRow(row).stage = row.stage
         /\ UsageUncertainRow(row).disposition = row.disposition
         /\ UsageUncertainRow(row).started = row.started
         /\ UsageUncertainRow(row).returned = row.returned
         /\ UsageUncertainRow(row).code = row.code
  BY DEF UsageUncertainRow, Row

\* A row that leaves the call in doubt goes on doing so.
LEMMA UnsafeStays ==
  ASSUME NEW row \in Row, UnsafeRow(row),
         NEW code \in {"provider_timeout", "malformed_provider_response"},
         NEW providerCode \in FailureCode
  PROVE  UnsafeRow(ClassifiedRow(UsageUncertainRow(row), code, providerCode))
<1> DEFINE r == UsageUncertainRow(row)
<1>1. /\ r \in Row /\ r.started /\ ~r.returned
      /\ r.disposition \in {"undetermined", "provider_outcome_uncertain"}
  BY RowsTyped, UncertainKept DEF UnsafeRow
<1> HIDE DEF r
<1>2. FailureDisposition(r, code) = "provider_outcome_uncertain"
  BY <1>1 DEF FailureDisposition, SafePreTransport, ProviderRejections
<1> QED
  BY <1>1, <1>2 DEF ClassifiedRow, UnsafeRow, Row, r

LEMMA UnsafeStarts ==
  /\ UnsafeRow(StartedRow(PreparedRow, 0))
  /\ \A row \in Row, a \in Accounting : UnsafeRow(row) => UnsafeRow([row EXCEPT !.accounting = a])
  BY DEF UnsafeRow, StartedRow, PreparedRow, NoRow, Row

LEMMA UnsafeVerdict ==
  ASSUME NEW row \in Row, UnsafeRow(row), NEW explicit \in BOOLEAN, NEW failed \in BOOLEAN
  PROVE  RowVerdict(row, {}, explicit, failed) = "provider_outcome_uncertain"
  BY DEF RowVerdict, UnsafeRow, NothingSent, Row

\* While the operation may exist and no row names it, no retry is allowed.
LEMMA StuckStays ==
  ASSUME TypeOK, Stuck, NEW explicit \in BOOLEAN, NEW error
  PROVE  ~RetryAllowed(explicit, error)
<1>1. Current \in Row /\ UnsafeRow(Current) /\ ~Resumable
  BY DEF TypeOK, Stuck, Current, Resumable
<1>2. RowVerdict(Current, {}, explicit, error = "pipeline_retry_state_prepare_failed")
        = "provider_outcome_uncertain"
  BY <1>1, UnsafeVerdict
<1> QED
  BY <1>1, <1>2 DEF RetryAllowed, Verdict, SafeVerdicts

-----------------------------------------------------------------------------

\* A step of a run that neither comes to the call nor writes an operation, and
\* that leaves the doubt about a lost operation in place.
LEMMA LateStep ==
  ASSUME OperationInvariant, NEW g \in Generations, TypeOK', UNCHANGED <<operation, remote>>,
         \A h \in Generations : h # g => run'[h] = run[h],
         ~At(g, "idle"), run'[g].step \notin Exposing \cup {"preparing", "transcribing"},
         Followed(g)',
         job'.generation = job.generation, job'.attempts = job.attempts,
         job'.status = "queued" =>
             job.status = "queued" \/ (~Stuck /\ job.attempts < MaxAttempts),
         job'.status = "processing" => job.status = "processing",
         \A n \in Attempts : n > job.attempts => att'[n] = att[n],
         g # job.generation => att' = att,
         g = job.generation /\ Stuck /\ (Ignorant(g) \/ At(g, "recording")) =>
             Stuck' /\ Ignorant(g)'
  PROVE  OperationInvariant'
<1> USE DEF OperationInvariant
<1>1. Numbered' /\ Budget'
  BY DEF Numbered, Budget
<1>2. \A h \in Generations : AtRisk(h)' <=> AtRisk(h)
  BY DEF AtRisk
<1>3. \A h \in Generations : Kept(h)' <=> Kept(h)
  BY DEF Kept, Latest
<1>4. g # job.generation /\ Stuck => Stuck'
  BY DEF Stuck, Current
<1>5. Lost => Lost'
  <2> SUFFICES ASSUME Lost PROVE Lost'
    OBVIOUS
  <2>1. Stuck /\ \A h \in Generations : h = job.generation => Ignorant(h)
    BY DEF Lost
  <2>2. CASE g = job.generation
    BY <2>1, <2>2 DEF Lost
  <2>3. CASE g # job.generation
    BY <1>4, <2>1, <2>3 DEF Lost, Ignorant, At
  <2> QED
    BY <2>2, <2>3
<1>6. At(g, "recording") => Lost'
  <2> SUFFICES ASSUME At(g, "recording") PROVE Lost'
    OBVIOUS
  <2>1. g = job.generation /\ Stuck
    BY DEF Local, Guarded, Exposed, Exposing, At
  <2> QED
    BY <2>1 DEF Lost
<1>7. ASSUME NEW h \in Generations PROVE Local(h)'
  <2>1. Unborn(h)' /\ Followed(h)'
    BY DEF Local, Unborn, Followed, At
  <2>2. Begun(h)'
    BY DEF Local, Begun, At, Current
  <2>3. Guarded(h)'
    BY <1>4 DEF Local, Guarded, Exposed
  <2>4. Alone(h)'
    BY <1>2 DEF Local, Alone, At, Exposing
  <2>5. Traced(h)'
    BY <1>2, <1>3, <1>5, <1>6 DEF Local, Traced, At
  <2> QED
    BY <2>1, <2>2, <2>3, <2>4, <2>5 DEF Local
<1>8. OneOperationAtRisk'
  BY <1>2 DEF OneOperationAtRisk
<1> QED
  BY <1>1, <1>7, <1>8

\* A step of the row of the job alone, which keeps its claim and its attempts.
LEMMA JobStep ==
  ASSUME OperationInvariant, NEW j \in Job, job' = j,
         UNCHANGED <<att, operation, output, run, remote, metered>>,
         j.generation = job.generation, j.attempts = job.attempts,
         j.status = "queued" => job.status = "queued" \/ (~Stuck /\ job.attempts < MaxAttempts),
         j.status = "processing" => job.status = "processing"
  PROVE  OperationInvariant'
<1> USE DEF OperationInvariant
<1>1. TypeOK'
  BY DEF TypeOK
<1>2. Numbered' /\ Budget'
  BY DEF Numbered, Budget
<1>3. Stuck => Stuck'
  BY DEF Stuck, Current
<1>4. ASSUME NEW h \in Generations PROVE Local(h)'
  <2>1. Unborn(h)' /\ Followed(h)' /\ Begun(h)'
    BY DEF Local, Unborn, Followed, Begun, At, Current
  <2>2. Guarded(h)' /\ Alone(h)'
    BY <1>3 DEF Local, Guarded, Alone, Exposed, At, AtRisk
  <2>3. Lost => Lost'
    BY <1>3 DEF Lost, Ignorant, At
  <2>4. Traced(h)'
    BY <2>3 DEF Local, Traced, AtRisk, At, Kept, Latest
  <2> QED
    BY <2>1, <2>2, <2>4 DEF Local
<1>5. OneOperationAtRisk'
  BY DEF OneOperationAtRisk, AtRisk
<1> QED
  BY <1>1, <1>2, <1>4, <1>5

\* A step of a run that changes nothing but what the run knows.
LEMMA QuietStep ==
  ASSUME OperationInvariant, NEW g \in Generations, run' \in [Generations -> Run],
         UNCHANGED <<job, att, operation, output, remote, metered>>,
         \A h \in Generations : h # g => run'[h] = run[h],
         ~At(g, "idle"), run'[g].step \notin Exposing \cup {"preparing", "transcribing"},
         Followed(g)',
         Ignorant(g) \/ At(g, "recording") => Ignorant(g)'
  PROVE  OperationInvariant'
<1>1. TypeOK'
  BY DEF OperationInvariant, TypeOK
<1>2. Stuck => Stuck'
  BY DEF Stuck, Current
<1> QED
  BY <1>1, <1>2, LateStep

\* A run that gives up without a word to the ledger.
LEMMA JustGiveUpStep ==
  ASSUME OperationInvariant, NEW g \in Generations, NEW error \in Error,
         ~At(g, "idle"), JustGiveUp(g, error)
  PROVE  OperationInvariant'
<1>1. /\ run' \in [Generations -> Run] /\ run'[g].step = "failing"
      /\ \A h \in Generations : h # g => run'[h] = run[h]
  BY GiveUpEffect DEF OperationInvariant, TypeOK, JustGiveUp
<1>2. Followed(g)' /\ Ignorant(g)'
  BY <1>1 DEF Followed, Ignorant, At
<1> QED
  BY <1>1, <1>2, QuietStep DEF JustGiveUp, Exposing

\* A run that classifies its failure and gives up.
LEMMA ClassifyStep ==
  ASSUME OperationInvariant, NEW g \in Generations,
         NEW code \in FailureCode, NEW providerCode \in FailureCode,
         ~At(g, "idle"), ClassifyAndGiveUp(g, code, providerCode),
         Ignorant(g) \/ At(g, "recording") =>
             code \in {"provider_timeout", "malformed_provider_response"}
  PROVE  OperationInvariant'
<1> DEFINE row == ClassifiedRow(UsageUncertainRow(Current), code, providerCode)
<1>1. /\ run' \in [Generations -> Run] /\ run'[g].step = "failing"
      /\ \A h \in Generations : h # g => run'[h] = run[h]
  BY GiveUpEffect DEF OperationInvariant, TypeOK, ClassifyAndGiveUp, Error
<1>2. Followed(g)' /\ Ignorant(g)'
  BY <1>1 DEF Followed, Ignorant, At
<1>3. UNCHANGED <<job, operation, output, remote, metered>>
  BY DEF ClassifyAndGiveUp
<1>4. CASE ~Authorized(g)
  <2>1. att' = att
    BY <1>4 DEF ClassifyAndGiveUp
  <2> QED
    BY <1>1, <1>2, <1>3, <2>1, QuietStep DEF Exposing
<1>5. CASE Authorized(g)
  <2>1. /\ g = job.generation /\ job.attempts \in Attempts
        /\ att' = [att EXCEPT ![job.attempts] = row]
    BY <1>5 DEF ClassifyAndGiveUp, SetRow, Authorized, Active, OperationInvariant, Budget
  <2>2. Current \in Row
    BY <2>1 DEF Current, OperationInvariant, TypeOK
  <2>3. row \in Row
    BY <2>2, RowsTyped, ClassifiedTyped
  <2>4. Stuck /\ (Ignorant(g) \/ At(g, "recording")) => UnsafeRow(row)
    BY <2>2, UnsafeStays DEF Stuck
  <2> HIDE DEF row
  <2>5. TypeOK'
    BY <1>1, <1>3, <2>1, <2>3 DEF OperationInvariant, TypeOK
  <2>6. /\ att'[job.attempts] = row
        /\ \A n \in Attempts : n # job.attempts => att'[n] = att[n]
    BY <2>1 DEF OperationInvariant, TypeOK
  <2>7. Stuck /\ (Ignorant(g) \/ At(g, "recording")) => Stuck'
    BY <1>3, <2>4, <2>6 DEF Stuck, Current
  <2>8. \A n \in Attempts : n > job.attempts => att'[n] = att[n]
    BY <2>1, <2>6, AttemptRange
  <2> QED
    BY <1>1, <1>2, <1>3, <2>1, <2>5, <2>7, <2>8, LateStep DEF Exposing
<1> QED
  BY <1>4, <1>5

\* The current run writes its row, not being in doubt about the call.
LEMMA RowStep ==
  ASSUME OperationInvariant, NEW g \in Generations, Active(g), NEW row \in Row,
         att' = [att EXCEPT ![job.attempts] = row],
         NEW j \in Job, job' = j, j.generation = job.generation, j.attempts = job.attempts,
         j.status # "queued", j.status = "processing" => job.status = "processing",
         output' \in {"none", "open", "stored"},
         UNCHANGED <<operation, remote, metered>>,
         run' \in [Generations -> Run],
         \A h \in Generations : h # g => run'[h] = run[h],
         run'[g].step \in {"checking", "returning", "returned", "gone"},
         ~At(g, "idle"), ~Ignorant(g), ~At(g, "recording")
  PROVE  OperationInvariant'
<1>1. g = job.generation /\ job.attempts \in Attempts
  BY DEF Active, OperationInvariant, Budget
<1>2. TypeOK'
  BY DEF OperationInvariant, TypeOK
<1>3. \A n \in Attempts : n > job.attempts => att'[n] = att[n]
  BY <1>1, AttemptRange DEF OperationInvariant, TypeOK
<1>4. Followed(g)'
  BY DEF Followed
<1> QED
  BY <1>1, <1>2, <1>3, <1>4, LateStep DEF Exposing

-----------------------------------------------------------------------------

\* Steps of a run before the call.
LEMMA ClaimStep ==
  ASSUME OperationInvariant, NEW g \in Generations, Claim(g)
  PROVE  OperationInvariant'
<1> USE DEF OperationInvariant
<1> DEFINE j == [job EXCEPT !.generation = g, !.owned = TRUE, !.live = TRUE]
<1>1. job \in Job /\ job.status = "queued" /\ g = job.generation + 1
      /\ g \in 0..MaxGeneration /\ job.generation \in Nat
  BY AttemptRange DEF TypeOK, Claim, Job
<1>2. j \in Job /\ j.status = "queued" /\ j.generation = g /\ j.attempts = job.attempts
  BY <1>1 DEF Job
<1>3. /\ job' = j /\ UNCHANGED <<att, operation, output, remote, metered>>
  BY DEF Claim
<1>4. /\ run' \in [Generations -> Run] /\ run'[g].step = "claimed"
      /\ \A h \in Generations : h # g => run'[h] = run[h]
  BY GotoEffect DEF Claim, TypeOK, Step
<1> HIDE DEF j
<1>5. TypeOK' /\ Numbered' /\ Budget'
  BY <1>1, <1>2, <1>3, <1>4 DEF TypeOK, Numbered, Budget
<1>6. ASSUME NEW h \in Generations PROVE Local(h)'
  <2>1. ~Exposed(h) /\ ~Stuck
    BY <1>1 DEF Local, Guarded, Stuck
  <2>2. ~Exposed(h)' /\ Guarded(h)' /\ Alone(h)'
    BY <1>4, <2>1 DEF Exposed, Exposing, Guarded, Alone, At
  <2>3. Unborn(h)' /\ Followed(h)'
    BY <1>1, <1>2, <1>3, <1>4, AttemptRange DEF Local, Unborn, Followed, At
  <2>4. Begun(h)'
    <3>1. CASE h = g
      BY <1>4, <3>1 DEF Begun, Exposing
    <3>2. CASE h # g
      BY <1>2, <1>3, <3>2 DEF Begun
    <3> QED
      BY <3>1, <3>2
  <2>5. AtRisk(h)' => Kept(h)'
    BY <1>3, <2>1 DEF Local, Traced, AtRisk, Kept, Latest, Lost, Exposed, Exposing, At
  <2> QED
    BY <2>2, <2>3, <2>4, <2>5 DEF Local, Traced
<1>7. OneOperationAtRisk'
  BY <1>3 DEF OneOperationAtRisk, AtRisk
<1> QED
  BY <1>5, <1>6, <1>7

LEMMA EnterStep ==
  ASSUME OperationInvariant, NEW g \in Generations, Enter(g)
  PROVE  OperationInvariant'
<1> USE DEF OperationInvariant
<1> DEFINE begins == /\ job.status = "queued" /\ job.owned /\ job.generation = g /\ job.live
                     /\ ~job.cancelRequested
           j == [job EXCEPT !.status = "processing", !.attempts = @ + 1,
                            !.error = "none", !.deferred = FALSE]
<1>1. At(g, "claimed") /\ UNCHANGED <<att, operation, output, remote, metered>>
  BY DEF Enter
<1>2. CASE ~begins
  <2>1. job' = job /\ Leave(g)
    BY <1>2 DEF Enter
  <2>2. /\ run' \in [Generations -> Run] /\ run'[g].step = "gone"
        /\ \A h \in Generations : h # g => run'[h] = run[h]
    BY <2>1, LeaveEffect DEF TypeOK
  <2>3. Followed(g)' /\ Ignorant(g)' /\ ~At(g, "idle")
    BY <1>1, <2>2 DEF Followed, Ignorant, At
  <2> QED
    BY <1>1, <2>1, <2>2, <2>3, QuietStep DEF Exposing
<1>3. CASE begins
  <2>1. job' = j /\ Goto(g, "preparing")
    BY <1>3 DEF Enter
  <2>2. /\ run' \in [Generations -> Run] /\ run'[g].step = "preparing"
        /\ \A h \in Generations : h # g => run'[h] = run[h]
    BY <2>1, GotoEffect DEF TypeOK, Step
  <2>3. /\ job \in Job /\ job.attempts \in 0..MaxAttempts /\ job.attempts < MaxAttempts
        /\ job.attempts + 1 \in Attempts /\ job.attempts + 1 \in 0..MaxAttempts
    BY <1>3, YandexAssumption DEF TypeOK, Job, Budget, Attempts
  <2>4. /\ j \in Job /\ j.status = "processing" /\ j.generation = g
        /\ j.attempts = job.attempts + 1
    BY <1>3, <2>3 DEF Job, Status, Error
  <2>5. TypeOK'
    <3> HIDE DEF j
    <3> QED
      BY <1>1, <2>1, <2>2, <2>4 DEF TypeOK
  <2> HIDE DEF j
  <2>6. /\ operation[job.attempts + 1].status = "none" /\ att[job.attempts + 1] = NoRow
    BY <2>3, AttemptRange DEF Numbered
  <2>7. Numbered' /\ Budget'
    BY <1>1, <2>1, <2>3, <2>4, AttemptRange DEF Numbered, Budget
  <2>8. ASSUME NEW h \in Generations PROVE Local(h)'
    <3>1. ~Exposed(h) /\ ~Stuck
      BY <1>3 DEF Local, Guarded, Stuck
    <3>2. Guarded(h)' /\ Alone(h)'
      BY <2>2, <3>1 DEF Exposed, Exposing, Guarded, Alone, At
    <3>3. Unborn(h)' /\ Followed(h)'
      BY <1>1, <1>3, <2>1, <2>2, <2>4 DEF Local, Unborn, Followed, At
    <3>4. Begun(h)'
      <4>1. CASE h = g
        BY <1>1, <2>1, <2>2, <2>3, <2>4, <2>6, <4>1 DEF Begun, At, Current
      <4>2. CASE h # g
        BY <2>1, <2>4, <4>2 DEF Begun
      <4> QED
        BY <4>1, <4>2
    <3>5. AtRisk(h)' => Kept(h)'
      BY <1>1, <3>1 DEF Local, Traced, AtRisk, Kept, Latest, Lost, Exposed, Exposing, At
    <3> QED
      BY <3>2, <3>3, <3>4, <3>5 DEF Local, Traced
  <2>9. OneOperationAtRisk'
    BY <1>1 DEF OneOperationAtRisk, AtRisk
  <2> QED
    BY <2>5, <2>7, <2>8, <2>9
<1> QED
  BY <1>2, <1>3

\* The current run comes closer to the call.
LEMMA OnwardStep ==
  ASSUME OperationInvariant, NEW g \in Generations, g = job.generation,
         run[g].step \in {"preparing", "transcribing", "billing"},
         run'[g].step \in {"transcribing", "billing", "calling"},
         TypeOK', UNCHANGED <<operation, remote>>,
         job'.generation = job.generation, job'.attempts = job.attempts,
         job'.status = job.status,
         \A h \in Generations : h # g => run'[h] = run[h],
         \A n \in Attempts : n # job.attempts => att'[n] = att[n],
         At(g, "transcribing")' => Current' = PreparedRow,
         Exposed(g)' => Stuck'
  PROVE  OperationInvariant'
<1> USE DEF OperationInvariant
<1>1. job.attempts \in Attempts /\ operation[job.attempts].status = "none"
  BY DEF Local, Begun, Exposing
<1>2. Numbered' /\ Budget'
  BY <1>1, AttemptRange DEF Numbered, Budget
<1>3. \A h \in Generations : (AtRisk(h)' <=> AtRisk(h)) /\ (Kept(h)' <=> Kept(h))
  BY DEF AtRisk, Kept, Latest
<1>4. ~Lost
  BY DEF Lost, Ignorant, At
<1>5. ASSUME NEW h \in Generations PROVE Local(h)'
  <2>1. h # g => ~Exposed(h) /\ ~Exposed(h)'
    BY DEF Local, Guarded, Exposed
  <2>2. Unborn(h)' /\ Followed(h)'
    BY DEF Local, Unborn, Followed, At
  <2>3. Begun(h)'
    BY <1>1 DEF Begun, At
  <2>4. Guarded(h)' /\ Alone(h)'
    BY <2>1 DEF Guarded, Alone, Exposed, Exposing, At
  <2>5. ~At(h, "recording")
    BY <2>1 DEF Exposed, Exposing, At
  <2>6. Traced(h)'
    BY <1>3, <1>4, <2>5 DEF Local, Traced
  <2> QED
    BY <2>2, <2>3, <2>4, <2>6 DEF Local
<1>6. OneOperationAtRisk'
  BY <1>3 DEF OneOperationAtRisk
<1> QED
  BY <1>2, <1>5, <1>6

LEMMA PrepareAttemptStep ==
  ASSUME OperationInvariant, NEW g \in Generations, PrepareAttempt(g)
  PROVE  OperationInvariant'
<1> USE DEF OperationInvariant
<1>1. /\ g = job.generation /\ At(g, "preparing") /\ job.attempts \in Attempts
      /\ att' = [att EXCEPT ![job.attempts] = PreparedRow]
      /\ UNCHANGED <<job, operation, output, remote, metered>>
  BY DEF PrepareAttempt, SetRow, Authorized, Active, Budget
<1>2. /\ run' \in [Generations -> Run] /\ run'[g].step = "transcribing"
      /\ \A h \in Generations : h # g => run'[h] = run[h]
  BY GotoEffect DEF PrepareAttempt, TypeOK, Step
<1>3. TypeOK'
  BY <1>1, <1>2, FreshRows DEF TypeOK
<1>4. Current' = PreparedRow /\ \A n \in Attempts : n # job.attempts => att'[n] = att[n]
  BY <1>1 DEF Current, TypeOK
<1> QED
  BY <1>1, <1>2, <1>3, <1>4, OnwardStep DEF At, Exposed, Exposing

LEMMA StartProviderStep ==
  ASSUME OperationInvariant, NEW g \in Generations, StartProvider(g)
  PROVE  OperationInvariant'
<1> USE DEF OperationInvariant
<1> DEFINE row == StartedRow(Current, 0)
<1>1. /\ g = job.generation /\ At(g, "transcribing") /\ job.attempts \in Attempts
      /\ job.status = "processing"
      /\ att' = [att EXCEPT ![job.attempts] = row]
      /\ UNCHANGED <<job, operation, output, remote, metered>>
  BY DEF StartProvider, SetRow, Authorized, Active, Budget
<1>2. /\ run' \in [Generations -> Run] /\ run'[g].step \in {"billing", "calling"}
      /\ \A h \in Generations : h # g => run'[h] = run[h]
  <2>1. CASE metered
    BY <2>1, GotoEffect DEF StartProvider, TypeOK, Step
  <2>2. CASE ~metered
    BY <2>2, GotoEffect DEF StartProvider, TypeOK, Step
  <2> QED
    BY <2>1, <2>2
<1>3. Current = PreparedRow /\ operation[job.attempts].status = "none"
  BY <1>1 DEF Local, Begun, At
<1>4. row \in Row /\ UnsafeRow(row)
  BY <1>3, FreshRows, RowsTyped, UnsafeStarts
<1> HIDE DEF row
<1>5. TypeOK'
  BY <1>1, <1>2, <1>4 DEF TypeOK
<1>6. Current' = row /\ \A n \in Attempts : n # job.attempts => att'[n] = att[n]
  BY <1>1 DEF Current, TypeOK
<1>7. Stuck'
  BY <1>1, <1>3, <1>4, <1>6 DEF Stuck
<1> QED
  BY <1>1, <1>2, <1>5, <1>6, <1>7, OnwardStep DEF At

LEMMA BeginUsageStep ==
  ASSUME OperationInvariant, NEW g \in Generations, BeginUsage(g)
  PROVE  OperationInvariant'
<1> USE DEF OperationInvariant
<1> DEFINE row == [Current EXCEPT !.accounting = "pending"]
           j == [job EXCEPT !.complete = FALSE]
<1>1. /\ g = job.generation /\ At(g, "billing") /\ job.attempts \in Attempts
      /\ att' = [att EXCEPT ![job.attempts] = row]
      /\ job' = j /\ UNCHANGED <<operation, output, remote, metered>>
  BY DEF BeginUsage, SetRow, Authorized, Active, Budget
<1>2. /\ run' \in [Generations -> Run] /\ run'[g].step = "calling"
      /\ \A h \in Generations : h # g => run'[h] = run[h]
  BY GotoEffect DEF BeginUsage, TypeOK, Step
<1>3. Stuck /\ Current \in Row
  BY <1>1 DEF Local, Guarded, Exposed, Exposing, At, Current, TypeOK
<1>4. row \in Row /\ UnsafeRow(row)
  BY <1>3, RowsTyped, UnsafeStarts DEF Accounting, Stuck
<1>5. /\ j \in Job /\ j.generation = job.generation /\ j.attempts = job.attempts
      /\ j.status = job.status
  BY DEF TypeOK, Job
<1> HIDE DEF row, j
<1>6. TypeOK'
  BY <1>1, <1>2, <1>4, <1>5 DEF TypeOK
<1>7. Current' = row /\ \A n \in Attempts : n # job.attempts => att'[n] = att[n]
  BY <1>1, <1>5 DEF Current, TypeOK
<1>8. Stuck'
  BY <1>1, <1>3, <1>4, <1>5, <1>7 DEF Stuck
<1> QED
  BY <1>1, <1>2, <1>5, <1>6, <1>7, <1>8, OnwardStep DEF At

LEMMA ChooseToSubmitStep ==
  ASSUME OperationInvariant, NEW g \in Generations, ChooseToSubmit(g)
  PROVE  OperationInvariant'
<1> USE DEF OperationInvariant
<1>1. /\ At(g, "calling") /\ UNCHANGED <<job, att, operation, output, remote, metered>>
      /\ run' = [run EXCEPT ![g].step = "submitting", ![g].number = job.attempts]
      /\ \A n \in Attempts : Latest(n) => operation[n].status = "failed" /\ n # job.attempts
  BY DEF ChooseToSubmit
<1>2. /\ run' \in [Generations -> Run] /\ run'[g].step = "submitting"
      /\ run'[g].number = job.attempts
      /\ \A h \in Generations : h # g => run'[h] = run[h]
  BY <1>1, PointEffect, ZenonT(30) DEF TypeOK, Step, Job
<1>3. g = job.generation /\ Stuck
  BY <1>1 DEF Local, Guarded, Exposed, Exposing, At
<1>4. Stuck'
  BY <1>1, <1>3 DEF Stuck, Current
<1>5. ASSUME NEW h \in Generations PROVE ~AtRisk(h)
  <2>1. ~At(h, "recording")
    BY <1>1, <1>3 DEF Local, Guarded, Exposed, Exposing, At
  <2>2. ~Kept(h)
    BY <1>1 DEF Kept
  <2>3. ~Lost
    BY <1>1, <1>3 DEF Lost, Ignorant, At
  <2> QED
    BY <2>1, <2>2, <2>3 DEF Local, Traced
<1>6. ASSUME NEW h \in Generations PROVE Local(h)'
  <2>1. h # g => ~Exposed(h) /\ ~Exposed(h)'
    BY <1>2, <1>3 DEF Local, Guarded, Exposed
  <2>2. Unborn(h)' /\ Followed(h)' /\ Begun(h)'
    BY <1>1, <1>2, <1>3 DEF Local, Unborn, Followed, Begun, At, Exposing, Current
  <2>3. Guarded(h)'
    BY <1>1, <1>2, <1>3, <1>4, <2>1 DEF Guarded
  <2>4. ~AtRisk(h)'
    BY <1>1, <1>5 DEF AtRisk
  <2>5. Alone(h)'
    BY <1>1, <1>5 DEF Alone, AtRisk
  <2> QED
    BY <2>2, <2>3, <2>4, <2>5 DEF Local, Traced
<1>7. TypeOK' /\ Numbered' /\ Budget' /\ OneOperationAtRisk'
  BY <1>1, <1>2, <1>5 DEF TypeOK, Numbered, Budget, OneOperationAtRisk, AtRisk
<1> QED
  BY <1>6, <1>7

-----------------------------------------------------------------------------

\* The call itself.
LEMMA SubmitStep ==
  ASSUME OperationInvariant, NEW g \in Generations, Submit(g)
  PROVE  OperationInvariant'
<1> USE DEF OperationInvariant
<1>1. At(g, "submitting") /\ UNCHANGED <<job, att, operation, output, metered>>
  BY DEF Submit
<1>2. /\ g = job.generation /\ Stuck /\ run[g].number = job.attempts
      /\ \A h \in Generations : ~AtRisk(h)
  BY <1>1 DEF Local, Guarded, Exposed, Exposing, Alone, At
<1>3. /\ run' \in [Generations -> Run]
      /\ \A h \in Generations : h # g => run'[h] = run[h]
      /\ \/ run'[g].step = "recording" /\ run'[g].number = run[g].number
         \/ run'[g].step = "answered" /\ remote' = remote
         \/ run'[g].step = "answered" /\ Ignorant(g)'
  <2>1. CASE remote' = [remote EXCEPT ![g] = "running"] /\ Goto(g, "recording")
    BY <2>1, GotoEffect DEF TypeOK, Step
  <2>2. CASE (\E answer \in ProviderRejections : Answered(g, answer)) /\ UNCHANGED remote
    BY <2>2, AnsweredEffect DEF TypeOK, Answer
  <2>3. CASE \E answer \in {"provider_timeout", "malformed_provider_response"} : Answered(g, answer)
    BY <2>3, AnsweredEffect DEF TypeOK, Answer, Ignorant, At
  <2> QED
    BY <2>1, <2>2, <2>3 DEF Submit
<1>4. /\ remote' \in [Generations -> {"none", "running", "done", "error"}]
      /\ \A h \in Generations : h # g => remote'[h] = remote[h]
  BY DEF Submit, TypeOK
<1>5. \A h \in Generations : AtRisk(h)' => h = g
  BY <1>2, <1>4 DEF AtRisk
<1>6. Stuck'
  BY <1>1, <1>2 DEF Stuck, Current
<1>7. TypeOK' /\ Numbered' /\ Budget' /\ OneOperationAtRisk'
  BY <1>1, <1>3, <1>4, <1>5 DEF TypeOK, Numbered, Budget, OneOperationAtRisk
<1>8. AtRisk(g)' => At(g, "recording")' \/ Lost'
  <2>1. CASE run'[g].step = "recording"
    BY <2>1 DEF At
  <2>2. CASE remote' = remote
    BY <1>2, <2>2 DEF AtRisk
  <2>3. CASE Ignorant(g)'
    BY <1>1, <1>2, <1>6, <2>3 DEF Lost
  <2> QED
    BY <1>3, <2>1, <2>2, <2>3
<1>9. ASSUME NEW h \in Generations PROVE Local(h)'
  <2>1. h # g => ~Exposed(h) /\ ~Exposed(h)'
    BY <1>2, <1>3 DEF Local, Guarded, Exposed
  <2>2. Unborn(h)' /\ Followed(h)' /\ Begun(h)'
    BY <1>1, <1>2, <1>3 DEF Local, Unborn, Followed, Begun, At, Exposing, Current
  <2>3. Guarded(h)'
    BY <1>1, <1>2, <1>3, <1>6, <2>1 DEF Guarded, Exposed, Exposing
  <2>4. Alone(h)'
    BY <1>3, <1>5, <2>1 DEF Alone, Exposed, Exposing, At
  <2>5. Traced(h)'
    BY <1>5, <1>8 DEF Traced
  <2> QED
    BY <2>2, <2>3, <2>4, <2>5 DEF Local
<1> QED
  BY <1>7, <1>9

LEMMA RecordOperationStep ==
  ASSUME OperationInvariant, NEW g \in Generations, RecordOperation(g)
  PROVE  OperationInvariant'
<1> USE DEF OperationInvariant
<1> DEFINE n == job.attempts
           o == [status |-> "pending", run |-> g]
<1>1. At(g, "recording") /\ UNCHANGED <<job, att, output, remote, metered>>
  BY DEF RecordOperation
<1>2. /\ g = job.generation /\ Stuck /\ run[g].number = n /\ n \in Attempts
      /\ \A h \in Generations : AtRisk(h) => h = g
  BY <1>1 DEF Local, Guarded, Exposed, Exposing, Alone, At, Stuck
<1>3. o \in Operation
  BY AttemptRange DEF Operation
<1>4. operation' = [operation EXCEPT ![n] = o]
  BY <1>2 DEF RecordOperation
<1>5. /\ run' \in [Generations -> Run] /\ run'[g].step = "polling" /\ run'[g].number = n
      /\ \A h \in Generations : h # g => run'[h] = run[h]
  BY <1>2, GotoEffect DEF RecordOperation, TypeOK, Step
<1>6. /\ operation'[n].status = "pending" /\ operation'[n].run = g
      /\ \A k \in Attempts : k # n => operation'[k] = operation[k]
  BY <1>2, <1>4 DEF TypeOK
<1> HIDE DEF o
<1>7. TypeOK' /\ OneOperationAtRisk'
  BY <1>1, <1>3, <1>4, <1>5 DEF TypeOK, OneOperationAtRisk, AtRisk
<1>8. Numbered' /\ Budget'
  BY <1>1, <1>2, <1>6, AttemptRange DEF Numbered, Budget
<1>9. Kept(g)'
  <2>1. \A m \in Attempts : m > n => operation'[m].status = "none"
    BY <1>1, <1>2, <1>6, AttemptRange DEF Numbered
  <2>2. Latest(n)'
    BY <1>1, <1>6, <2>1 DEF Latest
  <2> QED
    BY <1>1, <1>2, <1>6, <2>2 DEF Kept
<1>10. ASSUME NEW h \in Generations PROVE Local(h)'
  <2>1. h # g => ~Exposed(h) /\ ~Exposed(h)'
    BY <1>2, <1>5 DEF Local, Guarded, Exposed
  <2>2. ~Exposed(h)'
    BY <1>5, <2>1 DEF Exposed, Exposing
  <2>3. Unborn(h)' /\ Begun(h)'
    BY <1>1, <1>2, <1>5 DEF Local, Unborn, Begun, At, Exposing
  <2>4. Followed(h)'
    BY <1>2, <1>5, <1>6 DEF Local, Followed
  <2>5. Guarded(h)' /\ Alone(h)'
    BY <2>2 DEF Guarded, Alone, Exposed, Exposing, At
  <2>6. Traced(h)'
    BY <1>1, <1>2, <1>9 DEF Traced, AtRisk
  <2> QED
    BY <2>3, <2>4, <2>5, <2>6 DEF Local
<1> QED
  BY <1>7, <1>8, <1>10

\* What a run writes of an operation it follows.
LEMMA OutcomeStep ==
  ASSUME OperationInvariant, NEW g \in Generations,
         run[g].step \in {"polling", "loading"}, NEW status \in {"completed", "failed"},
         operation' = [operation EXCEPT ![run[g].number].status = status],
         UNCHANGED <<job, att, output, remote, metered>>,
         run' \in [Generations -> Run], run'[g].step = "answered",
         \A h \in Generations : h # g => run'[h] = run[h],
         status = "failed" =>
             \A h \in Generations : AtRisk(h) => operation[run[g].number].run # h
  PROVE  OperationInvariant'
<1> USE DEF OperationInvariant
<1> DEFINE n == run[g].number
           o == [operation[n] EXCEPT !.status = status]
<1>1. n \in Attempts /\ operation[n].status # "none"
  BY DEF Local, Followed
<1>2. o \in Operation /\ o.status = status /\ o.run = operation[n].run
  <2>1. operation[n] \in Operation
    BY <1>1 DEF TypeOK
  <2> QED
    BY <2>1 DEF Operation
<1>3. operation' = [operation EXCEPT ![n] = o]
  OBVIOUS
<1> HIDE DEF o
<1>4. operation'[n] = o /\ \A k \in Attempts : k # n => operation'[k] = operation[k]
  BY <1>1, <1>3 DEF TypeOK
<1>5. \A k \in Attempts : operation'[k].status = "none" <=> operation[k].status = "none"
  BY <1>1, <1>2, <1>4
<1>6. \A k \in Attempts : Latest(k)' <=> Latest(k)
  BY <1>5 DEF Latest
<1>7. \A h \in Generations : (AtRisk(h)' <=> AtRisk(h)) /\ (AtRisk(h) /\ Kept(h) => Kept(h)')
  <2>1. \A h \in Generations : AtRisk(h)' <=> AtRisk(h)
    BY DEF AtRisk
  <2>2. ASSUME NEW h \in Generations, AtRisk(h), Kept(h) PROVE Kept(h)'
    <3>1. PICK k \in Attempts : /\ operation[k].run = h /\ Latest(k)
                                /\ operation[k].status \in {"pending", "completed"}
      BY <2>2 DEF Kept
    <3>2. CASE k = n
      BY <1>2, <1>4, <1>6, <2>2, <3>1, <3>2 DEF Kept
    <3>3. CASE k # n
      BY <1>4, <1>6, <3>1, <3>3 DEF Kept
    <3> QED
      BY <3>2, <3>3
  <2> QED
    BY <2>1, <2>2
<1>8. Stuck => Stuck'
  BY <1>5 DEF Stuck, Current
<1>9. Lost => Lost'
  <2> SUFFICES ASSUME Lost PROVE Lost'
    OBVIOUS
  <2>1. g # job.generation
    BY DEF Lost, Ignorant, At
  <2> QED
    BY <1>8, <2>1 DEF Lost, Ignorant, At
<1>10. TypeOK' /\ Numbered' /\ Budget' /\ OneOperationAtRisk'
  BY <1>2, <1>3, <1>5, <1>7 DEF TypeOK, Numbered, Budget, OneOperationAtRisk
<1>11. ASSUME NEW h \in Generations PROVE Local(h)'
  <2>1. Unborn(h)' /\ Followed(h)'
    BY <1>5 DEF Local, Unborn, Followed, At
  <2>2. Begun(h)'
    BY <1>5 DEF Local, Begun, At, Exposing, Current
  <2>3. Guarded(h)' /\ Alone(h)'
    BY <1>7, <1>8 DEF Local, Guarded, Alone, Exposed, Exposing, At
  <2>4. Traced(h)'
    BY <1>7, <1>9 DEF Local, Traced, At
  <2> QED
    BY <2>1, <2>2, <2>3, <2>4 DEF Local
<1> QED
  BY <1>10, <1>11

LEMMA ProviderFinishesStep ==
  ASSUME OperationInvariant, NEW g \in Generations, ProviderFinishes(g)
  PROVE  OperationInvariant'
<1> USE DEF OperationInvariant
<1>1. /\ remote' \in [Generations -> {"none", "running", "done", "error"}]
      /\ \A h \in Generations : AtRisk(h)' => AtRisk(h)
      /\ UNCHANGED <<job, att, operation, output, run, metered>>
  BY DEF ProviderFinishes, AtRisk, TypeOK
<1>2. TypeOK' /\ Numbered' /\ Budget' /\ OneOperationAtRisk'
  BY <1>1 DEF TypeOK, Numbered, Budget, OneOperationAtRisk
<1>3. (Stuck' <=> Stuck) /\ (Lost' <=> Lost)
  BY <1>1 DEF Stuck, Lost, Current, Ignorant, At
<1>4. ASSUME NEW h \in Generations PROVE Local(h)'
  BY <1>1, <1>3 DEF Local, Unborn, Followed, Begun, Guarded, Alone, Traced, Exposed, At,
     Current, Kept, Latest
<1> QED
  BY <1>2, <1>4

-----------------------------------------------------------------------------

\* A run that ends, whatever it makes of the job.
LEMMA LastStep ==
  ASSUME OperationInvariant, NEW g \in Generations, ~At(g, "idle"), Leave(g),
         UNCHANGED <<att, operation, output, remote, metered>>, NEW j \in Job, job' = j,
         j.generation = job.generation, j.attempts = job.attempts,
         j.status = "queued" => job.status = "queued" \/ (~Stuck /\ job.attempts < MaxAttempts),
         j.status = "processing" => job.status = "processing"
  PROVE  OperationInvariant'
<1>1. /\ run' \in [Generations -> Run] /\ run'[g].step = "gone"
      /\ \A h \in Generations : h # g => run'[h] = run[h]
  BY LeaveEffect DEF OperationInvariant, TypeOK
<1>2. TypeOK'
  BY <1>1 DEF OperationInvariant, TypeOK
<1>3. Stuck => Stuck'
  BY DEF Stuck, Current
<1>4. Followed(g)' /\ Ignorant(g)'
  BY <1>1 DEF Followed, Ignorant, At
<1> QED
  BY <1>1, <1>2, <1>3, <1>4, LateStep DEF Exposing

LEMMA FinishAllowed ==
  ASSUME OperationInvariant, NEW status \in {"completed", "failed", "cancelled"},
         NEW error \in Error
  PROVE  /\ Finish(status, error) \in Job
         /\ Finish(status, error).status = status
         /\ Finish(status, error).generation = job.generation
         /\ Finish(status, error).attempts = job.attempts
  BY FinishTyped DEF OperationInvariant, TypeOK, Status

LEMMA RequeueAllowed ==
  ASSUME OperationInvariant, NEW deferred \in BOOLEAN, NEW explicit \in BOOLEAN, NEW error,
         RetryAllowed(explicit, error)
  PROVE  /\ Requeued(deferred) \in Job
         /\ Requeued(deferred).status = "queued"
         /\ Requeued(deferred).generation = job.generation
         /\ Requeued(deferred).attempts = job.attempts
         /\ ~Stuck /\ job.attempts < MaxAttempts
<1>1. ~Stuck
  BY StuckStays DEF OperationInvariant
<1> QED
  BY <1>1, RequeuedTyped DEF OperationInvariant, TypeOK, RetryAllowed

LEMMA StopAtCheckpointStep ==
  ASSUME OperationInvariant, NEW g \in Generations, StopAtCheckpoint(g)
  PROVE  OperationInvariant'
<1>1. /\ ~At(g, "idle") /\ Leave(g) /\ UNCHANGED <<att, operation, output, remote, metered>>
      /\ job' = Finish("cancelled", job.error) \/ job' = job
  BY DEF StopAtCheckpoint, At
<1>2. job \in Job /\ job.error \in Error
  BY DEF OperationInvariant, TypeOK, Job
<1>3. CASE job' = job
  BY <1>1, <1>2, <1>3, LastStep
<1>4. CASE job' = Finish("cancelled", job.error)
  BY <1>1, <1>2, <1>4, FinishAllowed, LastStep
<1> QED
  BY <1>1, <1>3, <1>4

LEMMA AbandonStep ==
  ASSUME OperationInvariant, NEW g \in Generations, Abandon(g)
  PROVE  OperationInvariant'
<1>1. job \in Job
  BY DEF OperationInvariant, TypeOK
<1> QED
  BY <1>1, LastStep DEF Abandon, At

LEMMA FailSourceStep ==
  ASSUME OperationInvariant, NEW g \in Generations, FailSource(g)
  PROVE  OperationInvariant'
<1>1. /\ ~At(g, "idle") /\ Leave(g) /\ UNCHANGED <<att, operation, output, remote, metered>>
      /\ \/ job' = Finish("failed", run[g].error)
         \/ AutomaticRetryAllowed(run[g].error) /\ job' = Requeued(TRUE)
         \/ job' = Finish("cancelled", job.error)
         \/ job' = job
  BY DEF FailSource, At
<1>2. job \in Job /\ job.error \in Error /\ run[g].error \in Error
  BY DEF OperationInvariant, TypeOK, Job, Run
<1>3. CASE job' = job
  BY <1>1, <1>2, <1>3, LastStep
<1>4. CASE job' = Finish("failed", run[g].error)
  BY <1>1, <1>2, <1>4, FinishAllowed, LastStep
<1>5. CASE job' = Finish("cancelled", job.error)
  BY <1>1, <1>2, <1>5, FinishAllowed, LastStep
<1>6. CASE AutomaticRetryAllowed(run[g].error) /\ job' = Requeued(TRUE)
  <2>1. RetryAllowed(TRUE, run[g].error)
    BY <1>6 DEF AutomaticRetryAllowed
  <2> QED
    BY <1>1, <1>6, <2>1, RequeueAllowed, LastStep
<1> QED
  BY <1>1, <1>3, <1>4, <1>5, <1>6

\* Steps of a run before the call that give it up.
LEMMA BeforeCallFails ==
  ASSUME OperationInvariant, NEW g \in Generations,
         PrepareFails(g) \/ NotReady(g) \/ PreparationFails(g) \/ UsageUnavailable(g)
  PROVE  OperationInvariant'
<1>1. CASE PrepareFails(g)
  BY <1>1, JustGiveUpStep DEF PrepareFails, At, Error
<1>2. CASE NotReady(g)
  BY <1>2, JustGiveUpStep DEF NotReady, At, Error
<1>3. CASE PreparationFails(g)
  <2>1. PICK code \in {"media_preparation_timeout", "media_preparation_failed",
                       "existing_result_conflict"} : ClassifyAndGiveUp(g, code, "none")
    BY <1>3 DEF PreparationFails
  <2>2. code \in FailureCode /\ "none" \in FailureCode
    BY DEF FailureCode, PreProviderSafe
  <2>3. ~At(g, "idle") /\ ~Ignorant(g) /\ ~At(g, "recording")
    BY <1>3 DEF PreparationFails, Ignorant, At
  <2> QED
    BY <2>1, <2>2, <2>3, ClassifyStep
<1>4. CASE UsageUnavailable(g)
  <2>1. ClassifyAndGiveUp(g, "provider_usage_accounting_unavailable", "none")
    BY <1>4 DEF UsageUnavailable
  <2>2. "provider_usage_accounting_unavailable" \in FailureCode /\ "none" \in FailureCode
    BY DEF FailureCode, PreProviderSafe
  <2>3. ~At(g, "idle") /\ ~Ignorant(g) /\ ~At(g, "recording")
    BY <1>4 DEF UsageUnavailable, Ignorant, At
  <2> QED
    BY <2>1, <2>2, <2>3, ClassifyStep
<1> QED
  BY <1>1, <1>2, <1>3, <1>4

-----------------------------------------------------------------------------

\* The answer of the transport, without a word to the database.
LEMMA AnswerStep ==
  ASSUME OperationInvariant, NEW g \in Generations, NEW answer \in Answer,
         Answered(g, answer), UNCHANGED <<job, att, operation, output, remote, metered>>,
         run[g].step \in {"calling", "polling", "loading"}
  PROVE  OperationInvariant'
<1>1. /\ run' \in [Generations -> Run] /\ run'[g].step = "answered"
      /\ \A h \in Generations : h # g => run'[h] = run[h]
  BY AnsweredEffect DEF OperationInvariant, TypeOK
<1>2. Followed(g)' /\ ~Ignorant(g) /\ ~At(g, "recording") /\ ~At(g, "idle")
  BY <1>1 DEF Followed, Ignorant, At
<1> QED
  BY <1>1, <1>2, QuietStep DEF Exposing

LEMMA FollowStep ==
  ASSUME OperationInvariant, NEW g \in Generations, FollowOperation(g) \/ OperationDone(g)
  PROVE  OperationInvariant'
<1>1. /\ run[g].step \in {"calling", "polling"}
      /\ UNCHANGED <<job, att, operation, output, remote, metered>>
  BY DEF FollowOperation, OperationDone, At
<1>2. /\ run' \in [Generations -> Run] /\ run'[g].step \in {"polling", "loading"}
      /\ run'[g].number \in Attempts /\ operation[run'[g].number].status # "none"
      /\ \A h \in Generations : h # g => run'[h] = run[h]
  <2>1. CASE FollowOperation(g)
    <3>1. PICK n \in Attempts : /\ Latest(n)
                                /\ run' = [run EXCEPT ![g].step = "polling", ![g].number = n]
      BY <2>1 DEF FollowOperation
    <3>2. n \in 0..MaxAttempts /\ "polling" \in Step /\ run \in [Generations -> Run]
      BY AttemptRange DEF Step, OperationInvariant, TypeOK
    <3>3. /\ run' \in [Generations -> Run] /\ run'[g].step = "polling" /\ run'[g].number = n
          /\ \A h \in Generations : h # g => run'[h] = run[h]
      BY <3>1, <3>2, PointEffect DEF Step
    <3>4. operation[n].status # "none"
      BY <3>1 DEF Latest
    <3> QED
      BY <3>3, <3>4
  <2>2. CASE OperationDone(g)
    <3>1. run[g].number \in Attempts /\ operation[run[g].number].status # "none"
      BY <2>2 DEF OperationDone, At, OperationInvariant, Local, Followed
    <3> QED
      BY <2>2, <3>1, GotoEffect DEF OperationDone, OperationInvariant, TypeOK, Step
  <2> QED
    BY <2>1, <2>2
<1>3. Followed(g)' /\ ~Ignorant(g) /\ ~At(g, "recording") /\ ~At(g, "idle")
  BY <1>1, <1>2 DEF Followed, Ignorant, At
<1> QED
  BY <1>1, <1>2, <1>3, QuietStep DEF Exposing

LEMMA OutcomeSteps ==
  ASSUME OperationInvariant, NEW g \in Generations, OperationFailed(g) \/ StoreResult(g)
  PROVE  OperationInvariant'
<1>1. UNCHANGED <<job, att, output, remote, metered>>
  BY DEF OperationFailed, StoreResult
<1>2. CASE OperationFailed(g)
  <2>1. /\ run' \in [Generations -> Run] /\ run'[g].step = "answered"
        /\ \A h \in Generations : h # g => run'[h] = run[h]
    BY <1>2, AnsweredEffect
       DEF OperationFailed, OperationInvariant, TypeOK, Answer, ProviderRejections
  <2>2. \A h \in Generations : AtRisk(h) => operation[run[g].number].run # h
    BY <1>2 DEF OperationFailed, Polled, AtRisk
  <2> QED
    BY <1>1, <1>2, <2>1, <2>2, OutcomeStep DEF OperationFailed, At
<1>3. CASE StoreResult(g)
  <2>1. /\ run' \in [Generations -> Run] /\ run'[g].step = "answered"
        /\ \A h \in Generations : h # g => run'[h] = run[h]
    BY <1>3, AnsweredEffect DEF StoreResult, OperationInvariant, TypeOK, Answer
  <2> QED
    BY <1>1, <1>3, <2>1, OutcomeStep DEF StoreResult, At
<1> QED
  BY <1>2, <1>3

LEMMA TransportStep ==
  ASSUME OperationInvariant, NEW g \in Generations, Transport(g)
  PROVE  OperationInvariant'
<1>1. CASE ReloadResult(g)
  BY <1>1, AnswerStep DEF ReloadResult, Answer, At
<1>3. CASE FollowOperation(g) \/ OperationDone(g)
  BY <1>3, FollowStep
<1>4. CASE RecordingFails(g)
  <2>1. ~At(g, "idle")
    BY <1>4 DEF RecordingFails, At
  <2>2. CASE JustGiveUp(g, "other")
    BY <2>1, <2>2, JustGiveUpStep DEF Error
  <2>3. CASE ClassifyAndGiveUp(g, "provider_timeout", "none")
    <3>1. "provider_timeout" \in FailureCode /\ "none" \in FailureCode
      BY DEF FailureCode, Uncertainties
    <3> QED
      BY <2>1, <2>3, <3>1, ClassifyStep
  <2> QED
    BY <1>4, <2>2, <2>3 DEF RecordingFails
<1>5. CASE PollFails(g)
  BY <1>5, AnswerStep DEF PollFails, At
<1>6. CASE OperationFailed(g) \/ StoreResult(g)
  BY <1>6, OutcomeSteps
<1> QED
  BY <1>1, <1>3, <1>4, <1>5, <1>6, ChooseToSubmitStep, SubmitStep, RecordOperationStep
     DEF Transport

LEMMA PrepareStep ==
  ASSUME OperationInvariant, NEW g \in Generations, Prepare(g)
  PROVE  OperationInvariant'
  BY ClaimStep, EnterStep, PrepareAttemptStep, StartProviderStep, BeginUsageStep,
     StopAtCheckpointStep, BeforeCallFails
     DEF Prepare

-----------------------------------------------------------------------------

\* Steps after the transport.
LEMMA RowSteps ==
  ASSUME OperationInvariant, NEW g \in Generations,
         ConfirmUsage(g) \/ CompletePart(g) \/ MarkReturned(g) \/ StoreDocument(g)
  PROVE  OperationInvariant'
<1>1. Active(g) /\ job.attempts \in Attempts /\ job \in Job /\ Current \in Row
  BY DEF ConfirmUsage, CompletePart, MarkReturned, StoreDocument, Authorized, Active,
     OperationInvariant, Budget, TypeOK, Current
<1>2. ~At(g, "idle") /\ ~Ignorant(g) /\ ~At(g, "recording")
  BY DEF ConfirmUsage, CompletePart, MarkReturned, StoreDocument, Ignorant, At
<1>3. UNCHANGED <<operation, remote, metered>> /\ output' \in {"none", "open", "stored"}
  BY DEF ConfirmUsage, CompletePart, MarkReturned, StoreDocument, OperationInvariant, TypeOK
<1>4. /\ run' \in [Generations -> Run]
      /\ run'[g].step \in {"checking", "returning", "returned", "gone"}
      /\ \A h \in Generations : h # g => run'[h] = run[h]
  <2>1. CASE ConfirmUsage(g)
    BY <2>1, GotoEffect DEF ConfirmUsage, OperationInvariant, TypeOK, Step
  <2>2. CASE CompletePart(g)
    BY <2>2, GotoEffect DEF CompletePart, OperationInvariant, TypeOK, Step
  <2>3. CASE MarkReturned(g)
    BY <2>3, GotoEffect DEF MarkReturned, OperationInvariant, TypeOK, Step
  <2>4. CASE StoreDocument(g)
    BY <2>4, LeaveEffect DEF StoreDocument, OperationInvariant, TypeOK
  <2> QED
    BY <2>1, <2>2, <2>3, <2>4
<1>5. job.status = "processing"
  BY <1>1 DEF Active
<1>6. CASE ConfirmUsage(g)
  <2> DEFINE row == [Current EXCEPT !.accounting = "confirmed"]
             j == [job EXCEPT !.billed = @ + 1, !.complete = FALSE]
  <2>1. att' = [att EXCEPT ![job.attempts] = row] /\ job' = j
    BY <1>6 DEF ConfirmUsage, SetRow
  <2>2. row \in Row
    BY <1>1, RowsTyped DEF Accounting
  <2>3. /\ j \in Job /\ j.generation = job.generation /\ j.attempts = job.attempts
        /\ j.status = job.status
    BY <1>1, BilledTyped
  <2> HIDE DEF row, j
  <2> QED
    BY <1>1, <1>2, <1>3, <1>4, <1>5, <2>1, <2>2, <2>3, RowStep
<1>7. CASE CompletePart(g)
  BY <1>1, <1>2, <1>3, <1>4, <1>5, <1>7, RowsTyped, RowStep DEF CompletePart, SetRow
<1>8. CASE MarkReturned(g)
  BY <1>1, <1>2, <1>3, <1>4, <1>5, <1>8, RowsTyped, RowStep DEF MarkReturned, SetRow
<1>9. CASE StoreDocument(g)
  <2>1. "none" \in Error
    BY DEF Error
  <2>2. CompletedRow(Current) \in Row
    BY <1>1, RowsTyped
  <2>3. /\ att' = [att EXCEPT ![job.attempts] = CompletedRow(Current)]
        /\ job' = Finish("completed", "none")
    BY <1>9 DEF StoreDocument, SetRow
  <2> QED
    BY <1>1, <1>2, <1>3, <1>4, <2>1, <2>2, <2>3, FinishAllowed, RowStep
<1> QED
  BY <1>6, <1>7, <1>8, <1>9

LEMMA UnmeteredResultStep ==
  ASSUME OperationInvariant, NEW g \in Generations, UnmeteredResult(g)
  PROVE  OperationInvariant'
<1>1. /\ run' \in [Generations -> Run] /\ run'[g].step = "checking"
      /\ \A h \in Generations : h # g => run'[h] = run[h]
  BY GotoEffect DEF UnmeteredResult, OperationInvariant, TypeOK, Step
<1>2. Followed(g)' /\ ~Ignorant(g) /\ ~At(g, "recording") /\ ~At(g, "idle")
  BY <1>1 DEF UnmeteredResult, Followed, Ignorant, At
<1> QED
  BY <1>1, <1>2, QuietStep DEF UnmeteredResult, Exposing

LEMMA PrepareDocumentStep ==
  ASSUME OperationInvariant, NEW g \in Generations, PrepareDocument(g)
  PROVE  OperationInvariant'
<1>1. /\ run' \in [Generations -> Run] /\ run'[g].step = "creating"
      /\ \A h \in Generations : h # g => run'[h] = run[h]
  BY GotoEffect DEF PrepareDocument, OperationInvariant, TypeOK, Step
<1>2. Followed(g)' /\ ~Ignorant(g) /\ ~At(g, "recording") /\ ~At(g, "idle")
  BY <1>1 DEF PrepareDocument, Followed, Ignorant, At
<1>3. TypeOK' /\ UNCHANGED <<job, att, operation, remote, metered>>
  BY <1>1 DEF PrepareDocument, OperationInvariant, TypeOK
<1> QED
  BY <1>1, <1>2, <1>3, LateStep DEF Exposing

LEMMA AfterCallFails ==
  ASSUME OperationInvariant, NEW g \in Generations,
         \/ ConfirmationFails(g) \/ ProviderFails(g) \/ CompletePartFails(g)
         \/ MarkReturnedFails(g) \/ ResultEmpty(g) \/ DeliveryFails(g)
  PROVE  OperationInvariant'
<1>1. /\ "none" \in FailureCode /\ "provider_usage_outcome_uncertain" \in FailureCode
      /\ "partial_provider_result" \in FailureCode
      /\ "malformed_provider_response" \in FailureCode
  BY DEF FailureCode, Uncertainties
<1>2. ~At(g, "idle") /\ ~At(g, "recording")
  BY DEF ConfirmationFails, ProviderFails, CompletePartFails, MarkReturnedFails, ResultEmpty,
     DeliveryFails, At
<1>3. CASE ConfirmationFails(g)
  <2>1. ~Ignorant(g) /\ ClassifyAndGiveUp(g, "provider_usage_outcome_uncertain", "none")
    BY <1>3 DEF ConfirmationFails, Ignorant, At
  <2> QED
    BY <1>1, <1>2, <2>1, ClassifyStep
<1>4. CASE ProviderFails(g)
  <2>1. run[g].answer \in FailureCode
    BY <1>4 DEF ProviderFails, OperationInvariant, TypeOK, Run, Answer, FailureCode,
       Uncertainties, SafePreTransport
  <2>2. /\ ClassifyAndGiveUp(g, run[g].answer, run[g].answer)
        /\ Ignorant(g) =>
              run[g].answer \in {"provider_timeout", "malformed_provider_response"}
    BY <1>4 DEF ProviderFails, Ignorant, At
  <2> QED
    BY <1>2, <2>1, <2>2, ClassifyStep
<1>5. CASE CompletePartFails(g)
  <2>1. ~Ignorant(g) /\ ClassifyAndGiveUp(g, "partial_provider_result", "none")
    BY <1>5 DEF CompletePartFails, Ignorant, At
  <2> QED
    BY <1>1, <1>2, <2>1, ClassifyStep
<1>6. CASE MarkReturnedFails(g)
  BY <1>2, <1>6, JustGiveUpStep DEF MarkReturnedFails, Error
<1>7. CASE ResultEmpty(g)
  <2>1. ~Ignorant(g) /\ ClassifyAndGiveUp(g, "malformed_provider_response", "none")
    BY <1>7 DEF ResultEmpty, Ignorant, At
  <2> QED
    BY <1>1, <1>2, <2>1, ClassifyStep
<1>8. CASE DeliveryFails(g)
  BY <1>2, <1>8, JustGiveUpStep DEF DeliveryFails, Error
<1> QED
  BY <1>3, <1>4, <1>5, <1>6, <1>7, <1>8

LEMMA ConcludeStep ==
  ASSUME OperationInvariant, NEW g \in Generations, Conclude(g)
  PROVE  OperationInvariant'
  BY RowSteps, UnmeteredResultStep, PrepareDocumentStep, AfterCallFails, FailSourceStep,
     AbandonStep
     DEF Conclude

-----------------------------------------------------------------------------

\* Everybody else.
LEMMA EnvironmentStep ==
  ASSUME OperationInvariant, Environment
  PROVE  OperationInvariant'
<1>1. job \in Job /\ job.error \in Error
  BY DEF OperationInvariant, TypeOK, Job
<1>2. UNCHANGED <<att, operation, output, run, remote, metered>>
  BY DEF Environment, RecoverExpired, RequestCancellation, QueueRetry, ExpireLease, BackoffElapses
<1>3. ASSUME NEW status \in {"completed", "failed", "cancelled"}, NEW error \in Error,
             job' = Finish(status, error)
      PROVE  OperationInvariant'
  BY <1>2, <1>3, FinishAllowed, JobStep
<1>4. ASSUME NEW explicit \in BOOLEAN, RetryAllowed(explicit, job.error), job' = Requeued(FALSE)
      PROVE  OperationInvariant'
  BY <1>2, <1>4, RequeueAllowed, JobStep
<1>5. ASSUME NEW flag \in BOOLEAN,
             job' \in {[job EXCEPT !.cancelRequested = flag], [job EXCEPT !.live = flag],
                      [job EXCEPT !.deferred = flag]}
      PROVE  OperationInvariant'
  <2>1. PICK j : j = job'
    OBVIOUS
  <2>2. /\ j \in Job /\ j.generation = job.generation /\ j.attempts = job.attempts
        /\ j.status = job.status
    BY <1>1, <1>5, <2>1, FlagsTyped
  <2> QED
    BY <1>2, <2>1, <2>2, JobStep
<1>6. CASE RecoverExpired
  BY <1>1, <1>3, <1>4, <1>6 DEF RecoverExpired, Error
<1>7. CASE RequestCancellation
  <2>1. CASE job' = Finish("cancelled", job.error)
    BY <1>1, <1>3, <2>1
  <2>2. CASE job' = [job EXCEPT !.cancelRequested = TRUE]
    BY <1>5, <2>2
  <2> QED
    BY <1>7, <2>1, <2>2 DEF RequestCancellation
<1>8. CASE QueueRetry
  BY <1>4, <1>8 DEF QueueRetry
<1>9. CASE ExpireLease
  BY <1>5, <1>9 DEF ExpireLease
<1>10. CASE BackoffElapses
  BY <1>5, <1>10 DEF BackoffElapses
<1> QED
  BY <1>6, <1>7, <1>8, <1>9, <1>10 DEF Environment

LEMMA InitInvariant == Init => OperationInvariant
<1> SUFFICES ASSUME Init PROVE OperationInvariant
  OBVIOUS
<1>1. job \in Job
  BY AttemptRange DEF Init, Job, Status, Error
<1>2. att \in [Attempts -> Row]
  BY FreshRows DEF Init
<1>3. operation \in [Attempts -> Operation]
  BY AttemptRange DEF Init, Operation
<1>4. run \in [Generations -> Run] /\ \A g \in Generations : run[g].step = "idle"
  BY AttemptRange DEF Init, IdleRun, Run, Step, Answer, Error
<1>5. TypeOK
  BY <1>1, <1>2, <1>3, <1>4 DEF Init, TypeOK
<1>6. Numbered /\ Budget
  BY YandexAssumption DEF Init, Numbered, Budget
<1>7. \A g \in Generations : ~AtRisk(g)
  BY DEF Init, AtRisk
<1>8. ASSUME NEW g \in Generations PROVE Local(g)
  BY <1>4, <1>7 DEF Local, Unborn, Followed, Begun, Guarded, Exposed, Exposing, Alone, Traced, At
<1> QED
  BY <1>5, <1>6, <1>7, <1>8 DEF OperationInvariant, OneOperationAtRisk

LEMMA NextInvariant == OperationInvariant /\ [Next]_vars => OperationInvariant'
<1> SUFFICES ASSUME OperationInvariant, [Next]_vars PROVE OperationInvariant'
  OBVIOUS
<1>1. CASE UNCHANGED vars
  BY <1>1 DEF vars, OperationInvariant, TypeOK, Numbered, Budget, Local, Unborn, Followed, Begun,
     Guarded, Exposed, Alone, Traced, AtRisk, Kept, Lost, Latest, Stuck, Current, Ignorant, At,
     OneOperationAtRisk
<1>2. CASE \E g \in Generations : Prepare(g) \/ Transport(g) \/ Conclude(g) \/ ProviderFinishes(g)
  BY <1>2, PrepareStep, TransportStep, ConcludeStep, ProviderFinishesStep
<1>3. CASE Environment
  BY <1>3, EnvironmentStep
<1> QED
  BY <1>1, <1>2, <1>3 DEF Next

\* The inductive invariant: only the current run comes near the call, the ledger
\* keeps the job out of the queue while it does, and an operation that may be
\* charged is being recorded, is kept in the latest row, or leaves the job stuck.
THEOREM OperationInvariantHolds == Spec => []OperationInvariant
<1>1. QED
  BY InitInvariant, NextInvariant, PTL DEF Spec

\* Every variable keeps its type.
THEOREM TypeCorrect == Spec => []TypeOK
<1>1. OperationInvariant => TypeOK
  BY DEF OperationInvariant
<1> QED
  BY <1>1, OperationInvariantHolds, PTL

\* The recording is never given to the provider a second time while an earlier
\* operation may still be charged.
THEOREM OneOperationAtRiskHolds == Spec => []OneOperationAtRisk
<1>1. OperationInvariant => OneOperationAtRisk
  BY DEF OperationInvariant
<1> QED
  BY <1>1, OperationInvariantHolds, PTL

-----------------------------------------------------------------------------

\* A job goes back to the queue by a retry the ledger allows, and by that alone.
LEMMA RequeueIsAllowed ==
  ASSUME OperationInvariant, Next, job.status # "queued", job'.status = "queued"
  PROVE  ~Stuck /\ UNCHANGED <<operation, remote>>
<1>1. job \in Job /\ job.error \in Error
  BY DEF OperationInvariant, TypeOK, Job
<1>2. \A status \in Status : \A error : Finish(status, error).status = status
  BY <1>1 DEF Finish, Released, Job
<1>3. ASSUME NEW explicit \in BOOLEAN, NEW error, RetryAllowed(explicit, error) PROVE ~Stuck
  BY <1>3, StuckStays DEF OperationInvariant
<1>4. job' # job
  OBVIOUS
<1>5. ASSUME NEW g \in Generations, FailSource(g) PROVE ~Stuck /\ UNCHANGED <<operation, remote>>
  BY <1>2, <1>3, <1>4, <1>5 DEF FailSource, AutomaticRetryAllowed, Status
<1>6. CASE RecoverExpired
  BY <1>2, <1>3, <1>6 DEF RecoverExpired, Status
<1>7. CASE QueueRetry
  BY <1>3, <1>7 DEF QueueRetry
<1>8. CASE RequestCancellation \/ ExpireLease \/ BackoffElapses
  <2>1. \/ job' = Finish("cancelled", job.error)
        \/ job' = [job EXCEPT !.cancelRequested = TRUE]
        \/ job' = [job EXCEPT !.live = FALSE]
        \/ job' = [job EXCEPT !.deferred = FALSE]
    BY <1>8 DEF RequestCancellation, ExpireLease, BackoffElapses
  <2> QED
    BY <1>1, <1>2, <2>1 DEF Job, Status
<1>9. ASSUME NEW g \in Generations, Prepare(g) PROVE FALSE
  <2>1. \/ UNCHANGED job
        \/ job.status = "queued"
        \/ job' = Finish("cancelled", job.error)
        \/ job' = [job EXCEPT !.complete = FALSE]
    BY <1>9 DEF Prepare, Claim, Enter, PrepareAttempt, PrepareFails, StopAtCheckpoint, NotReady,
       PreparationFails, StartProvider, BeginUsage, UsageUnavailable, JustGiveUp, ClassifyAndGiveUp
  <2> QED
    BY <1>1, <1>2, <1>4, <2>1 DEF Job, Status
<1>10. ASSUME NEW g \in Generations, Transport(g) \/ ProviderFinishes(g) PROVE FALSE
  BY <1>4, <1>10 DEF Transport, ReloadResult, FollowOperation, ChooseToSubmit, Submit,
     RecordOperation, RecordingFails, OperationDone, OperationFailed, PollFails, StoreResult,
     JustGiveUp, ClassifyAndGiveUp, ProviderFinishes
<1>11. ASSUME NEW g \in Generations, Conclude(g), ~FailSource(g) PROVE FALSE
  <2>1. \/ UNCHANGED job
        \/ job' = [job EXCEPT !.billed = @ + 1, !.complete = FALSE]
        \/ job' = Finish("completed", "none")
    BY <1>11 DEF Conclude, ConfirmUsage, ConfirmationFails, UnmeteredResult, ProviderFails,
       CompletePart, CompletePartFails, MarkReturned, MarkReturnedFails, ResultEmpty,
       PrepareDocument, StoreDocument, DeliveryFails, Abandon, JustGiveUp, ClassifyAndGiveUp
  <2> QED
    BY <1>1, <1>2, <1>4, <2>1, BilledTyped DEF Status
<1> QED
  BY <1>5, <1>6, <1>7, <1>8, <1>9, <1>10, <1>11 DEF Next, Environment

\* An operation that may be charged is kept whenever the job is not stuck.
LEMMA KeptUnlessStuck ==
  ASSUME OperationInvariant, ~Stuck, NEW g \in Generations, AtRisk(g)
  PROVE  Kept(g)
  BY DEF OperationInvariant, Local, Guarded, Traced, Exposed, Exposing, Lost, At

\* A job goes back to the queue only if every operation that may be charged has
\* a row the next attempt follows.
THEOREM NothingPaidIsAbandonedHolds == Spec => NothingPaidIsAbandoned
<1> DEFINE Step1 ==
        job.status # "queued" /\ job'.status = "queued" =>
          \A g \in Generations : AtRisk(g) =>
             \E n \in Attempts : operation[n].run = g /\ operation[n].status # "failed"
<1>1. OperationInvariant /\ [Next]_vars => [Step1]_vars
  <2> SUFFICES ASSUME OperationInvariant, Next, job.status # "queued", job'.status = "queued",
                      NEW g \in Generations, AtRisk(g)
               PROVE  \E n \in Attempts : operation[n].run = g /\ operation[n].status # "failed"
    OBVIOUS
  <2>1. Kept(g)
    BY RequeueIsAllowed, KeptUnlessStuck
  <2> QED
    BY <2>1 DEF Kept
<1> QED
  BY <1>1, OperationInvariantHolds, PTL DEF Spec, NothingPaidIsAbandoned

-----------------------------------------------------------------------------
(***************************************************************************)
(* The account: what may be charged is billed, or the ledger says that it  *)
(* does not know.                                                          *)
(***************************************************************************)

Owed(row) == row.accounting \in {"pending", "uncertain"}

Accounted == job.billed >= 1 \/ UsageUncertain

\* A run that is about to ask the provider, or whose operation may be charged.
Committed(g) == run[g].step \in {"calling", "submitting"} \/ AtRisk(g)

LedgerInvariant ==
    /\ job.complete => ~UsageUncertain
    /\ metered => \A g \in Generations : Committed(g) => Accounted

\* The ledger of one row writes over what is owed only to confirm it.
LEMMA OwedKept ==
  ASSUME NEW row \in Row
  PROVE  /\ Owed(StartedRow(row, 0)) <=> Owed(row)
         /\ Owed(PartCompletedRow(row, 1)) <=> Owed(row)
         /\ Owed(ReturnedRow(row)) <=> Owed(row)
         /\ Owed(CompletedRow(row)) <=> Owed(row)
<1>1. Owed(StartedRow(row, 0)) <=> Owed(row)
  BY DEF Owed, StartedRow, Row
<1>2. Owed(PartCompletedRow(row, 1)) <=> Owed(row)
  BY DEF Owed, PartCompletedRow, Row
<1>3. Owed(ReturnedRow(row)) <=> Owed(row)
  BY DEF Owed, ReturnedRow, Row
<1>4. Owed(CompletedRow(row)) <=> Owed(row)
  BY DEF Owed, CompletedRow, Row
<1> QED
  BY <1>1, <1>2, <1>3, <1>4

LEMMA ClassifiedOwed ==
  ASSUME NEW row \in Row, NEW code \in FailureCode, NEW providerCode \in FailureCode
  PROVE  Owed(ClassifiedRow(UsageUncertainRow(row), code, providerCode)) <=> Owed(row)
<1> DEFINE r == UsageUncertainRow(row)
<1>1. r \in Row
  BY RowsTyped
<1>2. Owed(r) <=> Owed(row)
  BY DEF Owed, UsageUncertainRow, Row
<1> HIDE DEF r
<1>3. ClassifiedRow(r, code, providerCode).accounting = r.accounting
  BY <1>1 DEF ClassifiedRow, Row
<1> QED
  BY <1>2, <1>3 DEF Owed, r

LEMMA SameRow ==
  ASSUME TypeOK, NEW n \in Attempts, NEW row, att' = [att EXCEPT ![n] = row],
         Owed(row) <=> Owed(att[n])
  PROVE  UsageUncertain' <=> UsageUncertain
<1>1. att'[n] = row /\ \A k \in Attempts : k # n => att'[k] = att[k]
  BY DEF TypeOK
<1>2. \A k \in Attempts : Owed(att'[k]) <=> Owed(att[k])
  BY <1>1
<1> QED
  BY <1>2 DEF UsageUncertain, Owed

LEMMA LedgerKept ==
  ASSUME LedgerInvariant, UsageUncertain' <=> UsageUncertain, metered' = metered,
         job'.billed = job.billed, job'.complete \in {job.complete, ~UsageUncertain},
         metered => \A g \in Generations : Committed(g)' => Committed(g) \/ Accounted
  PROVE  LedgerInvariant'
  BY DEF LedgerInvariant, Accounted

\* Nothing but what a run knows, or what the provider does, changes.
LEMMA LedgerUntouched ==
  ASSUME LedgerInvariant, UNCHANGED <<att, metered>>,
         job'.billed = job.billed, job'.complete \in {job.complete, ~UsageUncertain},
         \A g \in Generations : Committed(g)' => Committed(g)
  PROVE  LedgerInvariant'
<1>1. UsageUncertain' <=> UsageUncertain
  BY DEF UsageUncertain
<1> QED
  BY <1>1, LedgerKept

LEMMA JustGiveUpLedger ==
  ASSUME TypeOK, LedgerInvariant, NEW g \in Generations, NEW error, JustGiveUp(g, error)
  PROVE  LedgerInvariant'
<1>1. \A h \in Generations : Committed(h)' => Committed(h)
  BY DEF JustGiveUp, GiveUp, Committed, AtRisk, TypeOK, Run
<1> QED
  BY <1>1, LedgerUntouched DEF JustGiveUp

LEMMA ClassifyLedger ==
  ASSUME OperationInvariant, LedgerInvariant, NEW g \in Generations,
         NEW code \in FailureCode, NEW providerCode \in FailureCode,
         ClassifyAndGiveUp(g, code, providerCode)
  PROVE  LedgerInvariant'
<1>1. \A h \in Generations : Committed(h)' => Committed(h)
  BY DEF ClassifyAndGiveUp, GiveUp, Committed, AtRisk, OperationInvariant, TypeOK, Run
<1>2. CASE ~Authorized(g)
  BY <1>1, <1>2, LedgerUntouched DEF ClassifyAndGiveUp
<1>3. CASE Authorized(g)
  <2>1. job.attempts \in Attempts
    BY <1>3 DEF Authorized, Active, OperationInvariant, Budget
  <2>2. Current \in Row /\ Current = att[job.attempts]
    BY <2>1 DEF Current, OperationInvariant, TypeOK
  <2>3. UsageUncertain' <=> UsageUncertain
    BY <1>3, <2>1, <2>2, ClassifiedOwed, SameRow DEF ClassifyAndGiveUp, SetRow, OperationInvariant
  <2> QED
    BY <1>1, <2>3, LedgerKept DEF ClassifyAndGiveUp
<1> QED
  BY <1>2, <1>3

\* A run that leaves the row of the job and the ledger alone, and does not come
\* to the call.
LEMMA UnheardLedger ==
  ASSUME TypeOK, LedgerInvariant, NEW g \in Generations, UNCHANGED <<job, att, metered>>,
         \A h \in Generations : AtRisk(h)' => AtRisk(h) \/ At(h, "submitting"),
         \A h \in Generations : h # g => run'[h] = run[h],
         run'[g].step \in {"calling", "submitting"} => run[g].step = "calling"
  PROVE  LedgerInvariant'
<1>1. \A h \in Generations : Committed(h)' => Committed(h)
  BY DEF Committed, At
<1> QED
  BY <1>1, LedgerUntouched

LEMMA TransportLedger ==
  ASSUME OperationInvariant, LedgerInvariant, NEW g \in Generations,
         Transport(g) \/ UnmeteredResult(g) \/ PrepareDocument(g)
  PROVE  LedgerInvariant'
<1>1. TypeOK /\ run \in [Generations -> Run]
  BY DEF OperationInvariant, TypeOK
<1>2. CASE RecordingFails(g)
  <2>1. "provider_timeout" \in FailureCode /\ "none" \in FailureCode
    BY DEF FailureCode, Uncertainties
  <2> QED
    BY <1>1, <1>2, <2>1, ClassifyLedger, JustGiveUpLedger DEF RecordingFails
<1>3. ASSUME ~RecordingFails(g) PROVE LedgerInvariant'
  <2>1. UNCHANGED <<job, att, metered>>
    BY <1>3 DEF Transport, ReloadResult, FollowOperation, ChooseToSubmit, Submit,
       RecordOperation, OperationDone, OperationFailed, PollFails, StoreResult, UnmeteredResult,
       PrepareDocument
  <2>2. /\ \A h \in Generations : h # g => run'[h] = run[h]
        /\ run'[g].step \in {"calling", "submitting"} => run[g].step = "calling"
    <3>1. CASE ChooseToSubmit(g)
      BY <1>1, <3>1 DEF ChooseToSubmit, At, Run
    <3>2. CASE FollowOperation(g)
      BY <1>1, <3>2 DEF FollowOperation, At, Run
    <3>3. CASE \E answer \in Answer : Answered(g, answer)
      BY <1>1, <3>3 DEF Answered, Run
    <3>4. CASE \E step \in {"recording", "polling", "loading", "checking", "creating"} : Goto(g, step)
      BY <1>1, <3>4 DEF Goto, Run
    <3> QED
      BY <1>3, <3>1, <3>2, <3>3, <3>4
         DEF Transport, ReloadResult, Submit, RecordOperation, OperationDone,
             OperationFailed, PollFails, StoreResult, UnmeteredResult, PrepareDocument,
             Answer, ProviderRejections
  <2>3. \A h \in Generations : AtRisk(h)' => AtRisk(h) \/ At(h, "submitting")
    <3>1. CASE Submit(g)
      BY <1>1, <3>1 DEF Submit, AtRisk, TypeOK
    <3>2. CASE UNCHANGED remote
      BY <3>2 DEF AtRisk
    <3> QED
      BY <1>3, <3>1, <3>2
         DEF Transport, ReloadResult, FollowOperation, ChooseToSubmit,
             RecordOperation, OperationDone, OperationFailed, PollFails, StoreResult,
             UnmeteredResult, PrepareDocument
  <2> QED
    BY <1>1, <2>1, <2>2, <2>3, UnheardLedger
<1> QED
  BY <1>2, <1>3

\* The account of a job that ends, or is queued again.
LEMMA JobAccount ==
  ASSUME job \in Job
  PROVE  /\ \A status, error : /\ Finish(status, error).billed = job.billed
                               /\ Finish(status, error).complete = ~UsageUncertain
         /\ \A deferred : /\ Requeued(deferred).billed = job.billed
                          /\ Requeued(deferred).complete = job.complete
  BY DEF Finish, Requeued, Released, Job

LEMMA AccountKept ==
  ASSUME job \in Job,
         \/ job' = job
         \/ \E status, error : job' = Finish(status, error)
         \/ \E deferred : job' = Requeued(deferred)
  PROVE  job'.billed = job.billed /\ job'.complete \in {job.complete, ~UsageUncertain}
<1>1. CASE job' = job
  BY <1>1
<1>2. CASE \E status, error : job' = Finish(status, error)
  BY <1>2, JobAccount
<1>3. CASE \E deferred : job' = Requeued(deferred)
  BY <1>3, JobAccount
<1> QED
  BY <1>1, <1>2, <1>3

LEMMA PrepareLedger ==
  ASSUME OperationInvariant, LedgerInvariant, NEW g \in Generations, Prepare(g)
  PROVE  LedgerInvariant'
<1>1. TypeOK /\ run \in [Generations -> Run] /\ job \in Job
  BY DEF OperationInvariant, TypeOK
<1>2. CASE Claim(g) \/ Enter(g) \/ StopAtCheckpoint(g)
  <2>1. UNCHANGED <<att, remote, metered>>
    BY <1>2 DEF Claim, Enter, StopAtCheckpoint
  <2>2. job'.billed = job.billed /\ job'.complete \in {job.complete, ~UsageUncertain}
    <3>1. CASE StopAtCheckpoint(g)
      BY <1>1, <3>1, JobAccount DEF StopAtCheckpoint
    <3>2. CASE Claim(g) \/ Enter(g)
      BY <1>1, <3>2 DEF Claim, Enter, Job
    <3> QED
      BY <1>2, <3>1, <3>2
  <2>3. \A h \in Generations : Committed(h)' => Committed(h)
    BY <1>1, <1>2, <2>1 DEF Claim, Enter, StopAtCheckpoint, Goto, Leave, IdleRun, Committed,
       AtRisk, Run
  <2> QED
    BY <2>1, <2>2, <2>3, LedgerUntouched
<1>3. CASE PrepareAttempt(g) \/ StartProvider(g)
  <2>1. /\ UNCHANGED <<job, remote, metered>> /\ Authorized(g)
        /\ \A h \in Generations : h # g => run'[h] = run[h]
    BY <1>1, <1>3 DEF PrepareAttempt, StartProvider, Goto
  <2>2. job.attempts \in Attempts /\ g = job.generation
    BY <2>1 DEF Authorized, Active, OperationInvariant, Budget
  <2>3. Current = NoRow \/ Current = PreparedRow
    BY <1>3, <2>2 DEF PrepareAttempt, StartProvider, OperationInvariant, Local, Begun, At
  <2>4. /\ att' = [att EXCEPT ![job.attempts] = PreparedRow] /\ Current = NoRow
        \/ att' = [att EXCEPT ![job.attempts] = StartedRow(Current, 0)]
    BY <1>3, <2>2 DEF PrepareAttempt, StartProvider, SetRow, OperationInvariant, Local, Begun, At
  <2>5. UsageUncertain' <=> UsageUncertain
    <3>1. Owed(PreparedRow) <=> Owed(NoRow)
      BY DEF Owed, PreparedRow, NoRow
    <3>2. Owed(StartedRow(Current, 0)) <=> Owed(Current)
      BY <2>3, OwedKept, FreshRows
    <3> QED
      BY <1>1, <2>2, <2>4, <3>1, <3>2, SameRow DEF Current
  <2>6. metered => run'[g].step \notin {"calling", "submitting"}
    BY <1>1, <1>3 DEF PrepareAttempt, StartProvider, Goto, Run
  <2>7. metered => \A h \in Generations : Committed(h)' => Committed(h)
    BY <2>1, <2>6 DEF Committed, AtRisk
  <2> QED
    BY <2>1, <2>5, <2>7, LedgerKept
<1>4. CASE BeginUsage(g)
  <2>1. job.attempts \in Attempts
    BY <1>4 DEF BeginUsage, Authorized, Active, OperationInvariant, Budget
  <2>2. att'[job.attempts].accounting = "pending"
    BY <1>1, <1>4, <2>1 DEF BeginUsage, SetRow, Current, TypeOK, Row
  <2>3. UsageUncertain'
    BY <2>1, <2>2 DEF UsageUncertain
  <2>4. ~job'.complete
    BY <1>1, <1>4 DEF BeginUsage, Job
  <2> QED
    BY <2>3, <2>4 DEF LedgerInvariant, Accounted
<1>5. CASE PrepareFails(g) \/ NotReady(g)
  BY <1>1, <1>5, JustGiveUpLedger DEF PrepareFails, NotReady
<1>6. CASE PreparationFails(g)
  <2>1. PICK code \in {"media_preparation_timeout", "media_preparation_failed",
                       "existing_result_conflict"} : ClassifyAndGiveUp(g, code, "none")
    BY <1>6 DEF PreparationFails
  <2>2. code \in FailureCode /\ "none" \in FailureCode
    BY DEF FailureCode, PreProviderSafe
  <2> QED
    BY <2>1, <2>2, ClassifyLedger
<1>7. CASE UsageUnavailable(g)
  <2>1. "provider_usage_accounting_unavailable" \in FailureCode /\ "none" \in FailureCode
    BY DEF FailureCode, PreProviderSafe
  <2> QED
    BY <1>7, <2>1, ClassifyLedger DEF UsageUnavailable
<1> QED
  BY <1>2, <1>3, <1>4, <1>5, <1>6, <1>7 DEF Prepare

\* The result is counted, once its row is no longer owed.
LEMMA ConfirmLedger ==
  ASSUME OperationInvariant, LedgerInvariant, NEW g \in Generations, ConfirmUsage(g)
  PROVE  LedgerInvariant'
<1>1. job' = [job EXCEPT !.billed = @ + 1, !.complete = FALSE] /\ job \in Job
  BY DEF ConfirmUsage, OperationInvariant, TypeOK
<1>2. ~job'.complete
  BY <1>1 DEF Job
<1>3. job'.billed >= 1
  BY <1>1 DEF Job
<1> QED
  BY <1>2, <1>3 DEF LedgerInvariant, Accounted

LEMMA ConcludeLedger ==
  ASSUME OperationInvariant, LedgerInvariant, NEW g \in Generations, Conclude(g)
  PROVE  LedgerInvariant'
<1>1. TypeOK /\ run \in [Generations -> Run] /\ job \in Job
  BY DEF OperationInvariant, TypeOK
<1>2. CASE CompletePart(g) \/ MarkReturned(g) \/ StoreDocument(g)
  <2>1. Active(g) /\ UNCHANGED <<remote, metered>>
    BY <1>2 DEF CompletePart, MarkReturned, StoreDocument, Authorized
  <2>2. job.attempts \in Attempts
    BY <2>1 DEF Active, OperationInvariant, Budget
  <2>3. Current \in Row /\ Current = att[job.attempts]
    BY <1>1, <2>2 DEF Current, TypeOK
  <2>4. \E row \in {PartCompletedRow(Current, 1), ReturnedRow(Current), CompletedRow(Current)} :
           att' = [att EXCEPT ![job.attempts] = row]
    BY <1>2 DEF CompletePart, MarkReturned, StoreDocument, SetRow
  <2>5. UsageUncertain' <=> UsageUncertain
    <3>1. PICK row \in {PartCompletedRow(Current, 1), ReturnedRow(Current),
                        CompletedRow(Current)} : att' = [att EXCEPT ![job.attempts] = row]
      BY <2>4
    <3>2. Owed(row) <=> Owed(att[job.attempts])
      BY <2>3, OwedKept
    <3> QED
      BY <1>1, <2>2, <3>1, <3>2, SameRow
  <2>6. job'.billed = job.billed /\ job'.complete \in {job.complete, ~UsageUncertain}
    <3>1. job' = job \/ job' = Finish("completed", "none")
      BY <1>2 DEF CompletePart, MarkReturned, StoreDocument
    <3> QED
      BY <1>1, <3>1, AccountKept
  <2>7. \A h \in Generations : Committed(h)' => Committed(h)
    BY <1>1, <1>2, <2>1 DEF CompletePart, MarkReturned, StoreDocument, Goto, Leave, IdleRun,
       Committed, AtRisk, Run
  <2> QED
    BY <2>1, <2>5, <2>6, <2>7, LedgerKept
<1>3. CASE FailSource(g) \/ Abandon(g)
  <2>1. UNCHANGED <<att, remote, metered>> /\ Leave(g)
    BY <1>3 DEF FailSource, Abandon
  <2>2. job'.billed = job.billed /\ job'.complete \in {job.complete, ~UsageUncertain}
    <3>1. \/ job' = job
          \/ job' = Finish("failed", run[g].error)
          \/ job' = Finish("cancelled", job.error)
          \/ job' = Requeued(TRUE)
      BY <1>3 DEF FailSource, Abandon
    <3> QED
      BY <1>1, <3>1, AccountKept
  <2>3. \A h \in Generations : Committed(h)' => Committed(h)
    BY <1>1, <2>1 DEF Leave, IdleRun, Committed, AtRisk, Run
  <2> QED
    BY <2>1, <2>2, <2>3, LedgerUntouched
<1>4. CASE MarkReturnedFails(g) \/ DeliveryFails(g)
  BY <1>1, <1>4, JustGiveUpLedger DEF MarkReturnedFails, DeliveryFails
<1>5. CASE ConfirmationFails(g) \/ CompletePartFails(g) \/ ResultEmpty(g)
  <2>1. PICK code \in {"provider_usage_outcome_uncertain", "partial_provider_result",
                       "malformed_provider_response"} : ClassifyAndGiveUp(g, code, "none")
    BY <1>5 DEF ConfirmationFails, CompletePartFails, ResultEmpty
  <2>2. code \in FailureCode /\ "none" \in FailureCode
    BY DEF FailureCode, Uncertainties
  <2> QED
    BY <2>1, <2>2, ClassifyLedger
<1>6. CASE ProviderFails(g)
  <2>1. run[g].answer \in FailureCode
    BY <1>1, <1>6 DEF ProviderFails, Run, Answer, FailureCode, Uncertainties, SafePreTransport
  <2> QED
    BY <1>6, <2>1, ClassifyLedger DEF ProviderFails
<1> QED
  BY <1>2, <1>3, <1>4, <1>5, <1>6, ConfirmLedger, TransportLedger DEF Conclude

LEMMA EnvironmentLedger ==
  ASSUME OperationInvariant, LedgerInvariant,
         Environment \/ \E g \in Generations : ProviderFinishes(g)
  PROVE  LedgerInvariant'
<1>1. TypeOK /\ job \in Job
  BY DEF OperationInvariant, TypeOK
<1>2. UNCHANGED <<att, run, metered>>
  BY DEF Environment, RecoverExpired, RequestCancellation, QueueRetry, ExpireLease,
     BackoffElapses, ProviderFinishes
<1>3. job'.billed = job.billed /\ job'.complete \in {job.complete, ~UsageUncertain}
  <2>1. CASE RecoverExpired \/ QueueRetry
    <3>1. \/ job' = Finish("failed", "other")
          \/ job' = Finish("cancelled", job.error)
          \/ job' = Requeued(FALSE)
      BY <2>1 DEF RecoverExpired, QueueRetry
    <3> QED
      BY <1>1, <3>1, AccountKept
  <2>2. CASE job' = Finish("cancelled", job.error)
    BY <1>1, <2>2, JobAccount
  <2>3. CASE \/ job' = [job EXCEPT !.cancelRequested = TRUE]
             \/ job' = [job EXCEPT !.live = FALSE]
             \/ job' = [job EXCEPT !.deferred = FALSE]
    BY <1>1, <2>3 DEF Job
  <2> QED
    BY <2>1, <2>2, <2>3 DEF Environment, RequestCancellation, ExpireLease, BackoffElapses,
       ProviderFinishes
<1>4. \A h \in Generations : AtRisk(h)' => AtRisk(h)
  BY <1>1 DEF Environment, RecoverExpired, RequestCancellation, QueueRetry, ExpireLease,
     BackoffElapses, ProviderFinishes, AtRisk, TypeOK
<1>5. \A h \in Generations : Committed(h)' => Committed(h)
  BY <1>2, <1>4 DEF Committed
<1> QED
  BY <1>2, <1>3, <1>5, LedgerUntouched

LEMMA InitLedger == Init => LedgerInvariant
<1> SUFFICES ASSUME Init PROVE LedgerInvariant
  OBVIOUS
<1>1. ~job.complete
  BY DEF Init
<1>2. \A g \in Generations : ~Committed(g)
  BY DEF Init, IdleRun, Committed, AtRisk
<1> QED
  BY <1>1, <1>2 DEF LedgerInvariant

LEMMA NextLedger == OperationInvariant /\ LedgerInvariant /\ [Next]_vars => LedgerInvariant'
<1> SUFFICES ASSUME OperationInvariant, LedgerInvariant, [Next]_vars PROVE LedgerInvariant'
  OBVIOUS
<1>1. CASE UNCHANGED vars
  BY <1>1, LedgerUntouched DEF vars, Committed, AtRisk
<1>2. CASE \E g \in Generations : Prepare(g) \/ Transport(g) \/ Conclude(g)
  BY <1>2, PrepareLedger, TransportLedger, ConcludeLedger
<1>3. CASE Environment \/ \E g \in Generations : ProviderFinishes(g)
  BY <1>3, EnvironmentLedger
<1> QED
  BY <1>1, <1>2, <1>3 DEF Next

\* Under a known tariff an amount the job calls complete includes every operation
\* that may be charged: a run asks the provider only after the ledger says that
\* something is owed, and no more than a confirmed result takes that back.
THEOREM NothingChargedIsHiddenHolds == Spec => []NothingChargedIsHidden
<1>1. LedgerInvariant => NothingChargedIsHidden
  BY DEF LedgerInvariant, NothingChargedIsHidden, Committed, Accounted
<1>2. Spec => []LedgerInvariant
  BY InitLedger, NextLedger, OperationInvariantHolds, PTL DEF Spec
<1> QED
  BY <1>1, <1>2, PTL

=============================================================================
