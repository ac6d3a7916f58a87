----------------------- MODULE MaintenanceRunsProofs -----------------------
(***************************************************************************)
(* Proofs about MaintenanceRuns, for any number of workers, runs,          *)
(* documents, attempts and edits: no edit is lost, a current document is   *)
(* left alone, a worker without its lease stops, and results are true.     *)
(***************************************************************************)
EXTENDS MaintenanceRuns, TLAPS

\* What a worker read before a rewrite is not newer than the document, is the
\* document if nothing changed it since, and was not in the current form.
Fresh(w) ==
    worker[w].at = "writing" =>
        LET d == worker[w].position
            s == worker[w].snapshot
        IN  /\ Eligible(s.form)
            /\ s.revision <= doc[d].revision
            /\ s.revision = doc[d].revision => s = doc[d]

\* A worker that is not idle works for a generation its run has reached.
Holds(w) ==
    /\ worker[w].at = "idle" => worker[w].run = 0
    /\ worker[w].at # "idle" => /\ worker[w].run \in Runs
                                /\ worker[w].generation \in 1..MaxAttempts
                                /\ worker[w].generation <= row[worker[w].run].generation

\* No two workers have the same generation of one run.
Fenced ==
    \A v, w \in Workers : v # w /\ worker[v].run # 0 /\ worker[v].run = worker[w].run =>
        worker[v].generation # worker[w].generation

\* A worker rewrote one document without its lease at most, and is about to notice.
Once(w) ==
    \/ late[w] = 0
    \/ /\ late[w] = 1
       /\ worker[w].at \in {"idle", "noting", "failing"}
       /\ worker[w].at = "noting" => ~Owned(w)

\* Nothing was rewritten for a generation still to come.
Past ==
    \A i \in Runs, g \in 1..MaxAttempts, d \in Docs :
        <<i, g, d>> \in rewrote => g <= row[i].generation

Changed(w, d) == <<worker[w].run, worker[w].generation, d>> \in rewrote

\* The report of a worker so far is true.
Account(w) ==
    worker[w].at \notin {"idle", "failing"} =>
        \A d \in Docs :
            /\ worker[w].report[d] = "standardized" => Changed(w, d)
            /\ Changed(w, d) => worker[w].report[d] \in {"standardized", "response_invalid"}

\* It says nothing of documents the worker did not come to.
Ahead(w) ==
    \A d \in Docs :
        /\ worker[w].at \in {"authorizing", "inspecting"} => worker[w].report[d] = "unseen"
        /\ worker[w].at \in {"applying", "writing"} /\ worker[w].position <= d =>
               worker[w].report[d] = "unseen"
        /\ worker[w].at = "noting" /\ worker[w].position < d => worker[w].report[d] = "unseen"

\* Nobody works for the generation that ended its run with a result.
Closed ==
    \A i \in Runs, w \in Workers :
        row[i].status = "succeeded" =>
            ~(worker[w].run = i /\ worker[w].generation = row[i].generation)

\* A run nobody asked for was not claimed.
Unborn == \A i \in Runs : row[i].status = "absent" => row[i].generation = 0

Local(w) == Fresh(w) /\ Holds(w) /\ Once(w) /\ Account(w) /\ Ahead(w)

MaintenanceInvariant ==
    /\ TypeOK
    /\ \A w \in Workers : Local(w)
    /\ Fenced
    /\ Past
    /\ Closed
    /\ Unborn
    /\ NoEditLost
    /\ ReportIsTrue

-----------------------------------------------------------------------------

LEMMA IdleTyped == Idle \in Memory /\ Unseen \in [Docs -> {"unseen"}]
  BY MaintenanceAssumption
     DEF Idle, Starting, Memory, Places, Unseen, NoSnapshot, Snapshots, Forms, Runs, Docs

LEMMA AbsentTyped == Absent \in Rows
  BY MaintenanceAssumption, IdleTyped DEF Absent, Unclaimed, Rows, Forms, Outcomes, Unseen

\* A worker that goes on keeps what it knows.
LEMMA GoesEffect ==
  ASSUME NEW w \in Workers, NEW place \in Places, NEW known \in Memory,
         worker \in [Workers -> Memory], Goes(w, place, known)
  PROVE  /\ worker' \in [Workers -> Memory]
         /\ worker'[w].at = place
         /\ worker'[w].run = known.run /\ worker'[w].generation = known.generation
         /\ worker'[w].position = known.position /\ worker'[w].seen = known.seen
         /\ worker'[w].snapshot = known.snapshot /\ worker'[w].report = known.report
         /\ \A v \in Workers : v # w => worker'[v] = worker[v]
<1> DEFINE next == [known EXCEPT !.at = place]
<1>1. next = [at |-> place, run |-> known.run, generation |-> known.generation,
              position |-> known.position, seen |-> known.seen,
              snapshot |-> known.snapshot, report |-> known.report]
  BY DEF Memory
<1>2. next \in Memory
  BY <1>1 DEF Memory
<1>3. worker' = [worker EXCEPT ![w] = next]
  BY DEF Goes
<1> QED
  BY <1>1, <1>2, <1>3

LEMMA LeavesEffect ==
  ASSUME NEW w \in Workers, worker \in [Workers -> Memory], Leaves(w)
  PROVE  /\ worker' \in [Workers -> Memory]
         /\ worker'[w].at = "idle" /\ worker'[w].run = 0
         /\ \A v \in Workers : v # w => worker'[v] = worker[v]
<1>1. worker' = [worker EXCEPT ![w] = Idle] /\ Idle.at = "idle" /\ Idle.run = 0
  BY DEF Leaves, Idle, Starting
<1> QED
  BY <1>1, IdleTyped

LEMMA NotedRecord ==
  ASSUME NEW k \in Memory, NEW r, NEW s
  PROVE  [k EXCEPT !.report = r, !.snapshot = s] =
           [at |-> k.at, run |-> k.run, generation |-> k.generation,
            position |-> k.position, seen |-> k.seen, snapshot |-> s, report |-> r]
<1> DEFINE first == [k EXCEPT !.report = r]
<1>1. first = [at |-> k.at, run |-> k.run, generation |-> k.generation,
               position |-> k.position, seen |-> k.seen, snapshot |-> k.snapshot,
               report |-> r]
  BY DEF Memory
<1>2. [first EXCEPT !.snapshot = s] =
           [at |-> k.at, run |-> k.run, generation |-> k.generation,
            position |-> k.position, seen |-> k.seen, snapshot |-> s, report |-> r]
  <2> HIDE DEF first
  <2> QED
    BY <1>1
<1> QED
  BY <1>2, Zenon

\* What a worker knows once it has the outcome of a document.
LEMMA NotesEffect ==
  ASSUME NEW w \in Workers, NEW outcome \in Outcomes, worker \in [Workers -> Memory],
         Notes(w, outcome, worker[w])
  PROVE  /\ worker' \in [Workers -> Memory]
         /\ worker'[w].at = "noting"
         /\ worker'[w].run = worker[w].run /\ worker'[w].generation = worker[w].generation
         /\ worker'[w].position = worker[w].position
         /\ worker'[w].report = [worker[w].report EXCEPT ![worker[w].position] = outcome]
         /\ \A v \in Workers : v # w => worker'[v] = worker[v]
<1> DEFINE k == worker[w]
           next == [k EXCEPT !.report = [k.report EXCEPT ![k.position] = outcome],
                             !.snapshot = NoSnapshot]
<1>1. k \in Memory
  OBVIOUS
<1>2. next = [at |-> k.at, run |-> k.run, generation |-> k.generation,
              position |-> k.position, seen |-> k.seen, snapshot |-> NoSnapshot,
              report |-> [k.report EXCEPT ![k.position] = outcome]]
  BY <1>1, NotedRecord
<1>3. NoSnapshot \in Snapshots
  BY DEF NoSnapshot, Snapshots, Forms
<1>4. next \in Memory
  <2>1. [k.report EXCEPT ![k.position] = outcome] \in [Docs -> Outcomes \cup {"unseen"}]
    BY <1>1 DEF Memory
  <2> QED
    BY <1>1, <1>2, <1>3, <2>1 DEF Memory
<1>5. Goes(w, "noting", next) /\ "noting" \in Places
  BY DEF Notes, Places
<1> QED
  <2> HIDE DEF next
  <2>1. /\ worker' \in [Workers -> Memory]
        /\ worker'[w].at = "noting"
        /\ worker'[w].run = next.run /\ worker'[w].generation = next.generation
        /\ worker'[w].position = next.position /\ worker'[w].report = next.report
        /\ \A v \in Workers : v # w => worker'[v] = worker[v]
    BY <1>4, <1>5, GoesEffect
  <2>2. /\ next.run = k.run /\ next.generation = k.generation /\ next.position = k.position
        /\ next.report = [k.report EXCEPT ![k.position] = outcome]
    BY <1>2
  <2> QED
    BY <2>1, <2>2

-----------------------------------------------------------------------------

\* A step of one worker that touches neither the rows nor the documents.
LEMMA LocalStep ==
  ASSUME MaintenanceInvariant, NEW w \in Workers, UNCHANGED <<row, google>>,
         worker' \in [Workers -> Memory],
         \A v \in Workers : v # w => worker'[v] = worker[v],
         Local(w)',
         \/ worker'[w].run = 0
         \/ /\ worker'[w].run = worker[w].run
            /\ worker'[w].generation = worker[w].generation
  PROVE  MaintenanceInvariant'
<1> USE DEF MaintenanceInvariant, google
<1>1. TypeOK'
  BY DEF TypeOK
<1>2. ASSUME NEW v \in Workers PROVE Local(v)'
  <2>1. CASE v = w
    BY <2>1
  <2>2. CASE v # w
    <3>1. worker'[v] = worker[v] /\ Local(v)
      BY <2>2
    <3>2. Fresh(v)'
      BY <3>1 DEF Local, Fresh
    <3>3. Holds(v)'
      BY <3>1 DEF Local, Holds
    <3>4. Once(v)'
      BY <3>1 DEF Local, Once, Owned
    <3>5. Account(v)'
      BY <3>1 DEF Local, Account, Changed
    <3>6. Ahead(v)'
      BY <3>1 DEF Local, Ahead
    <3> QED
      BY <3>2, <3>3, <3>4, <3>5, <3>6 DEF Local
  <2> QED
    BY <2>1, <2>2
<1>3. Fenced'
  BY DEF Fenced
<1>4. Past' /\ Unborn' /\ NoEditLost' /\ ReportIsTrue'
  BY DEF Past, Unborn, NoEditLost, ReportIsTrue
<1>5. Closed'
  BY DEF Closed, Runs
<1> QED
  BY <1>1, <1>2, <1>3, <1>4, <1>5

\* A step of one row that neither starts nor completes an attempt.
LEMMA RowStep ==
  ASSUME MaintenanceInvariant, NEW i \in Runs, NEW r \in Rows,
         row' = [row EXCEPT ![i] = r], UNCHANGED <<worker, google>>,
         r.generation = row[i].generation, ~r.live, r.status \notin {"absent", "succeeded"}
  PROVE  MaintenanceInvariant'
<1> USE DEF MaintenanceInvariant, google
<1>1. TypeOK'
  BY DEF TypeOK
<1>2. /\ row'[i] = r
      /\ \A j \in Runs : j # i => row'[j] = row[j]
      /\ \A j \in Runs : row'[j].generation = row[j].generation
  BY DEF TypeOK
<1>3. ASSUME NEW v \in Workers PROVE Local(v)'
  <2>1. Fresh(v)' /\ Account(v)' /\ Ahead(v)'
    BY DEF Local, Fresh, Account, Changed, Ahead
  <2>2. Holds(v)'
    BY <1>2 DEF Local, Holds
  <2>3. ~Owned(v) => ~Owned(v)'
    BY <1>2 DEF Owned, TypeOK, Memory
  <2>4. Once(v)'
    BY <2>3 DEF Local, Once
  <2> QED
    BY <2>1, <2>2, <2>4 DEF Local
<1>4. Fenced' /\ Past' /\ NoEditLost'
  BY <1>2 DEF Fenced, Past, NoEditLost
<1>5. Closed' /\ Unborn'
  BY <1>2 DEF Closed, Unborn
<1>6. ReportIsTrue'
  BY <1>2 DEF ReportIsTrue
<1> QED
  BY <1>1, <1>3, <1>4, <1>5, <1>6

LEMMA EnqueueStep ==
  ASSUME MaintenanceInvariant, NEW i \in Runs, NEW operation \in {"dry_run", "apply"},
         Enqueue(i, operation)
  PROVE  MaintenanceInvariant'
<1> DEFINE r == Unclaimed("queued", operation)
<1>1. r = [status |-> "queued", operation |-> operation, owner |-> Nobody, live |-> FALSE,
           generation |-> 0, result |-> Unseen]
  BY DEF Unclaimed
<1>2. r \in Rows
  BY MaintenanceAssumption, IdleTyped DEF Unclaimed, Rows, Forms, Outcomes, Unseen
<1>3. /\ row' = [row EXCEPT ![i] = r] /\ UNCHANGED <<worker, google>>
      /\ row[i].generation = 0
  BY DEF Enqueue, MaintenanceInvariant, Unborn
<1>4. r.generation = 0 /\ ~r.live /\ r.status \notin {"absent", "succeeded"}
  BY <1>1
<1> QED
  <2> HIDE DEF r
  <2> QED
    BY <1>2, <1>3, <1>4, RowStep

LEMMA ExpiredRow ==
  ASSUME NEW k \in Rows
  PROVE  [k EXCEPT !.live = FALSE] =
           [status |-> k.status, operation |-> k.operation, owner |-> k.owner, live |-> FALSE,
            generation |-> k.generation, result |-> k.result]
<1> DEFINE no == FALSE
<1>1. [k EXCEPT !.live = no] =
           [status |-> k.status, operation |-> k.operation, owner |-> k.owner, live |-> no,
            generation |-> k.generation, result |-> k.result]
  <2> HIDE DEF no
  <2> QED
    BY DEF Rows
<1> QED
  BY <1>1, Zenon

LEMMA ExpireStep ==
  ASSUME MaintenanceInvariant, NEW i \in Runs, ExpireLease(i)
  PROVE  MaintenanceInvariant'
<1> DEFINE r == [row[i] EXCEPT !.live = FALSE]
<1>1. row[i] \in Rows /\ row[i].status = "running"
  BY DEF MaintenanceInvariant, TypeOK, ExpireLease
<1>2. r = [status |-> row[i].status, operation |-> row[i].operation, owner |-> row[i].owner,
           live |-> FALSE, generation |-> row[i].generation, result |-> row[i].result]
  BY <1>1, ExpiredRow
<1>3. r \in Rows
  BY <1>1, <1>2 DEF Rows
<1>4. row' = [row EXCEPT ![i] = r] /\ UNCHANGED <<worker, google>>
  BY DEF ExpireLease
<1>5. r.generation = row[i].generation /\ ~r.live /\ r.status \notin {"absent", "succeeded"}
  BY <1>1, <1>2
<1> QED
  <2> HIDE DEF r
  <2> QED
    BY <1>3, <1>4, <1>5, RowStep

LEMMA ExhaustStep ==
  ASSUME MaintenanceInvariant, NEW w \in Workers, NEW i \in Runs, Exhaust(w, i)
  PROVE  MaintenanceInvariant'
<1> DEFINE r == Ended(i, "failed", Unseen)
<1>1. row[i] \in Rows
  BY DEF MaintenanceInvariant, TypeOK
<1>2. r \in Rows
  BY <1>1, IdleTyped DEF Rows, Ended
<1>3. row' = [row EXCEPT ![i] = r] /\ UNCHANGED <<worker, google>>
  BY DEF Exhaust
<1>4. r.generation = row[i].generation /\ ~r.live /\ r.status \notin {"absent", "succeeded"}
  BY DEF Ended
<1> QED
  <2> HIDE DEF r
  <2> QED
    BY <1>2, <1>3, <1>4, RowStep

LEMMA EditStep ==
  ASSUME MaintenanceInvariant, NEW d \in Docs, NEW form \in Forms, OwnerEdits(d, form)
  PROVE  MaintenanceInvariant'
<1> USE DEF MaintenanceInvariant
<1> DEFINE new == [revision |-> doc[d].revision + 1, form |-> form, edits |-> doc[d].edits + 1]
<1>1. /\ doc \in [Docs -> Snapshots] /\ edits \in [Docs -> 0..MaxEdits] /\ MaxEdits \in Nat
      /\ doc[d].revision \in Nat /\ doc[d].edits \in Nat /\ edits[d] \in Nat
      /\ edits[d] < MaxEdits
  BY MaintenanceAssumption DEF TypeOK, Snapshots, OwnerEdits
<1>2. doc' = [doc EXCEPT ![d] = new] /\ edits' = [edits EXCEPT ![d] = edits[d] + 1]
  BY DEF OwnerEdits
<1>3. UNCHANGED <<row, worker, rewrote, late>>
  BY DEF OwnerEdits
<1>4. new \in Snapshots /\ edits[d] + 1 \in 0..MaxEdits
  BY <1>1 DEF Snapshots
<1>5. TypeOK'
  <2> HIDE DEF new
  <2> QED
    BY <1>1, <1>2, <1>3, <1>4 DEF TypeOK
<1>6. ASSUME NEW v \in Workers PROVE Local(v)'
  <2>1. Holds(v)' /\ Once(v)' /\ Account(v)' /\ Ahead(v)'
    BY <1>3 DEF Local, Holds, Once, Owned, Account, Changed, Ahead
  <2>2. Fresh(v)'
    <3>1. worker[v] \in Memory
      BY DEF TypeOK
    <3>2. CASE worker[v].position = d
      <4>1. worker[v].snapshot.revision \in Nat
        BY <3>1 DEF Memory, Snapshots
      <4> QED
        BY <1>1, <1>2, <1>3, <3>2, <4>1 DEF Local, Fresh
    <3>3. CASE worker[v].position # d
      BY <1>1, <1>2, <1>3, <3>1, <3>3 DEF Local, Fresh, Memory
    <3> QED
      BY <3>2, <3>3
  <2> QED
    BY <2>1, <2>2 DEF Local
<1>7. NoEditLost'
  BY <1>1, <1>2 DEF NoEditLost
<1>8. Fenced' /\ Past' /\ Closed' /\ Unborn' /\ ReportIsTrue'
  BY <1>3 DEF Fenced, Past, Closed, Unborn, ReportIsTrue
<1> QED
  BY <1>5, <1>6, <1>7, <1>8

LEMMA ClaimStep ==
  ASSUME MaintenanceInvariant, NEW w \in Workers, NEW i \in Runs, Claim(w, i)
  PROVE  MaintenanceInvariant'
<1> USE DEF MaintenanceInvariant
<1> DEFINE g == row[i].generation + 1
           r == [status |-> "running", operation |-> row[i].operation, owner |-> w,
                 live |-> TRUE, generation |-> g, result |-> row[i].result]
           m == Starting("authorizing", i, g)
<1>1. /\ row[i] \in Rows /\ row[i].generation \in Nat /\ MaxAttempts \in Nat
      /\ row[i].generation < MaxAttempts /\ g \in 1..MaxAttempts
  BY MaintenanceAssumption DEF TypeOK, Rows, Claim
<1>2. m = [at |-> "authorizing", run |-> i, generation |-> g, position |-> 1, seen |-> Unseen,
           snapshot |-> NoSnapshot, report |-> Unseen]
  BY DEF Starting
<1>3. r \in Rows
  BY <1>1 DEF Rows
<1>4. m \in Memory
  BY <1>1, <1>2, MaintenanceAssumption
     DEF Starting, Memory, Places, Unseen, NoSnapshot, Snapshots, Forms, Docs
<1>5. /\ row' = [row EXCEPT ![i] = r] /\ worker' = [worker EXCEPT ![w] = m]
      /\ late' = [late EXCEPT ![w] = 0] /\ UNCHANGED <<doc, edits, rewrote>>
  BY DEF Claim
<1>6. /\ row'[i] = r /\ \A j \in Runs : j # i => row'[j] = row[j]
      /\ worker'[w] = m /\ \A v \in Workers : v # w => worker'[v] = worker[v]
      /\ late'[w] = 0 /\ \A v \in Workers : v # w => late'[v] = late[v]
  <2> HIDE DEF r, m
  <2> QED
    BY <1>5 DEF TypeOK
<1>7. r.generation = g /\ r.status = "running" /\ r.owner = w
  OBVIOUS
<1>8. TypeOK'
  <2> HIDE DEF r, m
  <2> QED
    BY <1>3, <1>4, <1>5 DEF TypeOK
<1>9. ASSUME NEW v \in Workers, v # w
      PROVE  Local(v)' /\ (worker[v].run = i => worker[v].generation < g)
  <2> HIDE DEF r, m
  <2>1. worker'[v] = worker[v] /\ late'[v] = late[v] /\ worker[v] \in Memory /\ Local(v)
    BY <1>6, <1>9 DEF TypeOK
  <2>2. worker[v].run = i => worker[v].generation < g
    <3> SUFFICES ASSUME worker[v].run = i PROVE worker[v].generation < g
      OBVIOUS
    <3>1. i # 0
      BY DEF Runs
    <3>2. worker[v].generation <= row[i].generation /\ worker[v].generation \in Nat
      BY <2>1, <3>1 DEF Local, Holds, Memory
    <3> QED
      BY <1>1, <3>2
  <2>7. doc' = doc /\ rewrote' = rewrote
    BY <1>5
  <2>3. Fresh(v)' /\ Account(v)' /\ Ahead(v)'
    BY <2>1, <2>7 DEF Local, Fresh, Account, Changed, Ahead
  <2>4. Holds(v)'
    <3>1. CASE worker[v].at = "idle"
      BY <2>1, <3>1 DEF Local, Holds
    <3>2. CASE worker[v].at # "idle" /\ worker[v].run = i
      BY <1>1, <1>6, <1>7, <2>1, <2>2, <3>2 DEF Local, Holds, Memory
    <3>3. CASE worker[v].at # "idle" /\ worker[v].run # i
      BY <1>6, <2>1, <3>3 DEF Local, Holds
    <3> QED
      BY <3>1, <3>2, <3>3
  <2>5. ~Owned(v) => ~Owned(v)'
    BY <1>6, <1>7, <1>9, <2>1 DEF Owned, Memory
  <2>6. Once(v)'
    BY <2>1, <2>5 DEF Local, Once
  <2> QED
    BY <2>2, <2>3, <2>4, <2>6 DEF Local
<1>10. \A d \in Docs : <<i, g, d>> \notin rewrote
  BY <1>1 DEF Past
<1>11. Local(w)'
  <2>1. /\ worker'[w].at = "authorizing" /\ worker'[w].run = i /\ worker'[w].generation = g
        /\ worker'[w].report = Unseen /\ late'[w] = 0 /\ row'[i].generation = g
    BY <1>2, <1>6, <1>7 DEF Starting
  <2>2. \A d \in Docs : Unseen[d] = "unseen"
    BY DEF Unseen
  <2>3. rewrote' = rewrote
    BY <1>5
  <2> HIDE DEF m, r, g
  <2>4. Fresh(w)' /\ Once(w)' /\ Ahead(w)'
    BY <2>1, <2>2 DEF Fresh, Once, Ahead
  <2>5. Holds(w)'
    BY <1>1, <2>1 DEF Holds
  <2>6. Account(w)'
    BY <1>10, <2>1, <2>2, <2>3 DEF Account, Changed
  <2> QED
    BY <2>4, <2>5, <2>6 DEF Local
<1>12. Fenced'
  <2>1. worker'[w].run = i /\ worker'[w].generation = g
    BY <1>2, <1>6
  <2> SUFFICES ASSUME NEW u \in Workers, NEW v \in Workers, u # v, worker'[u].run # 0,
                      worker'[u].run = worker'[v].run
               PROVE  worker'[u].generation # worker'[v].generation
    BY DEF Fenced
  <2>2. \A x \in Workers : worker[x].generation \in Nat
    BY DEF TypeOK, Memory
  <2> HIDE DEF m, g
  <2>3. g \in Nat
    BY <1>1
  <2>4. CASE u # w /\ v # w
    BY <1>6, <2>4 DEF Fenced
  <2>5. CASE u = w
    <3>1. v # w
      BY <2>5
    <3>2. worker'[v] = worker[v] /\ worker[v].run = i
      BY <1>6, <2>1, <2>5, <3>1
    <3> QED
      BY <1>9, <2>1, <2>2, <2>3, <2>5, <3>1, <3>2
  <2>6. CASE v = w
    <3>1. u # w
      BY <2>6
    <3>2. worker'[u] = worker[u] /\ worker[u].run = i
      BY <1>6, <2>1, <2>6, <3>1
    <3> QED
      BY <1>9, <2>1, <2>2, <2>3, <2>6, <3>1, <3>2
  <2> QED
    BY <2>4, <2>5, <2>6
<1>13. Past'
  BY <1>1, <1>5, <1>6, <1>7 DEF Past, TypeOK, Rows
<1>14. Closed' /\ Unborn'
  <2>1. \A j \in Runs : row'[j].status \in {"absent", "succeeded"} => j # i /\ row'[j] = row[j]
    BY <1>6, <1>7
  <2>2. \A v \in Workers : worker'[v].run # i => worker'[v] = worker[v]
    BY <1>2, <1>6
  <2> QED
    BY <2>1, <2>2 DEF Closed, Unborn
<1>15. NoEditLost' /\ ReportIsTrue'
  <2>1. \A j \in Runs : row'[j].status = "succeeded" => row'[j] = row[j]
    BY <1>6, <1>7
  <2> QED
    BY <1>5, <2>1 DEF NoEditLost, ReportIsTrue
<1> QED
  BY <1>8, <1>9, <1>11, <1>12, <1>13, <1>14, <1>15

-----------------------------------------------------------------------------

LEMMA LeaveStep ==
  ASSUME MaintenanceInvariant, NEW w \in Workers, Leaves(w), UNCHANGED <<row, google>>
  PROVE  MaintenanceInvariant'
<1>1. worker \in [Workers -> Memory] /\ Local(w)
  BY DEF MaintenanceInvariant, TypeOK
<1>2. /\ worker' \in [Workers -> Memory] /\ worker'[w].at = "idle" /\ worker'[w].run = 0
      /\ \A v \in Workers : v # w => worker'[v] = worker[v]
  BY <1>1, LeavesEffect
<1>3. Local(w)'
  BY <1>1, <1>2 DEF Local, Fresh, Holds, Once, Account, Ahead, google
<1> QED
  BY <1>2, <1>3, LocalStep

\* A worker that goes on with its run, and is not about to write.
LEMMA GoStep ==
  ASSUME MaintenanceInvariant, NEW w \in Workers, NEW place \in Places \ {"idle", "writing"},
         NEW known \in Memory, Goes(w, place, known), UNCHANGED <<row, google>>,
         worker[w].at # "idle", known.run = worker[w].run,
         known.generation = worker[w].generation,
         place # "failing" => late[w] = 0,
         place # "failing" =>
             \A d \in Docs :
                 /\ known.report[d] = "standardized" => Changed(w, d)
                 /\ Changed(w, d) => known.report[d] \in {"standardized", "response_invalid"},
         \A d \in Docs :
             /\ place \in {"authorizing", "inspecting"} => known.report[d] = "unseen"
             /\ place = "applying" /\ known.position <= d => known.report[d] = "unseen"
             /\ place = "noting" /\ known.position < d => known.report[d] = "unseen"
  PROVE  MaintenanceInvariant'
<1>1. worker \in [Workers -> Memory] /\ Local(w)
  BY DEF MaintenanceInvariant, TypeOK
<1>2. /\ worker' \in [Workers -> Memory]
      /\ worker'[w].at = place
      /\ worker'[w].run = worker[w].run /\ worker'[w].generation = worker[w].generation
      /\ worker'[w].position = known.position /\ worker'[w].report = known.report
      /\ \A v \in Workers : v # w => worker'[v] = worker[v]
  BY <1>1, GoesEffect
<1>3. Fresh(w)' /\ Holds(w)'
  BY <1>1, <1>2 DEF Local, Fresh, Holds
<1>4. Once(w)'
  BY <1>1, <1>2 DEF Local, Once, google
<1>5. Account(w)'
  BY <1>2 DEF Account, Changed, google
<1>6. Ahead(w)'
  BY <1>2 DEF Ahead
<1> QED
  BY <1>2, <1>3, <1>4, <1>5, <1>6, LocalStep DEF Local

LEMMA AuthorizeStep ==
  ASSUME MaintenanceInvariant, NEW w \in Workers, Authorize(w)
  PROVE  MaintenanceInvariant'
<1>1. CASE Owned(w)
  <2>1. Goes(w, "inspecting", worker[w]) /\ UNCHANGED <<row, google>>
        /\ worker[w].at = "authorizing"
    BY <1>1 DEF Authorize
  <2>2. worker[w] \in Memory /\ Local(w)
    BY DEF MaintenanceInvariant, TypeOK
  <2>3. "inspecting" \in Places \ {"idle", "writing"}
    BY DEF Places
  <2>4. /\ late[w] = 0
        /\ \A d \in Docs : worker[w].report[d] = "unseen" /\ ~Changed(w, d)
    BY <2>1, <2>2 DEF Local, Once, Ahead, Account
  <2> QED
    BY <2>1, <2>2, <2>3, <2>4, GoStep
<1>2. CASE ~Owned(w)
  BY <1>2, LeaveStep DEF Authorize
<1> QED
  BY <1>1, <1>2

LEMMA ReadFailsStep ==
  ASSUME MaintenanceInvariant, NEW w \in Workers, ReadFails(w)
  PROVE  MaintenanceInvariant'
<1>1. Goes(w, "failing", worker[w]) /\ UNCHANGED <<row, google>> /\ worker[w].at # "idle"
  BY DEF ReadFails
<1>2. worker[w] \in Memory
  BY DEF MaintenanceInvariant, TypeOK
<1>3. "failing" \in Places \ {"idle", "writing"}
  BY DEF Places
<1> QED
  BY <1>1, <1>2, <1>3, GoStep

LEMMA CrashStep ==
  ASSUME MaintenanceInvariant, NEW w \in Workers, Crash(w)
  PROVE  MaintenanceInvariant'
BY LeaveStep DEF Crash

LEMMA SeenRecord ==
  ASSUME NEW k \in Memory, NEW f, NEW p
  PROVE  [k EXCEPT !.seen = f, !.position = p] =
           [at |-> k.at, run |-> k.run, generation |-> k.generation, position |-> p,
            seen |-> f, snapshot |-> k.snapshot, report |-> k.report]
<1> DEFINE first == [k EXCEPT !.seen = f]
<1>1. first = [at |-> k.at, run |-> k.run, generation |-> k.generation,
               position |-> k.position, seen |-> f, snapshot |-> k.snapshot,
               report |-> k.report]
  BY DEF Memory
<1>2. [first EXCEPT !.position = p] =
           [at |-> k.at, run |-> k.run, generation |-> k.generation, position |-> p,
            seen |-> f, snapshot |-> k.snapshot, report |-> k.report]
  <2> HIDE DEF first
  <2> QED
    BY <1>1
<1> QED
  BY <1>2, Zenon

LEMMA InspectStep ==
  ASSUME MaintenanceInvariant, NEW w \in Workers, Inspect(w)
  PROVE  MaintenanceInvariant'
<1> DEFINE k == worker[w]
           d == k.position
           f == [k.seen EXCEPT ![d] = doc[d].form]
           p == IF d < NumDocs THEN d + 1 ELSE 1
           known == [k EXCEPT !.seen = f, !.position = p]
<1>1. /\ k \in Memory /\ Local(w) /\ k.at = "inspecting" /\ UNCHANGED <<row, google>>
      /\ doc[d] \in Snapshots /\ d \in Docs
  BY DEF MaintenanceInvariant, TypeOK, Inspect, Memory
<1>2. known = [at |-> k.at, run |-> k.run, generation |-> k.generation, position |-> p,
               seen |-> f, snapshot |-> k.snapshot, report |-> k.report]
  <2> HIDE DEF k, f, p
  <2> QED
    BY <1>1, SeenRecord
<1>3. f \in [Docs -> Forms \cup {"unseen"}]
  BY <1>1 DEF Memory, Snapshots
<1>4. p \in Docs
  BY <1>1, MaintenanceAssumption DEF Docs
<1>5. known \in Memory /\ known.run = k.run /\ known.generation = k.generation
      /\ known.report = k.report
  <2> HIDE DEF f, p
  <2> QED
    BY <1>1, <1>2, <1>3, <1>4 DEF Memory
<1>6. /\ late[w] = 0
      /\ \A e \in Docs : k.report[e] = "unseen" /\ ~Changed(w, e)
  BY <1>1 DEF Local, Once, Ahead, Account
<1>7. \/ Leaves(w)
      \/ \E place \in {"inspecting", "completing", "applying"} : Goes(w, place, known)
  <2>1. ~Owned(w) => Leaves(w)
    BY Zenon DEF Inspect
  <2>2. Owned(w) => Goes(w, "inspecting", known) \/ Goes(w, AfterInspection(w), known)
    BY Zenon DEF Inspect
  <2>3. AfterInspection(w) \in {"inspecting", "completing", "applying"}
    BY DEF AfterInspection
  <2> HIDE DEF known
  <2> QED
    BY <2>1, <2>2, <2>3
<1>8. ASSUME NEW place \in {"inspecting", "completing", "applying"}, Goes(w, place, known)
      PROVE  MaintenanceInvariant'
  <2>1. place \in Places \ {"idle", "writing"}
    BY DEF Places
  <2> HIDE DEF known
  <2> QED
    BY <1>1, <1>5, <1>6, <1>8, <2>1, GoStep
<1> HIDE DEF known
<1> QED
  BY <1>1, <1>7, <1>8, LeaveStep

\* A worker that settles a document without writing it.
LEMMA SettleStep ==
  ASSUME MaintenanceInvariant, NEW w \in Workers, worker[w].at = "applying",
         NEW outcome \in {"already_current", "blocked"}, Notes(w, outcome, worker[w]),
         UNCHANGED <<row, google>>
  PROVE  MaintenanceInvariant'
<1> DEFINE d == worker[w].position
<1>1. /\ worker \in [Workers -> Memory] /\ Local(w)
      /\ worker[w].report \in [Docs -> Outcomes \cup {"unseen"}] /\ d \in Docs
  BY DEF MaintenanceInvariant, TypeOK, Memory
<1>2. outcome \in Outcomes
  BY DEF Outcomes
<1>3. /\ worker' \in [Workers -> Memory]
      /\ worker'[w].at = "noting"
      /\ worker'[w].run = worker[w].run /\ worker'[w].generation = worker[w].generation
      /\ worker'[w].position = d
      /\ worker'[w].report = [worker[w].report EXCEPT ![d] = outcome]
      /\ \A v \in Workers : v # w => worker'[v] = worker[v]
  BY <1>1, <1>2, NotesEffect
<1>4. /\ late[w] = 0
      /\ worker[w].report[d] = "unseen" /\ ~Changed(w, d)
  BY <1>1 DEF Local, Once, Ahead, Account, Docs
<1>5. Fresh(w)' /\ Holds(w)' /\ Once(w)'
  BY <1>1, <1>3, <1>4 DEF Local, Fresh, Holds, Once, google
<1>6. \A e \in Docs : worker'[w].report[e] = IF e = d THEN outcome ELSE worker[w].report[e]
  BY <1>1, <1>3
<1>7. Account(w)'
  BY <1>1, <1>3, <1>4, <1>6 DEF Local, Account, Changed, google
<1>8. Ahead(w)'
  BY <1>1, <1>3, <1>6 DEF Local, Ahead, Docs
<1> QED
  BY <1>3, <1>5, <1>7, <1>8, LocalStep DEF Local

LEMMA SkipStep ==
  ASSUME MaintenanceInvariant, NEW w \in Workers, SkipDocument(w)
  PROVE  MaintenanceInvariant'
<1>1. /\ worker[w].at = "applying" /\ UNCHANGED <<row, google>>
      /\ \E outcome \in {"already_current", "blocked"} : Notes(w, outcome, worker[w])
  BY DEF SkipDocument
<1> QED
  BY <1>1, SettleStep

LEMMA ReadStep ==
  ASSUME MaintenanceInvariant, NEW w \in Workers, ReadSnapshot(w)
  PROVE  MaintenanceInvariant'
<1> DEFINE k == worker[w]
           d == k.position
           known == [k EXCEPT !.snapshot = doc[d]]
<1>1. /\ worker \in [Workers -> Memory] /\ k \in Memory /\ Local(w) /\ k.at = "applying"
      /\ UNCHANGED <<row, google>> /\ d \in Docs /\ doc[d] \in Snapshots
      /\ Eligible(k.seen[d])
  BY DEF MaintenanceInvariant, TypeOK, ReadSnapshot, Memory
<1>2. CASE NeedsRewrite(w, doc[d].form)
  <2>1. Goes(w, "writing", known)
    BY <1>2 DEF ReadSnapshot
  <2>2. known = [at |-> k.at, run |-> k.run, generation |-> k.generation,
                 position |-> k.position, seen |-> k.seen, snapshot |-> doc[d],
                 report |-> k.report]
    BY <1>1 DEF Memory
  <2>3. known \in Memory
    <3> HIDE DEF k, d, known
    <3> QED
      BY <1>1, <2>2 DEF Memory
  <2>4. "writing" \in Places
    BY DEF Places
  <2>5. /\ known.run = k.run /\ known.generation = k.generation /\ known.position = d
        /\ known.snapshot = doc[d] /\ known.report = k.report
    BY <2>2
  <2>6. /\ worker' \in [Workers -> Memory]
        /\ worker'[w].at = "writing"
        /\ worker'[w].run = k.run /\ worker'[w].generation = k.generation
        /\ worker'[w].position = d /\ worker'[w].report = k.report
        /\ worker'[w].snapshot = doc[d]
        /\ \A v \in Workers : v # w => worker'[v] = worker[v]
    <3> HIDE DEF known
    <3> QED
      BY <1>1, <2>1, <2>3, <2>4, <2>5, GoesEffect
  <2>7. Fresh(w)'
    <3>1. Eligible(doc[d].form)
      BY <1>1, <1>2 DEF NeedsRewrite
    <3>2. doc[d].revision \in Nat /\ doc' = doc
      BY <1>1 DEF Snapshots, google
    <3>3. doc[d].revision <= doc[d].revision
      BY <3>2
    <3> QED
      BY <2>6, <3>1, <3>2, <3>3 DEF Fresh, Eligible
  <2>8. Holds(w)' /\ Once(w)'
    BY <1>1, <2>6 DEF Local, Holds, Once, google
  <2>9. Account(w)' /\ Ahead(w)'
    BY <1>1, <2>6 DEF Local, Account, Changed, Ahead, google
  <2> QED
    BY <1>1, <2>6, <2>7, <2>8, <2>9, LocalStep DEF Local
<1>3. CASE ~NeedsRewrite(w, doc[d].form)
  <2>1. \E outcome \in {"already_current", "blocked"} : Notes(w, outcome, worker[w])
    BY <1>3 DEF ReadSnapshot
  <2> QED
    BY <1>1, <2>1, SettleStep
<1> QED
  BY <1>2, <1>3

LEMMA NoteProgressStep ==
  ASSUME MaintenanceInvariant, NEW w \in Workers, NoteProgress(w)
  PROVE  MaintenanceInvariant'
<1> DEFINE k == worker[w]
           d == k.position
           known == [k EXCEPT !.position = d + 1]
<1>1. /\ k \in Memory /\ Local(w) /\ k.at = "noting" /\ UNCHANGED <<row, google>>
      /\ d \in Docs
  BY DEF MaintenanceInvariant, TypeOK, NoteProgress, Memory
<1>2. \A e \in Docs : /\ k.report[e] = "standardized" => Changed(w, e)
                      /\ Changed(w, e) => k.report[e] \in {"standardized", "response_invalid"}
                      /\ d < e => k.report[e] = "unseen"
  BY <1>1 DEF Local, Account, Ahead
<1>3. CASE ~MayProceed(w)
  BY <1>3, LeaveStep DEF NoteProgress
<1>4. CASE MayProceed(w) /\ d < NumDocs /\ Goes(w, "applying", known)
  <2>1. late[w] = 0
    BY <1>1, <1>4 DEF Local, Once, MayProceed
  <2>2. known = [at |-> k.at, run |-> k.run, generation |-> k.generation,
                 position |-> d + 1, seen |-> k.seen, snapshot |-> k.snapshot,
                 report |-> k.report]
    BY <1>1 DEF Memory
  <2>3. d + 1 \in Docs
    BY <1>1, <1>4, MaintenanceAssumption DEF Docs
  <2>4. known \in Memory
    <3> HIDE DEF known
    <3> QED
      BY <1>1, <2>2, <2>3 DEF Memory
  <2>5. /\ known.run = k.run /\ known.generation = k.generation /\ known.position = d + 1
        /\ known.report = k.report
    BY <2>2
  <2>6. "applying" \in Places \ {"idle", "writing"}
    BY DEF Places
  <2>7. \A e \in Docs : d + 1 <= e => d < e
    BY <1>1 DEF Docs
  <2> HIDE DEF known
  <2> QED
    BY <1>1, <1>2, <1>4, <2>1, <2>4, <2>5, <2>6, <2>7, GoStep
<1>5. CASE MayProceed(w) /\ d = NumDocs /\ Goes(w, "completing", worker[w])
  <2>1. late[w] = 0
    BY <1>1, <1>5 DEF Local, Once, MayProceed
  <2>2. "completing" \in Places \ {"idle", "writing"}
    BY DEF Places
  <2> QED
    BY <1>1, <1>2, <1>5, <2>1, <2>2, GoStep
<1> QED
  BY <1>3, <1>4, <1>5, Zenon DEF NoteProgress

-----------------------------------------------------------------------------

\* A rewrite that takes effect: the document was what the worker had read, and the
\* attempt is still open in the books even if its lease is gone.
LEMMA RewriteStep ==
  ASSUME MaintenanceInvariant, NEW w \in Workers, worker[w].at = "writing", Rewrite(w),
         UNCHANGED <<row, edits>>, worker' \in [Workers -> Memory],
         worker'[w].run = worker[w].run, worker'[w].generation = worker[w].generation,
         \A v \in Workers : v # w => worker'[v] = worker[v],
         NEW outcome \in {"standardized", "response_invalid"},
         \/ worker'[w].at = "failing"
         \/ /\ worker'[w].at = "noting"
            /\ worker'[w].position = worker[w].position
            /\ worker'[w].report = [worker[w].report EXCEPT ![worker[w].position] = outcome]
  PROVE  MaintenanceInvariant'
<1> DEFINE d == worker[w].position
           i == worker[w].run
           g == worker[w].generation
           new == [revision |-> doc[d].revision + 1, form |-> "current",
                   edits |-> worker[w].snapshot.edits]
<1>1. /\ worker[w] \in Memory /\ Local(w) /\ d \in Docs /\ doc[d] \in Snapshots
      /\ worker[w].snapshot \in Snapshots /\ doc \in [Docs -> Snapshots]
      /\ late \in [Workers -> Nat]
  BY DEF MaintenanceInvariant, TypeOK, Memory
<1>2. i \in Runs /\ g \in 1..MaxAttempts /\ g <= row[i].generation /\ late[w] = 0
  BY <1>1 DEF Local, Holds, Once
<1>3. worker[w].snapshot = doc[d] /\ doc[d].revision \in Nat
  BY <1>1 DEF Local, Fresh, Rewrite, Accepted, Snapshots
<1>4. new \in Snapshots /\ new.edits = doc[d].edits /\ new.revision = doc[d].revision + 1
  BY <1>1, <1>3 DEF Snapshots, Forms
<1>5. /\ doc' = [doc EXCEPT ![d] = new] /\ rewrote' = rewrote \cup {<<i, g, d>>}
      /\ late' = IF Owned(w) THEN late ELSE [late EXCEPT ![w] = 1]
  BY <1>2 DEF Rewrite
<1>6. doc'[d] = new /\ \A e \in Docs : e # d => doc'[e] = doc[e]
  <2> HIDE DEF new
  <2> QED
    BY <1>1, <1>5
<1>7. TypeOK'
  <2> HIDE DEF new, i, g, d
  <2> QED
    BY <1>1, <1>2, <1>4, <1>5 DEF MaintenanceInvariant, TypeOK
<1>8. ASSUME NEW v \in Workers, v # w PROVE Local(v)'
  <2>1. worker'[v] = worker[v] /\ late'[v] = late[v] /\ worker[v] \in Memory /\ Local(v)
    BY <1>1, <1>5, <1>8 DEF MaintenanceInvariant, TypeOK
  <2>2. Holds(v)' /\ Ahead(v)' /\ Once(v)'
    BY <2>1 DEF Local, Holds, Ahead, Once, Owned
  <2>3. Fresh(v)'
    <3> HIDE DEF new
    <3>1. worker[v].snapshot.revision \in Nat /\ worker[v].position \in Docs
      BY <2>1 DEF Memory, Snapshots
    <3>2. CASE worker[v].position = d
      BY <1>3, <1>4, <1>6, <2>1, <3>1, <3>2 DEF Local, Fresh
    <3>3. CASE worker[v].position # d
      BY <1>6, <2>1, <3>1, <3>3 DEF Local, Fresh
    <3> QED
      BY <3>2, <3>3
  <2>4. Account(v)'
    <3>1. worker[v].at # "idle" => \A e \in Docs : Changed(v, e)' <=> Changed(v, e)
      <4>1. worker[v].at # "idle" => worker[v].run # 0
        BY <2>1 DEF Local, Holds, Runs
      <4>2. worker[v].at # "idle" => ~(worker[v].run = i /\ worker[v].generation = g)
        BY <1>8, <4>1 DEF MaintenanceInvariant, Fenced
      <4> HIDE DEF i, g, d
      <4> QED
        BY <1>5, <2>1, <4>2 DEF Changed
    <3> QED
      BY <2>1, <3>1 DEF Local, Account
  <2> QED
    BY <2>2, <2>3, <2>4 DEF Local
<1>9. Local(w)'
  <2>1. Fresh(w)' /\ Holds(w)'
    BY <1>1, <1>2 DEF Fresh, Holds
  <2>2. Owned(w)' <=> Owned(w)
    BY DEF Owned
  <2>3. Once(w)'
    BY <1>1, <1>2, <1>5, <2>2 DEF Once
  <2>4. \A e \in Docs : Changed(w, e)' <=> (Changed(w, e) \/ e = d)
    BY <1>5 DEF Changed
  <2>5. worker[w].report \in [Docs -> Outcomes \cup {"unseen"}]
    BY <1>1 DEF Memory
  <2>6. Account(w)' /\ Ahead(w)'
    <3>1. CASE worker'[w].at = "failing"
      BY <3>1 DEF Account, Ahead
    <3>2. CASE /\ worker'[w].at = "noting" /\ worker'[w].position = d
               /\ worker'[w].report = [worker[w].report EXCEPT ![d] = outcome]
      <4>1. \A e \in Docs :
               worker'[w].report[e] = IF e = d THEN outcome ELSE worker[w].report[e]
        BY <2>5, <3>2
      <4>2. Account(w)'
        BY <1>1, <2>4, <3>2, <4>1 DEF Local, Account
      <4>3. Ahead(w)'
        BY <1>1, <3>2, <4>1 DEF Local, Ahead, Docs
      <4> QED
        BY <4>2, <4>3
    <3> QED
      BY <3>1, <3>2
  <2> QED
    BY <2>1, <2>3, <2>6 DEF Local
<1>10. Fenced'
  BY DEF MaintenanceInvariant, Fenced
<1>11. Past'
  <2> HIDE DEF i, g, d
  <2> QED
    BY <1>2, <1>5 DEF MaintenanceInvariant, Past
<1>12. Closed' /\ Unborn'
  BY DEF MaintenanceInvariant, Closed, Unborn
<1>13. NoEditLost'
  <2> HIDE DEF new
  <2> QED
    BY <1>4, <1>6 DEF MaintenanceInvariant, NoEditLost
<1>14. ReportIsTrue'
  <2>1. \A j \in Runs : row[j].status = "succeeded" => ~(i = j /\ g = row[j].generation)
    BY DEF MaintenanceInvariant, Closed
  <2> HIDE DEF i, g, d
  <2>2. \A j \in Runs, e \in Docs :
           row[j].status = "succeeded" =>
              (<<j, row[j].generation, e>> \in rewrote' <=> <<j, row[j].generation, e>> \in rewrote)
    BY <1>5, <2>1
  <2> QED
    BY <2>2 DEF MaintenanceInvariant, ReportIsTrue
<1> QED
  BY <1>7, <1>8, <1>9, <1>10, <1>11, <1>12, <1>13, <1>14 DEF MaintenanceInvariant

LEMMA WriteStep ==
  ASSUME MaintenanceInvariant, NEW w \in Workers, WriteDocument(w)
  PROVE  MaintenanceInvariant'
<1>1. /\ worker \in [Workers -> Memory] /\ worker[w].at = "writing"
      /\ UNCHANGED <<row, edits>> /\ Local(w) /\ worker[w].position \in Docs
      /\ worker[w].report \in [Docs -> Outcomes \cup {"unseen"}]
  BY DEF MaintenanceInvariant, TypeOK, WriteDocument, Memory
<1>2. ASSUME NEW outcome \in Outcomes, Notes(w, outcome, worker[w])
      PROVE  /\ worker' \in [Workers -> Memory]
             /\ worker'[w].at = "noting"
             /\ worker'[w].run = worker[w].run /\ worker'[w].generation = worker[w].generation
             /\ worker'[w].position = worker[w].position
             /\ worker'[w].report = [worker[w].report EXCEPT ![worker[w].position] = outcome]
             /\ \A v \in Workers : v # w => worker'[v] = worker[v]
  BY <1>1, <1>2, NotesEffect
<1>3. ASSUME NEW outcome \in {"standardized", "response_invalid"},
             Rewrite(w), Notes(w, outcome, worker[w])
      PROVE  MaintenanceInvariant'
  <2>1. outcome \in Outcomes
    BY DEF Outcomes
  <2> QED
    BY <1>1, <1>2, <1>3, <2>1, RewriteStep
<1>4. CASE Unwritten /\ Notes(w, "blocked", worker[w])
  <2> DEFINE d == worker[w].position
  <2>1. "blocked" \in Outcomes
    BY DEF Outcomes
  <2>2. /\ worker' \in [Workers -> Memory]
        /\ worker'[w].at = "noting"
        /\ worker'[w].run = worker[w].run /\ worker'[w].generation = worker[w].generation
        /\ worker'[w].position = d
        /\ worker'[w].report = [worker[w].report EXCEPT ![d] = "blocked"]
        /\ \A v \in Workers : v # w => worker'[v] = worker[v]
    BY <1>2, <1>4, <2>1
  <2>3. UNCHANGED <<row, google>>
    BY <1>1, <1>4 DEF Unwritten, google
  <2>4. late[w] = 0 /\ worker[w].report[d] = "unseen" /\ ~Changed(w, d)
    BY <1>1 DEF Local, Once, Ahead, Account, Docs
  <2>5. Fresh(w)' /\ Holds(w)' /\ Once(w)'
    BY <1>1, <2>2, <2>3, <2>4 DEF Local, Fresh, Holds, Once, google
  <2>6. \A e \in Docs : worker'[w].report[e] = IF e = d THEN "blocked" ELSE worker[w].report[e]
    BY <1>1, <2>2
  <2>7. Account(w)'
    BY <1>1, <2>2, <2>3, <2>4, <2>6 DEF Local, Account, Changed, google
  <2>8. Ahead(w)'
    BY <1>1, <2>2, <2>6 DEF Local, Ahead, Docs
  <2> QED
    BY <2>2, <2>3, <2>5, <2>7, <2>8, LocalStep DEF Local
<1> QED
  BY <1>3, <1>4 DEF WriteDocument

LEMMA LoseStep ==
  ASSUME MaintenanceInvariant, NEW w \in Workers, LoseAnswer(w)
  PROVE  MaintenanceInvariant'
<1>1. /\ worker \in [Workers -> Memory] /\ worker[w] \in Memory /\ worker[w].at = "writing"
      /\ UNCHANGED <<row, edits>> /\ Goes(w, "failing", worker[w])
  BY DEF MaintenanceInvariant, TypeOK, LoseAnswer
<1>2. "failing" \in Places \ {"idle", "writing"} /\ "failing" \in Places
  BY DEF Places
<1>3. CASE Rewrite(w)
  <2>1. /\ worker' \in [Workers -> Memory] /\ worker'[w].at = "failing"
        /\ worker'[w].run = worker[w].run /\ worker'[w].generation = worker[w].generation
        /\ \A v \in Workers : v # w => worker'[v] = worker[v]
    BY <1>1, <1>2, GoesEffect
  <2> QED
    BY <1>1, <1>3, <2>1, RewriteStep
<1>4. CASE Unwritten
  <2>1. UNCHANGED <<row, google>>
    BY <1>1, <1>4 DEF Unwritten, google
  <2> QED
    BY <1>1, <1>2, <2>1, GoStep
<1> QED
  BY <1>3, <1>4 DEF LoseAnswer

-----------------------------------------------------------------------------

\* The commit that ends the run and its lease.
LEMMA EndStep ==
  ASSUME MaintenanceInvariant, NEW w \in Workers, worker[w].at # "idle",
         NEW status \in {"succeeded", "failed"},
         NEW result \in [Docs -> Forms \cup Outcomes \cup {"unseen"}],
         Ends(w, status, result),
         status = "succeeded" /\ row[worker[w].run].operation = "apply" =>
             \A d \in Docs :
                 /\ result[d] = "standardized" => Changed(w, d)
                 /\ Changed(w, d) => result[d] \in {"standardized", "response_invalid"}
  PROVE  MaintenanceInvariant'
<1> DEFINE i == worker[w].run
           r == Ended(i, status, result)
<1>1. /\ worker \in [Workers -> Memory] /\ row \in [Runs -> Rows] /\ Local(w)
      /\ Leaves(w) /\ UNCHANGED google /\ i \in Runs /\ row[i] \in Rows
  BY DEF MaintenanceInvariant, TypeOK, Local, Holds, Ends
<1>2. CASE ~Owned(w)
  BY <1>1, <1>2, LeaveStep DEF Ends
<1>3. CASE Owned(w)
  <2>1. r = [status |-> status, operation |-> row[i].operation, owner |-> Nobody,
             live |-> FALSE, generation |-> row[i].generation, result |-> result]
    BY DEF Ended
  <2>2. r \in Rows
    BY <1>1 DEF Rows, Ended
  <2>3. row' = [row EXCEPT ![i] = r]
    BY <1>3 DEF Ends
  <2>4. /\ r.generation = row[i].generation /\ r.operation = row[i].operation
        /\ r.status = status /\ r.result = result /\ ~r.live
    BY <2>1
  <2> HIDE DEF r
  <2>5. /\ row'[i] = r /\ \A j \in Runs : j # i => row'[j] = row[j]
        /\ \A j \in Runs : row'[j].generation = row[j].generation
    BY <1>1, <2>3, <2>4
  <2>6. /\ worker' \in [Workers -> Memory] /\ worker'[w].at = "idle" /\ worker'[w].run = 0
        /\ \A v \in Workers : v # w => worker'[v] = worker[v]
    BY <1>1, LeavesEffect
  <2>7. i # 0 /\ worker[w].generation = row[i].generation
    BY <1>1, <1>3 DEF Owned, Runs
  <2>8. TypeOK'
    BY <1>1, <2>2, <2>3, <2>6 DEF MaintenanceInvariant, TypeOK, google
  <2>9. Local(w)'
    BY <1>1, <2>6 DEF Local, Fresh, Holds, Once, Account, Ahead, google
  <2>10. ASSUME NEW v \in Workers, v # w PROVE Local(v)'
    <3>1. worker'[v] = worker[v] /\ Local(v) /\ worker[v] \in Memory
      BY <1>1, <2>6, <2>10 DEF MaintenanceInvariant
    <3>2. Fresh(v)' /\ Account(v)' /\ Ahead(v)'
      BY <1>1, <3>1 DEF Local, Fresh, Account, Changed, Ahead, google
    <3>3. Holds(v)'
      BY <2>5, <3>1 DEF Local, Holds
    <3>4. ~Owned(v) => ~Owned(v)'
      BY <2>4, <2>5, <3>1 DEF Owned, Memory
    <3>5. Once(v)'
      BY <1>1, <3>1, <3>4 DEF Local, Once, google
    <3> QED
      BY <3>2, <3>3, <3>5 DEF Local
  <2>11. Fenced'
    <3> SUFFICES ASSUME NEW u \in Workers, NEW v \in Workers, u # v, worker'[u].run # 0,
                        worker'[u].run = worker'[v].run
                 PROVE  worker'[u].generation # worker'[v].generation
      BY DEF Fenced
    <3>1. u # w /\ v # w
      BY <2>6
    <3> QED
      BY <2>6, <3>1 DEF MaintenanceInvariant, Fenced
  <2>12. Past' /\ NoEditLost'
    BY <1>1, <2>5 DEF MaintenanceInvariant, Past, NoEditLost, google
  <2>13. Closed'
    <3> SUFFICES ASSUME NEW j \in Runs, NEW v \in Workers, row'[j].status = "succeeded",
                        worker'[v].run = j, worker'[v].generation = row'[j].generation
                 PROVE  FALSE
      BY DEF Closed
    <3>1. v # w /\ worker'[v] = worker[v]
      BY <2>6 DEF Runs
    <3>2. CASE j = i
      BY <2>5, <2>7, <3>1, <3>2 DEF MaintenanceInvariant, Fenced
    <3>3. CASE j # i
      BY <2>5, <3>1, <3>3 DEF MaintenanceInvariant, Closed
    <3> QED
      BY <3>2, <3>3
  <2>14. Unborn'
    BY <2>4, <2>5 DEF MaintenanceInvariant, Unborn
  <2>15. ReportIsTrue'
    <3> SUFFICES ASSUME NEW j \in Runs, NEW d \in Docs, row'[j].status = "succeeded",
                        row'[j].operation = "apply"
                 PROVE  LET changed == <<j, row'[j].generation, d>> \in rewrote'
                        IN  /\ row'[j].result[d] = "standardized" => changed
                            /\ changed => row'[j].result[d] \in
                                            {"standardized", "response_invalid"}
      BY DEF ReportIsTrue
    <3>1. rewrote' = rewrote
      BY <1>1 DEF google
    <3>2. CASE j = i
      BY <2>4, <2>5, <2>7, <3>1, <3>2 DEF Changed
    <3>3. CASE j # i
      BY <2>5, <3>1, <3>3 DEF MaintenanceInvariant, ReportIsTrue
    <3> QED
      BY <3>2, <3>3
  <2> QED
    BY <2>8, <2>9, <2>10, <2>11, <2>12, <2>13, <2>14, <2>15 DEF MaintenanceInvariant
<1> QED
  BY <1>2, <1>3

LEMMA CompleteStep ==
  ASSUME MaintenanceInvariant, NEW w \in Workers, Complete(w)
  PROVE  MaintenanceInvariant'
<1> DEFINE result == Payload(w)
<1>1. /\ worker[w] \in Memory /\ Local(w) /\ worker[w].at = "completing"
      /\ Ends(w, "succeeded", result)
  BY DEF MaintenanceInvariant, TypeOK, Complete
<1>2. result \in [Docs -> Forms \cup Outcomes \cup {"unseen"}]
  <2>1. /\ worker[w].seen \in [Docs -> Forms \cup {"unseen"}]
        /\ worker[w].report \in [Docs -> Outcomes \cup {"unseen"}]
    BY <1>1 DEF Memory
  <2>2. result = worker[w].seen \/ result = worker[w].report
    BY DEF Payload
  <2> HIDE DEF result
  <2> QED
    BY <2>1, <2>2
<1>3. row[worker[w].run].operation = "apply" => result = worker[w].report
  BY DEF Payload
<1> HIDE DEF result
<1> QED
  BY <1>1, <1>2, <1>3, EndStep DEF Local, Account

LEMMA FailStep ==
  ASSUME MaintenanceInvariant, NEW w \in Workers, FailRun(w)
  PROVE  MaintenanceInvariant'
<1>1. worker[w].at # "idle" /\ Ends(w, "failed", Unseen)
  BY DEF FailRun
<1>2. Unseen \in [Docs -> Forms \cup Outcomes \cup {"unseen"}]
  BY IdleTyped
<1> QED
  BY <1>1, <1>2, EndStep

LEMMA StepKeepsInvariant == MaintenanceInvariant /\ [Next]_vars => MaintenanceInvariant'
<1> SUFFICES ASSUME MaintenanceInvariant, [Next]_vars
             PROVE  MaintenanceInvariant'
  OBVIOUS
<1>1. ASSUME NEW i \in Runs, NEW operation \in {"dry_run", "apply"}, Enqueue(i, operation)
      PROVE  MaintenanceInvariant'
  BY <1>1, EnqueueStep
<1>2. ASSUME NEW d \in Docs, NEW form \in Forms, OwnerEdits(d, form)
      PROVE  MaintenanceInvariant'
  BY <1>2, EditStep
<1>3. ASSUME NEW i \in Runs, ExpireLease(i) PROVE MaintenanceInvariant'
  BY <1>3, ExpireStep
<1>4. ASSUME NEW w \in Workers, NEW i \in Runs, Claim(w, i) \/ Exhaust(w, i)
      PROVE  MaintenanceInvariant'
  BY <1>4, ClaimStep, ExhaustStep
<1>5. ASSUME NEW w \in Workers, Work(w) \/ Crash(w) PROVE MaintenanceInvariant'
  BY <1>5, AuthorizeStep, InspectStep, SkipStep, ReadStep, WriteStep, LoseStep,
     ReadFailsStep, NoteProgressStep, CompleteStep, FailStep, CrashStep DEF Work
<1>6. CASE UNCHANGED vars
  <2>1. \A v \in Workers : Local(v)'
    BY <1>6 DEF MaintenanceInvariant, vars, Local, Fresh, Holds, Once, Owned, Account, Changed,
                Ahead
  <2>2. TypeOK' /\ Fenced' /\ Past' /\ Closed' /\ Unborn' /\ NoEditLost' /\ ReportIsTrue'
    BY <1>6 DEF MaintenanceInvariant, vars, TypeOK, Fenced, Past, Closed, Unborn, NoEditLost,
                ReportIsTrue
  <2> QED
    BY <2>1, <2>2 DEF MaintenanceInvariant
<1> QED
  BY <1>1, <1>2, <1>3, <1>4, <1>5, <1>6 DEF Next

LEMMA InitHasInvariant == Init => MaintenanceInvariant
<1> SUFFICES ASSUME Init PROVE MaintenanceInvariant
  OBVIOUS
<1>1. /\ \A i \in Runs : row[i] = Absent
      /\ \A w \in Workers : worker[w] = Idle /\ late[w] = 0
      /\ rewrote = {}
  BY DEF Init
<1>2. Absent.status = "absent" /\ Absent.generation = 0
  BY DEF Absent, Unclaimed
<1>3. Idle.at = "idle" /\ Idle.run = 0
  BY DEF Idle, Starting
<1>4. TypeOK
  <2>1. row \in [Runs -> Rows] /\ worker \in [Workers -> Memory]
    BY AbsentTyped, IdleTyped DEF Init
  <2>2. doc \in [Docs -> Snapshots]
    BY DEF Init, Snapshots
  <2> QED
    BY <2>1, <2>2, MaintenanceAssumption DEF Init, TypeOK
<1>5. \A w \in Workers : Local(w)
  BY <1>1, <1>3 DEF Local, Fresh, Holds, Once, Account, Ahead
<1>6. Fenced /\ Past /\ Closed /\ Unborn
  BY <1>1, <1>2, <1>3 DEF Fenced, Past, Closed, Unborn
<1>7. NoEditLost
  BY DEF Init, NoEditLost
<1>8. ReportIsTrue
  BY <1>1, <1>2 DEF ReportIsTrue
<1> QED
  BY <1>4, <1>5, <1>6, <1>7, <1>8 DEF MaintenanceInvariant

\* The inductive invariant: what a worker has read is never newer than the document,
\* no two workers hold one generation, and every report is an account of the rewrites
\* of its attempt.
THEOREM MaintenanceInvariantHolds == Spec => []MaintenanceInvariant
<1>1. Init => MaintenanceInvariant
  BY InitHasInvariant
<1>2. MaintenanceInvariant /\ [Next]_vars => MaintenanceInvariant'
  BY StepKeepsInvariant
<1> QED
  BY <1>1, <1>2, PTL DEF Spec

\* Rows, workers, documents and books have their types: in particular no run passes
\* its attempt limit (transcript_maintenance_runs.py:314-329).
THEOREM TypeCorrect == Spec => []TypeOK
<1>1. MaintenanceInvariant => TypeOK
  BY DEF MaintenanceInvariant
<1> QED
  BY <1>1, MaintenanceInvariantHolds, PTL

\* No rewrite loses an edit of the owner
\* (transcript_catalog_standardize.py:116-188).
THEOREM NoEditLostHolds == Spec => []NoEditLost
<1>1. MaintenanceInvariant => NoEditLost
  BY DEF MaintenanceInvariant
<1> QED
  BY <1>1, MaintenanceInvariantHolds, PTL

\* A worker that lost its lease rewrites at most one document
\* (transcript_maintenance_runs.py:379-391).
THEOREM LostLeaseStopsWritingHolds == Spec => []LostLeaseStopsWriting
<1>1. ASSUME MaintenanceInvariant PROVE LostLeaseStopsWriting
  <2>1. \A w \in Workers : Once(w)
    BY <1>1 DEF MaintenanceInvariant, Local
  <2>2. \A w \in Workers : late[w] = 0 \/ late[w] = 1
    BY <2>1, Zenon DEF Once
  <2>3. late \in [Workers -> Nat]
    BY <1>1 DEF MaintenanceInvariant, TypeOK
  <2>4. \A n \in Nat : n = 0 \/ n = 1 => n <= 1
    OBVIOUS
  <2>5. \A w \in Workers : late[w] \in Nat
    BY <2>3
  <2> QED
    BY <2>2, <2>4, <2>5, Zenon DEF LostLeaseStopsWriting
<1> QED
  BY <1>1, MaintenanceInvariantHolds, PTL

\* The result of an application is true of the attempt that wrote it
\* (transcript_maintenance_runs.py:463-489).
THEOREM ReportIsTrueHolds == Spec => []ReportIsTrue
<1>1. MaintenanceInvariant => ReportIsTrue
  BY DEF MaintenanceInvariant
<1> QED
  BY <1>1, MaintenanceInvariantHolds, PTL

\* A document in the current form is not written
\* (transcript_catalog_standardize.py:252-261).
THEOREM CurrentIsLeftAloneHolds == Spec => CurrentIsLeftAlone
<1> DEFINE Left == \A d \in Docs : doc'[d].revision # doc[d].revision /\ edits'[d] = edits[d] =>
                       doc[d].form # "current"
<1>1. MaintenanceInvariant /\ [Next]_vars => [Left]_vars
  <2> SUFFICES ASSUME MaintenanceInvariant, Next PROVE Left
    BY DEF vars
  <2>1. CASE UNCHANGED doc
    BY <2>1
  <2>2. ASSUME NEW w \in Workers, worker[w].at = "writing", Rewrite(w)
        PROVE  Left
    <3>1. /\ Local(w) /\ worker[w].position \in Docs /\ worker[w].snapshot \in Snapshots
          /\ doc \in [Docs -> Snapshots]
      BY <2>2 DEF MaintenanceInvariant, TypeOK, Memory
    <3>2. doc[worker[w].position].form # "current"
      BY <2>2, <3>1 DEF Local, Fresh, Eligible, Rewrite, Accepted
    <3>3. \A e \in Docs : e # worker[w].position => doc'[e] = doc[e]
      BY <2>2, <3>1 DEF Rewrite
    <3> QED
      BY <3>2, <3>3
  <2>3. ASSUME NEW d \in Docs, NEW form \in Forms, OwnerEdits(d, form) PROVE Left
    <3>1. /\ edits'[d] # edits[d] /\ \A e \in Docs : e # d => doc'[e] = doc[e]
      BY <2>3 DEF MaintenanceInvariant, TypeOK, OwnerEdits
    <3> QED
      BY <3>1
  <2>4. ASSUME NEW w \in Workers, Work(w), ~UNCHANGED doc
        PROVE  worker[w].at = "writing" /\ Rewrite(w)
    BY <2>4 DEF Work, google, Authorize, Inspect, SkipDocument, ReadSnapshot, WriteDocument,
            LoseAnswer, ReadFails, NoteProgress, Complete, FailRun, Ends, Unwritten
  <2> HIDE DEF Left
  <2> QED
    BY <2>1, <2>2, <2>3, <2>4 DEF Next, google, Enqueue, ExpireLease, Claim, Exhaust, Crash
<1> QED
  BY <1>1, MaintenanceInvariantHolds, PTL DEF Spec, CurrentIsLeftAlone

=============================================================================
