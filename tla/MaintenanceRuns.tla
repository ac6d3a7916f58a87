-------------------------- MODULE MaintenanceRuns --------------------------
(***************************************************************************)
(* The standardization workflow of one owner: previews and applications    *)
(* that workers claim under a lease, the Google documents of one folder    *)
(* they inspect and rewrite, and an owner who edits the same documents.    *)
(*                                                                         *)
(* Source: transcript_maintenance_runs.py, transcript_maintenance_worker.py, *)
(* transcript_maintenance_apply.py, transcript_maintenance_dry_run.py,     *)
(* transcript_catalog_standardize.py.  A step of a worker is what lies     *)
(* between two calls to Google or two commits.  A renewal of the lease is  *)
(* the absence of ExpireLease.  A repeated request with the same key       *)
(* changes nothing and is left out, as is the import into the manifest,    *)
(* which shares the life cycle and writes in the commit that ends the run. *)
(*                                                                         *)
(* Operators whose name begins with "Mutant" are variants, with a plausible *)
(* bug, of the definition that follows; no action uses them.               *)
(***************************************************************************)
EXTENDS Naturals

CONSTANTS
    Workers,     \* worker processes, or restarts of one
    NumRuns,     \* runs the owner may request
    NumDocs,     \* documents of the selected folder
    MaxAttempts, \* MAX_RUN_ATTEMPTS
    MaxEdits,    \* bound of the model on the owner's edits
    Nobody       \* no lease owner

ASSUME MaintenanceAssumption ==
    /\ NumRuns \in Nat /\ NumDocs \in Nat \ {0}
    /\ MaxAttempts \in Nat \ {0} /\ MaxEdits \in Nat
    /\ Nobody \notin Workers

Runs == 1..NumRuns
Docs == 1..NumDocs

\* What classify_transcript_document_standard says of a document; an unreadable
\* one cannot be rewritten (multiple tabs, tables, no text, no access).
Forms == {"current", "outdated", "unstructured", "unreadable"}

\* What a result says of a document of an application; response_invalid is a blocked
\* one whose answer could not be read.
Outcomes == {"standardized", "already_current", "blocked", "response_invalid"}

VARIABLES
    row,         \* the rows of TranscriptMaintenanceRun
    worker,      \* what every worker process has in memory
    doc,         \* the documents: revision, form, owner's edits they contain
    edits,       \* the owner's edits made, by document
    rewrote,     \* the rewrites that took effect: run, generation, document
    late         \* rewrites of a worker since it lost its lease

vars == <<row, worker, doc, edits, rewrote, late>>

google == <<doc, edits, rewrote, late>>

Places == {"idle", "authorizing", "inspecting", "applying", "writing", "noting",
           "completing", "failing"}

Unseen == [d \in Docs |-> "unseen"]

Snapshots == [revision : Nat, form : Forms, edits : Nat]

NoSnapshot == [revision |-> 0, form |-> "unreadable", edits |-> 0]

\* A worker knows its run and generation, the document it is at, the forms the
\* inspection found, the document as read before the rewrite, and the outcomes so far.
Starting(place, i, generation) ==
    [at |-> place, run |-> i, generation |-> generation, position |-> 1, seen |-> Unseen,
     snapshot |-> NoSnapshot, report |-> Unseen]

Idle == Starting("idle", 0, 0)

Rows ==
    [status : {"absent", "queued", "running", "succeeded", "failed"},
     operation : {"dry_run", "apply"}, owner : Workers \cup {Nobody}, live : BOOLEAN,
     generation : 0..MaxAttempts, result : [Docs -> Forms \cup Outcomes \cup {"unseen"}]]

Memory ==
    [at : Places, run : Runs \cup {0}, generation : 0..MaxAttempts, position : Docs,
     seen : [Docs -> Forms \cup {"unseen"}], snapshot : Snapshots,
     report : [Docs -> Outcomes \cup {"unseen"}]]

TypeOK ==
    /\ row \in [Runs -> Rows]
    /\ worker \in [Workers -> Memory]
    /\ doc \in [Docs -> Snapshots]
    /\ edits \in [Docs -> 0..MaxEdits]
    /\ rewrote \in SUBSET (Runs \X (1..MaxAttempts) \X Docs)
    /\ late \in [Workers -> Nat]

\* A row before its first claim.
Unclaimed(status, operation) ==
    [status |-> status, operation |-> operation, owner |-> Nobody, live |-> FALSE,
     generation |-> 0, result |-> Unseen]

Absent == Unclaimed("absent", "dry_run")

Init ==
    /\ row = [i \in Runs |-> Absent]
    /\ worker = [w \in Workers |-> Idle]
    /\ doc \in [Docs -> [revision : {1}, form : Forms, edits : {0}]]
    /\ edits = [d \in Docs |-> 0]
    /\ rewrote = {}
    /\ late = [w \in Workers |-> 0]

(***************************************************************************)
(* Requests of the owner.                                                  *)
(***************************************************************************)

Active(i) == row[i].status \in {"queued", "running"}

\* _preview_authority: the target is the same folder in every run.
Preview(i) == row[i].operation = "dry_run" /\ row[i].status = "succeeded"

\* create_transcript_maintenance_run and _apply_run, under the lock of the user.
Enqueue(i, operation) ==
    /\ row[i].status = "absent"
    /\ \A j \in Runs : j < i => row[j].status # "absent"
    /\ \A j \in Runs : ~Active(j)
    /\ operation = "apply" => \E j \in Runs : Preview(j)
    /\ row' = [row EXCEPT ![i] = Unclaimed("queued", operation)]
    /\ UNCHANGED <<worker, google>>

\* The owner, or a colleague, edits a document of the folder.
OwnerEdits(d, form) ==
    /\ edits[d] < MaxEdits
    /\ edits' = [edits EXCEPT ![d] = @ + 1]
    /\ doc' = [doc EXCEPT ![d] = [revision |-> doc[d].revision + 1, form |-> form,
                                  edits |-> doc[d].edits + 1]]
    /\ UNCHANGED <<row, worker, rewrote, late>>

(***************************************************************************)
(* The lease.                                                              *)
(***************************************************************************)

MutantOwned(w) == worker[w].run # 0 /\ row[worker[w].run].status = "running"

\* _owned_lease.
Owned(w) ==
    /\ worker[w].run # 0
    /\ row[worker[w].run].status = "running"
    /\ row[worker[w].run].live
    /\ row[worker[w].run].owner = w
    /\ row[worker[w].run].generation = worker[w].generation

\* The lease runs out under a stalled worker, or behind a dead one.
ExpireLease(i) ==
    /\ row[i].status = "running" /\ row[i].live
    /\ row' = [row EXCEPT ![i] = [row[i] EXCEPT !.live = FALSE]]
    /\ UNCHANGED <<worker, google>>

MutantClaimable(i) == row[i].status = "queued"

Claimable(i) == row[i].status = "queued" \/ (row[i].status = "running" /\ ~row[i].live)

\* _fail_run and _release_lease; the end of a run that succeeded.
Ended(i, status, result) ==
    [status |-> status, operation |-> row[i].operation, owner |-> Nobody, live |-> FALSE,
     generation |-> row[i].generation, result |-> result]

\* claim_next_transcript_maintenance_run, attempts left.  The generation counts
\* the attempts.
Claim(w, i) ==
    /\ worker[w].at = "idle" /\ Claimable(i) /\ row[i].generation < MaxAttempts
    /\ row' = [row EXCEPT ![i] =
                 [status |-> "running", operation |-> row[i].operation, owner |-> w,
                  live |-> TRUE, generation |-> row[i].generation + 1,
                  result |-> row[i].result]]
    /\ worker' = [worker EXCEPT ![w] =
                    Starting("authorizing", i, row[i].generation + 1)]
    /\ late' = [late EXCEPT ![w] = 0]
    /\ UNCHANGED <<doc, edits, rewrote>>

\* The same without attempts left.
Exhaust(w, i) ==
    /\ worker[w].at = "idle" /\ Claimable(i) /\ row[i].generation = MaxAttempts
    /\ row' = [row EXCEPT ![i] = Ended(i, "failed", Unseen)]
    /\ UNCHANGED <<worker, google>>

(***************************************************************************)
(* The run.                                                                *)
(***************************************************************************)

\* The worker goes on with what it now knows.
Goes(w, place, known) == worker' = [worker EXCEPT ![w] = [known EXCEPT !.at = place]]

\* The process is done with the run, one way or another.
Leaves(w) == worker' = [worker EXCEPT ![w] = Idle]

\* The first check of the lease and the access token.
Authorize(w) ==
    /\ worker[w].at = "authorizing"
    /\ IF Owned(w) THEN Goes(w, "inspecting", worker[w]) ELSE Leaves(w)
    /\ UNCHANGED <<row, google>>

AfterInspection(w) ==
    IF row[worker[w].run].operation = "dry_run" THEN "completing" ELSE "applying"

\* One document of _classify_documents, and the progress written after it.
Inspect(w) ==
    LET d == worker[w].position
        known == [worker[w] EXCEPT !.seen = [@ EXCEPT ![d] = doc[d].form],
                                   !.position = IF d < NumDocs THEN d + 1 ELSE 1]
    IN  /\ worker[w].at = "inspecting"
        /\ \/ ~Owned(w) /\ Leaves(w)
           \/ Owned(w) /\ d < NumDocs /\ Goes(w, "inspecting", known)
           \/ Owned(w) /\ d = NumDocs /\ Goes(w, AfterInspection(w), known)
        /\ UNCHANGED <<row, google>>

\* The worker has the outcome of the document it is at; the progress comes next.
Notes(w, outcome, known) ==
    Goes(w, "noting", [known EXCEPT !.report = [@ EXCEPT ![known.position] = outcome],
                                    !.snapshot = NoSnapshot])

\* classify_transcript_standardization_candidate.
Eligible(form) == form \in {"outdated", "unstructured"}

\* A document the inspection settled.
SkipDocument(w) ==
    LET form == worker[w].seen[worker[w].position]
    IN  /\ worker[w].at = "applying" /\ ~Eligible(form)
        /\ Notes(w, IF form = "current" THEN "already_current" ELSE "blocked", worker[w])
        /\ UNCHANGED <<row, google>>

\* The form must still be the one that was inspected.
NeedsRewrite(w, form) == form = worker[w].seen[worker[w].position]

\* standardize_transcript_document_in_place up to its write.
ReadSnapshot(w) ==
    LET d == worker[w].position
        form == doc[d].form
    IN  /\ worker[w].at = "applying" /\ Eligible(worker[w].seen[d])
        /\ IF NeedsRewrite(w, form)
           THEN Goes(w, "writing", [worker[w] EXCEPT !.snapshot = doc[d]])
           ELSE Notes(w, IF form = "current" THEN "already_current" ELSE "blocked", worker[w])
        /\ UNCHANGED <<row, google>>

MutantAccepted(w) == worker[w].snapshot.revision <= doc[worker[w].position].revision

\* writeControl.requiredRevisionId.
Accepted(w) == worker[w].snapshot.revision = doc[worker[w].position].revision

\* The batch update takes effect: the text is the one that was read, in the
\* current form.
Rewrite(w) ==
    LET d == worker[w].position
    IN  /\ Accepted(w)
        /\ doc' = [doc EXCEPT ![d] = [revision |-> doc[d].revision + 1, form |-> "current",
                                      edits |-> worker[w].snapshot.edits]]
        /\ rewrote' = rewrote \cup {<<worker[w].run, worker[w].generation, d>>}
        /\ late' = IF Owned(w) THEN late ELSE [late EXCEPT ![w] = late[w] + 1]

Unwritten == UNCHANGED <<doc, rewrote, late>>

\* The write and its answer: accepted, accepted with an answer that cannot be
\* read, refused.
WriteDocument(w) ==
    /\ worker[w].at = "writing"
    /\ \/ Rewrite(w) /\ Notes(w, "standardized", worker[w])
       \/ Rewrite(w) /\ Notes(w, "response_invalid", worker[w])
       \/ Unwritten /\ Notes(w, "blocked", worker[w])
    /\ UNCHANGED <<row, edits>>

\* The answer is lost, or names a failure of the connection: the whole run fails.
LoseAnswer(w) ==
    /\ worker[w].at = "writing" /\ Goes(w, "failing", worker[w])
    /\ Rewrite(w) \/ Unwritten
    /\ UNCHANGED <<row, edits>>

\* A token or a document cannot be read for a reason that concerns them all.
ReadFails(w) ==
    /\ worker[w].at \in {"authorizing", "inspecting", "applying"}
    /\ Goes(w, "failing", worker[w])
    /\ UNCHANGED <<row, google>>

MutantMayProceed(w) == TRUE

\* progress: a worker goes on only under its lease.
MayProceed(w) == Owned(w)

\* The progress written after a document.
NoteProgress(w) ==
    LET d == worker[w].position
    IN  /\ worker[w].at = "noting"
        /\ \/ ~MayProceed(w) /\ Leaves(w)
           \/ /\ MayProceed(w) /\ d < NumDocs
              /\ Goes(w, "applying", [worker[w] EXCEPT !.position = d + 1])
           \/ MayProceed(w) /\ d = NumDocs /\ Goes(w, "completing", worker[w])
        /\ UNCHANGED <<row, google>>

Payload(w) ==
    IF row[worker[w].run].operation = "dry_run" THEN worker[w].seen ELSE worker[w].report

\* The end of the run and of its lease, in one commit, if it is still the worker's.
Ends(w, status, result) ==
    /\ Leaves(w)
    /\ row' = IF Owned(w)
              THEN [row EXCEPT ![worker[w].run] = Ended(worker[w].run, status, result)]
              ELSE row
    /\ UNCHANGED google

\* The result.
Complete(w) == worker[w].at = "completing" /\ Ends(w, "succeeded", Payload(w))

\* The handler of an exception.
FailRun(w) == worker[w].at = "failing" /\ Ends(w, "failed", Unseen)

\* The process dies.
Crash(w) ==
    /\ worker[w].at # "idle" /\ Leaves(w)
    /\ UNCHANGED <<row, google>>

Work(w) ==
    \/ Authorize(w) \/ Inspect(w) \/ SkipDocument(w) \/ ReadSnapshot(w) \/ WriteDocument(w)
    \/ LoseAnswer(w) \/ ReadFails(w) \/ NoteProgress(w) \/ Complete(w) \/ FailRun(w)

Next ==
    \/ \E i \in Runs, operation \in {"dry_run", "apply"} : Enqueue(i, operation)
    \/ \E d \in Docs, form \in Forms : OwnerEdits(d, form)
    \/ \E i \in Runs : ExpireLease(i)
    \/ \E w \in Workers, i \in Runs : Claim(w, i) \/ Exhaust(w, i)
    \/ \E w \in Workers : Work(w) \/ Crash(w)

Spec == Init /\ [][Next]_vars

\* Nobody works under the lease any more.
Orphan(i) ==
    \A w \in Workers : worker[w].run = i => worker[w].generation # row[i].generation

\* The worker loop comes back to the maintenance queue, a process that lives goes
\* on, and the lease of a dead one runs out.
Fairness ==
    /\ WF_vars(\E w \in Workers, i \in Runs : Claim(w, i) \/ Exhaust(w, i))
    /\ \A w \in Workers : WF_vars(Work(w))
    /\ \A i \in Runs : WF_vars(Orphan(i) /\ ExpireLease(i))

FairSpec == Spec /\ Fairness

(***************************************************************************)
(* Properties.                                                             *)
(***************************************************************************)

\* No rewrite loses an edit: whatever the owner writes between the inspection, the
\* reading and the rewriting of a document is still in it, also when two workers
\* are at the same document (transcript_catalog_standardize.py:116-188).
NoEditLost == \A d \in Docs : doc[d].edits = edits[d]

\* A worker that lost its lease rewrites at most the document it is at: before the
\* next one it finds out (transcript_maintenance_runs.py:379-391, PTM-08).
LostLeaseStopsWriting == \A w \in Workers : late[w] <= 1

\* The result of an application is the account of the attempt that held the lease
\* at its end: it names as standardized the documents that attempt rewrote, and no
\* other, except one whose answer could not be read
\* (transcript_maintenance_apply.py:107-166, transcript_maintenance_runs.py:463-489).
ReportIsTrue ==
    \A i \in Runs, d \in Docs :
        row[i].status = "succeeded" /\ row[i].operation = "apply" =>
            LET changed == <<i, row[i].generation, d>> \in rewrote
            IN  /\ row[i].result[d] = "standardized" => changed
                /\ changed => row[i].result[d] \in {"standardized", "response_invalid"}

\* A document that is in the current form is not written, by a repeated attempt, a
\* leftover worker or a second run (transcript_catalog_standardize.py:252-261).
CurrentIsLeftAlone ==
    [][\A d \in Docs : doc'[d].revision # doc[d].revision /\ edits'[d] = edits[d] =>
           doc[d].form # "current"]_vars

\* Every run the owner asked for ends, and gives way to the next one
\* (transcript_maintenance_runs.py:291-329).
RunsSettle == \A i \in Runs : row[i].status = "queued" ~> row[i].status \in {"succeeded", "failed"}

=============================================================================
