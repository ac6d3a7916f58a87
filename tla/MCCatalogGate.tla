---------------------------- MODULE MCCatalogGate ----------------------------
(***************************************************************************)
(* TLC instances of CatalogGate.                                           *)
(***************************************************************************)
EXTENDS CatalogGate, TLC

CONSTANTS r1, r2, drive

\* Two rows of Source for one Drive file.
OneDriveFile == (r1 :> drive) @@ (r2 :> drive)

\* The rows are interchangeable, so the first job may as well take the first.
FirstJobOnFirstRow == job[1].row # r2

\* A second attempt runs, or is queued.
Retried(j) == job[j].attempts > 1 \/ (job[j].attempts = 1 /\ job[j].status = "queued")

\* The second job has one attempt.  The first may have a second one when both are
\* on one row, nobody approved to repeat a result, and the manifest is not reset.
OneRowWhenRetried ==
    /\ FirstJobOnFirstRow
    /\ ~job[1].approved
    /\ ~Retried(2)
    /\ Retried(1) =>
          job[2].row = r1 /\ \A j \in Jobs : ~job[j].approved /\ ~document[j].hidden

=============================================================================
