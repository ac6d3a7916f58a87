------------------------- MODULE MCMaintenanceRuns -------------------------
(***************************************************************************)
(* TLC instances of MaintenanceRuns.                                       *)
(***************************************************************************)
EXTENDS MaintenanceRuns

\* The first run is a preview that needs one attempt while nobody edits; what is
\* explored is the application after it, with one edit of the first document.
OneApplication ==
    /\ row[1].operation = "dry_run" /\ row[1].generation <= 1
    /\ row[1].status # "failed"
    /\ row[2].status # "absent" => row[2].operation = "apply"
    /\ row[2].status = "absent" => edits[1] = 0
    /\ edits[2] = 0
    /\ doc[2].form \in {"outdated", "current"}

=============================================================================
