------------------------ MODULE MCOperationalAlerts ------------------------
(***************************************************************************)
(* TLC instances of OperationalAlerts: the bounds are in the cfg files.    *)
(***************************************************************************)
EXTENDS OperationalAlerts

=============================================================================
