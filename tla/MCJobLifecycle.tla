--------------------------- MODULE MCJobLifecycle ---------------------------
(***************************************************************************)
(* TLC instance of JobLifecycle.  The run checks liveness as well, so the  *)
(* workers are not declared symmetric.                                     *)
(***************************************************************************)
EXTENDS JobLifecycle

CONSTANTS w1, w2, w3

ThreeWorkers == {w1, w2, w3}

=============================================================================
