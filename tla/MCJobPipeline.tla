--------------------------- MODULE MCJobPipeline ---------------------------
(***************************************************************************)
(* TLC instances of JobPipeline.                                           *)
(***************************************************************************)
EXTENDS JobPipeline

=============================================================================
