--------------------------- MODULE MCSourceCleanup ---------------------------
(***************************************************************************)
(* TLC instances of SourceCleanup: the bounds are in the cfg files.        *)
(***************************************************************************)
EXTENDS SourceCleanup

=============================================================================
