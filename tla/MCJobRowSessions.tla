-------------------------- MODULE MCJobRowSessions --------------------------
(***************************************************************************)
(* TLC instances of JobRowSessions.                                        *)
(***************************************************************************)
EXTENDS JobRowSessions, TLC

SessionSymmetry == Permutations(Workers) \cup Permutations(Requests)

=============================================================================
