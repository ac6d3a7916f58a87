------------------------- MODULE MCJobNotifications -------------------------
(***************************************************************************)
(* TLC instances of JobNotifications: the bounds are in the cfg files.     *)
(***************************************************************************)
EXTENDS JobNotifications

=============================================================================
