-------------------------- MODULE MCYandexOperation --------------------------
(***************************************************************************)
(* TLC instances of YandexOperation.                                       *)
(***************************************************************************)
EXTENDS YandexOperation

\* The owner cancels during the first two claims: after the last one nothing
\* follows that a cancellation could disturb.
CancelledEarly == job.cancelRequested => job.generation < MaxGeneration

=============================================================================
