------------------------ MODULE MCCancellationHandle ------------------------
(* Two client threads and the watchdog on one handle.                      *)
EXTENDS CancellationHandle
=============================================================================
