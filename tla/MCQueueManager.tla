--------------------------- MODULE MCQueueManager ---------------------------
(* The instance of QueueManager for TLC: two producers that share three     *)
(* values and a queue with room for one.  There is no symmetry reduction,   *)
(* since liveness is checked.                                               *)
EXTENDS QueueManager

CONSTANTS p1, p2, c
=============================================================================
