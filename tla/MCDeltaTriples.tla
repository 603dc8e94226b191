---------------------------- MODULE MCDeltaTriples ----------------------------
(* An instance of DeltaTriplesManager: one triple without blank nodes, one  *)
(* with a blank node of the index, and two with blank nodes of the process. *)
EXTENDS DeltaTriplesManager
=============================================================================
