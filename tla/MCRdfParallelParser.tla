------------------------- MODULE MCRdfParallelParser -------------------------
(* The instance of RdfParallelParser for TLC; the constants are given in   *)
(* the configuration.                                                      *)
EXTENDS RdfParallelParser
=============================================================================
