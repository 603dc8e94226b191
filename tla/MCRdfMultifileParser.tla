------------------------ MODULE MCRdfMultifileParser ------------------------
(* The instances of RdfMultifileParser for TLC; the workers are alike.     *)
EXTENDS RdfMultifileParser, TLC

Symmetry == Permutations(Worker)
=============================================================================
