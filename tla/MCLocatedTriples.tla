--------------------------- MODULE MCLocatedTriples ---------------------------
(* All layouts of up to five triples in blocks, with three graphs.         *)
EXTENDS LocatedTriplesPerBlock

MCGraphOf(t) == t % 3
=============================================================================
