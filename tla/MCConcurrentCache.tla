-------------------------- MODULE MCConcurrentCache --------------------------
(* Two threads that ask for the same result, of size 1.                    *)
EXTENDS ConcurrentCache

MCSize == [k \in Key |-> 1]
=============================================================================
