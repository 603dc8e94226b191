--------------------------- MODULE MCFlexibleCache ---------------------------
(* A cache for four values: an empty one, two small ones and a large one.    *)
EXTENDS FlexibleCacheMachine

MCSize == [k \in Key |-> k \div 2]     \* keys 1..4 have sizes 0, 1, 1, 2
=============================================================================
