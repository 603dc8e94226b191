--------------------------- MODULE MCUpdateRequests ---------------------------
(* An instance of UpdateRequests.                                          *)
EXTENDS UpdateRequests, TLC

(* Requests are alike, and so are queries.                                 *)
Symmetric == Permutations(Thread) \union Permutations(Query)
=============================================================================
