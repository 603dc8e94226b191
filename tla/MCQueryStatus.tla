----------------------------- MODULE MCQueryStatus -----------------------------
(* The instance of QueryStatus for TLC.                                    *)
EXTENDS QueryStatus
=============================================================================
