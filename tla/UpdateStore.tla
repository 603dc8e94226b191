----------------------------- MODULE UpdateStore -----------------------------
(***************************************************************************)
(* What the updates of a server with persistent updates promise: an update *)
(* takes effect as a whole, first on disk and then for queries, the next   *)
(* update builds on it, and after a crash queries see what is on disk.     *)
(***************************************************************************)
CONSTANT Triple

VARIABLES
  durable,   \* the inserted and deleted triples that a restart restores
  visible    \* the inserted and deleted triples that a new query takes into account

Nothing == [t \in Triple |-> "none"]

Init == durable = Nothing /\ visible = Nothing

(* Deletions come before insertions.                                       *)
Applied(delta, delete, insert) ==
  [t \in Triple |-> IF t \in insert THEN "insert"
                    ELSE IF t \in delete THEN "delete" ELSE delta[t]]

Commit ==
  /\ visible = durable
  /\ \E delete, insert \in SUBSET Triple : durable' = Applied(durable, delete, insert)
  /\ UNCHANGED visible

CommitClear ==
  /\ visible = durable
  /\ durable' = Nothing
  /\ UNCHANGED visible

Publish == visible' = durable /\ UNCHANGED durable

Next == Commit \/ CommitClear \/ Publish

Spec == Init /\ [][Next]_<<durable, visible>>
=============================================================================
