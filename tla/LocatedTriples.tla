---------------------------- MODULE LocatedTriples ----------------------------
(***************************************************************************)
(* The located triples of one permutation: `lt` says of every triple  *)
(* whether it is recorded as inserted or deleted.  A triple is the natural *)
(* number of its rank.                                                     *)
(***************************************************************************)
EXTENDS Integers

Kind == {"none", "insert", "delete"}

Keys(lt) == {t \in DOMAIN lt : lt[t] # "none"}

NoTriples(triples) == [t \in triples |-> "none"]

-----------------------------------------------------------------------------
(* The first triple of `triples` that is already there stops `add` with a  *)
(* failed check; the triples before it have been added by then.            *)
Added(lt, triples) ==
  {t \in triples : \A u \in triples \intersect Keys(lt) : t < u}

AddFails(lt, triples) == triples \intersect Keys(lt) # {}

Add(lt, triples, kind) ==
  [t \in DOMAIN lt |->
     IF t \in Added(lt, triples) THEN kind ELSE lt[t]]

Erase(lt, triples) ==
  [t \in DOMAIN lt |-> IF t \in triples THEN "none" ELSE lt[t]]
=============================================================================
