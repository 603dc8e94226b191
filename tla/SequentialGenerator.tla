------------------------ MODULE SequentialGenerator ------------------------
(***************************************************************************)
(* What queueManager (src/src/util/ThreadSafeQueue.h) promises to the code *)
(* that iterates over its generator, with no threads in sight: the values  *)
(* come one by one, each once, for an OrderedThreadSafeQueue in the order  *)
(* of their indices, and the end comes after the last one; an exception    *)
(* may come instead, and the iterating code may stop after any value.      *)
(***************************************************************************)
EXTENDS Naturals, Sequences

CONSTANT NumValues

VARIABLES yielded, outcome, ordered

GInit == yielded = <<>> /\ outcome = "running" /\ ordered \in BOOLEAN

Yield ==
    /\ outcome = "running"
    /\ \E v \in 0 .. NumValues - 1 :
          /\ \A i \in DOMAIN yielded : yielded[i] # v
          /\ ordered => v = Len(yielded)
          /\ yielded' = Append(yielded, v)
    /\ UNCHANGED outcome

End ==
    /\ outcome = "running" /\ Len(yielded) = NumValues
    /\ outcome' = "nullopt"
    /\ UNCHANGED yielded

Fail ==
    /\ outcome = "running"
    /\ outcome' = "exception"
    /\ UNCHANGED yielded

Leave ==
    /\ outcome = "running" /\ yielded # <<>>
    /\ outcome' = "left"
    /\ UNCHANGED yielded

GNext == (Yield \/ End \/ Fail \/ Leave) /\ UNCHANGED ordered

GSpec == GInit /\ [][GNext]_<<yielded, outcome, ordered>>

=============================================================================
