--------------------------- MODULE BlockingQueue ---------------------------
(***************************************************************************)
(* ThreadSafeQueue (src/src/util/ThreadSafeQueue.h) as its users see it:   *)
(* each method is one step, which a thread can only take when the method   *)
(* would not block.  The module ThreadSafeQueue, with the mutex and the    *)
(* condition variables, shows that no thread blocks for longer than that.  *)
(***************************************************************************)
EXTENDS Naturals, Sequences

\* A queue is [items, finish, exception].
EmptyQueue == [items |-> <<>>, finish |-> FALSE, exception |-> FALSE]

IsQueue(q, V, max) ==
    /\ q.items \in Seq(V) /\ Len(q.items) <= max
    /\ q.finish \in BOOLEAN /\ q.exception \in BOOLEAN

CanPush(q, max) == Len(q.items) < max \/ q.finish

\* push returns true iff the queue is not finished.
AfterPush(q, v) == IF q.finish THEN q ELSE [q EXCEPT !.items = Append(@, v)]

CanPop(q) == q.items # <<>> \/ q.finish \/ q.exception

PopResult(q) ==
    CASE q.exception                      -> "exception"
      [] ~ q.exception /\ q.items # <<>>  -> "value"
      [] OTHER                            -> "nullopt"

AfterPop(q) == IF PopResult(q) = "value" THEN [q EXCEPT !.items = Tail(@)] ELSE q

AfterFinish(q) == [q EXCEPT !.finish = TRUE]

AfterException(q) == [q EXCEPT !.finish = TRUE, !.exception = TRUE]

=============================================================================
