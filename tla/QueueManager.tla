---------------------------- MODULE QueueManager ----------------------------
(***************************************************************************)
(* queueManager and makeQueueTask (src/src/util/ThreadSafeQueue.h):        *)
(* threads that call a producer and push what it returns, and a generator  *)
(* that pops and yields.  `ordered` is the template parameter Queue.  The  *)
(* producer hands out the values 0 .. NumValues - 1 to whoever calls it,   *)
(* then nullopt; any call may throw, with or without having taken a value. *)
(* The code that iterates may destroy the generator at any value.          *)
(***************************************************************************)
EXTENDS OrderedThreadSafeQueue

CONSTANTS
    Producer,       \* the producer threads
    Consumer,       \* the thread that runs the generator
    NumValues

ASSUME ThreadAssumption ==
    /\ Thread = Producer \cup {Consumer} /\ Consumer \notin Producer
    /\ IsFiniteSet(Producer)
    /\ NumValues \in Nat /\ Value = 0 .. NumValues - 1

VARIABLES
    pc,             \* where each thread is in makeQueueTask or queueManager
    nextValue,      \* what the producer hands out next
    numThreads,     \* numUnfinishedThreads
    threw,          \* the threads in which the producer has thrown
    yielded,        \* the values the generator has yielded
    outcome,        \* how the loop of the generator ended
    ordered         \* Queue is OrderedThreadSafeQueue; it does not change

managerVars == <<pc, nextValue, numThreads, threw, yielded, outcome, ordered>>
vars == <<queueVars, callVars, orderedVars, managerVars>>

PC == {"produces", "pushes", "throws", "leaves", "counted", "finishes",
       "pops", "popping", "yields", "closes", "joins", "done"}

Init ==
    /\ QueueInit /\ OrderedInit
    /\ pc = [t \in Thread |-> IF t = Consumer THEN "pops" ELSE "produces"]
    /\ nextValue = 0
    /\ numThreads = Cardinality(Producer)
    /\ threw = {}
    /\ yielded = <<>>
    /\ outcome = "running"
    /\ ordered \in BOOLEAN

\* The calls of the two kinds of queues.  pop is the one of the inner queue.
Push(t, v) ==
    IF ordered THEN OrderedPush(t, v) ELSE Call(t, "push", v) /\ UNCHANGED orderedVars

Finish(t, method) ==
    IF ordered THEN OrderedFinish(t, method) ELSE Call(t, method, NoValue) /\ UNCHANGED orderedVars

Become(t, p) == pc' = [pc EXCEPT ![t] = p]

-----------------------------------------------------------------------------
(* makeQueueTask                                                            *)

\* producer() returns a value, which is pushed.
Produce(p) ==
    /\ pc[p] = "produces" /\ Idle(p) /\ nextValue < NumValues
    /\ nextValue' = nextValue + 1
    /\ Push(p, nextValue)
    /\ Become(p, "pushes")
    /\ UNCHANGED <<numThreads, threw, yielded, outcome>>

\* push returns: go on, or break if the queue is finished.
Pushed(p) ==
    /\ pc[p] = "pushes" /\ Idle(p)
    /\ Become(p, IF ret[p] = "true" THEN "produces" ELSE "leaves")
    /\ UNCHANGED <<queueVars, callVars, orderedVars, nextValue, numThreads, threw, yielded, outcome>>

\* producer() returns nullopt.
Exhausted(p) ==
    /\ pc[p] = "produces" /\ nextValue = NumValues
    /\ Become(p, "leaves")
    /\ UNCHANGED <<queueVars, callVars, orderedVars, nextValue, numThreads, threw, yielded, outcome>>

\* producer() throws.
Throw(p) ==
    /\ pc[p] = "produces" /\ Idle(p)
    /\ nextValue' \in {nextValue, nextValue + 1} /\ nextValue' <= NumValues
    /\ threw' = threw \cup {p}
    /\ Finish(p, "pushException")
    /\ Become(p, "throws")
    /\ UNCHANGED <<numThreads, yielded, outcome>>

ExceptionPushed(p) ==
    /\ pc[p] = "throws" /\ Idle(p)
    /\ Become(p, "leaves")
    /\ UNCHANGED <<queueVars, callVars, orderedVars, nextValue, numThreads, threw, yielded, outcome>>

\* --numThreads
CountDown(p) ==
    /\ pc[p] = "leaves"
    /\ numThreads' = numThreads - 1
    /\ Become(p, "counted")
    /\ UNCHANGED <<queueVars, callVars, orderedVars, nextValue, threw, yielded, outcome>>

\* if (numThreads <= 0) queue.finish(): a second access to the atomic
LastFinishes(p) ==
    /\ pc[p] = "counted"
    /\ \/ /\ numThreads <= 0
          /\ Finish(p, "finish")
          /\ Become(p, "finishes")
       \/ /\ numThreads > 0
          /\ Become(p, "done")
          /\ UNCHANGED <<queueVars, callVars, orderedVars>>
    /\ UNCHANGED <<nextValue, numThreads, threw, yielded, outcome>>

TaskEnds(p) ==
    /\ pc[p] = "finishes" /\ Idle(p)
    /\ Become(p, "done")
    /\ UNCHANGED <<queueVars, callVars, orderedVars, nextValue, numThreads, threw, yielded, outcome>>

-----------------------------------------------------------------------------
(* The generator                                                            *)

\* queue.pop() is called by the loop.
Pop ==
    /\ pc[Consumer] = "pops" /\ Idle(Consumer)
    /\ Call(Consumer, "pop", NoValue)
    /\ Become(Consumer, "popping")
    /\ UNCHANGED <<orderedVars, nextValue, numThreads, threw, yielded, outcome>>

\* pop returns: co_yield the value, or leave the loop with nullopt or with the
\* exception.
Popped ==
    /\ pc[Consumer] = "popping" /\ Idle(Consumer)
    /\ \/ /\ ret[Consumer] = "value"
          /\ yielded' = Append(yielded, val[Consumer])
          /\ Become(Consumer, "yields")
          /\ UNCHANGED outcome
       \/ /\ ret[Consumer] \in {"nullopt", "exception"}
          /\ outcome' = ret[Consumer]
          /\ Become(Consumer, "closes")
          /\ UNCHANGED yielded
    /\ UNCHANGED <<queueVars, callVars, orderedVars, nextValue, numThreads, threw>>

\* The iterating code asks for the next value or destroys the generator.
Resume ==
    /\ pc[Consumer] = "yields"
    /\ \/ Become(Consumer, "pops") /\ UNCHANGED outcome
       \/ Become(Consumer, "closes") /\ outcome' = "left"
    /\ UNCHANGED <<queueVars, callVars, orderedVars, nextValue, numThreads, threw, yielded>>

\* The destructors of the generator's variables: queueFinisher ...
QueueFinisher ==
    /\ pc[Consumer] = "closes"
    /\ Finish(Consumer, "finish")
    /\ Become(Consumer, "joins")
    /\ UNCHANGED <<nextValue, numThreads, threw, yielded, outcome>>

\* ... and the JThreads, which join.
Join ==
    /\ pc[Consumer] = "joins" /\ Idle(Consumer)
    /\ \A p \in Producer : pc[p] = "done"
    /\ Become(Consumer, "done")
    /\ UNCHANGED <<queueVars, callVars, orderedVars, nextValue, numThreads, threw, yielded, outcome>>

-----------------------------------------------------------------------------

Inside(t) == QueueStep(t) /\ UNCHANGED <<orderedVars, managerVars>>

InsideOrdered(t) == OrderedStep(t) /\ UNCHANGED managerVars

TaskStep(p) ==
    /\ UNCHANGED ordered
    /\ \/ Produce(p) \/ Pushed(p) \/ Exhausted(p) \/ Throw(p) \/ ExceptionPushed(p)
       \/ CountDown(p) \/ LastFinishes(p) \/ TaskEnds(p)

GeneratorStep ==
    /\ UNCHANGED ordered
    /\ Pop \/ Popped \/ Resume \/ QueueFinisher \/ Join

Wakeup(t) ==
    \/ SpuriousWakeup(t) /\ UNCHANGED <<orderedVars, managerVars>>
    \/ OSpuriousWakeup(t) /\ UNCHANGED managerVars

Done == \A t \in Thread : pc[t] = "done"

Next ==
    \/ \E t \in Thread : Inside(t) \/ InsideOrdered(t) \/ Wakeup(t)
    \/ \E p \in Producer : TaskStep(p)
    \/ GeneratorStep
    \/ Done /\ UNCHANGED vars

Spec == Init /\ [][Next]_vars

\* Every thread that can take a step takes one: the operating system runs the
\* threads, producer() returns, and the generator is resumed or destroyed.
\* Nothing is assumed of spurious wakeups.
FairSpec ==
    /\ Spec
    /\ \A t \in Thread : WF_vars(Inside(t)) /\ WF_vars(InsideOrdered(t))
    /\ \A p \in Producer : WF_vars(TaskStep(p))
    /\ WF_vars(GeneratorStep)

-----------------------------------------------------------------------------

\* The variables have the types of the members of the queue; ordered pushes
\* hold the mutex while, and only while, they are in the inner queue.
TypeOK ==
    /\ QueueTypeOK /\ OrderedTypeOK
    /\ pc \in [Thread -> PC]
    /\ nextValue \in 0 .. NumValues
    /\ numThreads \in 0 .. Cardinality(Producer)
    /\ threw \subseteq Producer
    /\ yielded \in Seq(Value)
    /\ outcome \in {"running", "nullopt", "exception", "left"}
    /\ ordered \in BOOLEAN

\* No wakeup is lost although push and pop notify only one thread, and only
\* after they unlocked the mutex.  As long as a consumer waits, there are at
\* least as many threads that are about to notify or to pop as there are
\* elements; the same for producers and free places; and when the queue was
\* finished while a thread waits, some thread is about to notify all of them.
NoLostWakeup ==
    /\ TypeOK
    /\ Waiting("popWaits") # {} /\ ~ finish =>
          Len(queue) <= Cardinality(Waiting("pushNotifies") \cup Waiting("pop"))
    /\ Waiting("pushWaits") # {} /\ ~ finish =>
          MaxSize - Len(queue) <= Cardinality(Waiting("popNotifies") \cup Waiting("push"))
    /\ Waiting("popWaits") \cup Waiting("pushWaits") # {} /\ finish =>
          Waiting("notifiesAll") # {}

\* "All the returned values will be in ascending consecutive order wrt the
\* index with which they were pushed", whichever threads push them.
YieldedInOrder == ordered => \A i \in 1 .. Len(yielded) : yielded[i] = i - 1

\* With its threads, mutexes and condition variables hidden, the generator
\* behaves as one that produces the values itself, one after the other.
Sequential == INSTANCE SequentialGenerator

ImplementsSequential == Sequential!GSpec

\* All threads end and the destructor of the generator returns, after the last
\* value, after an exception, and when the iterating code leaves early while
\* producers wait for space or for their turn.
EverythingEnds == <>Done

=============================================================================
