----------------------- MODULE OrderedThreadSafeQueue -----------------------
(***************************************************************************)
(* OrderedThreadSafeQueue (src/src/util/ThreadSafeQueue.h): a layer over    *)
(* ThreadSafeQueue that lets the values in by their indices.  A value is   *)
(* its index here.  push keeps the mutex of the layer while it waits for   *)
(* space in the inner queue, so finish and pushException must finish the   *)
(* inner queue before they take that mutex.                                *)
(***************************************************************************)
EXTENDS ThreadSafeQueue

CONSTANT NoThread

ASSUME NoThreadAssumption == NoThread \notin Thread

VARIABLES
    mutex,          \* the thread that holds mutex_, or NoThread
    nextIndex,      \* nextIndex_
    ordFinish,      \* finish_
    oat             \* where each thread is in a method of the ordered queue

orderedVars == <<mutex, nextIndex, ordFinish, oat>>

OAt == {"out", "push", "cvWaits", "inPush", "inFinish", "locks", "notifies"}

OrderedInit ==
    /\ mutex = NoThread
    /\ nextIndex = 0
    /\ ordFinish = FALSE
    /\ oat = [t \in Thread |-> "out"]

\* Thread t is in no method of the queue.
Idle(t) == at[t] = "out" /\ oat[t] = "out"

OGo(t, p) == oat' = [oat EXCEPT ![t] = p]

\* push(index, value)
OrderedPush(t, v) ==
    /\ OGo(t, "push")
    /\ val' = [val EXCEPT ![t] = v]
    /\ UNCHANGED <<queueVars, at, ret, mutex, nextIndex, ordFinish>>

\* Mutant: finish and pushException lock the mutex first.
FinishLocksFirst(t, method) ==
    /\ mutex = NoThread
    /\ OGo(t, "inFinish")
    /\ Call(t, method, NoValue)
    /\ UNCHANGED <<mutex, nextIndex, ordFinish>>

\* finish() and pushException(): the inner queue comes first.
OrderedFinish(t, method) ==
    /\ OGo(t, "inFinish")
    /\ Call(t, method, NoValue)
    /\ UNCHANGED <<mutex, nextIndex, ordFinish>>

\* Mutant: the mutex is not held during the push to the inner queue.
OPushUnlocked(t) ==
    /\ oat[t] = "push" /\ mutex = NoThread
    /\ \/ /\ val[t] # nextIndex /\ ~ ordFinish
          /\ OGo(t, "cvWaits")
          /\ UNCHANGED <<queueVars, callVars, mutex, nextIndex, ordFinish>>
       \/ /\ ordFinish
          /\ OGo(t, "out")
          /\ Return(t, "false", NoValue)
          /\ UNCHANGED <<queueVars, mutex, nextIndex, ordFinish>>
       \/ /\ val[t] = nextIndex /\ ~ ordFinish
          /\ nextIndex' = nextIndex + 1
          /\ OGo(t, "inPush")
          /\ Call(t, "push", val[t])
          /\ UNCHANGED <<mutex, ordFinish>>

\* push under the mutex, up to the push to the inner queue
OPushLocked(t) ==
    /\ oat[t] = "push" /\ mutex = NoThread
    /\ \/ /\ val[t] # nextIndex /\ ~ ordFinish
          /\ OGo(t, "cvWaits")
          /\ UNCHANGED <<queueVars, callVars, mutex, nextIndex, ordFinish>>
       \/ /\ ordFinish
          /\ OGo(t, "out")
          /\ Return(t, "false", NoValue)
          /\ UNCHANGED <<queueVars, mutex, nextIndex, ordFinish>>
       \/ /\ val[t] = nextIndex /\ ~ ordFinish
          /\ mutex' = t
          /\ nextIndex' = nextIndex + 1
          /\ OGo(t, "inPush")
          /\ Call(t, "push", val[t])
          /\ UNCHANGED ordFinish

\* The inner push has returned: unlock().
OPushUnlocks(t) ==
    /\ oat[t] = "inPush" /\ at[t] = "out"
    /\ mutex' = NoThread
    /\ OGo(t, "notifies")
    /\ UNCHANGED <<queueVars, callVars, nextIndex, ordFinish>>

\* The inner finish or pushException has returned.
OFinishInner(t) ==
    /\ oat[t] = "inFinish" /\ at[t] = "out"
    /\ OGo(t, "locks")
    /\ UNCHANGED <<queueVars, callVars, mutex, nextIndex, ordFinish>>

\* With the mutex: finish_ = true.
OFinishLocked(t) ==
    /\ oat[t] = "locks" /\ mutex = NoThread
    /\ ordFinish' = TRUE
    /\ OGo(t, "notifies")
    /\ UNCHANGED <<queueVars, callVars, mutex, nextIndex>>

\* cv_.notify_all()
ONotifies(t) ==
    /\ oat[t] = "notifies"
    /\ oat' = [u \in Thread |-> IF u = t THEN "out"
                                ELSE IF oat[u] = "cvWaits" THEN "push"
                                ELSE oat[u]]
    /\ UNCHANGED <<queueVars, callVars, mutex, nextIndex, ordFinish>>

OSpuriousWakeup(t) ==
    /\ oat[t] = "cvWaits" /\ OGo(t, "push")
    /\ UNCHANGED <<queueVars, callVars, mutex, nextIndex, ordFinish>>

OrderedStep(t) ==
    OPushLocked(t) \/ OPushUnlocks(t) \/ OFinishInner(t) \/ OFinishLocked(t) \/ ONotifies(t)

-----------------------------------------------------------------------------

OrderedTypeOK ==
    /\ mutex \in Thread \cup {NoThread}
    /\ nextIndex \in Nat
    /\ ordFinish \in BOOLEAN
    /\ ordFinish => finish
    /\ oat \in [Thread -> OAt]
    /\ \A t \in Thread : mutex = t <=> oat[t] = "inPush"

=============================================================================
