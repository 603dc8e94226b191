-------------------------- MODULE ThreadSafeQueue --------------------------
(***************************************************************************)
(* ad_utility::data_structures::ThreadSafeQueue                            *)
(* (src/src/util/ThreadSafeQueue.h): a bounded queue with one mutex and two *)
(* condition variables.  What a method does under the mutex is one step;   *)
(* its notification, which comes after unlock(), is another one.  A thread *)
(* that waits on a condition variable is woken by a notification (or       *)
(* spuriously) and then evaluates the condition again.                     *)
(*                                                                         *)
(* Modules that extend this one begin a call with Call, find its result in *)
(* `ret` and `val` when the thread is "out" again, and compose QueueStep   *)
(* with the steps of their own threads.                                    *)
(***************************************************************************)
EXTENDS Integers, Sequences, FiniteSets

CONSTANTS
    Thread,
    Value, NoValue,
    MaxSize         \* maxSize_

ASSUME MaxSizeAssumption == MaxSize \in Nat \ {0}

ASSUME NoValueAssumption == NoValue \notin Value

VARIABLES
    queue,          \* queue_
    finish,         \* finish_
    exception,      \* pushedException_ is set
    at,             \* where each thread is in a method of the queue
    ret, val        \* the result of the last call; the value pushed or popped

queueVars == <<queue, finish, exception>>
callVars == <<at, ret, val>>

\* pushWaits and popWaits: waiting on popNotification_ and pushNotification_.
Methods == {"push", "pushException", "finish", "pop"}

At == {"out", "pushWaits", "pushNotifies", "notifiesAll", "popWaits", "popNotifies"} \cup Methods

Ret == {"none", "true", "false", "value", "nullopt", "exception", "void"}

QueueInit ==
    /\ queue = <<>>
    /\ finish = FALSE
    /\ exception = FALSE
    /\ at = [t \in Thread |-> "out"]
    /\ ret = [t \in Thread |-> "none"]
    /\ val = [t \in Thread |-> NoValue]

\* Thread t calls a method, with the argument v if it is push.
Call(t, method, v) ==
    /\ at[t] = "out"
    /\ at' = [at EXCEPT ![t] = method]
    /\ ret' = [ret EXCEPT ![t] = "none"]
    /\ val' = [val EXCEPT ![t] = v]
    /\ UNCHANGED queueVars

Go(t, p) == at' = [at EXCEPT ![t] = p] /\ UNCHANGED <<ret, val>>

Return(t, r, v) ==
    /\ at' = [at EXCEPT ![t] = "out"]
    /\ ret' = [ret EXCEPT ![t] = r]
    /\ val' = [val EXCEPT ![t] = v]

-----------------------------------------------------------------------------
(* The methods, each from taking the mutex to waiting or unlocking it.      *)

PushLocked(t) ==
    /\ at[t] = "push"
    /\ \/ /\ Len(queue) >= MaxSize /\ ~ finish
          /\ Go(t, "pushWaits")
          /\ UNCHANGED queueVars
       \/ /\ finish
          /\ Return(t, "false", NoValue)
          /\ UNCHANGED queueVars
       \/ /\ Len(queue) < MaxSize /\ ~ finish
          /\ queue' = Append(queue, val[t])
          /\ Go(t, "pushNotifies")
          /\ UNCHANGED <<finish, exception>>

\* Only the first exception counts; the others return without notifying.
PushExceptionLocked(t) ==
    /\ at[t] = "pushException"
    /\ \/ /\ exception
          /\ Return(t, "void", NoValue)
          /\ UNCHANGED queueVars
       \/ /\ ~ exception
          /\ exception' = TRUE
          /\ finish' = TRUE
          /\ Go(t, "notifiesAll")
          /\ UNCHANGED queue

FinishLocked(t) ==
    /\ at[t] = "finish"
    /\ finish' = TRUE
    /\ Go(t, "notifiesAll")
    /\ UNCHANGED <<queue, exception>>

\* Mutant: after finish() the remaining elements are not handed out.
PopDropsRest(t) ==
    /\ at[t] = "pop"
    /\ \/ /\ queue = <<>> /\ ~ finish
          /\ Go(t, "popWaits")
          /\ UNCHANGED queueVars
       \/ /\ finish
          /\ Return(t, IF exception THEN "exception" ELSE "nullopt", NoValue)
          /\ UNCHANGED queueVars
       \/ /\ ~ finish /\ queue # <<>>
          /\ val' = [val EXCEPT ![t] = Head(queue)]
          /\ queue' = Tail(queue)
          /\ at' = [at EXCEPT ![t] = "popNotifies"]
          /\ UNCHANGED <<ret, finish, exception>>

PopLocked(t) ==
    /\ at[t] = "pop"
    /\ \/ /\ queue = <<>> /\ ~ finish /\ ~ exception
          /\ Go(t, "popWaits")
          /\ UNCHANGED queueVars
       \/ /\ exception
          /\ Return(t, "exception", NoValue)
          /\ UNCHANGED queueVars
       \/ /\ ~ exception /\ finish /\ queue = <<>>
          /\ Return(t, "nullopt", NoValue)
          /\ UNCHANGED queueVars
       \/ /\ ~ exception /\ queue # <<>>
          /\ val' = [val EXCEPT ![t] = Head(queue)]
          /\ queue' = Tail(queue)
          /\ at' = [at EXCEPT ![t] = "popNotifies"]
          /\ UNCHANGED <<ret, finish, exception>>

-----------------------------------------------------------------------------
(* Notifications.  A woken thread evaluates its condition again.            *)

Waiting(p) == {t \in Thread : at[t] = p}

\* notify_one: some thread that waits at p goes to q, and t returns r.
NotifyOne(t, p, q, r) ==
    /\ \/ /\ Waiting(p) = {}
          /\ at' = [at EXCEPT ![t] = "out"]
       \/ \E u \in Waiting(p) : at' = [at EXCEPT ![t] = "out", ![u] = q]
    /\ ret' = [ret EXCEPT ![t] = r]
    /\ UNCHANGED <<queueVars, val>>

PushNotifies(t) == at[t] = "pushNotifies" /\ NotifyOne(t, "popWaits", "pop", "true")

PopNotifies(t) == at[t] = "popNotifies" /\ NotifyOne(t, "pushWaits", "push", "value")

\* Mutant: finish and pushException wake the consumers only.
NotifiesPoppers(t) ==
    /\ at[t] = "notifiesAll"
    /\ at' = [u \in Thread |-> IF u = t THEN "out"
                               ELSE IF at[u] = "popWaits" THEN "pop"
                               ELSE at[u]]
    /\ ret' = [ret EXCEPT ![t] = "void"]
    /\ UNCHANGED <<queueVars, val>>

\* pushNotification_.notify_all() and popNotification_.notify_all()
NotifiesAll(t) ==
    /\ at[t] = "notifiesAll"
    /\ at' = [u \in Thread |-> IF u = t THEN "out"
                               ELSE IF at[u] = "popWaits" THEN "pop"
                               ELSE IF at[u] = "pushWaits" THEN "push"
                               ELSE at[u]]
    /\ ret' = [ret EXCEPT ![t] = "void"]
    /\ UNCHANGED <<queueVars, val>>

\* A condition variable may wake a thread without a notification.
SpuriousWakeup(t) ==
    /\ \/ at[t] = "popWaits" /\ Go(t, "pop")
       \/ at[t] = "pushWaits" /\ Go(t, "push")
    /\ UNCHANGED queueVars

QueueStep(t) ==
    \/ PushLocked(t) \/ PushExceptionLocked(t) \/ FinishLocked(t) \/ PopLocked(t)
    \/ PushNotifies(t) \/ PopNotifies(t) \/ NotifiesAll(t)

-----------------------------------------------------------------------------

QueueTypeOK ==
    /\ queue \in Seq(Value)
    /\ Len(queue) <= MaxSize
    /\ finish \in BOOLEAN
    /\ exception \in BOOLEAN
    /\ exception => finish
    /\ at \in [Thread -> At]
    /\ ret \in [Thread -> Ret]
    /\ val \in [Thread -> Value \cup {NoValue}]
    /\ \A t \in Thread : at[t] \in {"push", "pushWaits", "popNotifies"} => val[t] \in Value

=============================================================================
