-------------------------- MODULE QueueManagerProof --------------------------
(***************************************************************************)
(* Two theorems about queueManager, for any number of producer threads,    *)
(* any size of the queue and any number of values.                         *)
(*                                                                         *)
(* No notification is lost.  CallInv says where each thread can be in the  *)
(* inner queue, in the ordered one and in its own code (Local), that       *)
(* numUnfinishedThreads counts the producers that have not counted down,   *)
(* and (Wakeups) that the threads on their way to a notification are       *)
(* enough for the elements and the free places.  A thread that adds an     *)
(* element or takes one away is itself on its way to the notification, and *)
(* a thread that is woken takes the place of the one that woke it.         *)
(*                                                                         *)
(* The generator of an OrderedThreadSafeQueue yields the values in the     *)
(* order of their indices.  The values that have passed nextIndex_ are in  *)
(* three places, one after the other: those that were yielded, the one     *)
(* that pop() is about to return, and those in the inner queue.  Together  *)
(* they are 0, 1, 2, ... (Sequence), and as long as the queue is not       *)
(* finished the next one is nextIndex_, or it is on its way in the thread  *)
(* that holds the mutex (Turn).                                            *)
(***************************************************************************)
EXTENDS QueueManager, FiniteSetTheorems, TLAPS

\* The variables that do not belong to a thread.
Scalars ==
    /\ queue \in Seq(Value) /\ Len(queue) <= MaxSize
    /\ finish \in BOOLEAN /\ exception \in BOOLEAN /\ ordFinish \in BOOLEAN
    /\ (exception => finish) /\ (ordFinish => finish)
    /\ mutex \in Thread \cup {NoThread} /\ nextIndex \in Nat
    /\ nextValue \in 0 .. NumValues
    /\ threw \subseteq Producer
    /\ yielded \in Seq(Value)
    /\ outcome \in {"running", "nullopt", "exception", "left"}
    /\ ordered \in BOOLEAN

Typing ==
    /\ Scalars
    /\ at \in [Thread -> At] /\ oat \in [Thread -> OAt] /\ pc \in [Thread -> PC]
    /\ ret \in [Thread -> Ret] /\ val \in [Thread -> Value \cup {NoValue}]

\* Where a thread is in no method of the queue ...
Outside == {"produces", "leaves", "counted", "pops", "yields", "closes"}

\* ... and where a producer has not counted itself down yet.
Running == {"produces", "pushes", "throws", "leaves"}

\* The places of the generator's thread and those of a producer.
Role(t) ==
    IF t = Consumer THEN {"pops", "popping", "yields", "closes", "joins", "done"}
                    ELSE Running \cup {"counted", "finishes", "done"}

\* What thread t may be doing in the inner queue (a), in the ordered one (o) and
\* outside (c), with the result r and the value v.
Local(t, a, r, v, o, c, finished, holdsMutex) ==
    /\ a \in {"push", "pushWaits", "popNotifies"} => v \in Value
    /\ a = "out" /\ r = "value" => v \in Value
    /\ holdsMutex <=> o = "inPush"
    /\ c \in Outside => a = "out" /\ o = "out"
    /\ o \in {"push", "cvWaits"} => a = "out" /\ v \in Value
    /\ o = "inFinish" => finished \/ a \in {"finish", "pushException"}
    /\ o = "locks" => finished
    /\ ~ ordered => o = "out"
    /\ a \in {"push", "pushWaits", "pushNotifies"} => c = "pushes" /\ (ordered => o = "inPush")
    /\ o \in {"push", "cvWaits", "inPush"} => c = "pushes"
    /\ a \in {"pop", "popWaits", "popNotifies"} => c = "popping"
    /\ a \in {"finish", "pushException", "notifiesAll"} => c \in {"throws", "finishes", "joins"}
    /\ c \in Role(t)

ThreadInv(t) == Local(t, at[t], ret[t], val[t], oat[t], pc[t], finish, mutex = t)

Unfinished == {p \in Producer : pc[p] \in Running}

Counted == numThreads = Cardinality(Unfinished)

\* The threads that are about to look for an element, and for space.
Poppers == Waiting("pushNotifies") \cup Waiting("pop")

Pushers == Waiting("popNotifies") \cup Waiting("push")

\* The threads on their way are enough for the elements and the free places.
Wakeups ==
    /\ Waiting("popWaits") # {} /\ ~ finish => Len(queue) <= Cardinality(Poppers)
    /\ Waiting("pushWaits") # {} /\ ~ finish => MaxSize - Len(queue) <= Cardinality(Pushers)
    /\ Waiting("popWaits") \cup Waiting("pushWaits") # {} /\ finish =>
          Waiting("notifiesAll") # {}

CallInv == Typing /\ (\A t \in Thread : ThreadInv(t)) /\ Counted /\ Wakeups

\* Thread t, and no other one, goes to a, o and c with the results r and v.
Step(t, a, r, v, o, c) ==
    /\ at' = [at EXCEPT ![t] = a] /\ ret' = [ret EXCEPT ![t] = r] /\ val' = [val EXCEPT ![t] = v]
    /\ oat' = [oat EXCEPT ![t] = o] /\ pc' = [pc EXCEPT ![t] = c]

\* The ways in which a single thread goes on without breaking Wakeups.
KeepsWakeups(t, a) ==
    \/ /\ UNCHANGED <<queue, finish>>
       /\ \/ a = at[t]
          \/ at[t] = "out" /\ a \in Methods
          \/ at[t] = "popWaits" /\ a = "pop"
          \/ at[t] = "pushWaits" /\ a = "push"
    \/ finish /\ finish' /\ at[t] \in Methods /\ a \notin {"popWaits", "pushWaits"}
    \/ finish' /\ a = "notifiesAll"
    \/ at[t] = "push" /\ a = "pushWaits" /\ Len(queue) >= MaxSize /\ ~ finish /\ UNCHANGED <<queue, finish>>
    \/ at[t] = "push" /\ a = "pushNotifies" /\ Len(queue') = Len(queue) + 1 /\ UNCHANGED finish
    \/ at[t] = "pop" /\ a = "popWaits" /\ Len(queue) = 0 /\ ~ finish /\ UNCHANGED <<queue, finish>>
    \/ at[t] = "pop" /\ a = "popNotifies" /\ Len(queue') = Len(queue) - 1 /\ UNCHANGED finish

-----------------------------------------------------------------------------

LEMMA Threads == IsFiniteSet(Thread) /\ Consumer \in Thread /\ Producer \subseteq Thread
BY Zenon, FS_Singleton, FS_Union, ThreadAssumption

LEMMA Counts ==
  ASSUME NEW S, NEW T, IsFiniteSet(S), IsFiniteSet(T)
  PROVE  /\ Cardinality(S) \in Nat /\ Cardinality(T) \in Nat
         /\ S \subseteq T => Cardinality(S) <= Cardinality(T)
         /\ \A x : x \notin S /\ T = S \cup {x} => Cardinality(T) = Cardinality(S) + 1
         /\ \A x, y : x \in S /\ y \notin S /\ T = (S \ {x}) \cup {y} => Cardinality(T) = Cardinality(S)
<1>1. Cardinality(S) \in Nat /\ Cardinality(T) \in Nat
  BY Zenon, FS_CardinalityType
<1>2. ASSUME NEW x, NEW y, x \in S, y \notin S, T = (S \ {x}) \cup {y}
      PROVE  Cardinality(T) = Cardinality(S)
  <2>1. IsFiniteSet(S \ {x}) /\ Cardinality(S \ {x}) = Cardinality(S) - 1 /\ y \notin S \ {x}
    BY Zenon, <1>2, FS_RemoveElement
  <2> QED BY <1>1, <1>2, <2>1, FS_AddElement
<1> QED BY Zenon, <1>1, <1>2, FS_Subset, FS_AddElement

LEMMA FiniteWaits ==
  IsFiniteSet(Poppers) /\ IsFiniteSet(Pushers) /\ IsFiniteSet(Poppers') /\ IsFiniteSet(Pushers')
BY Zenon, Threads, FS_Subset DEF Poppers, Pushers, Waiting

LEMMA Stays ==
  ASSUME Typing, NEW t \in Thread
  PROVE  /\ at[t] \in At /\ ret[t] \in Ret /\ val[t] \in Value \cup {NoValue}
         /\ oat[t] \in OAt /\ pc[t] \in PC
         /\ at = [at EXCEPT ![t] = at[t]] /\ ret = [ret EXCEPT ![t] = ret[t]]
         /\ val = [val EXCEPT ![t] = val[t]] /\ oat = [oat EXCEPT ![t] = oat[t]]
         /\ pc = [pc EXCEPT ![t] = pc[t]]
BY Zenon DEF Typing

\* A thread that begins a call, or is woken, takes no notification away.
LEMMA WakeupsKept ==
  ASSUME Typing, Wakeups, UNCHANGED <<queue, finish>>,
         \A u \in Thread : \/ at'[u] = at[u]
                           \/ at[u] = "out" /\ at'[u] \in Methods
                           \/ at[u] = "popWaits" /\ at'[u] = "pop"
                           \/ at[u] = "pushWaits" /\ at'[u] = "push"
  PROVE  Wakeups'
<1>1. /\ Waiting("popWaits")' \subseteq Waiting("popWaits")
      /\ Waiting("pushWaits")' \subseteq Waiting("pushWaits")
      /\ Waiting("notifiesAll") \subseteq Waiting("notifiesAll")'
      /\ Poppers \subseteq Poppers' /\ Pushers \subseteq Pushers'
  BY Zenon DEF Waiting, Poppers, Pushers, Methods
<1>2. /\ Cardinality(Poppers) <= Cardinality(Poppers') /\ Cardinality(Pushers) <= Cardinality(Pushers')
      /\ Cardinality(Poppers) \in Nat /\ Cardinality(Poppers') \in Nat
      /\ Cardinality(Pushers) \in Nat /\ Cardinality(Pushers') \in Nat
  BY Zenon, <1>1, FiniteWaits, Counts
<1>3. Len(queue) \in Nat /\ MaxSize \in Nat
  BY MaxSizeAssumption DEF Typing, Scalars
<1> QED BY <1>1, <1>2, <1>3 DEF Wakeups

LEMMA WakeupsStep ==
  ASSUME Typing, Wakeups, NEW t \in Thread, NEW a, at'[t] = a,
         \A u \in Thread \ {t} : at'[u] = at[u], KeepsWakeups(t, a)
  PROVE  Wakeups'
<1>0. Len(queue) \in Nat /\ MaxSize \in Nat
  BY MaxSizeAssumption DEF Typing, Scalars
<1>1. CASE /\ UNCHANGED <<queue, finish>>
           /\ \/ a = at[t]
              \/ at[t] = "out" /\ a \in Methods
              \/ at[t] = "popWaits" /\ a = "pop"
              \/ at[t] = "pushWaits" /\ a = "push"
  BY Zenon, <1>1, WakeupsKept
<1>2. CASE \/ finish /\ finish' /\ at[t] \in Methods /\ a \notin {"popWaits", "pushWaits"}
           \/ finish' /\ a = "notifiesAll"
  BY Zenon, <1>2 DEF Wakeups, Waiting, Methods
<1>3. CASE at[t] = "push" /\ a = "pushWaits" /\ Len(queue) >= MaxSize /\ ~ finish /\ UNCHANGED <<queue, finish>>
  <2>1. Waiting("popWaits")' = Waiting("popWaits") /\ Poppers' = Poppers
    BY Zenon, <1>3 DEF Waiting, Poppers
  <2>2. Cardinality(Pushers') \in Nat
    BY Zenon, FiniteWaits, FS_CardinalityType
  <2> QED BY <1>0, <1>3, <2>1, <2>2 DEF Wakeups
<1>4. CASE at[t] = "push" /\ a = "pushNotifies" /\ Len(queue') = Len(queue) + 1 /\ UNCHANGED finish
  <2>1. /\ \A p \in {"popWaits", "pushWaits", "notifiesAll"} : Waiting(p)' = Waiting(p)
        /\ t \notin Poppers /\ Poppers' = Poppers \cup {t}
        /\ t \notin Pushers' /\ Pushers = Pushers' \cup {t}
    BY Zenon, <1>4 DEF Waiting, Poppers, Pushers
  <2>2. /\ Cardinality(Poppers') = Cardinality(Poppers) + 1 /\ Cardinality(Poppers) \in Nat
        /\ Cardinality(Pushers) = Cardinality(Pushers') + 1 /\ Cardinality(Pushers') \in Nat
    BY Zenon, <2>1, FiniteWaits, Counts
  <2> QED BY <1>0, <1>4, <2>1, <2>2 DEF Wakeups
<1>5. CASE at[t] = "pop" /\ a = "popWaits" /\ Len(queue) = 0 /\ ~ finish /\ UNCHANGED <<queue, finish>>
  <2>1. Waiting("pushWaits")' = Waiting("pushWaits") /\ Pushers' = Pushers
    BY Zenon, <1>5 DEF Waiting, Pushers
  <2>2. Cardinality(Poppers') \in Nat
    BY Zenon, FiniteWaits, FS_CardinalityType
  <2> QED BY <1>0, <1>5, <2>1, <2>2 DEF Wakeups
<1>6. CASE at[t] = "pop" /\ a = "popNotifies" /\ Len(queue') = Len(queue) - 1 /\ UNCHANGED finish
  <2>1. /\ \A p \in {"popWaits", "pushWaits", "notifiesAll"} : Waiting(p)' = Waiting(p)
        /\ t \notin Pushers /\ Pushers' = Pushers \cup {t}
        /\ t \notin Poppers' /\ Poppers = Poppers' \cup {t}
    BY Zenon, <1>6 DEF Waiting, Poppers, Pushers
  <2>2. /\ Cardinality(Pushers') = Cardinality(Pushers) + 1 /\ Cardinality(Pushers) \in Nat
        /\ Cardinality(Poppers) = Cardinality(Poppers') + 1 /\ Cardinality(Poppers') \in Nat
    BY Zenon, <2>1, FiniteWaits, Counts
  <2> QED BY <1>0, <1>6, <2>1, <2>2 DEF Wakeups
<1> QED BY Zenon, <1>1, <1>2, <1>3, <1>4, <1>5, <1>6 DEF KeepsWakeups

\* The number of threads is not changed while no producer begins or ends.
LEMMA CountKept ==
  ASSUME Counted, numThreads' = numThreads,
         \A p \in Producer : pc'[p] \in Running <=> pc[p] \in Running
  PROVE  Counted'
<1>1. Unfinished' = Unfinished
  BY Zenon DEF Unfinished
<1> QED BY Zenon, <1>1 DEF Counted

LEMMA StepKeeps ==
  ASSUME CallInv, NEW t \in Thread, NEW a \in At, NEW r \in Ret, NEW v \in Value \cup {NoValue},
         NEW o \in OAt, NEW c \in PC, Step(t, a, r, v, o, c),
         Scalars', UNCHANGED ordered, finish => finish', Counted',
         \A u \in Thread \ {t} : mutex' = u <=> mutex = u,
         Local(t, a, r, v, o, c, finish', mutex' = t), KeepsWakeups(t, a)
  PROVE  CallInv'
<1>1. Typing /\ (\A u \in Thread : ThreadInv(u)) /\ Wakeups
  BY Zenon DEF CallInv
<1>2. /\ at'[t] = a /\ ret'[t] = r /\ val'[t] = v /\ oat'[t] = o /\ pc'[t] = c
      /\ \A u \in Thread \ {t} : /\ at'[u] = at[u] /\ ret'[u] = ret[u] /\ val'[u] = val[u]
                                 /\ oat'[u] = oat[u] /\ pc'[u] = pc[u]
  BY Zenon, <1>1 DEF Typing, Step
<1>3. Typing'
  BY Zenon, <1>1 DEF Typing, Step
<1>4. ThreadInv(t)'
  BY Zenon, <1>2 DEF ThreadInv, Local
<1>5. ASSUME NEW u \in Thread \ {t} PROVE ThreadInv(u)'
  BY <1>1, <1>2, <1>5 DEF ThreadInv, Local
<1>6. Wakeups'
  BY Zenon, <1>1, <1>2, WakeupsStep
<1> QED BY Zenon, <1>3, <1>4, <1>5, <1>6 DEF CallInv

-----------------------------------------------------------------------------
(* The methods of the inner queue.                                          *)

LEMMA InnerStep ==
  ASSUME CallInv, NEW t \in Thread, NEW a \in At, NEW r \in Ret, NEW v \in Value \cup {NoValue},
         at' = [at EXCEPT ![t] = a], ret' = [ret EXCEPT ![t] = r], val' = [val EXCEPT ![t] = v],
         queue' \in Seq(Value), Len(queue') <= MaxSize, finish' \in BOOLEAN,
         exception' \in BOOLEAN, exception' => finish', finish => finish',
         UNCHANGED <<orderedVars, managerVars>>,
         Local(t, a, r, v, oat[t], pc[t], finish', mutex = t), KeepsWakeups(t, a)
  PROVE  CallInv'
<1>1. UNCHANGED <<mutex, nextIndex, ordFinish, oat, pc, nextValue, numThreads, threw, yielded,
                  outcome, ordered>>
  BY Zenon DEF orderedVars, managerVars
<1>2. Typing /\ Scalars /\ Counted
  BY Zenon DEF CallInv, Typing
<1>3. Step(t, a, r, v, oat[t], pc[t])
  BY Zenon, <1>1, <1>2, Stays DEF Step
<1>4. Scalars' /\ Counted'
  BY Zenon, <1>1, <1>2, CountKept DEF Scalars
<1> QED BY Zenon, <1>1, <1>2, <1>3, <1>4, Stays, StepKeeps

\* A method that finds the queue finished returns.
LEMMA ReturnsFinished ==
  ASSUME CallInv, NEW t \in Thread, at[t] \in Methods, finish,
         NEW r \in Ret \ {"value"}, Return(t, r, NoValue),
         UNCHANGED <<queueVars, orderedVars, managerVars>>
  PROVE  CallInv'
<1>1. Scalars /\ ThreadInv(t) /\ UNCHANGED <<queue, finish, exception>> /\ "out" \in At
  BY Zenon DEF CallInv, Typing, queueVars, At
<1>2. Local(t, "out", r, NoValue, oat[t], pc[t], finish', mutex = t) /\ KeepsWakeups(t, "out")
  BY Zenon, <1>1 DEF ThreadInv, Local, KeepsWakeups, Methods
<1> QED BY Zenon, <1>1, <1>2, InnerStep DEF Return, Scalars

\* finish() and the first pushException() will notify everyone.
LEMMA Finishes ==
  ASSUME CallInv, NEW t \in Thread, at[t] \in {"finish", "pushException"}, finish' = TRUE,
         exception' \in BOOLEAN, Go(t, "notifiesAll"), UNCHANGED <<queue, orderedVars, managerVars>>
  PROVE  CallInv'
<1>1. Typing /\ Scalars /\ ThreadInv(t) /\ "notifiesAll" \in At /\ UNCHANGED queue
  BY Zenon DEF CallInv, Typing, At
<1>2. /\ Local(t, "notifiesAll", ret[t], val[t], oat[t], pc[t], finish', mutex = t)
      /\ KeepsWakeups(t, "notifiesAll")
  BY Zenon, <1>1 DEF ThreadInv, Local, KeepsWakeups
<1>3. at' = [at EXCEPT ![t] = "notifiesAll"] /\ ret' = ret /\ val' = val
  BY Zenon DEF Go
<1>4. ret' = [ret EXCEPT ![t] = ret[t]] /\ val' = [val EXCEPT ![t] = val[t]]
  BY Zenon, <1>1, <1>3, Stays
<1>5. queue' \in Seq(Value) /\ Len(queue') <= MaxSize
  BY Zenon, <1>1 DEF Scalars
<1> QED BY ZenonT(40), <1>1, <1>2, <1>3, <1>4, <1>5, Stays, InnerStep

\* A thread begins to wait in push() or pop(), or it stops waiting.
LEMMA LooksOrWaits ==
  ASSUME CallInv, NEW t \in Thread, NEW a \in At, Go(t, a), KeepsWakeups(t, a),
         \/ at[t] \in {"push", "pushWaits"} /\ a \in {"push", "pushWaits"}
         \/ at[t] \in {"pop", "popWaits"} /\ a \in {"pop", "popWaits"},
         UNCHANGED <<queueVars, orderedVars, managerVars>>
  PROVE  CallInv'
<1>1. Typing /\ Scalars /\ ThreadInv(t) /\ UNCHANGED <<queue, finish, exception>>
  BY Zenon DEF CallInv, Typing, queueVars
<1>2. Local(t, a, ret[t], val[t], oat[t], pc[t], finish', mutex = t)
  BY Zenon, <1>1 DEF ThreadInv, Local
<1>3. at' = [at EXCEPT ![t] = a] /\ ret' = [ret EXCEPT ![t] = ret[t]] /\ val' = [val EXCEPT ![t] = val[t]]
  BY Zenon, <1>1, Stays DEF Go
<1> QED BY Zenon, <1>1, <1>2, <1>3, Stays, InnerStep DEF Scalars

\* push()
LEMMA PushKeeps ==
  ASSUME CallInv, NEW t \in Thread, PushLocked(t), UNCHANGED <<orderedVars, managerVars>>
  PROVE  CallInv'
<1>0. /\ Typing /\ Scalars /\ ThreadInv(t) /\ Len(queue) \in Nat /\ MaxSize \in Nat
      /\ {"pushWaits", "pushNotifies"} \subseteq At /\ at[t] = "push"
  BY MaxSizeAssumption DEF CallInv, Typing, Scalars, At, PushLocked
<1>1. CASE finish
  BY Zenon, <1>0, <1>1, ReturnsFinished DEF PushLocked, Ret, Methods
<1>2. CASE ~ finish /\ Len(queue) >= MaxSize
  <2>1. Go(t, "pushWaits") /\ UNCHANGED queueVars
    BY <1>0, <1>2 DEF PushLocked
  <2>2. KeepsWakeups(t, "pushWaits")
    BY Zenon, <1>0, <1>2, <2>1 DEF KeepsWakeups, queueVars
  <2> QED BY Zenon, <1>0, <2>1, <2>2, LooksOrWaits
<1>3. CASE ~ finish /\ Len(queue) < MaxSize
  <2>1. /\ at' = [at EXCEPT ![t] = "pushNotifies"] /\ queue' = Append(queue, val[t])
        /\ ret' = [ret EXCEPT ![t] = ret[t]] /\ val' = [val EXCEPT ![t] = val[t]]
        /\ UNCHANGED <<finish, exception>>
    BY <1>0, <1>3, Stays DEF PushLocked, Go
  <2>2. /\ val[t] \in Value
        /\ Local(t, "pushNotifies", ret[t], val[t], oat[t], pc[t], finish', mutex = t)
    BY Zenon, <1>0, <2>1 DEF ThreadInv, Local
  <2>3. queue' \in Seq(Value) /\ Len(queue') = Len(queue) + 1
    BY <1>0, <2>1, <2>2 DEF Scalars
  <2>4. Len(queue') <= MaxSize /\ KeepsWakeups(t, "pushNotifies")
    BY <1>0, <1>3, <2>1, <2>3 DEF KeepsWakeups
  <2> QED BY Zenon, <1>0, <2>1, <2>2, <2>3, <2>4, Stays, InnerStep DEF Scalars
<1> QED BY <1>0, <1>1, <1>2, <1>3 DEF Scalars

\* pushException() and finish()
LEMMA FinishKeeps ==
  ASSUME CallInv, NEW t \in Thread, PushExceptionLocked(t) \/ FinishLocked(t),
         UNCHANGED <<orderedVars, managerVars>>
  PROVE  CallInv'
<1>0. Scalars
  BY Zenon DEF CallInv, Typing
<1>1. CASE PushExceptionLocked(t) /\ exception
  BY Zenon, <1>0, <1>1, ReturnsFinished DEF PushExceptionLocked, Ret, Methods, Scalars
<1>2. CASE PushExceptionLocked(t) /\ ~ exception
  BY Zenon, <1>2, Finishes DEF PushExceptionLocked
<1>3. CASE FinishLocked(t)
  BY Zenon, <1>0, <1>3, Finishes DEF FinishLocked, Scalars
<1> QED BY Zenon, <1>1, <1>2, <1>3

\* pop()
LEMMA PopKeeps ==
  ASSUME CallInv, NEW t \in Thread, PopLocked(t), UNCHANGED <<orderedVars, managerVars>>
  PROVE  CallInv'
<1>0. /\ Typing /\ Scalars /\ ThreadInv(t) /\ Len(queue) \in Nat /\ MaxSize \in Nat
      /\ {"popWaits", "popNotifies"} \subseteq At /\ at[t] = "pop"
  BY MaxSizeAssumption DEF CallInv, Typing, Scalars, At, PopLocked
<1>1. CASE exception \/ (finish /\ queue = <<>>)
  BY Zenon, <1>0, <1>1, ReturnsFinished DEF PopLocked, Ret, Methods, Scalars
<1>2. CASE queue = <<>> /\ ~ finish /\ ~ exception
  <2>1. Go(t, "popWaits") /\ UNCHANGED queueVars
    BY Zenon, <1>0, <1>2 DEF PopLocked
  <2>2. KeepsWakeups(t, "popWaits")
    BY Zenon, <1>0, <1>2, <2>1 DEF KeepsWakeups, queueVars
  <2> QED BY Zenon, <1>0, <2>1, <2>2, LooksOrWaits
<1>3. CASE ~ exception /\ queue # <<>>
  <2>1. /\ at' = [at EXCEPT ![t] = "popNotifies"] /\ queue' = Tail(queue)
        /\ ret' = [ret EXCEPT ![t] = ret[t]] /\ val' = [val EXCEPT ![t] = Head(queue)]
        /\ UNCHANGED <<finish, exception>>
    BY Zenon, <1>0, <1>3, Stays DEF PopLocked
  <2>2. /\ queue' \in Seq(Value) /\ Len(queue') = Len(queue) - 1 /\ Len(queue) > 0
        /\ Head(queue) \in Value
    BY <1>0, <1>3, <2>1 DEF Scalars
  <2>3. Local(t, "popNotifies", ret[t], Head(queue), oat[t], pc[t], finish', mutex = t)
    BY Zenon, <1>0, <2>1, <2>2 DEF ThreadInv, Local
  <2>4. Len(queue') <= MaxSize /\ KeepsWakeups(t, "popNotifies")
    BY <1>0, <2>1, <2>2 DEF KeepsWakeups, Scalars
  <2> QED BY Zenon, <1>0, <2>1, <2>2, <2>3, <2>4, Stays, InnerStep DEF Scalars
<1> QED BY Zenon, <1>0, <1>1, <1>2, <1>3 DEF PopLocked

\* A waiting thread wakes up without a notification.
LEMMA SpuriousKeeps ==
  ASSUME CallInv, NEW t \in Thread, SpuriousWakeup(t), UNCHANGED <<orderedVars, managerVars>>
  PROVE  CallInv'
<1>1. PICK a \in {"pop", "push"} :
        Go(t, a) /\ at[t] = (IF a = "pop" THEN "popWaits" ELSE "pushWaits") /\ UNCHANGED queueVars
  BY Zenon DEF SpuriousWakeup
<1>2. KeepsWakeups(t, a) /\ a \in At
  BY Zenon, <1>1 DEF KeepsWakeups, queueVars, At, Methods
<1> QED BY Zenon, <1>1, <1>2, LooksOrWaits

\* A notification: t returns, and some waiting threads look again.
LEMMA WokenThreads ==
  ASSUME CallInv, NEW t \in Thread, at[t] \in {"pushNotifies", "popNotifies", "notifiesAll"},
         NEW r \in Ret, r = "value" => at[t] = "popNotifies",
         ret' = [ret EXCEPT ![t] = r], at' \in [Thread -> At], at'[t] = "out",
         \A u \in Thread \ {t} : \/ at'[u] = at[u]
                                 \/ at[u] = "popWaits" /\ at'[u] = "pop"
                                 \/ at[u] = "pushWaits" /\ at'[u] = "push",
         UNCHANGED <<queueVars, val, orderedVars, managerVars>>, Wakeups'
  PROVE  CallInv'
<1>0. Typing /\ Scalars /\ (\A u \in Thread : ThreadInv(u)) /\ Counted
  BY Zenon DEF CallInv, Typing
<1>1. UNCHANGED <<queue, finish, exception, val, mutex, nextIndex, ordFinish, oat, pc, nextValue,
                  numThreads, threw, yielded, outcome, ordered>>
  BY Zenon DEF queueVars, orderedVars, managerVars
<1>2. ret' \in [Thread -> Ret] /\ ret'[t] = r /\ \A u \in Thread \ {t} : ret'[u] = ret[u]
  BY Zenon, <1>0 DEF Typing
<1>3. Scalars'
  BY Zenon, <1>0, <1>1 DEF Scalars
<1>4. Typing'
  BY Zenon, <1>0, <1>1, <1>2, <1>3 DEF Typing
<1>5. ThreadInv(t)'
  BY Zenon, <1>0, <1>1, <1>2 DEF ThreadInv, Local
<1>6. ASSUME NEW u \in Thread \ {t} PROVE ThreadInv(u)'
  BY <1>0, <1>1, <1>2 DEF ThreadInv, Local
<1>7. Counted'
  BY Zenon, <1>0, <1>1, CountKept
<1> QED BY Zenon, <1>4, <1>5, <1>6, <1>7 DEF CallInv

\* push() notifies a consumer: another thread takes over the duty to pop.
LEMMA PushNotifiesKeeps ==
  ASSUME CallInv, NEW t \in Thread, PushNotifies(t), UNCHANGED <<orderedVars, managerVars>>
  PROVE  CallInv'
<1>0. Typing /\ Wakeups
  BY Zenon DEF CallInv
<1>1. /\ at[t] = "pushNotifies" /\ ret' = [ret EXCEPT ![t] = "true"]
      /\ UNCHANGED <<queueVars, val>> /\ UNCHANGED <<queue, finish>> /\ "true" \in Ret
      /\ "true" # "value"
  BY Zenon DEF PushNotifies, NotifyOne, queueVars, Ret
<1>2. CASE Waiting("popWaits") = {} /\ at' = [at EXCEPT ![t] = "out"]
  BY Zenon, <1>0, <1>1, <1>2, WokenThreads DEF Typing, At, Waiting, Pushers, Wakeups
<1>3. ASSUME NEW u \in Waiting("popWaits"), at' = [at EXCEPT ![t] = "out", ![u] = "pop"]
      PROVE  CallInv'
  <2>1. /\ u \in Thread /\ u # t /\ at[u] = "popWaits" /\ at'[u] = "pop" /\ at'[t] = "out"
        /\ at' \in [Thread -> At] /\ \A w \in Thread \ {t, u} : at'[w] = at[w]
    BY Zenon, <1>0, <1>1, <1>3 DEF Typing, Waiting, At, Methods
  <2>2. /\ Waiting("popWaits")' \subseteq Waiting("popWaits")
        /\ Waiting("pushWaits")' = Waiting("pushWaits")
        /\ Waiting("notifiesAll")' = Waiting("notifiesAll")
        /\ Pushers' = Pushers
        /\ t \in Poppers /\ u \notin Poppers /\ Poppers' = (Poppers \ {t}) \cup {u}
    BY Zenon, <1>1, <2>1 DEF Waiting, Pushers, Poppers
  <2>3. Cardinality(Poppers') = Cardinality(Poppers)
    BY Zenon, <2>2, FiniteWaits, Counts
  <2>4. Wakeups'
    BY Zenon, <1>0, <1>1, <2>2, <2>3 DEF Wakeups
  <2> QED BY Zenon, <1>1, <2>1, <2>4, WokenThreads
<1> QED BY Zenon, <1>2, <1>3 DEF PushNotifies, NotifyOne

\* pop() notifies a producer.
LEMMA PopNotifiesKeeps ==
  ASSUME CallInv, NEW t \in Thread, PopNotifies(t), UNCHANGED <<orderedVars, managerVars>>
  PROVE  CallInv'
<1>0. Typing /\ Wakeups
  BY Zenon DEF CallInv
<1>1. /\ at[t] = "popNotifies" /\ ret' = [ret EXCEPT ![t] = "value"]
      /\ UNCHANGED <<queueVars, val>> /\ UNCHANGED <<queue, finish>> /\ "value" \in Ret
  BY Zenon DEF PopNotifies, NotifyOne, queueVars, Ret
<1>2. CASE Waiting("pushWaits") = {} /\ at' = [at EXCEPT ![t] = "out"]
  BY Zenon, <1>0, <1>1, <1>2, WokenThreads DEF Typing, At, Waiting, Poppers, Wakeups
<1>3. ASSUME NEW u \in Waiting("pushWaits"), at' = [at EXCEPT ![t] = "out", ![u] = "push"]
      PROVE  CallInv'
  <2>1. /\ u \in Thread /\ u # t /\ at[u] = "pushWaits" /\ at'[u] = "push" /\ at'[t] = "out"
        /\ at' \in [Thread -> At] /\ \A w \in Thread \ {t, u} : at'[w] = at[w]
    BY Zenon, <1>0, <1>1, <1>3 DEF Typing, Waiting, At, Methods
  <2>2. /\ Waiting("pushWaits")' \subseteq Waiting("pushWaits")
        /\ Waiting("popWaits")' = Waiting("popWaits")
        /\ Waiting("notifiesAll")' = Waiting("notifiesAll")
        /\ Poppers' = Poppers
        /\ t \in Pushers /\ u \notin Pushers /\ Pushers' = (Pushers \ {t}) \cup {u}
    BY Zenon, <1>1, <2>1 DEF Waiting, Pushers, Poppers
  <2>3. Cardinality(Pushers') = Cardinality(Pushers)
    BY Zenon, <2>2, FiniteWaits, Counts
  <2>4. Wakeups'
    BY Zenon, <1>0, <1>1, <2>2, <2>3 DEF Wakeups
  <2> QED BY Zenon, <1>1, <2>1, <2>4, WokenThreads
<1> QED BY Zenon, <1>2, <1>3 DEF PopNotifies, NotifyOne

\* finish() and pushException() notify all: nobody waits any more.
LEMMA NotifiesAllKeeps ==
  ASSUME CallInv, NEW t \in Thread, NotifiesAll(t), UNCHANGED <<orderedVars, managerVars>>
  PROVE  CallInv'
<1>0. Typing
  BY Zenon DEF CallInv
<1>1. /\ at[t] = "notifiesAll" /\ ret' = [ret EXCEPT ![t] = "void"]
      /\ UNCHANGED <<queueVars, val>> /\ "void" \in Ret /\ "void" # "value"
  BY Zenon DEF NotifiesAll, Ret
<1>2. at' \in [Thread -> At] /\ at'[t] = "out"
  BY Zenon, <1>0 DEF Typing, NotifiesAll, At, Methods
<1>3. \A u \in Thread \ {t} : at'[u] = IF at[u] = "popWaits" THEN "pop"
                                      ELSE IF at[u] = "pushWaits" THEN "push" ELSE at[u]
  BY Zenon DEF NotifiesAll
<1>4. Waiting("popWaits")' = {} /\ Waiting("pushWaits")' = {}
  BY Zenon, <1>2, <1>3 DEF Waiting
<1>5. Wakeups'
  BY Zenon, <1>4 DEF Wakeups
<1> QED BY Zenon, <1>1, <1>2, <1>3, <1>5, WokenThreads

-----------------------------------------------------------------------------
(* The methods of the ordered queue.                                        *)

LEMMA LayerStep ==
  ASSUME CallInv, NEW t \in Thread, NEW a \in At, NEW r \in Ret, NEW v \in Value \cup {NoValue},
         NEW o \in OAt, Step(t, a, r, v, o, pc[t]), a = at[t] \/ (at[t] = "out" /\ a \in Methods),
         UNCHANGED <<queueVars, managerVars>>, mutex' \in Thread \cup {NoThread},
         nextIndex' \in Nat, ordFinish' \in BOOLEAN, ordFinish' => finish,
         \A u \in Thread \ {t} : mutex' = u <=> mutex = u,
         Local(t, a, r, v, o, pc[t], finish, mutex' = t)
  PROVE  CallInv'
<1>1. UNCHANGED <<queue, finish, exception, pc, nextValue, numThreads, threw, yielded, outcome, ordered>>
  BY Zenon DEF queueVars, managerVars
<1>2. Typing /\ Scalars /\ Counted
  BY Zenon DEF CallInv, Typing
<1>3. Scalars' /\ Counted'
  BY Zenon, <1>1, <1>2, CountKept DEF Scalars
<1>4. KeepsWakeups(t, a)
  BY Zenon, <1>1 DEF KeepsWakeups
<1> QED BY Zenon, <1>1, <1>2, <1>3, <1>4, Stays, StepKeeps

\* A step of the layer that does not enter or leave the inner queue.
LEMMA LayerGoes ==
  ASSUME CallInv, NEW t \in Thread, NEW o \in OAt, OGo(t, o),
         UNCHANGED <<queueVars, callVars, managerVars, nextIndex>>,
         mutex' \in Thread \cup {NoThread}, ordFinish' \in BOOLEAN, ordFinish' => finish,
         \A u \in Thread \ {t} : mutex' = u <=> mutex = u,
         Local(t, at[t], ret[t], val[t], o, pc[t], finish, mutex' = t)
  PROVE  CallInv'
<1>1. Typing /\ nextIndex' \in Nat /\ UNCHANGED <<at, ret, val, pc>>
  BY Zenon DEF CallInv, Typing, Scalars, callVars, managerVars
<1>2. Step(t, at[t], ret[t], val[t], o, pc[t])
  BY Zenon, <1>1, Stays DEF Step, OGo
<1> QED BY Zenon, <1>1, <1>2, Stays, LayerStep

\* push() of the ordered queue
LEMMA OPushKeeps ==
  ASSUME CallInv, NEW t \in Thread, OPushLocked(t), UNCHANGED managerVars
  PROVE  CallInv'
<1>0. /\ Typing /\ Scalars /\ ThreadInv(t) /\ NoThread \notin Thread /\ oat[t] = "push"
      /\ mutex = NoThread /\ {"out", "cvWaits", "inPush"} \subseteq OAt /\ {"none", "false"} \subseteq Ret
      /\ "push" \in At /\ "push" \in Methods /\ pc = [pc EXCEPT ![t] = pc[t]] /\ UNCHANGED pc
  BY Zenon, NoThreadAssumption, Stays DEF CallInv, Typing, OPushLocked, OAt, Ret, At, Methods, managerVars
<1>1. at[t] = "out" /\ val[t] \in Value /\ nextIndex \in Nat /\ ordFinish \in BOOLEAN /\ (ordFinish => finish)
  BY Zenon, <1>0 DEF ThreadInv, Local, Scalars
<1>2. CASE val[t] # nextIndex /\ ~ ordFinish
  <2>1. OGo(t, "cvWaits") /\ UNCHANGED <<queueVars, callVars, mutex, nextIndex, ordFinish>>
    BY Zenon, <1>2 DEF OPushLocked
  <2>2. Local(t, at[t], ret[t], val[t], "cvWaits", pc[t], finish, mutex = t)
    BY Zenon, <1>0, <1>1 DEF ThreadInv, Local
  <2> QED BY Zenon, <1>0, <1>1, <2>1, <2>2, LayerGoes
<1>3. CASE ordFinish
  <2>1. /\ oat' = [oat EXCEPT ![t] = "out"] /\ at' = [at EXCEPT ![t] = "out"]
        /\ ret' = [ret EXCEPT ![t] = "false"] /\ val' = [val EXCEPT ![t] = NoValue]
        /\ UNCHANGED <<queueVars, mutex, nextIndex, ordFinish>>
    BY Zenon, <1>3 DEF OPushLocked, OGo, Return
  <2>2. Step(t, at[t], "false", NoValue, "out", pc[t])
    BY Zenon, <1>0, <1>1, <2>1 DEF Step
  <2>3. Local(t, at[t], "false", NoValue, "out", pc[t], finish, mutex = t)
    BY Zenon, <1>0, <1>1 DEF ThreadInv, Local
  <2> QED BY Zenon, <1>0, <1>1, <2>1, <2>2, <2>3, Stays, LayerStep
<1>4. CASE val[t] = nextIndex /\ ~ ordFinish
  <2>1. /\ oat' = [oat EXCEPT ![t] = "inPush"] /\ at' = [at EXCEPT ![t] = "push"]
        /\ ret' = [ret EXCEPT ![t] = "none"] /\ val' = [val EXCEPT ![t] = val[t]]
        /\ mutex' = t /\ nextIndex' = nextIndex + 1 /\ UNCHANGED <<queueVars, ordFinish>>
    BY Zenon, <1>4 DEF OPushLocked, OGo, Call
  <2>2. Step(t, "push", "none", val[t], "inPush", pc[t])
    BY Zenon, <1>0, <2>1 DEF Step
  <2>3. Local(t, "push", "none", val[t], "inPush", pc[t], finish, mutex' = t)
    BY Zenon, <1>0, <1>1, <2>1 DEF ThreadInv, Local
  <2>4. nextIndex' \in Nat /\ mutex' \in Thread \cup {NoThread} /\ \A u \in Thread \ {t} : mutex' = u <=> mutex = u
    BY <1>0, <1>1, <2>1
  <2> QED BY Zenon, <1>0, <1>1, <2>1, <2>2, <2>3, <2>4, Stays, LayerStep
<1> QED BY Zenon, <1>1, <1>2, <1>3, <1>4

\* The other steps of one thread in the ordered queue.
LEMMA OStepKeeps ==
  ASSUME CallInv, NEW t \in Thread,
         OPushUnlocks(t) \/ OFinishInner(t) \/ OFinishLocked(t) \/ OSpuriousWakeup(t),
         UNCHANGED managerVars
  PROVE  CallInv'
<1>0. /\ Scalars /\ ThreadInv(t) /\ NoThread \notin Thread
      /\ {"notifies", "locks", "push"} \subseteq OAt
  BY Zenon, NoThreadAssumption DEF CallInv, Typing, OAt
<1>1. CASE OPushUnlocks(t)
  <2>1. /\ Local(t, at[t], ret[t], val[t], "notifies", pc[t], finish, mutex' = t)
        /\ mutex' = NoThread /\ \A u \in Thread \ {t} : mutex' = u <=> mutex = u
    BY Zenon, <1>0, <1>1 DEF OPushUnlocks, ThreadInv, Local, Outside
  <2> QED BY Zenon, <1>0, <1>1, <2>1, LayerGoes DEF OPushUnlocks, Scalars
<1>2. CASE OFinishInner(t)
  <2>1. Local(t, at[t], ret[t], val[t], "locks", pc[t], finish, mutex = t)
    BY Zenon, <1>0, <1>2 DEF OFinishInner, ThreadInv, Local, Outside
  <2> QED BY Zenon, <1>0, <1>2, <2>1, LayerGoes DEF OFinishInner, Scalars
<1>3. CASE OFinishLocked(t)
  <2>1. Local(t, at[t], ret[t], val[t], "notifies", pc[t], finish, mutex = t) /\ finish
    BY Zenon, <1>0, <1>3 DEF OFinishLocked, ThreadInv, Local, Outside
  <2> QED BY Zenon, <1>0, <1>3, <2>1, LayerGoes DEF OFinishLocked, Scalars
<1>4. CASE OSpuriousWakeup(t)
  <2>1. Local(t, at[t], ret[t], val[t], "push", pc[t], finish, mutex = t)
    BY Zenon, <1>0, <1>4 DEF OSpuriousWakeup, ThreadInv, Local, Outside
  <2> QED BY Zenon, <1>0, <1>4, <2>1, LayerGoes DEF OSpuriousWakeup, Scalars
<1> QED BY Zenon, <1>1, <1>2, <1>3, <1>4

\* notify_all of the ordered queue
LEMMA ONotifiesKeeps ==
  ASSUME CallInv, NEW t \in Thread, ONotifies(t), UNCHANGED managerVars
  PROVE  CallInv'
<1>0. Typing /\ Scalars /\ (\A u \in Thread : ThreadInv(u)) /\ Counted /\ Wakeups
  BY Zenon DEF CallInv, Typing
<1>1. UNCHANGED <<queue, finish, exception, at, ret, val, mutex, nextIndex, ordFinish, pc,
                  nextValue, numThreads, threw, yielded, outcome, ordered>>
  BY Zenon DEF ONotifies, queueVars, callVars, managerVars
<1>2. /\ oat' \in [Thread -> OAt] /\ oat[t] = "notifies" /\ oat'[t] = "out"
      /\ \A u \in Thread \ {t} : oat'[u] = oat[u] \/ (oat[u] = "cvWaits" /\ oat'[u] = "push")
  BY Zenon, <1>0 DEF ONotifies, Typing, OAt
<1>3. Scalars'
  BY Zenon, <1>0, <1>1 DEF Scalars
<1>4. Typing'
  BY Zenon, <1>0, <1>1, <1>2, <1>3 DEF Typing
<1>5. ThreadInv(t)'
  BY Zenon, <1>0, <1>1, <1>2 DEF ThreadInv, Local, Outside
<1>6. ASSUME NEW u \in Thread \ {t} PROVE ThreadInv(u)'
  BY Zenon, <1>0, <1>1, <1>2 DEF ThreadInv, Local, Outside
<1>7. Counted' /\ Wakeups'
  BY Zenon, <1>0, <1>1, CountKept, WakeupsKept
<1> QED BY Zenon, <1>4, <1>5, <1>6, <1>7 DEF CallInv

-----------------------------------------------------------------------------
(* queueManager and its threads.                                            *)

\* A thread that is in no method of the queue goes on.
LEMMA IdleStep ==
  ASSUME CallInv, NEW t \in Thread, at[t] = "out", oat[t] = "out", NEW c \in PC, c \in Role(t),
         pc' = [pc EXCEPT ![t] = c], c \in Running <=> pc[t] \in Running,
         yielded' \in Seq(Value), outcome' \in {"running", "nullopt", "exception", "left"},
         UNCHANGED <<queueVars, callVars, orderedVars, nextValue, numThreads, threw, ordered>>
  PROVE  CallInv'
<1>0. Typing /\ Scalars /\ ThreadInv(t) /\ Counted
  BY Zenon DEF CallInv, Typing
<1>1. UNCHANGED <<queue, finish, exception, at, ret, val, mutex, nextIndex, ordFinish, oat,
                  nextValue, numThreads, threw, ordered>>
  BY Zenon DEF queueVars, callVars, orderedVars
<1>2. Step(t, at[t], ret[t], val[t], oat[t], c)
  BY Zenon, <1>0, <1>1, Stays DEF Step
<1>3. Local(t, at[t], ret[t], val[t], oat[t], c, finish, mutex = t) /\ KeepsWakeups(t, at[t])
  BY Zenon, <1>0, <1>1 DEF ThreadInv, Local, KeepsWakeups
<1>4. Scalars'
  BY Zenon, <1>0, <1>1 DEF Scalars
<1>5. Counted'
  BY Zenon, <1>0, <1>1, Threads, CountKept DEF Typing
<1> QED BY Zenon, <1>0, <1>1, <1>2, <1>3, <1>4, <1>5, Stays, StepKeeps

\* A thread calls a method of the inner queue.
LEMMA CallStep ==
  ASSUME CallInv, NEW t \in Thread, NEW c \in PC, pc' = [pc EXCEPT ![t] = c],
         c \in Running <=> pc[t] \in Running,
         NEW method \in Methods, NEW v \in Value \cup {NoValue}, Call(t, method, v),
         NEW o \in OAt, oat' = [oat EXCEPT ![t] = o],
         Local(t, method, "none", v, o, c, finish, mutex = t),
         nextValue' \in 0 .. NumValues, threw' \subseteq Producer,
         UNCHANGED <<mutex, nextIndex, ordFinish, numThreads, yielded, outcome, ordered>>
  PROVE  CallInv'
<1>0. Typing /\ Scalars /\ Counted /\ method \in At /\ "none" \in Ret
  BY Zenon DEF CallInv, Typing, At, Ret
<1>1. /\ at[t] = "out" /\ UNCHANGED <<queue, finish, exception>> /\ Step(t, method, "none", v, o, c)
      /\ KeepsWakeups(t, method)
  BY Zenon DEF Call, queueVars, Step, KeepsWakeups
<1>2. Scalars'
  BY Zenon, <1>0, <1>1 DEF Scalars
<1>3. Counted'
  BY Zenon, <1>0, Threads, CountKept DEF Typing
<1> QED BY Zenon, <1>0, <1>1, <1>2, <1>3, StepKeeps

LEMMA FinishCall ==
  ASSUME CallInv, NEW t \in Thread, oat[t] = "out",
         NEW c \in {"throws", "finishes", "joins"}, c \in Role(t), pc' = [pc EXCEPT ![t] = c],
         c \in Running <=> pc[t] \in Running,
         NEW method \in {"finish", "pushException"}, Finish(t, method),
         nextValue' \in 0 .. NumValues, threw' \subseteq Producer,
         UNCHANGED <<numThreads, yielded, outcome, ordered>>
  PROVE  CallInv'
<1>0. /\ Typing /\ ThreadInv(t) /\ method \in Methods /\ {"out", "inFinish"} \subseteq OAt /\ c \in PC
  BY Zenon DEF CallInv, Methods, OAt, PC
<1>1. CASE ordered
  <2>1. Local(t, method, "none", NoValue, "inFinish", c, finish, mutex = t)
    BY Zenon, <1>0, <1>1 DEF ThreadInv, Local, Outside
  <2> QED BY Zenon, <1>0, <1>1, <2>1, CallStep DEF Finish, OrderedFinish, OGo
<1>2. CASE ~ ordered
  <2>1. Local(t, method, "none", NoValue, "out", c, finish, mutex = t)
    BY Zenon, <1>0, <1>2 DEF ThreadInv, Local, Outside
  <2>2. /\ Call(t, method, NoValue) /\ UNCHANGED <<mutex, nextIndex, ordFinish>>
        /\ oat' = [oat EXCEPT ![t] = "out"]
    BY Zenon, <1>0, <1>2, Stays DEF Finish, orderedVars
  <2> QED BY Zenon, <1>0, <2>1, <2>2, CallStep
<1> QED BY Zenon, <1>1, <1>2

\* A producer thread pushes a value.
LEMMA ProduceKeeps ==
  ASSUME CallInv, NEW p \in Producer, Produce(p), UNCHANGED ordered
  PROVE  CallInv'
<1>0. /\ Typing /\ Scalars /\ ThreadInv(p) /\ Counted /\ p \in Thread /\ p # Consumer
      /\ Value = 0 .. NumValues - 1 /\ NumValues \in Nat
      /\ "pushes" \in PC /\ "push" \in Methods /\ {"out", "push"} \subseteq OAt
  BY Zenon, Threads, ThreadAssumption DEF CallInv, Typing, PC, Methods, OAt
<1>1. /\ pc[p] = "produces" /\ at[p] = "out" /\ oat[p] = "out" /\ nextValue \in Value
      /\ nextValue' \in 0 .. NumValues /\ Push(p, nextValue)
      /\ pc' = [pc EXCEPT ![p] = "pushes"]
      /\ UNCHANGED <<numThreads, threw, yielded, outcome, ordered>>
  BY <1>0 DEF Produce, Idle, Become, Scalars
<1>2. /\ "pushes" \in Running /\ pc[p] \in Running /\ threw' \subseteq Producer
  BY Zenon, <1>0, <1>1 DEF Running, Scalars
<1>3. CASE ordered
  <2>1. /\ oat' = [oat EXCEPT ![p] = "push"] /\ val' = [val EXCEPT ![p] = nextValue]
        /\ UNCHANGED <<queue, finish, exception, at, ret, mutex, nextIndex, ordFinish>>
    BY Zenon, <1>1, <1>3 DEF Push, OrderedPush, OGo, queueVars
  <2>2. Step(p, at[p], ret[p], nextValue, "push", "pushes")
    BY Zenon, <1>0, <1>1, <2>1, Stays DEF Step
  <2>3. Local(p, at[p], ret[p], nextValue, "push", "pushes", finish, mutex = p) /\ KeepsWakeups(p, at[p])
    BY Zenon, <1>0, <1>1, <1>3, <2>1 DEF ThreadInv, Local, Outside, Role, Running, KeepsWakeups
  <2>4. Scalars'
    BY Zenon, <1>0, <1>1, <2>1 DEF Scalars
  <2>5. Counted'
    BY Zenon, <1>0, <1>1, <1>2, Threads, CountKept DEF Typing
  <2> QED BY Zenon, <1>0, <1>1, <2>1, <2>2, <2>3, <2>4, <2>5, Stays, StepKeeps
<1>4. CASE ~ ordered
  <2>1. Local(p, "push", "none", nextValue, oat[p], "pushes", finish, mutex = p)
    BY Zenon, <1>0, <1>1, <1>4 DEF ThreadInv, Local, Outside, Role, Running
  <2> QED BY ZenonT(40), <1>0, <1>1, <1>2, <1>4, <2>1, CallStep, Stays DEF Push, orderedVars
<1> QED BY Zenon, <1>3, <1>4

\* A producer thread counts itself down.
LEMMA CountDownKeeps ==
  ASSUME CallInv, NEW p \in Producer, CountDown(p), UNCHANGED ordered
  PROVE  CallInv'
<1>0. /\ Typing /\ Scalars /\ ThreadInv(p) /\ Counted
      /\ p \in Thread /\ p # Consumer /\ "counted" \in PC
  BY Zenon, Threads, ThreadAssumption DEF CallInv, Typing, PC
<1>1. /\ pc[p] = "leaves" /\ numThreads' = numThreads - 1 /\ pc' = [pc EXCEPT ![p] = "counted"]
      /\ UNCHANGED <<queue, finish, exception, at, ret, val, mutex, nextIndex, ordFinish, oat,
                     nextValue, threw, yielded, outcome, ordered>>
  BY Zenon DEF CountDown, Become, queueVars, callVars, orderedVars
<1>2. Step(p, at[p], ret[p], val[p], oat[p], "counted")
  BY Zenon, <1>0, <1>1, Stays DEF Step
<1>3. Local(p, at[p], ret[p], val[p], oat[p], "counted", finish, mutex = p) /\ KeepsWakeups(p, at[p])
  BY Zenon, <1>0, <1>1 DEF ThreadInv, Local, Outside, Role, KeepsWakeups
<1>4. Scalars'
  BY Zenon, <1>0, <1>1 DEF Scalars
<1>5. p \in Unfinished /\ Unfinished' = Unfinished \ {p}
  BY Zenon, <1>0, <1>1, Threads DEF Unfinished, Running, Typing
<1>6. IsFiniteSet(Unfinished)
  BY Zenon, ThreadAssumption, FS_Subset DEF Unfinished
<1>7. Counted'
  BY Zenon, <1>0, <1>1, <1>5, <1>6, FS_RemoveElement DEF Counted
<1> QED BY Zenon, <1>0, <1>1, <1>2, <1>3, <1>4, <1>7, Stays, StepKeeps

\* The producer threads.
LEMMA TaskKeepsCalls ==
  ASSUME CallInv, NEW p \in Producer, TaskStep(p)
  PROVE  CallInv'
<1>0. /\ Scalars /\ ThreadInv(p) /\ p \in Thread /\ p # Consumer /\ UNCHANGED ordered
      /\ Role(p) = Running \cup {"counted", "finishes", "done"}
  BY Zenon, Threads, ThreadAssumption DEF CallInv, Typing, TaskStep, Role
<1>a. pc[p] \in Outside => at[p] = "out" /\ oat[p] = "out"
  BY Zenon, <1>0 DEF ThreadInv, Local
<1>1. CASE Pushed(p) \/ Exhausted(p) \/ ExceptionPushed(p) \/ TaskEnds(p)
           \/ (LastFinishes(p) /\ Become(p, "done") /\ UNCHANGED <<queueVars, callVars, orderedVars>>)
  <2>1. /\ at[p] = "out" /\ oat[p] = "out"
        /\ UNCHANGED <<queueVars, callVars, orderedVars, nextValue, numThreads, threw, yielded, outcome>>
    BY Zenon, <1>1, <1>a DEF Pushed, Exhausted, ExceptionPushed, TaskEnds, LastFinishes, Idle, Outside
  <2>2. PICK c \in PC : c \in Role(p) /\ pc' = [pc EXCEPT ![p] = c] /\ (c \in Running <=> pc[p] \in Running)
    BY Zenon, <1>0, <1>1 DEF Pushed, Exhausted, ExceptionPushed, TaskEnds, LastFinishes, Become, PC, Running
  <2>3. yielded \in Seq(Value) /\ outcome \in {"running", "nullopt", "exception", "left"}
    BY Zenon, <1>0 DEF Scalars
  <2> QED BY Zenon, <1>0, <2>1, <2>2, <2>3, IdleStep
<1>2. CASE Throw(p)
  <2>1. /\ pc[p] = "produces" /\ oat[p] = "out" /\ pc' = [pc EXCEPT ![p] = "throws"]
        /\ Finish(p, "pushException") /\ UNCHANGED <<numThreads, yielded, outcome>>
        /\ nextValue' \in {nextValue, nextValue + 1} /\ nextValue' <= NumValues
        /\ threw' = threw \cup {p}
    BY Zenon, <1>2 DEF Throw, Idle, Become
  <2>2. nextValue' \in 0 .. NumValues /\ threw' \subseteq Producer
    BY <1>0, <2>1, ThreadAssumption DEF Scalars
  <2>3. "throws" \in Role(p) /\ "throws" \in Running /\ pc[p] \in Running
    BY Zenon, <1>0, <2>1 DEF Running
  <2> QED BY Zenon, <1>0, <2>1, <2>2, <2>3, FinishCall
<1>3. CASE LastFinishes(p) /\ Finish(p, "finish") /\ Become(p, "finishes")
  <2>1. "finishes" \in Role(p) /\ "finishes" \notin Running /\ pc[p] \notin Running /\ oat[p] = "out"
    BY Zenon, <1>0, <1>a, <1>3 DEF LastFinishes, Outside, Running
  <2> QED BY Zenon, <1>0, <1>3, <2>1, FinishCall DEF LastFinishes, Scalars, Become
<1>4. LastFinishes(p) => \/ Finish(p, "finish") /\ Become(p, "finishes")
                         \/ Become(p, "done") /\ UNCHANGED <<queueVars, callVars, orderedVars>>
  BY Zenon DEF LastFinishes
<1> QED BY Zenon, <1>0, <1>1, <1>2, <1>3, <1>4, ProduceKeeps, CountDownKeeps DEF TaskStep

\* The generator.
LEMMA GeneratorKeepsCalls ==
  ASSUME CallInv, GeneratorStep
  PROVE  CallInv'
<1>0. /\ Typing /\ Scalars /\ ThreadInv(Consumer) /\ Consumer \in Thread /\ UNCHANGED ordered
      /\ Role(Consumer) = {"pops", "popping", "yields", "closes", "joins", "done"}
      /\ pc[Consumer] \notin Running
  BY Zenon, Threads DEF CallInv, Typing, GeneratorStep, Role, ThreadInv, Local, Running
<1>a. pc[Consumer] \in Outside => at[Consumer] = "out" /\ oat[Consumer] = "out"
  BY Zenon, <1>0 DEF ThreadInv, Local
<1>1. CASE Pop
  <2>1. /\ Local(Consumer, "pop", "none", NoValue, oat[Consumer], "popping", finish, mutex = Consumer)
        /\ "popping" \in PC /\ "popping" \notin Running /\ "pop" \in Methods
    BY Zenon, <1>0, <1>1 DEF Pop, Idle, ThreadInv, Local, Outside, PC, Running, Methods
  <2> QED BY Zenon, <1>0, <1>1, <2>1, CallStep, Stays DEF Pop, Become, orderedVars, Scalars
<1>2. CASE Popped \/ Resume \/ Join
  <2>1. /\ at[Consumer] = "out" /\ oat[Consumer] = "out"
        /\ UNCHANGED <<queueVars, callVars, orderedVars, nextValue, numThreads, threw>>
    BY Zenon, <1>2, <1>a DEF Popped, Resume, Join, Idle, Outside
  <2>2. PICK c \in PC : c \in Role(Consumer) /\ pc' = [pc EXCEPT ![Consumer] = c] /\ c \notin Running
    BY Zenon, <1>0, <1>2 DEF Popped, Resume, Join, Become, PC, Running
  <2>3. yielded' \in Seq(Value)
    BY <1>0, <1>2, <2>1 DEF Scalars, ThreadInv, Local, Popped, Resume, Join
  <2>4. outcome' \in {"running", "nullopt", "exception", "left"}
    BY Zenon, <1>0, <1>2 DEF Scalars, Popped, Resume, Join
  <2> QED BY Zenon, <1>0, <2>1, <2>2, <2>3, <2>4, IdleStep
<1>3. CASE QueueFinisher
  <2>1. "joins" \in Role(Consumer) /\ "joins" \notin Running /\ oat[Consumer] = "out"
    BY Zenon, <1>0, <1>a, <1>3 DEF QueueFinisher, Outside, Running
  <2> QED BY Zenon, <1>0, <1>3, <2>1, FinishCall DEF QueueFinisher, Become, Scalars
<1> QED BY Zenon, <1>1, <1>2, <1>3 DEF GeneratorStep

-----------------------------------------------------------------------------
LEMMA InitCalls == Init => CallInv
<1> SUFFICES ASSUME Init PROVE CallInv
  OBVIOUS
<1>0. /\ NumValues \in Nat /\ MaxSize \in Nat /\ NoThread \notin Thread
      /\ Consumer \notin Producer /\ Producer \subseteq Thread
  BY Zenon, ThreadAssumption, MaxSizeAssumption, NoThreadAssumption
<1>1. /\ queue = <<>> /\ yielded = <<>> /\ finish = FALSE /\ exception = FALSE /\ ordFinish = FALSE
      /\ mutex = NoThread /\ nextIndex = 0 /\ nextValue = 0 /\ threw = {}
      /\ outcome = "running" /\ ordered \in BOOLEAN
      /\ \A t \in Thread : at[t] = "out" /\ oat[t] = "out" /\ ret[t] = "none"
  BY Zenon DEF Init, QueueInit, OrderedInit
<1>2. <<>> \in Seq(Value) /\ Len(<<>>) = 0
  OBVIOUS
<1>a. /\ queue \in Seq(Value) /\ yielded \in Seq(Value) /\ Len(queue) <= MaxSize
      /\ nextIndex \in Nat /\ nextValue \in 0 .. NumValues
  BY <1>0, <1>1, <1>2
<1>3. Scalars
  BY Zenon, <1>1, <1>a DEF Scalars
<1>4. /\ at \in [Thread -> At] /\ oat \in [Thread -> OAt] /\ ret \in [Thread -> Ret]
      /\ pc \in [Thread -> PC] /\ val \in [Thread -> Value \cup {NoValue}]
  BY Zenon DEF Init, QueueInit, OrderedInit, At, OAt, Ret, PC
<1>b. \A t \in Thread : pc[t] \in Role(t)
  BY Zenon DEF Init, Role, Running
<1>5. \A t \in Thread : ThreadInv(t)
  BY Zenon, <1>0, <1>1, <1>b DEF ThreadInv, Local, Outside
<1>6. \A p \in Producer : pc[p] = "produces"
  BY Zenon, <1>0 DEF Init
<1>7. Unfinished = Producer
  BY Zenon, <1>6 DEF Unfinished, Running
<1>8. Counted
  BY Zenon, <1>7 DEF Counted, Init
<1>9. Waiting("popWaits") = {} /\ Waiting("pushWaits") = {}
  BY Zenon, <1>1 DEF Waiting
<1>10. Wakeups
  BY Zenon, <1>9 DEF Wakeups
<1> QED BY Zenon, <1>3, <1>4, <1>5, <1>8, <1>10 DEF CallInv, Typing

LEMMA NextCalls == CallInv /\ [Next]_vars => CallInv'
<1> SUFFICES ASSUME CallInv, [Next]_vars PROVE CallInv'
  OBVIOUS
<1>1. ASSUME NEW t \in Thread, Inside(t) PROVE CallInv'
  BY Zenon, <1>1, PushKeeps, FinishKeeps, PopKeeps, PushNotifiesKeeps, PopNotifiesKeeps, NotifiesAllKeeps
     DEF Inside, QueueStep
<1>2. ASSUME NEW t \in Thread, InsideOrdered(t) PROVE CallInv'
  BY Zenon, <1>2, OPushKeeps, OStepKeeps, ONotifiesKeeps DEF InsideOrdered, OrderedStep
<1>3. ASSUME NEW t \in Thread, Wakeup(t) PROVE CallInv'
  BY Zenon, <1>3, SpuriousKeeps, OStepKeeps DEF Wakeup
<1>4. CASE UNCHANGED vars
  BY <1>4, CountKept, WakeupsKept DEF CallInv, Typing, vars, queueVars, callVars, orderedVars,
       managerVars, Scalars, ThreadInv, Local
<1>5. CASE Next
  BY Zenon, <1>1, <1>2, <1>3, <1>4, <1>5, TaskKeepsCalls, GeneratorKeepsCalls DEF Next
<1> QED BY Zenon, <1>4, <1>5

\* CallInv is an invariant of the queue manager: what each thread is doing, the
\* number of unfinished threads, and the notifications under way.
THEOREM CallInvariant == Spec => []CallInv
BY InitCalls, NextCalls, PTL DEF Spec

\* No notification of push(), pop(), finish() and pushException() is lost: while
\* a thread waits for an element or for space, as many threads as there are
\* elements or free places are about to notify or to look themselves, and after
\* the end somebody is about to wake all who wait (NoLostWakeup).
THEOREM WakeupsArrive == Spec => []NoLostWakeup
<1>1. CallInv => NoLostWakeup
  <2> SUFFICES ASSUME CallInv PROVE NoLostWakeup
    OBVIOUS
  <2>0. Typing /\ Scalars /\ (\A u \in Thread : ThreadInv(u)) /\ Counted /\ Wakeups
    BY Zenon DEF CallInv, Typing
  <2>1. QueueTypeOK
    BY Zenon, <2>0 DEF QueueTypeOK, Scalars, Typing, ThreadInv, Local
  <2>2. OrderedTypeOK
    BY Zenon, <2>0 DEF OrderedTypeOK, Scalars, Typing, ThreadInv, Local
  <2>3. Unfinished \subseteq Producer /\ IsFiniteSet(Producer) /\ IsFiniteSet(Unfinished)
    BY Zenon, ThreadAssumption, FS_Subset DEF Unfinished
  <2>4. numThreads \in 0 .. Cardinality(Producer)
    BY <2>0, <2>3, Counts DEF Counted
  <2>5. TypeOK
    BY Zenon, <2>0, <2>1, <2>2, <2>4 DEF TypeOK, Scalars, Typing
  <2> QED BY Zenon, <2>0, <2>5 DEF NoLostWakeup, Wakeups, Poppers, Pushers
<1> QED BY <1>1, CallInvariant, PTL

-----------------------------------------------------------------------------
(* The order of the values of an OrderedThreadSafeQueue.                    *)

\* pop() has taken a value that the generator has not yielded yet.
Holds ==
    /\ pc[Consumer] = "popping"
    /\ at[Consumer] = "popNotifies" \/ (at[Consumer] = "out" /\ ret[Consumer] = "value")

Held == IF Holds THEN 1 ELSE 0

Passed == Len(yielded) + Held + Len(queue)

\* Where the next index is.
Turn ==
    ~ finish =>
        \/ mutex = NoThread /\ Passed = nextIndex
        \/ /\ mutex # NoThread /\ at[mutex] \in {"push", "pushWaits"}
           /\ val[mutex] = Passed /\ nextIndex = Passed + 1
        \/ /\ mutex # NoThread /\ at[mutex] \in {"pushNotifies", "out"}
           /\ Passed = nextIndex

Sequence ==
    /\ \A i \in 1 .. Len(yielded) : yielded[i] = i - 1
    /\ Holds => val[Consumer] = Len(yielded)
    /\ \A i \in 1 .. Len(queue) : queue[i] = Len(yielded) + Held + i - 1

\* A step that moves no value from one place to another.
Aside ==
    /\ UNCHANGED <<queue, yielded, nextIndex, mutex>>
    /\ finish => finish'
    /\ Holds' <=> Holds
    /\ Holds => val'[Consumer] = val[Consumer]
    /\ mutex # NoThread /\ ~ finish' =>
          /\ at[mutex] \in {"push", "pushWaits"} =>
                at'[mutex] \in {"push", "pushWaits"} /\ val'[mutex] = val[mutex]
          /\ at[mutex] \in {"pushNotifies", "out"} => at'[mutex] \in {"pushNotifies", "out"}

LEMMA AsideKeepsOrder == ASSUME Sequence, Turn, Aside PROVE Sequence' /\ Turn'
<1>1. Held' = Held /\ Passed' = Passed
  BY Zenon DEF Held, Passed, Aside
<1>2. Sequence'
  BY Zenon, <1>1 DEF Sequence, Aside
<1>3. Turn'
  BY Zenon, <1>1 DEF Turn, Aside
<1> QED BY Zenon, <1>2, <1>3

\* Who pushes, pops and finishes.
LEMMA Callers ==
  ASSUME CallInv, ordered
  PROVE  /\ Typing /\ Scalars /\ mutex \in Thread \cup {NoThread} /\ NoThread \notin Thread
         /\ Consumer \in Thread /\ mutex # Consumer
         /\ \A t \in Thread :
               /\ mutex = t <=> oat[t] = "inPush"
               /\ at[t] \in {"push", "pushWaits", "pushNotifies"} => mutex = t /\ t # Consumer
               /\ at[t] \in {"pop", "popWaits", "popNotifies"} => t = Consumer /\ pc[t] = "popping"
               /\ at[t] \in {"finish", "pushException", "notifiesAll"} => pc[t] # "popping"
               /\ oat[t] \in {"push", "cvWaits", "inPush"} => t # Consumer
         /\ Holds => val[Consumer] \in Value
<1>1. Typing /\ Scalars /\ (\A t \in Thread : ThreadInv(t)) /\ Consumer \in Thread
  BY Zenon, Threads DEF CallInv, Typing
<1>2. /\ Consumer \in Thread => "pushes" \notin Role(Consumer)
      /\ \A t \in Thread \ {Consumer} : "popping" \notin Role(t)
  BY Zenon DEF Role, Running
<1>3. ASSUME NEW t \in Thread
      PROVE  /\ mutex = t <=> oat[t] = "inPush"
             /\ at[t] \in {"push", "pushWaits", "pushNotifies"} => mutex = t /\ t # Consumer
             /\ at[t] \in {"pop", "popWaits", "popNotifies"} => t = Consumer /\ pc[t] = "popping"
             /\ at[t] \in {"finish", "pushException", "notifiesAll"} => pc[t] # "popping"
             /\ oat[t] \in {"push", "cvWaits", "inPush"} => t # Consumer
             /\ at[t] = "popNotifies" \/ (at[t] = "out" /\ ret[t] = "value") => val[t] \in Value
  BY Zenon, <1>1, <1>2 DEF ThreadInv, Local
<1> QED BY Zenon, <1>1, <1>3, NoThreadAssumption DEF Scalars, Holds

\* push() takes the value of the holder of the mutex into the queue.
LEMMA PushKeepsOrder ==
  ASSUME CallInv, ordered, Sequence, Turn, NEW t \in Thread, PushLocked(t),
         UNCHANGED <<orderedVars, managerVars>>
  PROVE  Sequence' /\ Turn'
<1>0. /\ Typing /\ mutex = t /\ t # Consumer /\ Consumer \in Thread /\ t # NoThread
      /\ queue \in Seq(Value) /\ val[t] \in Value /\ at[t] = "push" /\ Len(yielded) \in Nat
      /\ UNCHANGED <<pc, yielded, nextIndex, mutex>>
  BY Callers DEF PushLocked, Scalars, orderedVars, managerVars, CallInv, ThreadInv, Local
<1>1. CASE finish \/ Len(queue) >= MaxSize
  <2>1. Aside
    BY <1>0, <1>1, MaxSizeAssumption DEF Aside, Holds, PushLocked, Go, Return, queueVars, Typing
  <2> QED BY Zenon, <2>1, AsideKeepsOrder
<1>2. CASE ~ finish /\ Len(queue) < MaxSize
  <2>1. /\ queue' = Append(queue, val[t]) /\ UNCHANGED <<finish, ret, val>>
        /\ at' = [at EXCEPT ![t] = "pushNotifies"]
    BY <1>0, <1>2, MaxSizeAssumption DEF PushLocked, Go
  <2>2. at'[t] = "pushNotifies" /\ at'[Consumer] = at[Consumer]
    BY Zenon, <1>0, <2>1 DEF Typing
  <2>3. (Holds' <=> Holds) /\ Held' = Held /\ Held \in {0, 1}
    BY Zenon, <1>0, <2>1, <2>2 DEF Holds, Held
  <2>4. val[t] = Passed /\ nextIndex = Passed + 1
    BY Zenon, <1>0, <1>2 DEF Turn
  <2>5. /\ Len(queue) \in Nat /\ Len(queue') = Len(queue) + 1 /\ queue'[Len(queue) + 1] = val[t]
        /\ \A i \in 1 .. Len(queue) : queue'[i] = queue[i]
    BY <1>0, <2>1
  <2>6. ASSUME NEW i \in 1 .. Len(queue')
        PROVE  queue'[i] = Len(yielded') + Held' + i - 1
    <3>1. CASE i \in 1 .. Len(queue)
      BY Zenon, <1>0, <2>3, <2>5, <3>1 DEF Sequence
    <3>2. CASE i = Len(queue) + 1
      BY <1>0, <2>3, <2>4, <2>5, <3>2 DEF Passed
    <3> QED BY <2>5, <3>1, <3>2
  <2>7. Sequence'
    BY Zenon, <1>0, <2>1, <2>3, <2>6 DEF Sequence
  <2>8. Turn'
    BY <1>0, <2>1, <2>2, <2>3, <2>4, <2>5 DEF Turn, Passed
  <2> QED BY Zenon, <2>7, <2>8
<1> QED BY <1>0, <1>1, <1>2, MaxSizeAssumption

\* pop() takes the first value out of the queue.
LEMMA PopKeepsOrder ==
  ASSUME CallInv, ordered, Sequence, Turn, NEW t \in Thread, PopLocked(t),
         UNCHANGED <<orderedVars, managerVars>>
  PROVE  Sequence' /\ Turn'
<1>0. /\ Typing /\ t = Consumer /\ pc[Consumer] = "popping" /\ mutex # Consumer
      /\ mutex \in Thread \cup {NoThread} /\ NoThread \notin Thread
      /\ queue \in Seq(Value) /\ at[Consumer] = "pop" /\ Len(yielded) \in Nat
      /\ UNCHANGED <<pc, yielded, nextIndex, mutex>>
  BY Callers DEF PopLocked, Scalars, orderedVars, managerVars
<1>1. CASE exception \/ queue = <<>>
  <2>1. Aside
    BY <1>0, <1>1 DEF Aside, Holds, PopLocked, Go, Return, queueVars, Typing
  <2> QED BY Zenon, <2>1, AsideKeepsOrder
<1>2. CASE ~ exception /\ queue # <<>>
  <2>1. /\ queue' = Tail(queue) /\ UNCHANGED <<ret, finish>>
        /\ at' = [at EXCEPT ![t] = "popNotifies"] /\ val' = [val EXCEPT ![t] = Head(queue)]
    BY Zenon, <1>2 DEF PopLocked
  <2>2. /\ at'[Consumer] = "popNotifies" /\ val'[Consumer] = Head(queue)
        /\ \A u \in Thread \ {Consumer} : at'[u] = at[u] /\ val'[u] = val[u]
    BY Zenon, <1>0, <2>1 DEF Typing
  <2>3. ~ Holds /\ Holds' /\ Held = 0 /\ Held' = 1
    BY Zenon, <1>0, <2>1, <2>2 DEF Holds, Held
  <2>4. /\ Len(queue) \in Nat /\ Len(queue) > 0 /\ Len(queue') = Len(queue) - 1
        /\ Head(queue) = queue[1] /\ \A i \in 1 .. Len(queue') : queue'[i] = queue[i + 1]
    BY <1>0, <1>2, <2>1
  <2>5. val'[Consumer] = Len(yielded)
    BY <1>0, <2>2, <2>3, <2>4 DEF Sequence
  <2>6. Sequence'
    <3>1. ASSUME NEW i \in 1 .. Len(queue')
          PROVE  queue'[i] = Len(yielded) + 1 + i - 1
      <4>1. i + 1 \in 1 .. Len(queue) /\ queue'[i] = queue[i + 1]
        BY <2>4
      <4>2. queue[i + 1] = Len(yielded) + 0 + (i + 1) - 1
        BY Zenon, <2>3, <4>1 DEF Sequence
      <4> QED BY <1>0, <4>1, <4>2
    <3> QED BY Zenon, <1>0, <2>3, <2>5, <3>1 DEF Sequence
  <2>7. Passed' = Passed
    BY <1>0, <2>3, <2>4 DEF Passed
  <2>8. Turn'
    BY <1>0, <2>1, <2>2, <2>7 DEF Turn
  <2> QED BY Zenon, <2>6, <2>8
<1> QED BY Zenon, <1>1, <1>2

\* The other steps in the inner queue move no value.
LEMMA InsideKeepsOrder ==
  ASSUME CallInv, ordered, Sequence, Turn, NEW t \in Thread,
         UNCHANGED <<orderedVars, managerVars>>, QueueStep(t) \/ SpuriousWakeup(t)
  PROVE  Sequence' /\ Turn'
<1>0. UNCHANGED <<pc, yielded, nextIndex, mutex>>
  BY Zenon DEF orderedVars, managerVars
<1>1. CASE PushExceptionLocked(t)
  BY <1>0, <1>1, Callers, AsideKeepsOrder DEF Aside, Holds, PushExceptionLocked, Go, Return, queueVars, Typing, Scalars
<1>2. CASE FinishLocked(t)
  BY Zenon, <1>0, <1>2, Callers, AsideKeepsOrder DEF Aside, Holds, FinishLocked, Go, Typing
<1>3. CASE PushNotifies(t)
  BY Zenon, <1>0, <1>3, Callers, AsideKeepsOrder DEF Aside, Holds, PushNotifies, NotifyOne, Waiting, queueVars, Typing
<1>4. CASE PopNotifies(t)
  BY Zenon, <1>0, <1>4, Callers, AsideKeepsOrder DEF Aside, Holds, PopNotifies, NotifyOne, Waiting, queueVars, Typing
<1>5. CASE NotifiesAll(t)
  BY Zenon, <1>0, <1>5, Callers, AsideKeepsOrder DEF Aside, Holds, NotifiesAll, queueVars, Typing
<1>6. CASE SpuriousWakeup(t)
  BY Zenon, <1>0, <1>6, Callers, AsideKeepsOrder DEF Aside, Holds, SpuriousWakeup, Go, queueVars, Typing
<1> QED BY Zenon, <1>1, <1>2, <1>3, <1>4, <1>5, <1>6, PushKeepsOrder, PopKeepsOrder DEF QueueStep

\* A step in which no thread enters or leaves the inner queue.
LEMMA StillKeepsOrder ==
  ASSUME Sequence, Turn, Holds' <=> Holds,
         UNCHANGED <<queueVars, callVars, mutex, nextIndex, yielded>>
  PROVE  Sequence' /\ Turn'
BY Zenon, AsideKeepsOrder DEF Aside, queueVars, callVars

\* The steps in the ordered queue.
LEMMA OrderedKeepsOrder ==
  ASSUME CallInv, ordered, Sequence, Turn, NEW t \in Thread, UNCHANGED managerVars,
         OrderedStep(t) \/ OSpuriousWakeup(t)
  PROVE  Sequence' /\ Turn'
<1>0. /\ Typing /\ Consumer \in Thread /\ NoThread \notin Thread /\ UNCHANGED <<pc, yielded>>
      /\ Len(yielded) \in Nat /\ Len(queue) \in Nat /\ nextIndex \in Nat
  BY Callers DEF managerVars, Scalars
<1>1. CASE UNCHANGED <<queueVars, callVars, mutex, nextIndex>>
  BY Zenon, <1>0, <1>1, StillKeepsOrder DEF Holds, callVars
<1>2. CASE OPushLocked(t)
  <2>0. t # Consumer /\ mutex = NoThread
    BY Zenon, <1>2, Callers DEF OPushLocked
  <2>1. CASE ordFinish
    BY <1>0, <1>2, <2>0, <2>1, AsideKeepsOrder DEF Aside, Holds, OPushLocked, Return, queueVars, Typing
  <2>2. CASE val[t] = nextIndex /\ ~ ordFinish
    <3>1. /\ mutex' = t /\ nextIndex' = nextIndex + 1 /\ UNCHANGED <<queue, finish>>
          /\ at'[t] = "push" /\ val'[t] = val[t]
          /\ UNCHANGED <<at[Consumer], ret[Consumer], val[Consumer]>>
      BY Zenon, <1>0, <1>2, <2>0, <2>2 DEF OPushLocked, Call, queueVars, Typing
    <3>2. (Holds' <=> Holds) /\ Held' = Held /\ Passed' = Passed /\ Held \in {0, 1}
      BY Zenon, <1>0, <3>1 DEF Holds, Held, Passed
    <3>3. Sequence'
      BY Zenon, <1>0, <3>1, <3>2 DEF Sequence
    <3>4. Turn'
      BY Zenon, <1>0, <2>0, <2>2, <3>1, <3>2 DEF Turn
    <3> QED BY Zenon, <3>3, <3>4
  <2> QED BY Zenon, <1>1, <1>2, <2>1, <2>2 DEF OPushLocked
<1>3. CASE OPushUnlocks(t)
  <2>1. /\ mutex = t /\ t # NoThread /\ at[mutex] = "out" /\ mutex' = NoThread
        /\ UNCHANGED <<queue, finish, at, ret, val, nextIndex>>
    BY Zenon, <1>0, <1>3, Callers DEF OPushUnlocks, queueVars, callVars
  <2>2. (Holds' <=> Holds) /\ Held' = Held /\ Passed' = Passed
    BY Zenon, <1>0, <2>1 DEF Holds, Held, Passed
  <2> QED BY Zenon, <1>0, <2>1, <2>2 DEF Sequence, Turn
<1> QED BY Zenon, <1>1, <1>2, <1>3 DEF OrderedStep, OFinishInner, OFinishLocked, ONotifies, OSpuriousWakeup

\* A thread calls finish() or pushException().
LEMMA FinishCallKeepsOrder ==
  ASSUME CallInv, ordered, Sequence, Turn, NEW t \in Thread, oat[t] = "out", NEW method,
         Finish(t, method), NEW c, pc' = [pc EXCEPT ![t] = c],
         c # "popping", pc[t] # "popping", UNCHANGED yielded
  PROVE  Sequence' /\ Turn'
<1>1. Typing /\ Consumer \in Thread /\ mutex \in Thread \cup {NoThread} /\ mutex # t
  BY Zenon, Callers
<1>2. /\ \A u \in Thread \ {t} : at'[u] = at[u] /\ val'[u] = val[u] /\ ret'[u] = ret[u] /\ pc'[u] = pc[u]
      /\ pc'[t] = c /\ UNCHANGED <<queue, finish, mutex, nextIndex>>
  BY <1>1 DEF Finish, OrderedFinish, Call, queueVars, Typing
<1>3. Holds' <=> Holds
  BY Zenon, <1>1, <1>2 DEF Holds
<1>4. Holds => Consumer # t
  BY Zenon DEF Holds
<1> QED BY Zenon, <1>1, <1>2, <1>3, <1>4, AsideKeepsOrder DEF Aside

\* The producer threads.
LEMMA TaskKeepsOrder ==
  ASSUME CallInv, ordered, Sequence, Turn, NEW p \in Producer, TaskStep(p)
  PROVE  Sequence' /\ Turn'
<1>0. /\ Typing /\ Consumer \in Thread /\ p \in Thread /\ p # Consumer /\ pc[p] # "popping"
      /\ (oat[p] = "out" => mutex # p) /\ (pc[p] = "counted" => oat[p] = "out")
      /\ UNCHANGED yielded
  BY Zenon, Callers, Threads, ThreadAssumption DEF CallInv, ThreadInv, Local, Role, Running, Outside,
       TaskStep, Produce, Pushed, Exhausted, Throw, ExceptionPushed, CountDown, LastFinishes, TaskEnds
<1>1. PICK c : pc' = [pc EXCEPT ![p] = c] /\ c # "popping"
  BY Zenon DEF TaskStep, Produce, Pushed, Exhausted, Throw, ExceptionPushed, CountDown, LastFinishes,
         TaskEnds, Become
<1>2. pc'[Consumer] = pc[Consumer]
  BY Zenon, <1>0, <1>1 DEF Typing
<1>3. CASE UNCHANGED <<queueVars, callVars, orderedVars>>
  BY Zenon, <1>0, <1>2, <1>3, StillKeepsOrder DEF Holds, callVars, orderedVars
<1>4. CASE Produce(p)
  <2>1. /\ UNCHANGED <<queue, finish, at, ret, mutex, nextIndex>> /\ mutex # p
        /\ val' = [val EXCEPT ![p] = nextValue]
    BY Zenon, <1>0, <1>4 DEF Produce, Push, OrderedPush, Idle, queueVars
  <2>2. \A u : u # p => val'[u] = val[u]
    BY <1>0, <2>1 DEF Typing
  <2> QED BY Zenon, <1>0, <1>2, <2>1, <2>2, AsideKeepsOrder DEF Aside, Holds
<1>5. CASE Throw(p) \/ (LastFinishes(p) /\ Finish(p, "finish"))
  <2>1. oat[p] = "out" /\ \E method : Finish(p, method)
    BY Zenon, <1>0, <1>5 DEF Throw, LastFinishes, Idle
  <2> QED BY Zenon, <1>0, <1>1, <2>1, FinishCallKeepsOrder
<1> QED BY Zenon, <1>3, <1>4, <1>5 DEF TaskStep, Pushed, Exhausted, ExceptionPushed, CountDown,
                                 LastFinishes, TaskEnds

\* The generator.
LEMMA GeneratorKeepsOrder ==
  ASSUME CallInv, ordered, Sequence, Turn, GeneratorStep
  PROVE  Sequence' /\ Turn'
<1>0. /\ Typing /\ Scalars /\ Consumer \in Thread /\ mutex \in Thread \cup {NoThread} /\ NoThread \notin Thread
      /\ mutex # Consumer /\ (Holds => val[Consumer] \in Value)
      /\ (pc[Consumer] = "closes" => oat[Consumer] = "out")
  BY Zenon, Callers DEF CallInv, ThreadInv, Local, Outside
<1>1. CASE Pop
  <2>1. /\ pc[Consumer] = "pops" /\ at'[Consumer] = "pop"
        /\ \A u \in Thread \ {Consumer} : at'[u] = at[u] /\ val'[u] = val[u]
        /\ UNCHANGED <<queue, finish, mutex, nextIndex, yielded>>
    BY Zenon, <1>0, <1>1 DEF Pop, Call, queueVars, orderedVars, Typing
  <2>2. ~ Holds /\ ~ Holds'
    BY Zenon, <2>1 DEF Holds
  <2> QED BY Zenon, <1>0, <2>1, <2>2, AsideKeepsOrder DEF Aside
<1>2. CASE Popped /\ ret[Consumer] = "value"
  <2>1. /\ pc[Consumer] = "popping" /\ at[Consumer] = "out"
        /\ yielded' = Append(yielded, val[Consumer]) /\ pc' = [pc EXCEPT ![Consumer] = "yields"]
        /\ UNCHANGED <<queue, finish, at, ret, val, mutex, nextIndex>>
    BY Zenon, <1>2 DEF Popped, Become, Idle, queueVars, callVars, orderedVars
  <2>2. pc'[Consumer] = "yields"
    BY Zenon, <1>0, <2>1 DEF Typing
  <2>3. Holds /\ ~ Holds' /\ val[Consumer] = Len(yielded) /\ Held = 1 /\ Held' = 0
    BY Zenon, <1>2, <2>1, <2>2 DEF Holds, Held, Sequence
  <2>4. yielded \in Seq(Value) /\ val[Consumer] \in Value /\ Len(queue) \in Nat
    BY <1>0, <2>3 DEF Scalars
  <2>5. /\ Len(yielded) \in Nat /\ Len(yielded') = Len(yielded) + 1
        /\ yielded'[Len(yielded) + 1] = val[Consumer]
        /\ \A i \in 1 .. Len(yielded) : yielded'[i] = yielded[i]
    BY <2>1, <2>4
  <2>6. Passed' = Passed
    BY <2>1, <2>3, <2>4, <2>5 DEF Passed
  <2>7. \A i \in 1 .. Len(yielded') : i \in 1 .. Len(yielded) \/ i = Len(yielded) + 1
    BY <2>5
  <2>8. \A i \in 1 .. Len(yielded') : yielded'[i] = i - 1
    BY <2>3, <2>5, <2>7 DEF Sequence
  <2>9. \A i \in 1 .. Len(queue') : queue'[i] = Len(yielded') + Held' + i - 1
    BY <2>1, <2>3, <2>5 DEF Sequence
  <2>10. Sequence'
    BY Zenon, <2>3, <2>8, <2>9 DEF Sequence
  <2>11. Turn'
    BY Zenon, <2>1, <2>6 DEF Turn
  <2> QED BY Zenon, <2>10, <2>11
<1>3. CASE (Popped /\ ret[Consumer] # "value") \/ Resume \/ Join
  <2>1. UNCHANGED <<queueVars, callVars, mutex, nextIndex, yielded>> /\ ~ Holds
    BY Zenon, <1>3 DEF Popped, Resume, Join, Idle, Holds, orderedVars
  <2>2. ~ Holds'
    BY Zenon, <1>0, <1>3 DEF Popped, Resume, Join, Become, Holds, Typing
  <2> QED BY Zenon, <2>1, <2>2, StillKeepsOrder
<1>4. CASE QueueFinisher
  BY Zenon, <1>0, <1>4, FinishCallKeepsOrder DEF QueueFinisher, Become
<1> QED BY Zenon, <1>1, <1>2, <1>3, <1>4 DEF GeneratorStep

OrderInv == ordered => Sequence /\ Turn

LEMMA OrderInvariant == Spec => []OrderInv
<1>1. Init => OrderInv
  <2> SUFFICES ASSUME Init PROVE Sequence /\ Turn
    BY Zenon DEF OrderInv
  <2>1. /\ yielded = <<>> /\ queue = <<>> /\ mutex = NoThread /\ nextIndex = 0
        /\ pc[Consumer] = "pops"
    BY Zenon, Threads DEF Init, QueueInit, OrderedInit
  <2>2. Held = 0 /\ ~ Holds
    BY Zenon, <2>1 DEF Held, Holds
  <2> QED BY <2>1, <2>2 DEF Sequence, Turn, Passed
<1>2. CallInv /\ OrderInv /\ [Next]_vars => OrderInv'
  <2> SUFFICES ASSUME CallInv, OrderInv, [Next]_vars, ordered' PROVE Sequence' /\ Turn'
    BY Zenon DEF OrderInv
  <2>1. ordered /\ Sequence /\ Turn
    BY Zenon DEF OrderInv, Next, Inside, InsideOrdered, Wakeup, TaskStep, GeneratorStep, vars, managerVars
  <2>2. CASE UNCHANGED vars
    BY Zenon, <2>1, <2>2, StillKeepsOrder DEF vars, Holds, callVars, orderedVars, managerVars
  <2>3. CASE \E t \in Thread : Inside(t) \/ InsideOrdered(t) \/ Wakeup(t)
    BY Zenon, <2>1, <2>3, InsideKeepsOrder, OrderedKeepsOrder DEF Inside, InsideOrdered, Wakeup
  <2> QED BY Zenon, <2>1, <2>2, <2>3, TaskKeepsOrder, GeneratorKeepsOrder DEF Next
<1> QED BY <1>1, <1>2, CallInvariant, PTL DEF Spec

\* The values of an OrderedThreadSafeQueue come out in the order of the indices
\* with which they were pushed (pop(): "All the returned values will be in
\* ascending consecutive order wrt the index with which they were pushed").
THEOREM OrderIsKept == Spec => []YieldedInOrder
<1>1. OrderInv => YieldedInOrder
  BY Zenon DEF OrderInv, Sequence, YieldedInOrder
<1> QED BY <1>1, OrderInvariant, PTL

=============================================================================
