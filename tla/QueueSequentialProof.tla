------------------------ MODULE QueueSequentialProof ------------------------
(***************************************************************************)
(* The generator of queueManager implements SequentialGenerator, for any   *)
(* number of producer threads, any size of the queue and any number of     *)
(* values.                                                                 *)
(*                                                                         *)
(* Two facts are needed beyond CallInv and OrderInv.  No value is yielded  *)
(* twice: what was yielded, what pop() is about to return, what is in the  *)
(* inner queue and what the producers carry are different values (Flow).   *)
(* And none is missing when the generator ends with nullopt: as long as    *)
(* nobody has thrown or left, these places hold together all the values    *)
(* that were handed out (Count), and the queue is finished only by the     *)
(* last producer, after all values were handed out (Ended).  Here a lost   *)
(* value is ruled out: a push is refused only after the end, and then      *)
(* nobody is left to push.                                                 *)
(*                                                                         *)
(* The lemmas about the steps (InnerSteps, OrderedSteps, TaskSteps and     *)
(* GeneratorSteps) say what a step does to the thread that takes it and to *)
(* the others; the invariants are then shown from these effects.           *)
(***************************************************************************)
EXTENDS QueueManagerProof

\* The producers that hold a value which is not in the inner queue yet.
Carriers ==
    {p \in Producer : at[p] \in {"push", "pushWaits"} \/ oat[p] \in {"push", "cvWaits"}}

\* The values that the producer has handed out, and the one of Holds.
Given == 0 .. nextValue - 1

HeldValue == IF Holds THEN {val[Consumer]} ELSE {}

\* The values in y, h, q and with the threads of C are different ones of G.
Apart(y, h, q, C, w, G) ==
    /\ \A i \in 1 .. Len(y) : y[i] \in G /\ y[i] \notin h
    /\ \A i, j \in 1 .. Len(y) : y[i] = y[j] => i = j
    /\ \A i \in 1 .. Len(q) : q[i] \in G /\ q[i] \notin h /\ \A j \in 1 .. Len(y) : y[j] # q[i]
    /\ \A i, j \in 1 .. Len(q) : q[i] = q[j] => i = j
    /\ h \subseteq G
    /\ \A p \in C : /\ w[p] \in G /\ w[p] \notin h
                    /\ \A i \in 1 .. Len(y) : y[i] # w[p]
                    /\ \A i \in 1 .. Len(q) : q[i] # w[p]
    /\ \A p, r \in C : w[p] = w[r] => p = r

\* Every value is in one place only ...
Flow == Apart(yielded, HeldValue, queue, Carriers, val, Given)

\* ... and none is lost while the generator goes on and nothing was thrown.
Lossless == outcome = "running" /\ threw = {}

Count == Lossless => nextValue = Passed + Cardinality(Carriers)

\* What a thread that has thrown, or whose push failed, leaves behind.
Told(t) ==
    /\ t \in threw => exception \/ (pc[t] = "throws" /\ at[t] = "pushException")
    /\ at[t] = "pushException" \/ pc[t] = "throws" => t \in threw
    /\ at[t] = "finish" => pc[t] \in {"finishes", "joins"}
    /\ at[t] = "out" /\ pc[t] = "pushes" /\ oat[t] \notin {"push", "cvWaits"} /\ ret[t] # "true" => finish

\* When the queue may be finished, and what the end of it means.
AllLeft == Unfinished = {} /\ threw = {} /\ nextValue = NumValues

Ended ==
    /\ outcome = "running" <=> pc[Consumer] \in {"pops", "popping", "yields"}
    /\ pc[Consumer] = "yields" => yielded # <<>>
    /\ exception => threw # {}
    /\ \A p \in Producer : pc[p] = "finishes" => Unfinished = {}
    /\ Lossless =>
          \A p \in Producer : pc[p] \in {"leaves", "counted", "finishes", "done"} => nextValue = NumValues
    /\ outcome = "running" /\ finish /\ ~ exception => AllLeft
    /\ pc[Consumer] = "popping" /\ at[Consumer] = "out" /\ ret[Consumer] = "nullopt" =>
          finish /\ queue = <<>> /\ threw = {}

EndInv == CallInv /\ Flow /\ Count /\ Ended /\ \A t \in Thread : Told(t)

-----------------------------------------------------------------------------

\* Values that move from one place to the next stay apart.
LEMMA ApartLess ==
  ASSUME NEW y, NEW h, NEW q, NEW C, NEW w, NEW G, Apart(y, h, q, C, w, G),
         NEW g \in SUBSET h, NEW D \in SUBSET C, NEW x, \A p \in D : x[p] = w[p],
         NEW H, G \subseteq H
  PROVE  Apart(y, g, q, D, x, H)
BY Zenon DEF Apart

LEMMA ApartMore ==
  ASSUME NEW y, NEW h, NEW q, NEW C, NEW w, NEW G, Apart(y, h, q, C, w, G),
         NEW v, v \notin G, NEW p, NEW x, x[p] = v, \A r \in C : x[r] = w[r]
  PROVE  Apart(y, h, q, C \cup {p}, x, G \cup {v})
BY Zenon DEF Apart

LEMMA ApartPush ==
  ASSUME NEW S, NEW y, NEW h, NEW q \in Seq(S), NEW C, NEW w, NEW G, Apart(y, h, q, C, w, G),
         NEW p \in C, w[p] \in S
  PROVE  Apart(y, h, Append(q, w[p]), C \ {p}, w, G)
<1> DEFINE r == Append(q, w[p])
<1>1. /\ \A i \in 1 .. Len(r) : i \in 1 .. Len(q) \/ i = Len(q) + 1
      /\ r[Len(q) + 1] = w[p] /\ \A i \in 1 .. Len(q) : r[i] = q[i]
  OBVIOUS
<1> HIDE DEF r
<1>2. /\ \A i \in 1 .. Len(r) : r[i] \in G /\ r[i] \notin h /\ \A j \in 1 .. Len(y) : y[j] # r[i]
      /\ \A s \in C \ {p} : \A i \in 1 .. Len(r) : r[i] # w[s]
  BY Zenon, <1>1 DEF Apart
<1>3. \A i, j \in 1 .. Len(r) : r[i] = r[j] => i = j
  BY <1>1 DEF Apart
<1>4. Apart(y, h, r, C \ {p}, w, G)
  BY Zenon, <1>2, <1>3 DEF Apart
<1> QED BY Zenon, <1>4 DEF r

LEMMA ApartPop ==
  ASSUME NEW S, NEW y, NEW q \in Seq(S), NEW C, NEW w, NEW G, Apart(y, {}, q, C, w, G), q # <<>>
  PROVE  Apart(y, {Head(q)}, Tail(q), C, w, G)
<1> DEFINE r == Tail(q)
<1>1. /\ Head(q) = q[1] /\ 1 \in 1 .. Len(q)
      /\ \A i \in 1 .. Len(r) : r[i] = q[i + 1] /\ i + 1 \in 1 .. Len(q) /\ i + 1 # 1
      /\ \A i, j \in 1 .. Len(r) : i + 1 = j + 1 => i = j
  OBVIOUS
<1> HIDE DEF r
<1>2. \A i \in 1 .. Len(r) : r[i] \in G /\ r[i] # Head(q) /\ \A j \in 1 .. Len(y) : y[j] # r[i]
  BY <1>1 DEF Apart
<1>3. \A i, j \in 1 .. Len(r) : r[i] = r[j] => i = j
  BY <1>1 DEF Apart
<1>4. /\ \A i \in 1 .. Len(y) : y[i] \in G /\ y[i] # Head(q)
      /\ \A p \in C : w[p] # Head(q) /\ \A i \in 1 .. Len(r) : r[i] # w[p]
      /\ Head(q) \in G
  BY <1>1 DEF Apart
<1>5. Apart(y, {Head(q)}, r, C, w, G)
  BY Zenon, <1>2, <1>3, <1>4 DEF Apart
<1> QED BY Zenon, <1>5 DEF r

LEMMA ApartYield ==
  ASSUME NEW S, NEW y \in Seq(S), NEW q, NEW C, NEW w, NEW G, NEW v \in S, Apart(y, {v}, q, C, w, G)
  PROVE  Apart(Append(y, v), {}, q, C, w, G)
<1> DEFINE z == Append(y, v)
<1>1. /\ \A i \in 1 .. Len(z) : i \in 1 .. Len(y) \/ i = Len(y) + 1
      /\ z[Len(y) + 1] = v /\ \A i \in 1 .. Len(y) : z[i] = y[i]
  OBVIOUS
<1> HIDE DEF z
<1>2. /\ \A i \in 1 .. Len(z) : z[i] \in G /\ \A j \in 1 .. Len(q) : z[i] # q[j]
      /\ \A p \in C : \A i \in 1 .. Len(z) : z[i] # w[p]
  BY Zenon, <1>1 DEF Apart
<1>3. \A i, j \in 1 .. Len(z) : z[i] = z[j] => i = j
  BY <1>1 DEF Apart
<1>4. Apart(z, {}, q, C, w, G)
  BY Zenon, <1>2, <1>3 DEF Apart
<1> QED BY Zenon, <1>4 DEF z

\* Which threads are where.
LEMMA Whereabouts ==
  ASSUME CallInv
  PROVE  /\ Typing /\ Scalars /\ Consumer \in Thread /\ Consumer \notin Producer /\ Producer \subseteq Thread
         /\ \A t \in Thread :
               /\ t \in Producer <=> t # Consumer
               /\ at[t] \in {"push", "pushWaits", "pushNotifies"} \/ oat[t] \in {"push", "cvWaits", "inPush"} =>
                     t \in Producer /\ pc[t] = "pushes"
               /\ at[t] \in {"push", "pushWaits"} \/ oat[t] \in {"push", "cvWaits"} => val[t] \in Value
               /\ at[t] \in {"pop", "popWaits", "popNotifies"} => t = Consumer /\ pc[t] = "popping"
               /\ at[t] \in {"finish", "pushException", "notifiesAll"} =>
                     pc[t] \in {"throws", "finishes", "joins"}
               /\ pc[t] \in {"throws", "finishes"} => t \in Producer
               /\ pc[t] \in {"popping", "joins"} => t = Consumer
               /\ pc[t] \in Outside => at[t] = "out" /\ oat[t] = "out"
               /\ oat[t] \in {"push", "cvWaits"} => at[t] = "out"
         /\ Holds => val[Consumer] \in Value
<1>1. Typing /\ Scalars /\ (\A t \in Thread : ThreadInv(t)) /\ Consumer \in Thread
      /\ Consumer \notin Producer /\ Producer \subseteq Thread
  BY Zenon, Threads, ThreadAssumption DEF CallInv, Typing
<1>2. \A t \in Thread : t \in Producer <=> t # Consumer
  BY Zenon, ThreadAssumption
<1>3. /\ \A p \in {"pushes", "throws", "finishes"} : p \notin Role(Consumer)
      /\ \A t \in Thread \ {Consumer} : "popping" \notin Role(t) /\ "joins" \notin Role(t)
  BY Zenon DEF Role, Running
<1>4. ASSUME NEW t \in Thread
      PROVE  /\ at[t] \in {"push", "pushWaits", "pushNotifies"} \/ oat[t] \in {"push", "cvWaits", "inPush"} =>
                   pc[t] = "pushes"
             /\ at[t] \in {"push", "pushWaits"} \/ oat[t] \in {"push", "cvWaits"} => val[t] \in Value
             /\ at[t] \in {"pop", "popWaits", "popNotifies"} => pc[t] = "popping"
             /\ at[t] \in {"finish", "pushException", "notifiesAll"} =>
                   pc[t] \in {"throws", "finishes", "joins"}
             /\ pc[t] \in Outside => at[t] = "out" /\ oat[t] = "out"
             /\ oat[t] \in {"push", "cvWaits"} => at[t] = "out"
             /\ at[t] = "popNotifies" \/ (at[t] = "out" /\ ret[t] = "value") => val[t] \in Value
             /\ pc[t] \in Role(t)
  BY Zenon, <1>1 DEF ThreadInv, Local
<1> QED BY ZenonT(40), <1>1, <1>2, <1>3, <1>4 DEF Holds

\* A thread that another thread's step leaves alone, or wakes.
Woken(u) ==
    /\ UNCHANGED <<ret[u], val[u], pc[u]>>
    /\ \/ UNCHANGED <<at[u], oat[u]>>
       \/ at[u] = "popWaits" /\ at'[u] = "pop" /\ UNCHANGED oat[u]
       \/ at[u] = "pushWaits" /\ at'[u] = "push" /\ UNCHANGED oat[u]
       \/ oat[u] = "cvWaits" /\ oat'[u] = "push" /\ UNCHANGED at[u]

\* Thread t puts a value into the inner queue, or takes one out of it ...
Enqueues(t) ==
    /\ at[t] = "push" /\ at'[t] = "pushNotifies" /\ UNCHANGED <<val[t], finish, exception>>
    /\ ~ finish /\ queue' = Append(queue, val[t])

Dequeues(t) ==
    /\ at[t] = "pop" /\ at'[t] = "popNotifies" /\ UNCHANGED <<finish, exception>>
    /\ queue # <<>> /\ queue' = Tail(queue) /\ val'[t] = Head(queue)

\* ... finds the end of the queue, or announces it ...
SeesEnd(t) ==
    /\ UNCHANGED <<queue, finish, exception>> /\ at'[t] = "out"
    /\ \/ at[t] = "push" /\ finish
       \/ at[t] = "pop" /\ ret'[t] = "exception"
       \/ at[t] = "pop" /\ ret'[t] = "nullopt" /\ finish /\ ~ exception /\ queue = <<>>

Announces(t) ==
    /\ UNCHANGED queue /\ finish'
    /\ \/ at[t] = "pushException" /\ at'[t] \in {"out", "notifiesAll"} /\ exception'
       \/ at[t] = "finish" /\ at'[t] = "notifiesAll" /\ (exception' <=> exception)

\* ... or moves no value.
Waits(t) ==
    /\ UNCHANGED <<queue, finish, exception>>
    /\ \/ at[t] \in {"push", "pushWaits"} /\ at'[t] \in {"push", "pushWaits"} /\ UNCHANGED val[t]
       \/ at[t] \in {"pop", "popWaits"} /\ at'[t] \in {"pop", "popWaits"}
       \/ at[t] = "pushNotifies" /\ at'[t] = "out" /\ ret'[t] = "true"
       \/ at[t] = "popNotifies" /\ at'[t] = "out" /\ ret'[t] = "value" /\ UNCHANGED val[t]
       \/ at[t] = "notifiesAll" /\ at'[t] = "out"

InnerEffect(t) ==
    /\ \A u \in Thread \ {t} : Woken(u)
    /\ UNCHANGED <<oat, pc, nextValue, threw, yielded, outcome, ordered>>
    /\ Enqueues(t) \/ Dequeues(t) \/ SeesEnd(t) \/ Announces(t) \/ Waits(t)

LEMMA InnerSteps ==
  ASSUME CallInv, NEW t \in Thread, UNCHANGED <<orderedVars, managerVars>>,
         QueueStep(t) \/ SpuriousWakeup(t)
  PROVE  InnerEffect(t)
<1>0. /\ Typing /\ UNCHANGED <<oat, pc, nextValue, threw, yielded, outcome, ordered>>
      /\ (exception => finish)
  BY Zenon DEF CallInv, Typing, Scalars, orderedVars, managerVars
<1>1. CASE PushLocked(t)
  BY Zenon, <1>0, <1>1 DEF InnerEffect, Woken, Enqueues, SeesEnd, Waits, PushLocked, Go, Return, queueVars, Typing
<1>2. CASE PushExceptionLocked(t)
  BY <1>0, <1>2 DEF InnerEffect, Woken, Announces, PushExceptionLocked, Go, Return, queueVars, Typing
<1>3. CASE FinishLocked(t)
  BY Zenon, <1>0, <1>3 DEF InnerEffect, Woken, Announces, FinishLocked, Go, Typing
<1>4. CASE PopLocked(t)
  BY Zenon, <1>0, <1>4 DEF InnerEffect, Woken, Dequeues, SeesEnd, Waits, PopLocked, Go, Return, queueVars, Typing
<1>5. CASE PushNotifies(t)
  BY Zenon, <1>0, <1>5 DEF InnerEffect, Woken, Waits, PushNotifies, NotifyOne, Waiting, queueVars, Typing
<1>6. CASE PopNotifies(t)
  BY Zenon, <1>0, <1>6 DEF InnerEffect, Woken, Waits, PopNotifies, NotifyOne, Waiting, queueVars, Typing
<1>7. CASE NotifiesAll(t)
  BY Zenon, <1>0, <1>7 DEF InnerEffect, Woken, Waits, NotifiesAll, queueVars, Typing
<1>8. CASE SpuriousWakeup(t)
  BY Zenon, <1>0, <1>8 DEF InnerEffect, Woken, Waits, SpuriousWakeup, Go, queueVars, Typing
<1> QED BY Zenon, <1>1, <1>2, <1>3, <1>4, <1>5, <1>6, <1>7, <1>8 DEF QueueStep

OrderedEffect(t) ==
    /\ \A u \in Thread \ {t} : Woken(u)
    /\ UNCHANGED <<queue, finish, exception, pc, nextValue, threw, yielded, outcome, ordered>>
    /\ \/ /\ oat[t] \in {"push", "cvWaits"} /\ oat'[t] \in {"push", "cvWaits"}
          /\ UNCHANGED <<at[t], ret[t], val[t]>>
       \/ oat[t] = "push" /\ ordFinish /\ oat'[t] = "out" /\ at'[t] = "out"
       \/ oat[t] = "push" /\ oat'[t] = "inPush" /\ at'[t] = "push" /\ UNCHANGED val[t]
       \/ /\ oat[t] \notin {"push", "cvWaits"} /\ oat'[t] \notin {"push", "cvWaits"}
          /\ UNCHANGED <<at[t], ret[t], val[t]>>

LEMMA OrderedSteps ==
  ASSUME CallInv, NEW t \in Thread, UNCHANGED managerVars, OrderedStep(t) \/ OSpuriousWakeup(t)
  PROVE  OrderedEffect(t)
<1>0. Typing /\ UNCHANGED <<pc, nextValue, threw, yielded, outcome, ordered>>
  BY Zenon DEF CallInv, managerVars
<1>1. CASE OPushLocked(t)
  BY Zenon, <1>0, <1>1 DEF OrderedEffect, Woken, OPushLocked, OGo, Return, Call, queueVars, callVars, Typing
<1>2. CASE OPushUnlocks(t)
  BY Zenon, <1>0, <1>2 DEF OrderedEffect, Woken, OPushUnlocks, OGo, queueVars, callVars, Typing
<1>3. CASE OFinishInner(t)
  BY Zenon, <1>0, <1>3 DEF OrderedEffect, Woken, OFinishInner, OGo, queueVars, callVars, Typing
<1>4. CASE OFinishLocked(t)
  BY Zenon, <1>0, <1>4 DEF OrderedEffect, Woken, OFinishLocked, OGo, queueVars, callVars, Typing
<1>5. CASE ONotifies(t)
  BY Zenon, <1>0, <1>5 DEF OrderedEffect, Woken, ONotifies, queueVars, callVars, Typing
<1>6. CASE OSpuriousWakeup(t)
  BY Zenon, <1>0, <1>6 DEF OrderedEffect, Woken, OSpuriousWakeup, OGo, queueVars, callVars, Typing
<1> QED BY Zenon, <1>1, <1>2, <1>3, <1>4, <1>5, <1>6 DEF OrderedStep

-----------------------------------------------------------------------------

\* A step that moves no value, and loses none unless the end is in sight.
Quiet ==
    /\ UNCHANGED <<queue, yielded>> /\ nextValue' \in {nextValue, nextValue + 1}
    /\ Holds' <=> Holds
    /\ Holds => UNCHANGED val[Consumer]
    /\ Carriers' \subseteq Carriers /\ \A p \in Carriers' : UNCHANGED val[p]
    /\ Lossless' => Lossless /\ Carriers' = Carriers /\ nextValue' = nextValue

LEMMA Ranges == ASSUME NEW m \in Nat, NEW n \in Nat, m <= n PROVE 0 .. m - 1 \subseteq 0 .. n - 1
OBVIOUS

LEMMA QuietKeeps == ASSUME Scalars, Flow, Count, Quiet PROVE Flow' /\ Count'
<1>1. HeldValue' = HeldValue /\ Passed' = Passed
  BY Zenon DEF Quiet, HeldValue, Held, Passed
<1>2. Given \subseteq Given'
  <2>1. nextValue \in Nat /\ nextValue' \in Nat /\ nextValue <= nextValue'
    BY ThreadAssumption DEF Quiet, Scalars
  <2> QED BY Zenon, <2>1, Ranges DEF Given
<1>3. Apart(yielded, HeldValue, queue, Carriers', val', Given')
  BY Zenon, <1>2, ApartLess DEF Flow, Quiet
<1>4. Flow'
  BY Zenon, <1>1, <1>3 DEF Flow, Quiet
<1>5. Count'
  BY Zenon, <1>1 DEF Count, Quiet
<1> QED BY Zenon, <1>4, <1>5

\* After the end nobody carries a value any more, unless one is lost.
LEMMA EndOfCarrying ==
  ASSUME CallInv, Ended, Lossless, finish
  PROVE  Unfinished = {} /\ Carriers = {} /\ nextValue = NumValues
<1>1. AllLeft
  BY Zenon DEF Ended, Lossless
<1>2. Carriers \subseteq Unfinished
  BY Zenon, Whereabouts DEF Carriers, Unfinished, Running
<1> QED BY Zenon, <1>1, <1>2 DEF AllLeft

LEMMA FiniteCarriers == IsFiniteSet(Carriers) /\ IsFiniteSet(Carriers')
BY Zenon, ThreadAssumption, FS_Subset DEF Carriers

\* The steps in the inner queue.
LEMMA InnerFlows ==
  ASSUME CallInv, Flow, Count, Ended, NEW t \in Thread, InnerEffect(t)
  PROVE  Flow' /\ Count'
<1>0. /\ Scalars /\ Consumer \in Thread /\ Producer \subseteq Thread /\ Consumer \notin Producer
      /\ UNCHANGED <<oat, pc, nextValue, threw, yielded, outcome>>
      /\ \A u \in Thread \ {t} : Woken(u)
  BY Zenon, Whereabouts DEF InnerEffect
<1>1. \A p \in Producer \ {t} : UNCHANGED val[p] /\ (p \in Carriers' <=> p \in Carriers)
  BY Zenon, <1>0 DEF Woken, Carriers
<1>2. /\ Given' = Given /\ (Lossless' <=> Lossless)
      /\ Carriers \subseteq Producer /\ Carriers' \subseteq Producer
  BY Zenon, <1>0 DEF Given, Lossless, Carriers
<1>3. t # Consumer => (Holds' <=> Holds) /\ UNCHANGED val[Consumer]
  BY Zenon, <1>0 DEF Woken, Holds
<1>4. CASE SeesEnd(t) \/ Announces(t) \/ Waits(t)
  <2>1. (Holds' <=> Holds) /\ (Holds => UNCHANGED val[Consumer])
    BY Zenon, <1>0, <1>3, <1>4, Whereabouts DEF Holds, SeesEnd, Announces, Waits
  <2>2. t \in Carriers' => t \in Carriers /\ UNCHANGED val[t]
    BY Zenon, <1>0, <1>4, Whereabouts DEF Carriers, SeesEnd, Announces, Waits
  <2>3. t \in Carriers /\ Lossless => t \in Carriers'
    BY Zenon, <1>0, <1>4, Whereabouts, EndOfCarrying DEF Carriers, SeesEnd, Announces, Waits
  <2>4. UNCHANGED queue
    BY Zenon, <1>4 DEF SeesEnd, Announces, Waits
  <2>5. Quiet
    BY <1>0, <1>1, <1>2, <2>1, <2>2, <2>3, <2>4 DEF Quiet
  <2> QED BY Zenon, <1>0, <2>5, QuietKeeps
<1>5. CASE Enqueues(t)
  <2>1. /\ t \in Producer /\ val[t] \in Value /\ t \in Carriers /\ t \notin Carriers'
        /\ UNCHANGED val[t] /\ queue' = Append(queue, val[t])
    BY Zenon, <1>0, <1>5, Whereabouts DEF Enqueues, Carriers
  <2>2. Carriers' = Carriers \ {t} /\ Carriers = Carriers' \cup {t} /\ \A p \in Carriers' : val'[p] = val[p]
    BY Zenon, <1>1, <1>2, <2>1
  <2>3. (Holds' <=> Holds) /\ HeldValue' = HeldValue /\ Held' = Held
    BY Zenon, <1>0, <1>3, <2>1 DEF HeldValue, Held
  <2>4. queue \in Seq(Value) /\ Len(queue) \in Nat /\ Len(queue') = Len(queue) + 1 /\ Len(yielded) \in Nat
    BY <1>0, <2>1 DEF Scalars
  <2>5. Apart(yielded, HeldValue, queue', Carriers', val, Given)
    BY Zenon, <2>1, <2>2, <2>4, ApartPush DEF Flow
  <2>6. Apart(yielded, HeldValue, queue', Carriers', val', Given)
    BY ZenonT(40), <2>2, <2>5, ApartLess
  <2>7. Flow'
    BY Zenon, <1>0, <1>2, <2>3, <2>6 DEF Flow
  <2>8. Cardinality(Carriers) = Cardinality(Carriers') + 1 /\ Cardinality(Carriers') \in Nat
    BY Zenon, <2>1, <2>2, FiniteCarriers, Counts
  <2>9. Held \in {0, 1}
    BY Zenon DEF Held
  <2>10. Passed + Cardinality(Carriers) = Passed' + Cardinality(Carriers')
    BY <1>0, <2>3, <2>4, <2>8, <2>9 DEF Passed
  <2> QED BY Zenon, <1>0, <1>2, <2>7, <2>10 DEF Count
<1>6. CASE Dequeues(t)
  <2>1. /\ t = Consumer /\ ~ Holds /\ Holds' /\ queue # <<>> /\ queue' = Tail(queue)
        /\ val'[Consumer] = Head(queue)
    BY Zenon, <1>0, <1>6, Whereabouts DEF Dequeues, Holds
  <2>2. HeldValue = {} /\ HeldValue' = {Head(queue)} /\ Held = 0 /\ Held' = 1
    BY Zenon, <2>1 DEF HeldValue, Held
  <2>3. Carriers' = Carriers /\ \A p \in Carriers : val'[p] = val[p]
    BY Zenon, <1>0, <1>1, <1>2, <2>1
  <2>4. queue \in Seq(Value) /\ Len(queue) \in Nat /\ Len(queue') = Len(queue) - 1 /\ Len(yielded) \in Nat
    BY <1>0, <2>1 DEF Scalars
  <2>5. Apart(yielded, HeldValue', queue', Carriers, val, Given)
    BY Zenon, <2>1, <2>2, <2>4, ApartPop DEF Flow
  <2>6. Apart(yielded, HeldValue', queue', Carriers, val', Given)
    BY Zenon, <2>3, <2>5, ApartLess
  <2>7. Flow'
    BY Zenon, <1>0, <1>2, <2>3, <2>6 DEF Flow
  <2>8. Passed' = Passed
    BY <1>0, <2>2, <2>4 DEF Passed
  <2> QED BY Zenon, <1>0, <1>2, <2>3, <2>7, <2>8 DEF Count
<1> QED BY Zenon, <1>4, <1>5, <1>6 DEF InnerEffect

\* The steps in the ordered queue.
LEMMA OrderedFlows ==
  ASSUME CallInv, Flow, Count, Ended, NEW t \in Thread, OrderedEffect(t)
  PROVE  Flow' /\ Count'
<1>0. /\ Scalars /\ Consumer \in Thread /\ Producer \subseteq Thread /\ Consumer \notin Producer
      /\ UNCHANGED <<queue, pc, nextValue, threw, yielded, outcome>>
      /\ \A u \in Thread \ {t} : Woken(u)
  BY Zenon, Whereabouts DEF OrderedEffect
<1>1. \A p \in Producer \ {t} : UNCHANGED val[p] /\ (p \in Carriers' <=> p \in Carriers)
  BY Zenon, <1>0 DEF Woken, Carriers
<1>2. /\ (Lossless' <=> Lossless) /\ Carriers \subseteq Producer /\ Carriers' \subseteq Producer
  BY Zenon, <1>0 DEF Lossless, Carriers
<1>3. (Holds' <=> Holds) /\ (Holds => UNCHANGED val[Consumer])
  <2>1. CASE t # Consumer
    BY Zenon, <1>0, <2>1 DEF Woken, Holds
  <2>2. CASE t = Consumer
    <3>1. oat[t] \notin {"push", "cvWaits"}
      BY Zenon, <2>2, Whereabouts
    <3> QED BY Zenon, <1>0, <2>2, <3>1 DEF OrderedEffect, Holds
  <2> QED BY Zenon, <2>1, <2>2
<1>4. t \in Carriers' => t \in Carriers /\ UNCHANGED val[t]
  BY Zenon, <1>0, Whereabouts DEF Carriers, OrderedEffect
<1>5. t \in Carriers /\ Lossless => t \in Carriers'
  <2>1. t \in Carriers /\ t \notin Carriers' => finish
    BY Zenon, <1>0, Whereabouts DEF Carriers, OrderedEffect, Scalars
  <2> QED BY Zenon, <2>1, EndOfCarrying
<1>6. Quiet
  BY <1>0, <1>1, <1>2, <1>3, <1>4, <1>5 DEF Quiet
<1> QED BY Zenon, <1>0, <1>6, QuietKeeps

\* The steps of a producer thread and those of the generator.
TaskEffect(p) ==
    /\ \A u \in Thread \ {p} : Woken(u)
    /\ UNCHANGED <<queue, finish, exception, yielded, outcome, ordered>>
    /\ at[p] = "out" /\ oat[p] = "out"
    /\ \/ /\ pc[p] = "produces" /\ pc'[p] = "pushes" /\ nextValue < NumValues
          /\ nextValue' = nextValue + 1 /\ val'[p] = nextValue /\ UNCHANGED threw
          /\ at'[p] = "push" \/ (at'[p] = "out" /\ oat'[p] = "push")
       \/ /\ pc[p] = "produces" /\ pc'[p] = "throws" /\ threw' = threw \cup {p}
          /\ nextValue' \in {nextValue, nextValue + 1}
          /\ at'[p] = "pushException" /\ oat'[p] \notin {"push", "cvWaits"}
       \/ /\ pc[p] = "counted" /\ pc'[p] = "finishes" /\ numThreads <= 0 /\ UNCHANGED <<nextValue, threw>>
          /\ at'[p] = "finish" /\ oat'[p] \notin {"push", "cvWaits"}
       \/ /\ UNCHANGED <<at[p], oat[p], nextValue, threw>>
          /\ \/ pc[p] = "pushes" /\ ret[p] = "true" /\ pc'[p] = "produces"
             \/ pc[p] = "pushes" /\ ret[p] # "true" /\ pc'[p] = "leaves"
             \/ pc[p] = "produces" /\ nextValue = NumValues /\ pc'[p] = "leaves"
             \/ pc[p] = "throws" /\ pc'[p] = "leaves"
             \/ pc[p] = "leaves" /\ pc'[p] = "counted"
             \/ pc[p] \in {"counted", "finishes"} /\ pc'[p] = "done"

LEMMA TaskSteps ==
  ASSUME CallInv, NEW p \in Producer, TaskStep(p)
  PROVE  TaskEffect(p)
<1>0. Typing /\ p \in Thread /\ UNCHANGED ordered /\ (pc[p] \in Outside => at[p] = "out" /\ oat[p] = "out")
  BY Zenon, Whereabouts DEF TaskStep
<1>1. CASE Produce(p)
  BY Zenon, <1>0, <1>1 DEF TaskEffect, Woken, Produce, Push, OrderedPush, Call, OGo, Idle, Become,
       queueVars, orderedVars, Typing
<1>2. CASE Throw(p)
  BY Zenon, <1>0, <1>2 DEF TaskEffect, Woken, Throw, Finish, OrderedFinish, Call, OGo, Idle, Become,
       queueVars, orderedVars, Typing
<1>3. CASE Pushed(p)
  BY Zenon, <1>0, <1>3 DEF TaskEffect, Woken, Pushed, Idle, Become, queueVars, callVars, orderedVars, Typing
<1>4. CASE Exhausted(p)
  BY Zenon, <1>0, <1>4 DEF TaskEffect, Woken, Exhausted, Become, Outside, queueVars, callVars, orderedVars, Typing
<1>5. CASE ExceptionPushed(p)
  BY Zenon, <1>0, <1>5 DEF TaskEffect, Woken, ExceptionPushed, Idle, Become, queueVars, callVars, orderedVars, Typing
<1>6. CASE CountDown(p)
  BY Zenon, <1>0, <1>6 DEF TaskEffect, Woken, CountDown, Become, Outside, queueVars, callVars, orderedVars, Typing
<1>7. CASE LastFinishes(p)
  BY ZenonT(40), <1>0, <1>7 DEF TaskEffect, Woken, LastFinishes, Finish, OrderedFinish, Call, OGo, Become, Outside,
       queueVars, callVars, orderedVars, Typing
<1>8. CASE TaskEnds(p)
  BY Zenon, <1>0, <1>8 DEF TaskEffect, Woken, TaskEnds, Idle, Become, queueVars, callVars, orderedVars, Typing
<1> QED BY Zenon, <1>1, <1>2, <1>3, <1>4, <1>5, <1>6, <1>7, <1>8 DEF TaskStep

GeneratorEffect ==
    /\ \A u \in Thread \ {Consumer} : Woken(u)
    /\ UNCHANGED <<queue, finish, exception, nextValue, threw, ordered>>
    /\ at[Consumer] = "out"
    /\ \/ /\ pc[Consumer] = "popping" /\ ret[Consumer] = "value" /\ pc'[Consumer] = "yields"
          /\ yielded' = Append(yielded, val[Consumer]) /\ UNCHANGED <<at[Consumer], outcome>>
       \/ /\ pc[Consumer] = "popping" /\ ret[Consumer] \in {"nullopt", "exception"}
          /\ pc'[Consumer] = "closes"
          /\ outcome' = ret[Consumer] /\ UNCHANGED <<at[Consumer], yielded>>
       \/ /\ pc[Consumer] = "yields" /\ pc'[Consumer] = "closes"
          /\ outcome' = "left" /\ UNCHANGED <<at[Consumer], yielded>>
       \/ /\ UNCHANGED <<yielded, outcome>>
          /\ \/ pc[Consumer] = "pops" /\ pc'[Consumer] = "popping" /\ at'[Consumer] = "pop"
             \/ pc[Consumer] = "yields" /\ pc'[Consumer] = "pops" /\ at'[Consumer] = "out"
             \/ pc[Consumer] = "closes" /\ pc'[Consumer] = "joins" /\ at'[Consumer] = "finish"
             \/ pc[Consumer] = "joins" /\ pc'[Consumer] = "done" /\ at'[Consumer] = "out"

LEMMA GeneratorSteps == ASSUME CallInv, GeneratorStep PROVE GeneratorEffect
<1>0. /\ Typing /\ Consumer \in Thread /\ UNCHANGED ordered
      /\ (pc[Consumer] \in Outside => at[Consumer] = "out" /\ oat[Consumer] = "out")
  BY Zenon, Whereabouts DEF GeneratorStep
<1>1. CASE Pop
  BY Zenon, <1>0, <1>1 DEF GeneratorEffect, Woken, Pop, Call, Become, queueVars, orderedVars, Typing
<1>2. CASE Popped
  BY Zenon, <1>0, <1>2 DEF GeneratorEffect, Woken, Popped, Idle, Become, queueVars, callVars, orderedVars, Typing
<1>3. CASE Resume
  BY Zenon, <1>0, <1>3 DEF GeneratorEffect, Woken, Resume, Become, Outside, queueVars, callVars, orderedVars, Typing
<1>4. CASE QueueFinisher
  BY Zenon, <1>0, <1>4 DEF GeneratorEffect, Woken, QueueFinisher, Finish, OrderedFinish, Call, OGo, Become,
       queueVars, orderedVars, Typing
<1>5. CASE Join
  BY Zenon, <1>0, <1>5 DEF GeneratorEffect, Woken, Join, Idle, Become, queueVars, callVars, orderedVars, Typing
<1> QED BY Zenon, <1>1, <1>2, <1>3, <1>4, <1>5 DEF GeneratorStep

\* The producer threads and the generator.
LEMMA TaskFlows ==
  ASSUME CallInv, Flow, Count, NEW p \in Producer, TaskEffect(p)
  PROVE  Flow' /\ Count'
<1>0. /\ Scalars /\ Consumer \in Thread /\ Producer \subseteq Thread /\ p # Consumer
      /\ UNCHANGED <<queue, yielded, outcome>> /\ Woken(Consumer)
      /\ \A u \in Producer \ {p} : Woken(u)
  BY Zenon, Whereabouts DEF TaskEffect
<1>1. \A r \in Producer \ {p} : UNCHANGED val[r] /\ (r \in Carriers' <=> r \in Carriers)
  BY Zenon, <1>0 DEF Woken, Carriers
<1>2. /\ (Holds' <=> Holds) /\ UNCHANGED val[Consumer]
      /\ Carriers \subseteq Producer /\ Carriers' \subseteq Producer /\ p \notin Carriers
  BY Zenon, <1>0 DEF Woken, Holds, Carriers, TaskEffect
<1>3. CASE p \notin Carriers'
  <2>1. Carriers' = Carriers /\ \A r \in Carriers : UNCHANGED val[r]
    BY <1>1, <1>2, <1>3
  <2>2. nextValue' \in {nextValue, nextValue + 1} /\ (Lossless' => Lossless /\ nextValue' = nextValue)
    BY Zenon, <1>0, <1>3 DEF TaskEffect, Lossless, Carriers
  <2>3. Quiet
    BY Zenon, <1>0, <1>2, <2>1, <2>2 DEF Quiet
  <2> QED BY Zenon, <1>0, <2>3, QuietKeeps
<1>4. CASE p \in Carriers'
  <2>1. nextValue' = nextValue + 1 /\ val'[p] = nextValue /\ UNCHANGED threw
    BY Zenon, <1>4 DEF TaskEffect, Carriers
  <2>2. Carriers' = Carriers \cup {p} /\ \A r \in Carriers : val'[r] = val[r]
    BY Zenon, <1>1, <1>2, <1>4
  <2>3. nextValue \in Nat /\ nextValue \notin Given /\ Given' = Given \cup {nextValue}
    BY <1>0, <2>1, ThreadAssumption DEF Given, Scalars
  <2>4. HeldValue' = HeldValue /\ Held' = Held /\ Held \in {0, 1} /\ Passed' = Passed
    BY Zenon, <1>0, <1>2 DEF HeldValue, Held, Passed
  <2>5. Apart(yielded, HeldValue, queue, Carriers \cup {p}, val', Given \cup {nextValue})
    BY Zenon, <2>1, <2>2, <2>3, ApartMore DEF Flow
  <2>6. Flow'
    BY Zenon, <1>0, <2>2, <2>3, <2>4, <2>5 DEF Flow
  <2>7. Cardinality(Carriers') = Cardinality(Carriers) + 1 /\ Cardinality(Carriers) \in Nat
    BY Zenon, <1>2, <2>2, FiniteCarriers, Counts
  <2>8. Passed \in Nat
    BY <1>0, <2>4 DEF Passed, Scalars
  <2>9. nextValue = Passed + Cardinality(Carriers) => nextValue' = Passed' + Cardinality(Carriers')
    BY <2>1, <2>3, <2>4, <2>7, <2>8
  <2> QED BY Zenon, <1>0, <2>1, <2>6, <2>9 DEF Count, Lossless
<1> QED BY Zenon, <1>3, <1>4

LEMMA GeneratorFlows ==
  ASSUME CallInv, Flow, Count, GeneratorEffect
  PROVE  Flow' /\ Count'
<1>0. /\ Scalars /\ Consumer \in Thread /\ Producer \subseteq Thread \ {Consumer}
      /\ UNCHANGED <<queue, nextValue, threw>> /\ at[Consumer] = "out"
      /\ \A u \in Producer : Woken(u)
  BY Zenon, Whereabouts DEF GeneratorEffect
<1>1. Carriers' = Carriers /\ \A p \in Carriers : UNCHANGED val[p]
  BY Zenon, <1>0 DEF Woken, Carriers
<1>2. Lossless' => Lossless
  BY Zenon, <1>0 DEF Lossless, GeneratorEffect
<1>3. CASE ~ Holds
  <2>1. ~ Holds' /\ UNCHANGED yielded
    BY Zenon, <1>0, <1>3 DEF GeneratorEffect, Holds
  <2>2. Quiet
    BY Zenon, <1>0, <1>1, <1>2, <1>3, <2>1 DEF Quiet
  <2> QED BY Zenon, <1>0, <2>2, QuietKeeps
<1>4. CASE Holds
  <2>1. yielded' = Append(yielded, val[Consumer]) /\ ~ Holds'
    BY Zenon, <1>0, <1>4 DEF GeneratorEffect, Holds
  <2>2. HeldValue = {val[Consumer]} /\ HeldValue' = {} /\ Held = 1 /\ Held' = 0
    BY Zenon, <1>4, <2>1 DEF HeldValue, Held
  <2>3. /\ val[Consumer] \in Value /\ yielded \in Seq(Value)
    BY Zenon, <1>0, <1>4, Whereabouts DEF Scalars
  <2>4. Apart(yielded', HeldValue', queue, Carriers, val, Given)
    BY Zenon, <2>1, <2>2, <2>3, ApartYield DEF Flow
  <2>5. Apart(yielded', HeldValue', queue, Carriers, val', Given)
    BY Zenon, <1>1, <2>4, ApartLess
  <2>6. Flow'
    BY Zenon, <1>0, <1>1, <2>5 DEF Flow, Given
  <2>7. Len(yielded') = Len(yielded) + 1 /\ Len(yielded) \in Nat /\ Len(queue) \in Nat
    BY <1>0, <2>1, <2>3 DEF Scalars
  <2>8. Passed' = Passed
    BY <1>0, <2>2, <2>7 DEF Passed
  <2> QED BY Zenon, <1>0, <1>1, <1>2, <2>6, <2>8 DEF Count
<1> QED BY Zenon, <1>3, <1>4

-----------------------------------------------------------------------------

\* The threads that do not take the step.
LEMMA ToldKept ==
  ASSUME NEW u \in Thread, Told(u), Woken(u), finish => finish', exception => exception',
         u \in threw' <=> u \in threw
  PROVE  Told(u)'
BY Zenon DEF Told, Woken

\* finish_ and pushedException_ are set by finish() and pushException() only.
LEMMA OnlyAnnounced ==
  ASSUME NEW t \in Thread, InnerEffect(t)
  PROVE  \/ UNCHANGED <<finish, exception>>
         \/ at[t] = "finish" /\ finish' /\ (exception' <=> exception)
         \/ at[t] = "pushException" /\ finish' /\ exception'
<1>1. CASE Announces(t)
  BY Zenon, <1>1 DEF Announces
<1>2. CASE Enqueues(t) \/ Dequeues(t) \/ SeesEnd(t) \/ Waits(t)
  BY Zenon, <1>2 DEF Enqueues, Dequeues, SeesEnd, Waits
<1> QED BY Zenon, <1>1, <1>2 DEF InnerEffect

LEMMA InnerTold ==
  ASSUME CallInv, \A u \in Thread : Told(u), NEW t \in Thread, InnerEffect(t)
  PROVE  \A u \in Thread : Told(u)'
<1>0. UNCHANGED <<oat, pc, threw>> /\ (\A u \in Thread \ {t} : Woken(u)) /\ Told(t)
  BY Zenon DEF InnerEffect
<1>1. (finish => finish') /\ (exception => exception')
  BY Zenon, OnlyAnnounced
<1>2. Told(t)'
  <2>1. CASE Enqueues(t) \/ Dequeues(t)
    BY Zenon, <1>0, <2>1, Whereabouts DEF Told, Enqueues, Dequeues
  <2>2. CASE SeesEnd(t)
    BY Zenon, <1>0, <2>2, Whereabouts DEF Told, SeesEnd
  <2>3. CASE Announces(t)
    BY Zenon, <1>0, <2>3 DEF Told, Announces
  <2>4. CASE Waits(t)
    BY Zenon, <1>0, <2>4, Whereabouts DEF Told, Waits
  <2> QED BY Zenon, <2>1, <2>2, <2>3, <2>4 DEF InnerEffect
<1> QED BY Zenon, <1>0, <1>1, <1>2, ToldKept

LEMMA OrderedTold ==
  ASSUME CallInv, \A u \in Thread : Told(u), NEW t \in Thread, OrderedEffect(t)
  PROVE  \A u \in Thread : Told(u)'
<1>0. /\ UNCHANGED <<finish, exception, pc, threw>> /\ (\A u \in Thread \ {t} : Woken(u)) /\ Told(t)
      /\ (ordFinish => finish)
  BY Zenon, Whereabouts DEF OrderedEffect, Scalars
<1>1. oat[t] = "push" => at[t] = "out"
  BY Zenon, Whereabouts
<1>2. Told(t)'
  <2>1. CASE UNCHANGED <<at[t], ret[t]>> /\ (oat[t] \in {"push", "cvWaits"} <=> oat'[t] \in {"push", "cvWaits"})
    BY Zenon, <1>0, <2>1 DEF Told
  <2>2. CASE oat[t] = "push" /\ at'[t] = "out" /\ ordFinish
    BY Zenon, <1>0, <1>1, <2>2 DEF Told
  <2>3. CASE oat[t] = "push" /\ at'[t] = "push"
    BY Zenon, <1>0, <1>1, <2>3 DEF Told
  <2> QED BY Zenon, <2>1, <2>2, <2>3 DEF OrderedEffect
<1> QED BY Zenon, <1>0, <1>2, ToldKept

LEMMA TaskTold ==
  ASSUME CallInv, \A u \in Thread : Told(u), NEW p \in Producer, TaskEffect(p)
  PROVE  \A u \in Thread : Told(u)'
<1>0. /\ UNCHANGED <<finish, exception>> /\ (\A u \in Thread \ {p} : Woken(u)) /\ p \in Thread /\ Told(p)
  BY Zenon, Whereabouts DEF TaskEffect
<1>1. \A u \in Thread \ {p} : u \in threw' <=> u \in threw
  BY Zenon DEF TaskEffect
<1>2. Told(p)'
  <2>1. CASE pc'[p] = "pushes"
    <3>1. /\ pc[p] = "produces" /\ UNCHANGED threw /\ at'[p] \in {"push", "out"}
          /\ at'[p] = "push" \/ oat'[p] = "push"
      BY Zenon, <2>1 DEF TaskEffect
    <3> QED BY Zenon, <1>0, <2>1, <3>1 DEF Told
  <2>2. CASE pc'[p] = "throws"
    <3>1. p \in threw' /\ at'[p] = "pushException"
      BY Zenon, <2>2 DEF TaskEffect
    <3> QED BY Zenon, <2>2, <3>1 DEF Told
  <2>3. CASE pc'[p] = "finishes"
    <3>1. pc[p] = "counted" /\ UNCHANGED threw /\ at'[p] = "finish"
      BY Zenon, <2>3 DEF TaskEffect
    <3> QED BY Zenon, <1>0, <2>3, <3>1 DEF Told
  <2>4. CASE pc'[p] \notin {"pushes", "throws", "finishes"}
    <3>1. UNCHANGED <<at[p], oat[p], threw>> /\ at[p] = "out"
      BY Zenon, <2>4 DEF TaskEffect
    <3> QED BY Zenon, <1>0, <2>4, <3>1 DEF Told
  <2> QED BY Zenon, <2>1, <2>2, <2>3, <2>4
<1> QED BY Zenon, <1>0, <1>1, <1>2, ToldKept

LEMMA GeneratorTold ==
  ASSUME CallInv, \A u \in Thread : Told(u), GeneratorEffect
  PROVE  \A u \in Thread : Told(u)'
<1>0. /\ UNCHANGED <<finish, exception, threw>> /\ (\A u \in Thread \ {Consumer} : Woken(u))
      /\ Consumer \in Thread /\ Told(Consumer) /\ Consumer \notin threw
  BY Zenon, Whereabouts DEF GeneratorEffect, Scalars
<1>1. Told(Consumer)'
  BY Zenon, <1>0 DEF Told, GeneratorEffect
<1> QED BY Zenon, <1>0, <1>1, ToldKept

-----------------------------------------------------------------------------

\* The queue is finished only after the last value.
LEMMA InnerEnds ==
  ASSUME CallInv, Ended, \A u \in Thread : Told(u), NEW t \in Thread, InnerEffect(t)
  PROVE  Ended'
<1>0. /\ UNCHANGED <<pc, nextValue, threw, yielded, outcome>> /\ (\A u \in Thread \ {t} : Woken(u))
      /\ Told(t) /\ Consumer \in Thread /\ Producer \subseteq Thread /\ threw \subseteq Producer
  BY Zenon, Whereabouts DEF InnerEffect, Scalars
<1>1. Unfinished' = Unfinished /\ (Lossless' <=> Lossless) /\ (AllLeft' <=> AllLeft)
  BY Zenon, <1>0 DEF Unfinished, Lossless, AllLeft
<1>2. exception' => threw # {}
  BY Zenon, <1>0, OnlyAnnounced DEF Ended, Told
<1>3. outcome = "running" /\ finish' /\ ~ exception' => AllLeft
  <2> SUFFICES ASSUME outcome = "running", finish', ~ exception' PROVE AllLeft
    OBVIOUS
  <2>1. CASE finish /\ ~ exception
    BY Zenon, <2>1 DEF Ended
  <2>2. CASE ~ (finish /\ ~ exception)
    <3>1. at[t] = "finish" /\ ~ exception
      BY Zenon, <2>2, OnlyAnnounced
    <3>2. pc[t] = "finishes" /\ t \in Producer
      BY Zenon, <1>0, <3>1, Whereabouts DEF Told, Ended
    <3>3. Unfinished = {}
      BY Zenon, <3>2 DEF Ended
    <3>4. threw = {}
      BY Zenon, <1>0, <3>1, <3>3 DEF Told, Unfinished, Running
    <3> QED BY Zenon, <3>2, <3>3, <3>4 DEF Ended, Lossless, AllLeft
  <2> QED BY Zenon, <2>1, <2>2
<1>4. pc[Consumer] = "popping" /\ at'[Consumer] = "out" /\ ret'[Consumer] = "nullopt" =>
         finish' /\ queue' = <<>> /\ threw = {}
  <2> SUFFICES ASSUME pc[Consumer] = "popping", at'[Consumer] = "out", ret'[Consumer] = "nullopt"
               PROVE  finish' /\ queue' = <<>> /\ threw = {}
    OBVIOUS
  <2>1. CASE t = Consumer
    <3>1. UNCHANGED <<queue, finish>> /\ finish /\ ~ exception /\ queue = <<>>
      BY Zenon, <2>1, Whereabouts DEF InnerEffect, Enqueues, Dequeues, SeesEnd, Announces, Waits
    <3> QED BY Zenon, <3>1 DEF Ended, AllLeft
  <2>2. CASE t # Consumer
    <3>1. at[Consumer] = "out" /\ ret[Consumer] = "nullopt"
      BY Zenon, <1>0, <2>2 DEF Woken
    <3>2. finish /\ queue = <<>> /\ threw = {}
      BY Zenon, <3>1 DEF Ended
    <3> QED BY Zenon, <3>2 DEF InnerEffect, Enqueues, Dequeues, SeesEnd, Announces, Waits
  <2> QED BY Zenon, <2>1, <2>2
<1> QED BY Zenon, <1>0, <1>1, <1>2, <1>3, <1>4 DEF Ended

LEMMA OrderedEnds ==
  ASSUME CallInv, Ended, NEW t \in Thread, OrderedEffect(t)
  PROVE  Ended'
<1>0. /\ UNCHANGED <<queue, finish, exception, pc, nextValue, threw, yielded, outcome>>
      /\ (\A u \in Thread \ {t} : Woken(u)) /\ Consumer \in Thread
  BY Zenon, Whereabouts DEF OrderedEffect
<1>1. Unfinished' = Unfinished /\ (Lossless' <=> Lossless) /\ (AllLeft' <=> AllLeft)
  BY Zenon, <1>0 DEF Unfinished, Lossless, AllLeft
<1>2. t = Consumer => oat[t] \notin {"push", "cvWaits"}
  BY Zenon, Whereabouts
<1>3. at'[Consumer] = "out" => at[Consumer] = "out" /\ UNCHANGED ret[Consumer]
  BY Zenon, <1>0, <1>2 DEF Woken, OrderedEffect
<1> QED BY Zenon, <1>0, <1>1, <1>3 DEF Ended

\* The last thread that leaves finds that all the others have left.
LEMMA LeavingEnds ==
  ASSUME CallInv, Ended, NEW p \in Producer, TaskEffect(p), Told(p)
  PROVE  Ended'
<1>0. /\ UNCHANGED <<queue, finish, exception, yielded, outcome>> /\ Woken(Consumer)
      /\ (\A u \in Producer \ {p} : pc'[u] = pc[u])
  BY Zenon, Whereabouts DEF TaskEffect, Woken
<1>1. UNCHANGED <<pc[Consumer], ret[Consumer]>> /\ (at'[Consumer] = "out" => at[Consumer] = "out")
  BY Zenon, <1>0 DEF Woken
<1>2. threw \subseteq threw' /\ (Lossless' => Lossless /\ threw' = threw)
  BY Zenon, <1>0 DEF TaskEffect, Lossless
<1>3. Unfinished' \subseteq Unfinished
  <2>1. pc'[p] \in Running => pc[p] \in Running
    BY Zenon DEF TaskEffect, Running
  <2> QED BY Zenon, <1>0, <2>1 DEF Unfinished
<1>4. \A u \in Producer : pc'[u] = "finishes" => Unfinished' = {}
  <2>1. pc'[p] = "finishes" => Unfinished = {}
    <3>1. pc'[p] = "finishes" => numThreads <= 0
      BY Zenon DEF TaskEffect
    <3>2. IsFiniteSet(Unfinished) /\ numThreads = Cardinality(Unfinished)
      BY Zenon, ThreadAssumption, FS_Subset DEF Unfinished, CallInv, Counted
    <3>3. Cardinality(Unfinished) \in Nat /\ (Cardinality(Unfinished) = 0 => Unfinished = {})
      BY Zenon, <3>2, FS_CardinalityType, FS_EmptySet
    <3> QED BY <3>1, <3>2, <3>3
  <2> QED BY Zenon, <1>0, <1>3, <2>1 DEF Ended
<1>5. AllLeft /\ outcome = "running" => AllLeft'
  <2>1. Unfinished = {} => pc[p] \notin Running
    BY Zenon DEF Unfinished
  <2>2. pc[p] \notin Running => UNCHANGED <<nextValue, threw>>
    BY Zenon DEF TaskEffect, Running
  <2> QED BY Zenon, <1>3, <2>1, <2>2 DEF AllLeft
<1>6. Lossless' =>
        \A u \in Producer : pc'[u] \in {"leaves", "counted", "finishes", "done"} => nextValue' = NumValues
  <2> SUFFICES ASSUME Lossless', NEW u \in Producer, pc'[u] \in {"leaves", "counted", "finishes", "done"}
               PROVE  nextValue' = NumValues
    OBVIOUS
  <2>0. Lossless /\ p \notin threw
    BY Zenon, <1>2 DEF Lossless
  <2>1. nextValue = NumValues
    <3>1. CASE u # p
      BY Zenon, <1>0, <2>0, <3>1 DEF Ended
    <3>2. CASE u = p
      <4>1. pc[p] = "pushes" /\ pc'[p] = "leaves" => FALSE
        <5>1. pc[p] = "pushes" => p \in Unfinished
          BY Zenon DEF Unfinished, Running
        <5>2. pc[p] = "pushes" /\ pc'[p] = "leaves" => finish
          BY Zenon DEF TaskEffect, Told
        <5> QED BY Zenon, <2>0, <5>1, <5>2, EndOfCarrying
      <4> QED BY Zenon, <2>0, <3>2, <4>1 DEF TaskEffect, Told, Ended
    <3> QED BY Zenon, <3>1, <3>2
  <2>2. ~ (nextValue < NumValues)
    BY <2>1, ThreadAssumption
  <2>3. threw' # threw \cup {p}
    BY Zenon, <1>2, <2>0
  <2>4. nextValue' = nextValue
    BY Zenon, <2>2, <2>3 DEF TaskEffect
  <2> QED BY Zenon, <2>1, <2>4
<1>7. pc'[Consumer] = "popping" /\ at'[Consumer] = "out" /\ ret'[Consumer] = "nullopt" =>
         finish /\ queue = <<>> /\ threw' = {}
  BY Zenon, <1>0, <1>1, <1>5 DEF Ended, AllLeft
<1>8. exception => threw' # {}
  BY Zenon, <1>2 DEF Ended
<1> QED BY Zenon, <1>0, <1>1, <1>4, <1>5, <1>6, <1>7, <1>8 DEF Ended

LEMMA GeneratorEnds ==
  ASSUME CallInv, Ended, GeneratorEffect
  PROVE  Ended'
<1>0. /\ UNCHANGED <<queue, finish, exception, nextValue, threw>>
      /\ \A u \in Producer : pc'[u] = pc[u]
  BY Zenon, Whereabouts DEF GeneratorEffect, Woken
<1>1. Unfinished' = Unfinished /\ (AllLeft' <=> AllLeft)
  BY Zenon, <1>0 DEF Unfinished, AllLeft
<1>2. /\ outcome' = "running" => outcome = "running"
      /\ Lossless' => Lossless
      /\ ~ (pc'[Consumer] = "popping" /\ at'[Consumer] = "out")
  BY Zenon, <1>0 DEF GeneratorEffect, Lossless
<1>3. Append(yielded, val[Consumer]) # <<>>
  <2>1. yielded \in Seq(Value)
    BY Zenon, Whereabouts DEF Scalars
  <2> QED BY <2>1
<1>4. pc'[Consumer] = "yields" => yielded' # <<>>
  BY Zenon, <1>3 DEF GeneratorEffect
<1>5. outcome' = "running" <=> pc'[Consumer] \in {"pops", "popping", "yields"}
  BY Zenon DEF GeneratorEffect, Ended
<1> QED BY Zenon, <1>0, <1>1, <1>2, <1>4, <1>5 DEF Ended

-----------------------------------------------------------------------------

LEMMA InitEnds == Init => EndInv
<1> SUFFICES ASSUME Init PROVE EndInv
  OBVIOUS
<1>1. CallInv
  BY Zenon, InitCalls
<1>2. /\ queue = <<>> /\ yielded = <<>> /\ finish = FALSE /\ exception = FALSE /\ nextValue = 0
      /\ threw = {} /\ outcome = "running" /\ pc[Consumer] = "pops"
      /\ \A t \in Thread : at[t] = "out" /\ oat[t] = "out" /\ pc[t] \in {"pops", "produces"}
  BY Zenon, Threads DEF Init, QueueInit, OrderedInit
<1>3. Carriers = {} /\ ~ Holds
  BY Zenon, <1>2, Threads DEF Carriers, Holds
<1>4. HeldValue = {} /\ Held = 0
  BY Zenon, <1>3 DEF HeldValue, Held
<1>5. Flow
  BY <1>2, <1>3, <1>4 DEF Flow, Apart
<1>6. Cardinality(Carriers) = 0
  BY Zenon, <1>3, FS_EmptySet
<1>7. Count
  BY <1>2, <1>4, <1>6 DEF Count, Passed
<1>8. Ended
  BY Zenon, <1>2, Threads DEF Ended
<1>9. \A t \in Thread : Told(t)
  BY Zenon, <1>2 DEF Told
<1> QED BY Zenon, <1>1, <1>5, <1>7, <1>8, <1>9 DEF EndInv

LEMMA NextEnds == EndInv /\ [Next]_vars => EndInv'
<1> SUFFICES ASSUME EndInv, [Next]_vars PROVE EndInv'
  OBVIOUS
<1>0. CallInv /\ CallInv' /\ Flow /\ Count /\ Ended /\ \A t \in Thread : Told(t)
  BY Zenon, NextCalls DEF EndInv
<1>1. ASSUME NEW t \in Thread, InnerEffect(t) PROVE EndInv'
  <2>1. Flow' /\ Count'
    BY Zenon, <1>0, <1>1, InnerFlows
  <2>2. Ended' /\ \A u \in Thread : Told(u)'
    BY Zenon, <1>0, <1>1, InnerTold, InnerEnds
  <2> QED BY Zenon, <1>0, <2>1, <2>2 DEF EndInv
<1>2. ASSUME NEW t \in Thread, OrderedEffect(t) PROVE EndInv'
  <2>1. Flow' /\ Count'
    BY Zenon, <1>0, <1>2, OrderedFlows
  <2>2. Ended' /\ \A u \in Thread : Told(u)'
    BY Zenon, <1>0, <1>2, OrderedTold, OrderedEnds
  <2> QED BY Zenon, <1>0, <2>1, <2>2 DEF EndInv
<1>3. ASSUME NEW p \in Producer, TaskStep(p) PROVE EndInv'
  <2>0. TaskEffect(p) /\ Told(p)
    BY Zenon, <1>0, <1>3, TaskSteps, Threads
  <2>1. Flow' /\ Count'
    BY Zenon, <1>0, <2>0, TaskFlows
  <2>2. Ended' /\ \A u \in Thread : Told(u)'
    BY Zenon, <1>0, <2>0, TaskTold, LeavingEnds
  <2> QED BY Zenon, <1>0, <2>1, <2>2 DEF EndInv
<1>4. CASE GeneratorStep
  <2>0. GeneratorEffect
    BY Zenon, <1>0, <1>4, GeneratorSteps
  <2>1. Flow' /\ Count'
    BY Zenon, <1>0, <2>0, GeneratorFlows
  <2>2. Ended' /\ \A u \in Thread : Told(u)'
    BY Zenon, <1>0, <2>0, GeneratorTold, GeneratorEnds
  <2> QED BY Zenon, <1>0, <2>1, <2>2 DEF EndInv
<1>5. CASE UNCHANGED vars
  <2>1. UNCHANGED <<queue, finish, exception, at, ret, val, oat, pc, nextValue, threw, yielded, outcome>>
    BY Zenon, <1>5 DEF vars, queueVars, callVars, orderedVars, managerVars
  <2>2. /\ Carriers' = Carriers /\ (Holds' <=> Holds) /\ (Lossless' <=> Lossless)
        /\ Unfinished' = Unfinished
    BY Zenon, <2>1 DEF Carriers, Holds, Lossless, Unfinished
  <2>3. Quiet
    BY Zenon, <2>1, <2>2 DEF Quiet
  <2>4. Flow' /\ Count'
    BY Zenon, <1>0, <2>3, QuietKeeps DEF CallInv, Typing
  <2>5. Ended'
    BY Zenon, <1>0, <2>1, <2>2 DEF Ended, AllLeft
  <2>6. \A t \in Thread : Told(t)'
    BY Zenon, <1>0, <2>1, ToldKept DEF Woken
  <2> QED BY Zenon, <1>0, <2>4, <2>5, <2>6 DEF EndInv
<1>6. ASSUME NEW t \in Thread, Inside(t) \/ InsideOrdered(t) \/ Wakeup(t) PROVE EndInv'
  BY Zenon, <1>0, <1>1, <1>2, <1>6, InnerSteps, OrderedSteps DEF Inside, InsideOrdered, Wakeup
<1> QED BY Zenon, <1>3, <1>4, <1>5, <1>6 DEF Next

\* What a step of the generator does to the iterating code.
LEMMA GeneratorSimulates ==
  ASSUME EndInv, ordered => Sequence, GeneratorStep
  PROVE  [Sequential!GNext]_<<yielded, outcome, ordered>>
<1>0. /\ CallInv /\ Scalars /\ Flow /\ Count /\ Ended /\ GeneratorEffect
  BY Zenon, GeneratorSteps DEF EndInv, CallInv, Typing
<1>1. UNCHANGED ordered /\ at[Consumer] = "out"
  BY Zenon, <1>0 DEF GeneratorEffect
<1>2. CASE /\ pc[Consumer] = "popping" /\ ret[Consumer] = "value"
           /\ yielded' = Append(yielded, val[Consumer]) /\ UNCHANGED outcome
  <2>1. Holds /\ outcome = "running"
    BY Zenon, <1>0, <1>1, <1>2 DEF Holds, Ended
  <2>2. val[Consumer] \in 0 .. NumValues - 1
    BY Zenon, <1>0, <2>1, Whereabouts, ThreadAssumption
  <2>3. ordered => val[Consumer] = Len(yielded)
    BY Zenon, <2>1 DEF Sequence
  <2>4. \A i \in 1 .. Len(yielded) : yielded[i] # val[Consumer]
    BY Zenon, <1>0, <2>1 DEF Flow, Apart, HeldValue
  <2>5. DOMAIN yielded = 1 .. Len(yielded)
    BY <1>0 DEF Scalars
  <2>6. Sequential!Yield
    BY Zenon, <1>2, <2>1, <2>2, <2>3, <2>4, <2>5 DEF Sequential!Yield
  <2> QED BY Zenon, <1>1, <2>6 DEF Sequential!GNext
<1>3. CASE /\ pc[Consumer] = "popping" /\ ret[Consumer] = "nullopt"
           /\ outcome' = ret[Consumer] /\ UNCHANGED yielded
  <2>1. outcome = "running" /\ finish /\ queue = <<>> /\ Lossless
    BY Zenon, <1>0, <1>1, <1>3 DEF Ended, Lossless
  <2>2. Carriers = {} /\ nextValue = NumValues
    BY Zenon, <1>0, <2>1, EndOfCarrying
  <2>3. Cardinality(Carriers) = 0
    BY Zenon, <2>2, FS_EmptySet
  <2>4. Held = 0
    BY Zenon, <1>1, <1>3 DEF Held, Holds
  <2>5. nextValue = Passed + Cardinality(Carriers)
    BY Zenon, <1>0, <2>1 DEF Count
  <2>6. Len(yielded) = NumValues
    BY <1>0, <2>1, <2>2, <2>3, <2>4, <2>5 DEF Passed, Scalars
  <2>7. Sequential!End
    BY Zenon, <1>3, <2>1, <2>6 DEF Sequential!End
  <2> QED BY Zenon, <1>1, <2>7 DEF Sequential!GNext
<1>4. CASE /\ pc[Consumer] = "popping" /\ ret[Consumer] = "exception"
           /\ outcome' = ret[Consumer] /\ UNCHANGED yielded
  <2>1. Sequential!Fail
    BY Zenon, <1>0, <1>4 DEF Sequential!Fail, Ended
  <2> QED BY Zenon, <1>1, <2>1 DEF Sequential!GNext
<1>5. CASE pc[Consumer] = "yields" /\ outcome' = "left" /\ UNCHANGED yielded
  <2>1. Sequential!Leave
    BY Zenon, <1>0, <1>5 DEF Sequential!Leave, Ended
  <2> QED BY Zenon, <1>1, <2>1 DEF Sequential!GNext
<1>6. CASE UNCHANGED <<yielded, outcome>>
  BY Zenon, <1>1, <1>6
<1> QED BY Zenon, <1>0, <1>2, <1>3, <1>4, <1>5, <1>6 DEF GeneratorEffect

\* With its threads, mutexes and condition variables hidden, the generator of
\* queueManager is one that produces the values itself: no value is yielded
\* twice, the end comes only when all of them were yielded, and it comes from
\* an exception or from the iterating code otherwise (ImplementsSequential).
THEOREM GeneratorIsSequential == Spec => ImplementsSequential
<1>1. Init => Sequential!GInit
  BY Zenon DEF Init, Sequential!GInit
<1>2. /\ EndInv /\ (ordered => Sequence) /\ [Next]_vars
      => [Sequential!GNext]_<<yielded, outcome, ordered>>
  <2> SUFFICES ASSUME EndInv, ordered => Sequence, [Next]_vars
               PROVE  [Sequential!GNext]_<<yielded, outcome, ordered>>
    OBVIOUS
  <2>1. CASE UNCHANGED <<yielded, outcome, ordered>>
    BY Zenon, <2>1
  <2>2. CASE GeneratorStep
    BY Zenon, <2>2, GeneratorSimulates
  <2>3. ASSUME NEW p \in Producer, TaskStep(p) PROVE UNCHANGED <<yielded, outcome, ordered>>
    BY Zenon, <2>3, TaskSteps DEF EndInv, TaskEffect
  <2> QED BY Zenon, <2>1, <2>2, <2>3 DEF Next, Inside, InsideOrdered, Wakeup, vars, managerVars
<1>3. EndInv => CallInv
  BY Zenon DEF EndInv
<1> QED BY <1>1, <1>2, <1>3, InitEnds, NextEnds, OrderInvariant, PTL
       DEF Spec, ImplementsSequential, Sequential!GSpec, OrderInv

=============================================================================
