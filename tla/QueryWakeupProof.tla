-------------------------- MODULE QueryWakeupProof --------------------------
(***************************************************************************)
(* Proofs about the sessions that wait for an update.  WakeInv says that a *)
(* session waits at most once, that a continuation of it is posted at most *)
(* once and only with data to read or the end of the operation, and that   *)
(* the end is set before it is signalled.                                  *)
(***************************************************************************)
EXTENDS QueryStatusProof

(* A session that waits on the timer of d is there once, and its           *)
(* continuation is not posted yet.                                         *)
WaitsOnce(d) ==
  /\ \A k \in 1 .. Len(waiting[d]) :
       at[waiting[d][k]] = "waits" /\ fetcher[waiting[d][k]] = d
  /\ \A k, l \in 1 .. Len(waiting[d]) : waiting[d][k] = waiting[d][l] => k = l
  /\ \A k \in 1 .. Len(waiting[d]) : \A p \in 1 .. Len(strand[d]) :
       strand[d][p] # ResumeTask(waiting[d][k])

(* A session whose continuation is posted finds data or the end, unless it *)
(* is woken up because its connection is lost.                             *)
ResumesOnce(d) ==
  /\ \A p \in 1 .. Len(strand[d]) : \A s \in Session :
       strand[d][p] = ResumeTask(s) =>
         /\ at[s] = "waits" /\ fetcher[s] = d
         /\ open[s] => nextIndex[s] < Len(data[d]) \/ finished[d]
  /\ \A o, p \in 1 .. Len(strand[d]) : \A s \in Session :
       strand[d][o] = ResumeTask(s) /\ strand[d][p] = ResumeTask(s) => o = p

(* The end is signalled after finished_ is set.                            *)
EndIsSet ==
  /\ \A q \in Query : pc[q] \in {"finished", "left"} => finished[distributor[q]]
  /\ \A d \in Distributor : \A p \in 1 .. Len(strand[d]) :
       strand[d][p].run = "wake" => finished[d]

ClosesAtEnd == \A s \in Session : at[s] = "closes" => finished[fetcher[s]]

WakeInv ==
  /\ \A d \in Distributor : WaitsOnce(d) /\ ResumesOnce(d)
  /\ EndIsSet /\ ClosesAtEnd

(* No session waits when the server starts.                                *)
LEMMA InitWake == Init => WakeInv
  BY DEF Init, DistributorInit, SenderInit, SessionInit, WakeInv, WaitsOnce, ResumesOnce,
         EndIsSet, ClosesAtEnd

(* The continuations of two sessions are different handlers.               *)
LEMMA ResumeTaskFacts ==
  /\ \A s, t : ResumeTask(s) = ResumeTask(t) => s = t
  /\ \A s : ResumeTask(s).run = "resume" /\ WakeTask # ResumeTask(s)
  /\ \A s : \A u : UpdateTask(u) # ResumeTask(s)
  /\ \A u : UpdateTask(u).run = "update"
  /\ WakeTask.run = "wake"
  BY Zenon DEF ResumeTask, WakeTask, UpdateTask

(* A step that leaves the waiting sessions alone and that signals no end   *)
(* it has not set.                                                         *)
LEMMA WakeFrame ==
  ASSUME ReadInv, WakeInv, UNCHANGED <<strand, waiting, data>>,
         \A d \in Distributor : finished[d] => finished'[d],
         \A t \in Session : at[t] = "waits" =>
           /\ at'[t] = "waits" /\ fetcher'[t] = fetcher[t] /\ nextIndex'[t] = nextIndex[t]
           /\ open'[t] => open[t],
         \A q \in Query : pc'[q] \in {"finished", "left"} => finished'[distributor'[q]],
         \A t \in Session : at'[t] = "closes" => finished'[fetcher'[t]]
  PROVE  WakeInv'
<1>1. ASSUME NEW d \in Distributor PROVE WaitsOnce(d)'
  <2>1. waiting[d] \in Seq(Session) /\ WaitsOnce(d)
    BY Zenon DEF ReadInv, QueueTypes, WakeInv
  <2> QED BY <2>1 DEF WaitsOnce
<1>2. ASSUME NEW d \in Distributor PROVE ResumesOnce(d)'
  BY DEF WakeInv, ResumesOnce
<1>3. EndIsSet' /\ ClosesAtEnd'
  BY Zenon DEF WakeInv, EndIsSet, ClosesAtEnd
<1> QED BY Zenon, <1>1, <1>2, <1>3 DEF WakeInv

(* The operation posts an update, or the end that it has set.              *)
LEMMA PostWakes ==
  ASSUME ReadInv, WakeInv, NEW d \in Distributor, NEW task \in Task, Post(d, task),
         \A s \in Session : task # ResumeTask(s),
         task.run = "wake" => finished[d],
         UNCHANGED <<data, finished, waiting, distributor>>, UNCHANGED sessionVars,
         \A q \in Query : pc'[q] \in {"finished", "left"} => pc[q] \in {"finished", "left"}
  PROVE  WakeInv'
<1>0. /\ at' = at /\ fetcher' = fetcher /\ open' = open /\ nextIndex' = nextIndex
  BY Zenon DEF sessionVars
<1>1. /\ strand[d] \in Seq(Task) /\ Len(strand[d]) \in Nat
      /\ strand'[d] = Append(strand[d], task)
      /\ \A e \in Distributor \ {d} : strand'[e] = strand[e]
  BY DEF Post, ReadInv, QueueTypes
<1>2. /\ Len(strand'[d]) = Len(strand[d]) + 1
      /\ \A p \in 1 .. Len(strand[d]) : strand'[d][p] = strand[d][p]
      /\ strand'[d][Len(strand[d]) + 1] = task
  BY <1>1
<1>3. \A e \in Distributor : \A p \in 1 .. Len(strand'[e]) :
        \/ p \in 1 .. Len(strand[e]) /\ strand'[e][p] = strand[e][p]
        \/ e = d /\ strand'[e][p] = task
  <2>1. \A p \in 1 .. Len(strand'[d]) : p \in 1 .. Len(strand[d]) \/ p = Len(strand[d]) + 1
    BY <1>1, <1>2
  <2> QED BY Zenon, <1>1, <1>2, <2>1
<1>4. ASSUME NEW e \in Distributor PROVE WaitsOnce(e)'
  <2>1. WaitsOnce(e) /\ waiting[e] \in Seq(Session)
    BY Zenon DEF WakeInv, ReadInv, QueueTypes
  <2> QED BY <1>0, <1>3, <2>1 DEF WaitsOnce
<1>5. ASSUME NEW e \in Distributor PROVE ResumesOnce(e)'
  <2>1. ResumesOnce(e)
    BY Zenon DEF WakeInv
  <2>2. \A p \in 1 .. Len(strand'[e]) : \A s \in Session : strand'[e][p] = ResumeTask(s) =>
          p \in 1 .. Len(strand[e]) /\ strand[e][p] = ResumeTask(s)
    BY Zenon, <1>3
  <2> QED BY <1>0, <2>1, <2>2 DEF ResumesOnce
<1>6. EndIsSet'
  BY Zenon, <1>3 DEF WakeInv, EndIsSet
<1>7. ClosesAtEnd'
  BY Zenon, <1>0 DEF WakeInv, ClosesAtEnd
<1> QED BY Zenon, <1>4, <1>5, <1>6, <1>7 DEF WakeInv

(* The positions of a queue whose head is taken and that is extended.      *)
LEMMA TailConcat ==
  ASSUME NEW A, NEW S \in Seq(A), NEW R \in Seq(A), S # <<>>
  PROVE  /\ Len(Tail(S) \o R) = Len(S) - 1 + Len(R)
         /\ \A p \in 1 .. Len(Tail(S) \o R) :
              \/ p < Len(S) /\ p + 1 \in 1 .. Len(S) /\ (Tail(S) \o R)[p] = S[p + 1]
              \/ /\ p >= Len(S) /\ p - Len(S) + 1 \in 1 .. Len(R)
                 /\ (Tail(S) \o R)[p] = R[p - Len(S) + 1]
<1>1. /\ Tail(S) \in Seq(A) /\ Len(Tail(S)) = Len(S) - 1 /\ Len(S) \in Nat /\ Len(R) \in Nat
      /\ \A p \in 1 .. Len(S) - 1 : Tail(S)[p] = S[p + 1]
  OBVIOUS
<1>2. Len(Tail(S) \o R) = Len(S) - 1 + Len(R)
  BY <1>1
<1>3. ASSUME NEW p \in 1 .. Len(Tail(S) \o R)
      PROVE \/ p < Len(S) /\ p + 1 \in 1 .. Len(S) /\ (Tail(S) \o R)[p] = S[p + 1]
            \/ /\ p >= Len(S) /\ p - Len(S) + 1 \in 1 .. Len(R)
               /\ (Tail(S) \o R)[p] = R[p - Len(S) + 1]
  BY <1>1, <1>2
<1> QED BY Zenon, <1>2, <1>3

(* The listeners are woken up by an update or by the end.                  *)
LEMMA RunWakes ==
  ASSUME ReadInv, WakeInv, NEW d \in Distributor, DistributorStep(d)
  PROVE  WakeInv'
<1>0. /\ UNCHANGED <<at, fetcher, open, nextIndex, finished, pc, distributor>>
      /\ strand[d] # <<>> /\ RunAndWakeUp(d)
  BY Zenon DEF DistributorStep, RunUpdate, RunWake, sessionVars, senderVars
<1> DEFINE S == strand[d]
<1> DEFINE W == waiting[d]
<1> DEFINE T == strand'[d]
<1>1. S \in Seq(Task) /\ W \in Seq(Session) /\ Len(S) \in Nat /\ Len(W) \in Nat /\ S # <<>>
  BY <1>0 DEF ReadInv, QueueTypes
<1>2. /\ strand' = [strand EXCEPT ![d] = Tail(S) \o Resumes(d)]
      /\ waiting' = [waiting EXCEPT ![d] = <<>>]
  BY Zenon, <1>0 DEF RunAndWakeUp
<1>3. /\ waiting'[d] = <<>>
      /\ \A e \in Distributor \ {d} : strand'[e] = strand[e] /\ waiting'[e] = waiting[e]
      /\ T = Tail(S) \o Resumes(d)
  BY Zenon, <1>2 DEF ReadInv, QueueTypes
<1>4. /\ Resumes(d) \in Seq(Task) /\ Len(Resumes(d)) = Len(W)
      /\ \A k \in 1 .. Len(W) : Resumes(d)[k] = ResumeTask(W[k])
  BY <1>1 DEF ResumeTask, Task, Resumes
<1>5. Len(T) \in Nat
  BY <1>1, <1>3, <1>4, TailConcat
<1>6. ASSUME NEW p \in 1 .. Len(T)
      PROVE  \/ p < Len(S) /\ p + 1 \in 1 .. Len(S) /\ T[p] = S[p + 1]
             \/ p >= Len(S) /\ p - Len(S) + 1 \in 1 .. Len(W) /\ T[p] = ResumeTask(W[p - Len(S) + 1])
  <2>1. \/ p < Len(S) /\ p + 1 \in 1 .. Len(S) /\ T[p] = S[p + 1]
        \/ p >= Len(S) /\ p - Len(S) + 1 \in 1 .. Len(W) /\ T[p] = Resumes(d)[p - Len(S) + 1]
    <3>1. p \in 1 .. Len(Tail(S) \o Resumes(d))
      BY Zenon, <1>3
    <3>2. \/ p < Len(S) /\ p + 1 \in 1 .. Len(S) /\ (Tail(S) \o Resumes(d))[p] = S[p + 1]
          \/ /\ p >= Len(S) /\ p - Len(S) + 1 \in 1 .. Len(Resumes(d))
             /\ (Tail(S) \o Resumes(d))[p] = Resumes(d)[p - Len(S) + 1]
      BY Zenon, <1>1, <1>4, <3>1, TailConcat
    <3> QED BY Zenon, <1>3, <1>4, <3>2
  <2> QED BY Zenon, <1>4, <2>1
<1> HIDE DEF T
<1>7. WaitsOnce(d) /\ ResumesOnce(d)
  BY Zenon DEF WakeInv
<1>8. /\ Len(data'[d]) \in Nat /\ Len(data[d]) \in Nat /\ Len(data[d]) <= Len(data'[d])
      /\ Len(data[d]) < Len(data'[d]) \/ finished[d]
      /\ \A e \in Distributor \ {d} : data'[e] = data[e]
  BY <1>1 DEF ReadInv, QueueTypes, RunUpdate, Task, RunWake, WakeInv, EndIsSet, DistributorStep
<1>9. \A k \in 1 .. Len(W) : nextIndex[W[k]] <= Len(data[d]) /\ W[k] \in Session /\ nextIndex[W[k]] \in Nat
  <2> SUFFICES ASSUME NEW k \in 1 .. Len(W)
               PROVE nextIndex[W[k]] <= Len(data[d]) /\ W[k] \in Session /\ nextIndex[W[k]] \in Nat
    OBVIOUS
  <2>1. W[k] \in Session /\ at[W[k]] = "waits" /\ fetcher[W[k]] = d
    BY <1>1, <1>7 DEF WaitsOnce
  <2> QED BY Zenon, <2>1 DEF ReadInv, Attached, Watching, SessionTypes
<1>10. ASSUME NEW e \in Distributor PROVE WaitsOnce(e)'
  BY <1>0, <1>3 DEF WaitsOnce, WakeInv
<1>11. ASSUME NEW e \in Distributor PROVE ResumesOnce(e)'
  <2>1. CASE e # d
    BY <1>0, <1>3, <1>8, <2>1 DEF WakeInv, ResumesOnce
  <2>2. CASE e = d
    <3>1. ASSUME NEW p \in 1 .. Len(T), NEW s \in Session, T[p] = ResumeTask(s)
          PROVE  /\ at[s] = "waits" /\ fetcher[s] = d
                 /\ open[s] => nextIndex[s] < Len(data'[d]) \/ finished[d]
      <4>1. CASE p + 1 \in 1 .. Len(S) /\ T[p] = S[p + 1]
        <5>1. nextIndex[s] \in Nat
          BY Zenon DEF ReadInv, SessionTypes
        <5>2. S[p + 1] = ResumeTask(s) /\ p + 1 \in 1 .. Len(S)
          BY Zenon, <3>1, <4>1
        <5>3. /\ at[s] = "waits" /\ fetcher[s] = d
              /\ open[s] => nextIndex[s] < Len(data[d]) \/ finished[d]
          BY Zenon, <1>7, <5>2 DEF ResumesOnce
        <5> QED BY <1>8, <5>1, <5>3
      <4>2. CASE p - Len(S) + 1 \in 1 .. Len(W) /\ T[p] = ResumeTask(W[p - Len(S) + 1])
        <5>1. W[p - Len(S) + 1] = s
          BY Zenon, <3>1, <4>2, ResumeTaskFacts
        <5>2. at[s] = "waits" /\ fetcher[s] = d
          BY Zenon, <1>7, <4>2, <5>1 DEF WaitsOnce
        <5>3. nextIndex[s] <= Len(data[d]) /\ nextIndex[s] \in Nat
          BY Zenon, <1>9, <4>2, <5>1
        <5> QED BY <1>8, <5>2, <5>3
      <4> QED BY Zenon, <1>6, <4>1, <4>2
    <3>2. ASSUME NEW o \in 1 .. Len(T), NEW p \in 1 .. Len(T), NEW s \in Session,
                 T[o] = ResumeTask(s), T[p] = ResumeTask(s), o < p
          PROVE  FALSE
      <4>1. CASE p < Len(S) /\ p + 1 \in 1 .. Len(S) /\ T[p] = S[p + 1]
        <5>1. o + 1 \in 1 .. Len(S) /\ T[o] = S[o + 1]
          <6>1. o < Len(S)
            BY <1>1, <1>5, <3>2, <4>1
          <6>2. ~ (o >= Len(S))
            BY <1>1, <1>5, <6>1
          <6> QED BY Zenon, <1>6, <6>2
        <5>2. S[o + 1] = ResumeTask(s) /\ S[p + 1] = ResumeTask(s)
          BY Zenon, <3>2, <4>1, <5>1
        <5>3. o + 1 = p + 1
          BY Zenon, <1>7, <4>1, <5>1, <5>2 DEF ResumesOnce
        <5> QED BY <1>5, <3>2, <5>3
      <4>2. CASE p >= Len(S) /\ p - Len(S) + 1 \in 1 .. Len(W) /\ T[p] = ResumeTask(W[p - Len(S) + 1])
        <5>1. W[p - Len(S) + 1] = s
          BY Zenon, <3>2, <4>2, ResumeTaskFacts
        <5>2. CASE o + 1 \in 1 .. Len(S) /\ T[o] = S[o + 1]
          BY Zenon, <1>7, <3>2, <4>2, <5>1, <5>2 DEF WaitsOnce
        <5>3. CASE o - Len(S) + 1 \in 1 .. Len(W) /\ T[o] = ResumeTask(W[o - Len(S) + 1])
          <6>1. W[o - Len(S) + 1] = s
            BY Zenon, <3>2, <5>3, ResumeTaskFacts
          <6>2. o - Len(S) + 1 = p - Len(S) + 1
            BY Zenon, <1>7, <4>2, <5>1, <5>3, <6>1 DEF WaitsOnce
          <6> QED BY <1>1, <3>2, <6>2
        <5> QED BY Zenon, <1>6, <5>2, <5>3
      <4> QED BY Zenon, <1>6, <4>1, <4>2
    <3>3. ASSUME NEW o \in 1 .. Len(T), NEW p \in 1 .. Len(T), NEW s \in Session,
                 T[o] = ResumeTask(s), T[p] = ResumeTask(s)
          PROVE  o = p
      BY <1>5, <3>2, <3>3
    <3> QED BY <1>0, <2>2, <3>1, <3>3 DEF ResumesOnce, T
  <2> QED BY Zenon, <2>1, <2>2
<1>12. EndIsSet'
  <2>1. ASSUME NEW p \in 1 .. Len(T), T[p].run = "wake" PROVE finished[d]
    <3>1. p + 1 \in 1 .. Len(S) /\ T[p] = S[p + 1]
      BY Zenon, <1>6, <2>1, ResumeTaskFacts
    <3> QED BY Zenon, <2>1, <3>1 DEF WakeInv, EndIsSet
  <2> QED BY Zenon, <1>0, <1>3, <2>1 DEF WakeInv, EndIsSet, T
<1>13. ClosesAtEnd'
  BY Zenon, <1>0 DEF WakeInv, ClosesAtEnd
<1> QED BY Zenon, <1>10, <1>11, <1>12, <1>13 DEF WakeInv
-----------------------------------------------------------------------------
(* A session starts to wait: no continuation of it is posted.              *)
LEMMA AskWakes ==
  ASSUME ReadInv, WakeInv, NEW s \in Session, Ask(s)
  PROVE  WakeInv'
<1> DEFINE d == fetcher[s]
<1>1. at[s] = "asks" /\ Watching(s)
  BY Zenon DEF Ask, Watching
<1>2. d \in Distributor /\ waiting[d] \in Seq(Session) /\ Len(waiting[d]) \in Nat
  BY <1>1, WatchingTypes
<1>3. UNCHANGED <<strand, data, finished, fetcher, open, pc, distributor>>
  BY Zenon DEF Ask, senderVars
<1>4. at \in [Session -> At] /\ nextIndex \in [Session -> Nat]
  BY Zenon DEF ReadInv, SessionTypes
<1>5. CASE Deliver(s) \/ (finished[d] /\ NoMoreData(s))
  BY Zenon, <1>1, <1>3, <1>4, <1>5, WakeFrame DEF Ask, Deliver, NoMoreData, Step, WakeInv,
       ClosesAtEnd, EndIsSet
<1>6. CASE ~ (Deliver(s) \/ (finished[d] /\ NoMoreData(s)))
  <2>1. /\ waiting' = [waiting EXCEPT ![d] = Append(@, s)]
        /\ at' = [at EXCEPT ![s] = "waits"] /\ nextIndex' = nextIndex
    BY Zenon, <1>6 DEF Ask, Step
  <2>2. /\ waiting'[d] = Append(waiting[d], s)
        /\ \A e \in Distributor \ {d} : waiting'[e] = waiting[e]
    BY Zenon, <1>2, <2>1 DEF ReadInv, QueueTypes
  <2>3. /\ at'[s] = "waits"
        /\ \A t \in Session : at[t] = "waits" => at'[t] = "waits" /\ t # s
        /\ \A t \in Session : at'[t] = "closes" => at[t] = "closes"
    BY Zenon, <1>1, <1>4, <2>1
  <2>4. \A e \in Distributor : \A p \in 1 .. Len(strand[e]) : strand[e][p] # ResumeTask(s)
    BY <1>1 DEF WakeInv, ResumesOnce
  <2>5. \A e \in Distributor : waiting[e] \in Seq(Session)
    BY Zenon DEF ReadInv, QueueTypes
  <2>6. \A k \in 1 .. Len(waiting[d]) : waiting[d][k] # s
    BY Zenon, <1>1, <1>2 DEF WakeInv, WaitsOnce
  <2>7. ASSUME NEW e \in Distributor PROVE WaitsOnce(e)'
    <3>1. WaitsOnce(e)
      BY Zenon DEF WakeInv
    <3>2. CASE e # d
      BY <1>3, <2>2, <2>3, <2>5, <3>1, <3>2 DEF WaitsOnce
    <3>3. CASE e = d
      <4>1. /\ Len(waiting'[d]) = Len(waiting[d]) + 1
            /\ \A k \in 1 .. Len(waiting[d]) : waiting'[d][k] = waiting[d][k]
            /\ waiting'[d][Len(waiting[d]) + 1] = s
        BY <1>2, <2>2
      <4>2. \A k \in 1 .. Len(waiting'[d]) :
              \/ k \in 1 .. Len(waiting[d]) /\ waiting'[d][k] = waiting[d][k] /\ waiting[d][k] \in Session
              \/ k = Len(waiting[d]) + 1 /\ waiting'[d][k] = s
        BY <1>2, <4>1
      <4>3. \A k \in 1 .. Len(waiting'[d]) : at'[waiting'[d][k]] = "waits" /\ fetcher[waiting'[d][k]] = d
        BY <2>3, <3>1, <3>3, <4>2 DEF WaitsOnce
      <4>4. \A k, l \in 1 .. Len(waiting'[d]) : waiting'[d][k] = waiting'[d][l] => k = l
        BY SMTT(30), <2>6, <3>1, <3>3, <4>2 DEF WaitsOnce
      <4>5. \A k \in 1 .. Len(waiting'[d]) : \A p \in 1 .. Len(strand[d]) :
              strand[d][p] # ResumeTask(waiting'[d][k])
        BY <1>2, <2>4, <3>1, <3>3, <4>2 DEF WaitsOnce
      <4> QED BY Zenon, <1>3, <3>3, <4>3, <4>4, <4>5 DEF WaitsOnce
    <3> QED BY Zenon, <3>2, <3>3
  <2>8. ASSUME NEW e \in Distributor PROVE ResumesOnce(e)'
    BY <1>3, <2>1, <2>3 DEF WakeInv, ResumesOnce
  <2>9. EndIsSet' /\ ClosesAtEnd'
    BY Zenon, <1>3, <2>3 DEF WakeInv, EndIsSet, ClosesAtEnd
  <2> QED BY Zenon, <2>7, <2>8, <2>9 DEF WakeInv
<1> QED BY Zenon, <1>5, <1>6

(* A session continues: it finds data, or the end, or it is closed.        *)
LEMMA ResumeWakes ==
  ASSUME ReadInv, WakeInv, NEW s \in Session, Resume(s)
  PROVE  WakeInv'
<1> DEFINE d == fetcher[s]
<1> DEFINE S == strand[d]
<1>1. at[s] = "waits" /\ Watching(s)
  BY Zenon DEF Resume, Watching
<1>2. d \in Distributor /\ S \in Seq(Task) /\ Len(S) \in Nat
  BY <1>1, WatchingTypes
<1>3. /\ UNCHANGED <<waiting, data, finished, fetcher, open, pc, distributor>>
      /\ S # <<>> /\ Head(S) = ResumeTask(s)
      /\ strand' = [strand EXCEPT ![d] = Tail(S)]
  BY Zenon DEF Resume, senderVars
<1>4. at \in [Session -> At] /\ nextIndex \in [Session -> Nat] /\ open \in [Session -> BOOLEAN]
  BY Zenon DEF ReadInv, SessionTypes
<1>5. S[1] = ResumeTask(s) /\ 1 \in 1 .. Len(S)
  BY <1>2, <1>3
<1>6. /\ strand'[d] = Tail(S) /\ Len(Tail(S)) = Len(S) - 1
      /\ \A p \in 1 .. Len(Tail(S)) : p + 1 \in 1 .. Len(S) /\ Tail(S)[p] = S[p + 1] /\ p + 1 # 1
      /\ \A e \in Distributor \ {d} : strand'[e] = strand[e]
  BY <1>2, <1>3 DEF ReadInv, QueueTypes
<1>17. ASSUME NEW e \in Distributor, NEW p \in 1 .. Len(strand'[e])
       PROVE  \E r \in 1 .. Len(strand[e]) : strand[e][r] = strand'[e][p]
  <2>1. CASE e = d
    BY Zenon, <1>6, <2>1
  <2>2. CASE e # d
    BY Zenon, <1>6, <2>2
  <2> QED BY Zenon, <2>1, <2>2
<1>7. WaitsOnce(d) /\ ResumesOnce(d)
  BY Zenon, <1>2 DEF WakeInv
<1>8. open[s] => HasData(s) \/ finished[d]
  BY Zenon, <1>5, <1>7 DEF ResumesOnce, HasData
<1>9. /\ \E to \in {"writes", "closes", "catches"} :
           at' = [at EXCEPT ![s] = to] /\ (to = "closes" => finished[d])
      /\ nextIndex' = nextIndex \/ nextIndex' = [nextIndex EXCEPT ![s] = @ + 1]
  BY Zenon, <1>8 DEF Resume, Deliver, NoMoreData, Step
<1>10. /\ \A t \in Session \ {s} : at'[t] = at[t] /\ nextIndex'[t] = nextIndex[t]
       /\ at'[s] = "closes" => finished[d]
  BY Zenon, <1>4, <1>9
<1>11. \A e \in Distributor : \A k \in 1 .. Len(waiting[e]) : waiting[e][k] \in Session \ {s}
  <2> SUFFICES ASSUME NEW e \in Distributor, NEW k \in 1 .. Len(waiting[e])
               PROVE  waiting[e][k] \in Session \ {s}
    OBVIOUS
  <2>1. waiting[e][k] \in Session
    BY DEF ReadInv, QueueTypes
  <2>2. ASSUME waiting[e][k] = s PROVE FALSE
    <3>1. WaitsOnce(e)
      BY Zenon DEF WakeInv
    <3>2. e = d
      BY Zenon, <2>2, <3>1 DEF WaitsOnce
    <3> QED BY Zenon, <1>5, <2>2, <3>1, <3>2 DEF WaitsOnce
  <2> QED BY Zenon, <2>1, <2>2
<1>12. ASSUME NEW e \in Distributor, NEW p \in 1 .. Len(strand'[e]), NEW t \in Session,
              strand'[e][p] = ResumeTask(t)
       PROVE  t # s
  <2>1. CASE e = d
    <3>1. p + 1 \in 1 .. Len(S) /\ S[p + 1] = ResumeTask(t) /\ p + 1 # 1
      BY Zenon, <1>6, <1>12, <2>1
    <3> QED BY <1>5, <1>7, <3>1 DEF ResumesOnce
  <2>2. CASE e # d
    BY <1>12, <1>6, <2>2 DEF WakeInv, ResumesOnce
  <2> QED BY Zenon, <2>1, <2>2
<1>13. ASSUME NEW e \in Distributor PROVE WaitsOnce(e)'
  BY <1>10, <1>11, <1>3, <1>6 DEF WakeInv, WaitsOnce
<1>14. ASSUME NEW e \in Distributor PROVE ResumesOnce(e)'
  <2>1. ResumesOnce(e)
    BY Zenon DEF WakeInv
  <2>2. ASSUME NEW p \in 1 .. Len(strand'[e]), NEW t \in Session, strand'[e][p] = ResumeTask(t)
        PROVE  /\ at'[t] = "waits" /\ fetcher[t] = e
               /\ open[t] => nextIndex'[t] < Len(data[e]) \/ finished[e]
    BY <1>10, <1>12, <1>17, <2>1, <2>2 DEF ResumesOnce
  <2>3. ASSUME NEW o \in 1 .. Len(strand'[e]), NEW p \in 1 .. Len(strand'[e]), NEW t \in Session,
               strand'[e][o] = ResumeTask(t), strand'[e][p] = ResumeTask(t)
        PROVE  o = p
    <3>1. CASE e = d
      <4>1. /\ o + 1 \in 1 .. Len(S) /\ S[o + 1] = ResumeTask(t)
            /\ p + 1 \in 1 .. Len(S) /\ S[p + 1] = ResumeTask(t)
        BY Zenon, <1>6, <2>3, <3>1
      <4>2. o + 1 = p + 1
        BY <2>1, <3>1, <4>1 DEF ResumesOnce
      <4>3. o \in Nat /\ p \in Nat
        BY <1>2, <1>5, <1>6, <3>1
      <4> QED BY <4>2, <4>3
    <3>2. CASE e # d
      BY <1>6, <2>1, <2>3, <3>2 DEF ResumesOnce
    <3> QED BY Zenon, <3>1, <3>2
  <2> QED
    <3>1. data' = data /\ finished' = finished /\ open' = open /\ fetcher' = fetcher
      BY Zenon, <1>3
    <3> QED BY Zenon, <2>2, <2>3, <3>1 DEF ResumesOnce
<1>15. EndIsSet'
  BY <1>17, <1>3 DEF WakeInv, EndIsSet
<1>16. ClosesAtEnd'
  BY Zenon, <1>3, <1>10 DEF WakeInv, ClosesAtEnd
<1> QED BY Zenon, <1>13, <1>14, <1>15, <1>16 DEF WakeInv

(* The positions of a concatenation.                                       *)
LEMMA ConcatPositions ==
  ASSUME NEW A, NEW B \in Seq(A), NEW C \in Seq(A)
  PROVE  /\ Len(B \o C) = Len(B) + Len(C)
         /\ \A l \in 1 .. Len(B) : (B \o C)[l] = B[l]
         /\ \A l \in 1 .. Len(B \o C) : l > Len(B) => (B \o C)[l] = C[l - Len(B)]
  OBVIOUS

(* The sequence W without its k-th element.                                *)
LEMMA RemovedPosition ==
  ASSUME NEW A, NEW W \in Seq(A), NEW k \in 1 .. Len(W)
  PROVE  /\ Len(SubSeq(W, 1, k - 1) \o SubSeq(W, k + 1, Len(W))) = Len(W) - 1
         /\ \A l \in 1 .. Len(W) - 1 : l < k =>
              (SubSeq(W, 1, k - 1) \o SubSeq(W, k + 1, Len(W)))[l] = W[l]
         /\ \A l \in 1 .. Len(W) - 1 : l >= k =>
              (SubSeq(W, 1, k - 1) \o SubSeq(W, k + 1, Len(W)))[l] = W[l + 1]
<1> DEFINE B == SubSeq(W, 1, k - 1)
<1> DEFINE C == SubSeq(W, k + 1, Len(W))
<1>1. k \in Nat /\ k >= 1 /\ k <= Len(W) /\ Len(W) \in Nat
  OBVIOUS
<1>2. B \in Seq(A) /\ Len(B) = k - 1 /\ \A l \in 1 .. k - 1 : B[l] = W[l]
  BY <1>1
<1>3. C \in Seq(A) /\ Len(C) = Len(W) - k /\ \A l \in 1 .. Len(W) - k : C[l] = W[k + l]
  BY <1>1
<1> HIDE DEF B, C
<1> DEFINE V == B \o C
<1>4. /\ Len(V) = Len(B) + Len(C)
      /\ \A l \in 1 .. Len(B) : V[l] = B[l]
      /\ \A l \in 1 .. Len(V) : l > Len(B) => V[l] = C[l - Len(B)]
  BY Zenon, <1>2, <1>3, ConcatPositions
<1> HIDE DEF V
<1>5. Len(V) = Len(W) - 1
  BY <1>1, <1>2, <1>3, <1>4
<1>6. ASSUME NEW l \in 1 .. Len(W) - 1, l < k PROVE V[l] = W[l]
  BY <1>1, <1>2, <1>4, <1>6
<1>7. ASSUME NEW l \in 1 .. Len(W) - 1, l >= k PROVE V[l] = W[l + 1]
  <2>1. l - (k - 1) \in 1 .. Len(W) - k /\ k + (l - (k - 1)) = l + 1 /\ l > Len(B)
    BY <1>1, <1>2, <1>7
  <2>2. V[l] = C[l - (k - 1)]
    BY Zenon, <1>1, <1>2, <1>4, <1>5, <2>1
  <2> QED BY Zenon, <1>3, <2>1, <2>2
<1> QED BY Zenon, <1>5, <1>6, <1>7 DEF B, C, V

(* The connection of a waiting session is lost.                            *)
LEMMA DisconnectWakes ==
  ASSUME ReadInv, WakeInv, NEW s \in Session, DisconnectWaiting(s)
  PROVE  WakeInv'
<1> DEFINE d == fetcher[s]
<1> DEFINE S == strand[d]
<1> DEFINE W == waiting[d]
<1>1. at[s] = "waits" /\ Watching(s)
  BY Zenon DEF DisconnectWaiting, Watching
<1>2. /\ d \in Distributor /\ S \in Seq(Task) /\ Len(S) \in Nat
      /\ W \in Seq(Session) /\ Len(W) \in Nat
  BY <1>1, WatchingTypes
<1>3. /\ UNCHANGED <<data, finished, at, fetcher, nextIndex, pc, distributor>>
      /\ open' = [open EXCEPT ![s] = FALSE]
  BY Zenon DEF DisconnectWaiting, senderVars
<1>4. /\ ~ open'[s] /\ \A t \in Session : open'[t] => open[t]
  BY Zenon, <1>3 DEF ReadInv, SessionTypes
<1>5. CASE UNCHANGED <<strand, waiting>>
  BY Zenon, <1>3, <1>4, <1>5, WakeFrame DEF WakeInv, EndIsSet, ClosesAtEnd
<1>6. ASSUME NEW k \in 1 .. Len(W), W[k] = s,
             waiting' = [waiting EXCEPT ![d] = SubSeq(W, 1, k - 1) \o SubSeq(W, k + 1, Len(W))],
             Post(d, ResumeTask(s))
      PROVE  WakeInv'
  <2> DEFINE V == waiting'[d]
  <2> DEFINE T == strand'[d]
  <2>1. /\ V = SubSeq(W, 1, k - 1) \o SubSeq(W, k + 1, Len(W))
        /\ T = Append(S, ResumeTask(s))
        /\ \A e \in Distributor \ {d} : waiting'[e] = waiting[e] /\ strand'[e] = strand[e]
    BY Zenon, <1>2, <1>6 DEF Post, ReadInv, QueueTypes
  <2>2. /\ Len(T) = Len(S) + 1 /\ T[Len(S) + 1] = ResumeTask(s)
        /\ \A p \in 1 .. Len(S) : T[p] = S[p]
    BY <1>2, <2>1
  <2>3. \A p \in 1 .. Len(T) : (p \in 1 .. Len(S) /\ T[p] = S[p])
                               \/ (p = Len(S) + 1 /\ T[p] = ResumeTask(s))
    BY <1>2, <2>2
  <2> DEFINE at_(l) == IF l < k THEN l ELSE l + 1
  <2>4. /\ Len(V) = Len(W) - 1 /\ k \in Nat
        /\ \A l \in 1 .. Len(V) : at_(l) \in 1 .. Len(W) /\ V[l] = W[at_(l)]
    <3>1. k \in Nat /\ k >= 1 /\ k <= Len(W)
      BY <1>2, <1>6
    <3>2. /\ Len(V) = Len(W) - 1
          /\ \A l \in 1 .. Len(W) - 1 : l < k => V[l] = W[l]
          /\ \A l \in 1 .. Len(W) - 1 : l >= k => V[l] = W[l + 1]
      <4> DEFINE X == SubSeq(W, 1, k - 1) \o SubSeq(W, k + 1, Len(W))
      <4>1. /\ Len(X) = Len(W) - 1
            /\ \A l \in 1 .. Len(W) - 1 : l < k => X[l] = W[l]
            /\ \A l \in 1 .. Len(W) - 1 : l >= k => X[l] = W[l + 1]
        BY Zenon, <1>2, <1>6, RemovedPosition
      <4>2. V = X
        BY Zenon, <2>1
      <4> HIDE DEF X, V
      <4> QED BY Zenon, <4>1, <4>2
    <3>3. ASSUME NEW l \in 1 .. Len(V) PROVE at_(l) \in 1 .. Len(W) /\ V[l] = W[at_(l)]
      BY <1>2, <3>1, <3>2
    <3> QED BY Zenon, <3>1, <3>2, <3>3
  <2>5. WaitsOnce(d) /\ ResumesOnce(d)
    BY Zenon, <1>2 DEF WakeInv
  <2>6. /\ \A l \in 1 .. Len(V) : at_(l) # k
        /\ \A l, m \in 1 .. Len(V) : at_(l) = at_(m) => l = m
    BY <1>2, <2>4
  <2> HIDE DEF at_, V, T
  <2>7. \A l \in 1 .. Len(V) : V[l] # s /\ V[l] \in Session
    <3>1. \A l \in 1 .. Len(W) : W[l] \in Session
      BY <1>2
    <3>2. ASSUME NEW l \in 1 .. Len(V), V[l] = s PROVE FALSE
      <4>1. at_(l) \in 1 .. Len(W) /\ W[at_(l)] = W[k] /\ at_(l) # k
        BY Zenon, <1>6, <2>4, <2>6, <3>2
      <4> QED BY Zenon, <2>5, <4>1 DEF WaitsOnce
    <3> QED BY Zenon, <2>4, <3>1, <3>2
  <2>8. \A p \in 1 .. Len(S) : S[p] # ResumeTask(s)
    BY Zenon, <1>6, <2>5 DEF WaitsOnce
  <2>9. ASSUME NEW e \in Distributor PROVE WaitsOnce(e)'
    <3>1. CASE e # d
      <4>1. waiting'[e] = waiting[e] /\ strand'[e] = strand[e] /\ WaitsOnce(e)
        BY Zenon, <2>1, <3>1 DEF WakeInv
      <4> QED BY Zenon, <1>3, <4>1 DEF WaitsOnce
    <3>2. CASE e = d
      <4>1. ASSUME NEW l \in 1 .. Len(V) PROVE at[V[l]] = "waits" /\ fetcher[V[l]] = d
        <5>1. at_(l) \in 1 .. Len(W) /\ V[l] = W[at_(l)]
          BY Zenon, <2>4
        <5> QED BY Zenon, <2>5, <5>1 DEF WaitsOnce
      <4>2. \A l, m \in 1 .. Len(V) : V[l] = V[m] => l = m
        BY <2>4, <2>5, <2>6 DEF WaitsOnce
      <4>3. \A l \in 1 .. Len(V) : \A p \in 1 .. Len(T) : T[p] # ResumeTask(V[l])
        <5>1. \A l \in 1 .. Len(V) : \A p \in 1 .. Len(S) : S[p] # ResumeTask(V[l])
          BY SMTT(30), <2>4, <2>5 DEF WaitsOnce
        <5>2. \A l \in 1 .. Len(V) : ResumeTask(s) # ResumeTask(V[l])
          BY Zenon, <2>7, ResumeTaskFacts
        <5> QED BY Zenon, <2>3, <5>1, <5>2
      <4> QED BY Zenon, <1>3, <3>2, <4>1, <4>2, <4>3 DEF WaitsOnce, V, T
    <3> QED BY Zenon, <3>1, <3>2
  <2>10. ASSUME NEW e \in Distributor PROVE ResumesOnce(e)'
    <3>1. CASE e # d
      BY <1>3, <1>4, <2>1, <3>1 DEF WakeInv, ResumesOnce
    <3>2. CASE e = d
      <4>1. ASSUME NEW p \in 1 .. Len(T), NEW t \in Session, T[p] = ResumeTask(t)
            PROVE  /\ at[t] = "waits" /\ fetcher[t] = d
                   /\ open'[t] => nextIndex[t] < Len(data[d]) \/ finished[d]
        BY <1>1, <1>4, <2>3, <2>5, <4>1, ResumeTaskFacts DEF ResumesOnce
      <4>2. ASSUME NEW o \in 1 .. Len(T), NEW p \in 1 .. Len(T), NEW t \in Session,
                   T[o] = ResumeTask(t), T[p] = ResumeTask(t)
            PROVE  o = p
        <5>1. CASE t = s
          BY Zenon, <2>3, <2>8, <4>2, <5>1
        <5>2. CASE t # s
          <6>1. /\ o \in 1 .. Len(S) /\ S[o] = ResumeTask(t)
                /\ p \in 1 .. Len(S) /\ S[p] = ResumeTask(t)
            BY Zenon, <2>3, <4>2, <5>2, ResumeTaskFacts
          <6> QED BY Zenon, <2>5, <6>1 DEF ResumesOnce
        <5> QED BY Zenon, <5>1, <5>2
      <4> QED BY <1>3, <3>2, <4>1, <4>2 DEF ResumesOnce, T
    <3> QED BY Zenon, <3>1, <3>2
  <2>11. EndIsSet'
    <3>1. ASSUME NEW e \in Distributor, NEW p \in 1 .. Len(strand'[e]), strand'[e][p].run = "wake"
          PROVE  finished[e]
      <4>1. p \in 1 .. Len(strand[e]) /\ strand[e][p].run = "wake"
        <5>1. CASE e = d
          BY Zenon, <2>3, <3>1, <5>1, ResumeTaskFacts DEF T
        <5>2. CASE e # d
          BY Zenon, <2>1, <3>1, <5>2
        <5> QED BY Zenon, <5>1, <5>2
      <4> QED BY Zenon, <4>1 DEF WakeInv, EndIsSet
    <3> QED BY Zenon, <1>3, <3>1 DEF WakeInv, EndIsSet
  <2>12. ClosesAtEnd'
    BY Zenon, <1>3 DEF WakeInv, ClosesAtEnd
  <2> QED BY Zenon, <2>9, <2>10, <2>11, <2>12 DEF WakeInv
<1> QED BY Zenon, <1>5, <1>6 DEF DisconnectWaiting
-----------------------------------------------------------------------------
(* The steps of an operation.                                              *)
LEMMA OperationWakes ==
  ASSUME HubInv, HubInv', ReadInv, WakeInv, NEW q \in Query, OperationStep(q)
  PROVE  WakeInv'
<1>0. /\ pc \in [Query -> PC] /\ distributor \in [Query -> Distributor \union {None}]
      /\ finished \in [Distributor -> BOOLEAN]
      /\ UNCHANGED sessionVars
      /\ UNCHANGED <<at, fetcher, nextIndex, open>>
  BY Zenon DEF HubInv, HubTypes, OperationStep, sessionVars, ReadInv, QueueTypes
<1>1. /\ \A r \in Query : pc[r] \in {"finished", "left"} =>
           finished[distributor[r]] /\ distributor[r] \in Distributor
      /\ \A t \in Session : at[t] = "closes" => finished[fetcher[t]] /\ fetcher[t] \in Distributor
  BY Zenon DEF WakeInv, EndIsSet, ClosesAtEnd, HubInv, Held, Holding, ReadInv, Attached, Watching
<1>2. CASE (\E i \in QueryIds : Register(q, i)) \/ LeaveHub(q) \/ Unregister(q)
  BY ZenonT(40), <1>0, <1>1, <1>2, WakeFrame DEF Register, LeaveHub, Unregister, Goto,
       distributorVars
<1>3. CASE Construct(q)
  BY Zenon, <1>0, <1>1, <1>3, WakeFrame DEF Construct, Goto
<1>4. CASE Release(q)
  BY Zenon, <1>0, <1>1, <1>4, WakeFrame DEF Release, Goto
<1>5. CASE SetFinished(q)
  BY Zenon, <1>0, <1>1, <1>5, WakeFrame DEF SetFinished, Goto, HubInv, Held, Holding
<1>6. CASE SendUpdate(q)
  <2>1. /\ distributor[q] \in Distributor /\ updates[q] + 1 \in Nat
    BY <1>6, UpdatesAssumption DEF SendUpdate, HubInv, Held, Holding, ReadInv, QueueTypes
  <2>2. UpdateTask(<<q, updates[q] + 1>>) \in Task
    BY Zenon, <2>1 DEF UpdateTask, Task
  <2>3. /\ UNCHANGED <<data, finished, waiting, distributor, pc>>
        /\ Post(distributor[q], UpdateTask(<<q, updates[q] + 1>>))
    BY Zenon, <1>6 DEF SendUpdate
  <2> DEFINE task == UpdateTask(<<q, updates[q] + 1>>)
  <2>4. (\A s \in Session : task # ResumeTask(s)) /\ task.run # "wake"
    BY Zenon, ResumeTaskFacts
  <2> HIDE DEF task
  <2>5. Post(distributor[q], task) /\ task \in Task
    BY Zenon, <2>2, <2>3 DEF task
  <2> QED BY Zenon, <1>0, <2>1, <2>3, <2>4, <2>5, PostWakes
<1>7. CASE PostWake(q)
  BY <1>0, <1>1, <1>7, PostWakes, ResumeTaskFacts DEF PostWake, Goto, WakeTask, Task
<1> QED BY Zenon, <1>2, <1>3, <1>4, <1>5, <1>6, <1>7 DEF OperationStep, Operation, SignalEnd

(* The steps of a session, of its client and of the connection.            *)
LEMMA SessionWakes ==
  ASSUME HubInv, ReadInv, WakeInv, NEW s \in Session, SessionProgress(s) \/ Client(s)
  PROVE  WakeInv'
<1>0. at \in [Session -> At] /\ fetcher \in [Session -> Distributor \union {None}]
      /\ nextIndex \in [Session -> Nat] /\ open \in [Session -> BOOLEAN]
  BY Zenon DEF ReadInv, SessionTypes
<1>1. /\ \A q \in Query : pc[q] \in {"finished", "left"} => finished[distributor[q]]
      /\ \A t \in Session : at[t] = "closes" => finished[fetcher[t]]
  BY Zenon DEF WakeInv, EndIsSet, ClosesAtEnd
<1>2. CASE Ask(s)
  BY Zenon, <1>2, AskWakes
<1>3. CASE Resume(s)
  BY Zenon, <1>3, ResumeWakes
<1>4. CASE DisconnectWaiting(s)
  BY Zenon, <1>4, DisconnectWakes
<1>5. CASE Accepted(s) \/ AcceptFails(s) \/ Written(s) \/ Disconnect(s)
  BY <1>0, <1>1, <1>5, WakeFrame DEF Accepted, AcceptFails, Written, Disconnect, Step,
       distributorVars, senderVars
<1>6. CASE CancelOnCloseCommand(s) \/ CancelCommand(s)
  BY Zenon, <1>1, <1>6, WakeFrame DEF CancelOnCloseCommand, CancelCommand, distributorVars, senderVars
<1>7. CASE Closed(s) \/ Catch(s)
  <2>1. /\ UNCHANGED <<strand, waiting, data, finished, pc, distributor>>
        /\ at[s] # "waits"
        /\ \E to \in {"over", "catches"} : at' = [at EXCEPT ![s] = to]
        /\ open' = [open EXCEPT ![s] = FALSE]
        /\ fetcher' = fetcher \/ fetcher' = [fetcher EXCEPT ![s] = None]
        /\ nextIndex' = nextIndex \/ nextIndex' = [nextIndex EXCEPT ![s] = 0]
    BY Zenon, <1>7 DEF Closed, Catch, EndSession, Step, senderVars
  <2>2. /\ \A t \in Session : at[t] = "waits" =>
             /\ at'[t] = "waits" /\ open'[t] = open[t]
             /\ fetcher'[t] = fetcher[t] /\ nextIndex'[t] = nextIndex[t]
        /\ \A t \in Session : at'[t] = "closes" => at[t] = "closes" /\ fetcher'[t] = fetcher[t]
    BY Zenon, <1>0, <2>1
  <2> QED BY Zenon, <1>1, <2>1, <2>2, WakeFrame
<1>8. ASSUME NEW i \in QueryIds, HandleSession(s, i) PROVE WakeInv'
  BY Zenon, <1>0, <1>1, <1>8, WakeFrame DEF HandleSession, Step, senderVars
<1> QED BY Zenon, <1>2, <1>3, <1>4, <1>5, <1>6, <1>7, <1>8 DEF SessionProgress, Client

(* Every step keeps the invariant of the waiting sessions.                 *)
LEMMA NextKeepsWake == HubInv /\ HubInv' /\ ReadInv /\ WakeInv /\ [Next]_vars => WakeInv'
<1> SUFFICES ASSUME HubInv, HubInv', ReadInv, WakeInv, [Next]_vars PROVE WakeInv'
  OBVIOUS
<1>0. /\ \A q \in Query : pc[q] \in {"finished", "left"} => finished[distributor[q]]
      /\ \A t \in Session : at[t] = "closes" => finished[fetcher[t]]
  BY Zenon DEF WakeInv, EndIsSet, ClosesAtEnd
<1>1. CASE UNCHANGED vars
  BY Zenon, <1>0, <1>1, WakeFrame DEF vars, distributorVars, senderVars, sessionVars
<1>2. ASSUME NEW d \in Distributor, DestroyStep(d) PROVE WakeInv'
  BY Zenon, <1>0, <1>2, WakeFrame DEF DestroyStep, Destroy, distributorVars, senderVars, sessionVars
<1> QED BY Zenon, <1>1, <1>2, RunWakes, OperationWakes, SessionWakes DEF Next

-----------------------------------------------------------------------------
(* The inductive invariant.                                                *)
DeliveryInv == ReadStreamInv /\ WakeInv

(* A session that has to do something is woken up, and finds what it was   *)
(* woken up for, in every reachable state.                                 *)
THEOREM DeliveryInvariant == Spec => []DeliveryInv
<1>1. Init => WakeInv
  BY Zenon, InitWake
<1>2. ReadStreamInv /\ ReadStreamInv' /\ WakeInv /\ [Next]_vars => WakeInv'
  BY Zenon, NextKeepsWake DEF ReadStreamInv
<1> QED BY <1>1, <1>2, StreamInvariant, PTL DEF Spec, DeliveryInv

(* The server closes a connection only after the end of the operation, and *)
(* all variables keep their types.                                         *)
THEOREM ClosedAtTheEnd == Spec => []ClosesOnlyAtTheEnd
<1>1. DeliveryInv => ClosesOnlyAtTheEnd
  BY Zenon DEF DeliveryInv, ReadStreamInv, HubInv, HubTypes, ReadInv, QueueTypes, SessionTypes, WakeInv,
         ClosesAtEnd, ClosesOnlyAtTheEnd, TypeOK
<1> QED BY <1>1, DeliveryInvariant, PTL
=============================================================================
