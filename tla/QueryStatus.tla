------------------------------ MODULE QueryStatus ------------------------------
(***************************************************************************)
(* The live status of queries: operations that send updates, websocket     *)
(* sessions that watch them, and the registry, the hub and the             *)
(* distributors between them.                                              *)
(***************************************************************************)
EXTENDS WebSocketSession

vars == <<distributorVars, hubVars, senderVars, sessionVars>>

Init == DistributorInit /\ HubInit /\ SenderInit /\ SessionInit

(* The io_context runs the handlers that were posted to a strand, and the  *)
(* thread that drops the last reference runs the destructor.               *)
DistributorStep(d) ==
  (RunUpdate(d) \/ RunWake(d)) /\ UNCHANGED <<hubVars, senderVars, sessionVars>>
DestroyStep(d) == Destroy(d) /\ UNCHANGED <<senderVars, sessionVars>>

OperationStep(q) == Operation(q) /\ UNCHANGED sessionVars

Next ==
  \/ \E d \in Distributor : DistributorStep(d) \/ DestroyStep(d)
  \/ \E q \in Query : OperationStep(q)
  \/ \E s \in Session : SessionProgress(s) \/ Client(s)

Spec == Init /\ [][Next]_vars

(* The threads of the io_context keep running: posted handlers,            *)
(* destructors and the ends of operations are executed.  The network I/O   *)
(* of a session completes, if only with the error of the timeouts that     *)
(* acceptAndWait sets.  Clients and new operations need not come.          *)
Fairness ==
  /\ \A d \in Distributor : WF_vars(DistributorStep(d)) /\ WF_vars(DestroyStep(d))
  /\ \A q \in Query : WF_vars((SignalEnd(q) \/ Unregister(q) \/ Release(q))
                              /\ UNCHANGED sessionVars)
  /\ \A s \in Session : WF_vars(SessionProgress(s))

FairSpec == Spec /\ Fairness

-----------------------------------------------------------------------------
(* The types of the variables, and where a session or an operation is      *)
(* allowed to be.                                                          *)
TypeOK ==
  /\ refs \in [Distributor -> SUBSET (Query \union Session)]
  /\ finished \in [Distributor -> BOOLEAN]
  /\ hub \in [QueryIds -> [pointer : Distributor \union {None}, started : BOOLEAN]]
  /\ idOf \in [Distributor -> QueryIds \union {None}]
  /\ cleanup \in [Distributor -> BOOLEAN]
  /\ registry \in [QueryIds -> Query \union {None}]
  /\ cancelled \in SUBSET Query
  /\ pc \in [Query -> PC]
  /\ queryId \in [Query -> QueryIds \union {None}]
  /\ distributor \in [Query -> Distributor \union {None}]
  /\ updates \in [Query -> 0 .. MaxUpdates]
  /\ at \in [Session -> At]
  /\ watched \in [Session -> QueryIds \union {None}]
  /\ fetcher \in [Session -> Distributor \union {None}]
  /\ open \in [Session -> BOOLEAN] /\ reads \in [Session -> BOOLEAN]
  /\ cancelOnClose \in [Session -> BOOLEAN]

(* An operation holds a distributor it may send to.                        *)
Sending(q) == pc[q] \in {"running", "finished"}

(* "There can only ever be one sender" (QueryHub.h): the contract check in *)
(* createOrAcquireDistributorInternal never fails, however operations with *)
(* the same id follow each other and whatever the sessions do, because the *)
(* id is unregistered only after its distributor has left the hub.         *)
OneSenderPerDistributor ==
  /\ \A q \in Query : pc[q] # "failed"
  /\ \A q, r \in Query :
       Sending(q) /\ Sending(r) /\ distributor[q] = distributor[r] => q = r

(* While an operation runs, the hub leads everybody who asks for its id to *)
(* its distributor: no cleanup call of an earlier distributor with the     *)
(* same id removes it (deleteFromDistributors).                            *)
RunningIsFound ==
  \A q \in Query : Sending(q) =>
    /\ hub[queryId[q]] = [pointer |-> distributor[q], started |-> TRUE]
    /\ registry[queryId[q]] = q

(* The hub does not keep dead entries: an entry belongs to a distributor   *)
(* that is alive or whose destructor has yet to run its cleanup call.      *)
HubHasNoLeak ==
  \A i \in QueryIds : hub[i].pointer # None =>
    LET d == hub[i].pointer IN idOf[d] = i /\ (Alive(d) \/ cleanup[d])

(* A client gets the updates of one operation, in the order in which they  *)
(* were sent and without a gap, at whatever pace it reads                  *)
(* (waitForNextDataPiece, UpdateFetcher::waitForEvent).                    *)
ReceivedInOrder ==
  \A s \in Session : received[s] # <<>> =>
    \E q \in Query :
      \A k \in 1 .. Len(received[s]) : received[s][k] = <<q, k>>

(* The server closes a connection only when the operation it watches has   *)
(* signalled its end: a session that is woken up by an update finds data.  *)
ClosesOnlyAtTheEnd ==
  /\ TypeOK
  /\ \A s \in Session : at[s] = "closes" => finished[fetcher[s]]

(* Once an operation has signalled its end, every session that watches its *)
(* distributor comes to its end: no wake-up is lost between signalEnd and  *)
(* a session that is about to wait.                                        *)
SessionsEnd ==
  \A s \in Session :
    (fetcher[s] # None /\ finished[fetcher[s]]) ~> (at[s] = "over")

(* The subsystem cleans up: when nobody uses the id any more, the hub has  *)
(* forgotten it.                                                           *)
Unused(i) ==
  /\ registry[i] = None
  /\ \A s \in Session : watched[s] # i
HubForgets ==
  \A i \in QueryIds : []<>(~ Unused(i) \/ hub[i].pointer = None)

-----------------------------------------------------------------------------
(* "co_returns a nullptr if no more data is available", "if all data has   *)
(* already been consumed" (QueryToSocketDistributor.h): a session that is  *)
(* told that there is no more data has got every update that was sent.     *)
NothingMissed ==
  \A s \in Session : at[s] = "closes" =>
    LET d == fetcher[s]
    IN  /\ nextIndex[s] = Len(data[d])
        /\ \A k \in 1 .. Len(strand[d]) : strand[d][k].run # "update"

(* The command cancel "will attempt to cancel the current query"           *)
(* (WebSocketSession.h): no session cancels an operation after it has      *)
(* received updates of another one.                                        *)
CancelsWhatItWatches ==
  [][\A q \in cancelled' \ cancelled : \E s \in Session :
       /\ watched[s] = queryId[q]
       /\ \A k \in 1 .. Len(received[s]) : received[s][k][1] = q]_vars
=============================================================================
