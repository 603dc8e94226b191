----------------------------- MODULE MessageSender -----------------------------
(***************************************************************************)
(* An operation of the server and its MessageSender, from                  *)
(* src/util/http/websocket/MessageSender.{h,cpp}, QueryId.h and the use    *)
(* that src/engine/Server.cpp makes of them: the operation registers its   *)
(* query id, acquires the distributor of the id, sends updates, and at the *)
(* end the destructor of the MessageSender calls signalEnd, unregisters    *)
(* the id and drops the distributor, in this order.                        *)
(***************************************************************************)
EXTENDS QueryHub

CONSTANT MaxUpdates    \* bound: the updates of one operation

ASSUME UpdatesAssumption == MaxUpdates \in Nat

VARIABLES registry,     \* registry_: the operation that owns an id
          cancelled,    \* the operations whose cancellation handle is set
          pc,           \* where an operation is
          queryId,      \* the id of an operation
          distributor,  \* its distributor_
          updates       \* the number of updates it has sent
senderVars == <<registry, cancelled, pc, queryId, distributor, updates>>

SenderInit ==
  /\ registry = [i \in QueryIds |-> None]
  /\ cancelled = {}
  /\ pc = [q \in Query |-> "arrives"]
  /\ queryId = [q \in Query |-> None]
  /\ distributor = [q \in Query |-> None]
  /\ updates = [q \in Query |-> 0]

PC == {"arrives", "registered", "running", "finished", "left", "signalled",
       "unregistered", "over", "rejected", "failed"}

Goto(q, to) == pc' = [pc EXCEPT ![q] = to]

(* getQueryId: the id comes from the Query-Id header, or is a random one   *)
(* that is drawn until it is not in use; an id in use is rejected.         *)
Register(q, i) ==
  /\ pc[q] = "arrives"
  /\ IF registry[i] = None
     THEN /\ registry' = [registry EXCEPT ![i] = q]
          /\ queryId' = [queryId EXCEPT ![q] = i]
          /\ Goto(q, "registered")
     ELSE Goto(q, "rejected") /\ UNCHANGED <<registry, queryId>>
  /\ UNCHANGED <<distributorVars, hubVars, cancelled, distributor, updates>>

(* The constructor of MessageSender.  If the contract check throws, the    *)
(* OwningQueryId unregisters the id.                                       *)
Construct(q) ==
  /\ pc[q] = "registered"
  /\ IF SecondSender(queryId[q])
     THEN /\ registry' = [registry EXCEPT ![queryId[q]] = None]
          /\ Goto(q, "failed")
          /\ UNCHANGED <<refs, hubVars, distributor>>
     ELSE /\ \E d \in Distributor :
               /\ CreateOrAcquireDistributor(queryId[q], q, TRUE, d)
               /\ distributor' = [distributor EXCEPT ![q] = d]
          /\ Goto(q, "running")
          /\ UNCHANGED registry
  /\ UNCHANGED <<strand, data, finished, waiting, cancelled, queryId, updates>>

(* operator() and addQueryStatusUpdate.                                    *)
SendUpdate(q) ==
  /\ pc[q] = "running"
  /\ updates[q] < MaxUpdates
  /\ updates' = [updates EXCEPT ![q] = @ + 1]
  /\ Post(distributor[q], UpdateTask(<<q, updates[q] + 1>>))
  /\ UNCHANGED <<refs, data, finished, waiting, hubVars, registry, cancelled,
                 pc, queryId, distributor>>

-----------------------------------------------------------------------------
(* signalEnd, step by step.                                                *)

(* Mutant: the id is unregistered before the end is signalled.             *)
UnregistersFirst(q) ==
  /\ pc[q] = "running"
  /\ finished' = [finished EXCEPT ![distributor[q]] = TRUE]
  /\ registry' = [registry EXCEPT ![queryId[q]] = None]
  /\ Goto(q, "finished")
  /\ UNCHANGED <<refs, strand, data, waiting, hubVars, cancelled, queryId,
                 distributor, updates>>

SetFinished(q) ==
  /\ pc[q] = "running"
  /\ finished' = [finished EXCEPT ![distributor[q]] = TRUE]
  /\ Goto(q, "finished")
  /\ UNCHANGED <<refs, strand, data, waiting, hubVars, registry, cancelled,
                 queryId, distributor, updates>>

(* signalEndCall_ and the cancellation of cleanupCall_.                    *)
LeaveHub(q) ==
  /\ pc[q] = "finished"
  /\ DeleteFromDistributors(idOf[distributor[q]], TRUE)
  /\ cleanup' = [cleanup EXCEPT ![distributor[q]] = FALSE]
  /\ Goto(q, "left")
  /\ UNCHANGED <<distributorVars, idOf, registry, cancelled, queryId,
                 distributor, updates>>

(* Mutant: nobody is woken up at the end.                                  *)
WakesNobody(q) ==
  /\ pc[q] = "left"
  /\ Goto(q, "signalled")
  /\ UNCHANGED <<distributorVars, hubVars, registry, cancelled, queryId,
                 distributor, updates>>

PostWake(q) ==
  /\ pc[q] = "left"
  /\ Post(distributor[q], WakeTask)
  /\ Goto(q, "signalled")
  /\ UNCHANGED <<refs, data, finished, waiting, hubVars, registry, cancelled,
                 queryId, distributor, updates>>

(* The destructor of owningQueryId_ erases the id from the registry.       *)
Unregister(q) ==
  /\ pc[q] = "signalled"
  /\ registry' = [registry EXCEPT ![queryId[q]] = None]
  /\ Goto(q, "unregistered")
  /\ UNCHANGED <<distributorVars, hubVars, cancelled, queryId, distributor,
                 updates>>

(* The destructor of distributor_.                                         *)
Release(q) ==
  /\ pc[q] = "unregistered"
  /\ refs' = [refs EXCEPT ![distributor[q]] = @ \ {q}]
  /\ distributor' = [distributor EXCEPT ![q] = None]
  /\ queryId' = [queryId EXCEPT ![q] = None]
  /\ Goto(q, "over")
  /\ UNCHANGED <<strand, data, finished, waiting, hubVars, registry, cancelled,
                 updates>>

SignalEnd(q) == SetFinished(q) \/ LeaveHub(q) \/ PostWake(q)

Operation(q) ==
  \/ \E i \in QueryIds : Register(q, i)
  \/ Construct(q) \/ SendUpdate(q)
  \/ SignalEnd(q) \/ Unregister(q) \/ Release(q)
=============================================================================
