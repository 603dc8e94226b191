---------------------------- MODULE QueryStatusProof ----------------------------
(***************************************************************************)
(* Proofs about the hub of QueryStatus, and about the way of an update to  *)
(* the client, for any number of operations, sessions, ids and updates.    *)
(*                                                                         *)
(* The first invariant ties the four places where an id is known to each   *)
(* other: the operation, the registry, the hub and the cleanup call of the *)
(* distributor.  An entry of the hub that is marked as started belongs to  *)
(* the operation that the registry names; this is what the next operation  *)
(* with the same id relies on when it passes the contract check.           *)
(*                                                                         *)
(* ReadInv says that what a session has written to its client is what it   *)
(* has read from data_, and StreamInv that the updates of an operation are *)
(* in order in data_ and in the strand behind it.                          *)
(***************************************************************************)
EXTENDS QueryStatus, TLAPS

Registered(q) ==
  pc[q] \in {"registered", "running", "finished", "left", "signalled"}
Holding(q) ==
  pc[q] \in {"running", "finished", "left", "signalled", "unregistered"}

HubTypes ==
  /\ refs \in [Distributor -> SUBSET (Query \union Session)]
  /\ hub \in [QueryIds -> [pointer : Distributor \union {None}, started : BOOLEAN]]
  /\ idOf \in [Distributor -> QueryIds \union {None}]
  /\ cleanup \in [Distributor -> BOOLEAN]
  /\ registry \in [QueryIds -> Query \union {None}]
  /\ pc \in [Query -> PC]
  /\ queryId \in [Query -> QueryIds \union {None}]
  /\ distributor \in [Query -> Distributor \union {None}]

(* An operation and its distributor know the same id, and the operation    *)
(* keeps the distributor alive.                                            *)
Held ==
  \A q \in Query : Holding(q) =>
    /\ distributor[q] \in Distributor
    /\ q \in refs[distributor[q]]
    /\ queryId[q] \in QueryIds
    /\ idOf[distributor[q]] = queryId[q]

(* The registry names the operation until the distributor has left.        *)
Owned ==
  \A q \in Query : Registered(q) =>
    queryId[q] \in QueryIds /\ registry[queryId[q]] = q

(* The hub leads to the distributor of a running operation.                *)
Found ==
  \A q \in Query : Sending(q) =>
    /\ hub[queryId[q]].pointer = distributor[q]
    /\ hub[queryId[q]].started

(* An entry points to a distributor of its id whose cleanup call is        *)
(* active.                                                                 *)
Entries ==
  \A i \in QueryIds : hub[i].pointer # None =>
    idOf[hub[i].pointer] = i /\ cleanup[hub[i].pointer]

(* An entry is marked as started only while its operation runs.            *)
Started ==
  \A i \in QueryIds : hub[i].pointer # None /\ hub[i].started =>
    \E q \in Query : registry[i] = q /\ Sending(q) /\ queryId[q] = i

NoFailure == \A q \in Query : pc[q] # "failed"

HubInv == HubTypes /\ Held /\ Owned /\ Found /\ Entries /\ Started /\ NoFailure

-----------------------------------------------------------------------------
(* The three invariants of the hub follow from HubInv.                     *)
LEMMA HubInvImplies ==
  HubInv => OneSenderPerDistributor /\ RunningIsFound /\ HubHasNoLeak
<1> SUFFICES ASSUME HubInv PROVE OneSenderPerDistributor /\ RunningIsFound /\ HubHasNoLeak
  OBVIOUS
<1> USE DistributorAssumption, HubAssumption
<1>1. ASSUME NEW q \in Query, Sending(q) PROVE Registered(q) /\ Holding(q)
  BY Zenon, <1>1 DEF Sending, Registered, Holding
<1>2. OneSenderPerDistributor
  BY <1>1 DEF HubInv, OneSenderPerDistributor, NoFailure, Held, Owned
<1>3. RunningIsFound
  <2> SUFFICES ASSUME NEW q \in Query, Sending(q)
               PROVE /\ hub[queryId[q]] = [pointer |-> distributor[q], started |-> TRUE]
                     /\ registry[queryId[q]] = q
    BY Zenon DEF RunningIsFound
  <2>1. registry[queryId[q]] = q /\ queryId[q] \in QueryIds
    BY Zenon, <1>1 DEF HubInv, Owned
  <2>2. hub[queryId[q]].pointer = distributor[q] /\ hub[queryId[q]].started
    BY Zenon DEF HubInv, Found
  <2>3. hub[queryId[q]] \in [pointer : Distributor \union {None}, started : BOOLEAN]
    BY Zenon, <2>1 DEF HubInv, HubTypes
  <2> QED BY Zenon, <2>1, <2>2, <2>3
<1>4. HubHasNoLeak
  BY Zenon DEF HubInv, HubHasNoLeak, Entries
<1> QED BY Zenon, <1>2, <1>3, <1>4

(* The initial states satisfy the invariant.                               *)
LEMMA InitHub == Init => HubInv
  BY DistributorAssumption, HubAssumption
  DEF Init, DistributorInit, HubInit, SenderInit, SessionInit, NoEntry, HubInv,
      HubTypes, Held, Owned, Found, Entries, Started, NoFailure, PC, Holding,
      Registered, Sending

(* Steps that change none of the variables of the invariant.               *)
LEMMA FrameKeeps ==
  ASSUME HubInv, UNCHANGED <<refs, hub, idOf, cleanup, registry, pc, queryId, distributor>>
  PROVE  HubInv'
  BY Zenon DEF HubInv, HubTypes, Held, Owned, Found, Entries, Started, NoFailure,
         Holding, Registered, Sending

(* The end of a session only drops the reference of the session.           *)
LEMMA EndSessionKeeps ==
  ASSUME HubInv, NEW s \in Session, EndSession(s),
         UNCHANGED <<hub, idOf, cleanup, registry, pc, queryId, distributor>>
  PROVE  HubInv'
<1> USE DistributorAssumption, HubAssumption
<1>1. HubTypes'
  BY Zenon DEF HubInv, HubTypes, EndSession
<1>2. Held'
  BY DEF HubInv, HubTypes, Held, Holding, EndSession
<1>3. (Owned /\ Found /\ Entries /\ Started /\ NoFailure)'
  BY Zenon DEF HubInv, Owned, Found, Entries, Started, NoFailure, Registered, Sending
<1> QED BY Zenon, <1>1, <1>2, <1>3 DEF HubInv

(* The distributor of a sending operation can be acquired.                 *)
LEMMA SenderIsAcquirable ==
  ASSUME HubInv, NEW q \in Query, Sending(q)
  PROVE  /\ queryId[q] \in QueryIds
         /\ hub[queryId[q]].pointer = distributor[q]
         /\ Acquirable(queryId[q])
  BY DistributorAssumption
  DEF HubInv, Held, Found, Sending, Holding, Acquirable, Alive

(* An address that is not in use is neither in the hub nor held.           *)
LEMMA FreshIsNew ==
  ASSUME HubInv, \E e \in Distributor : idOf[e] = None
  PROVE  /\ FreshDistributor \in Distributor
         /\ idOf[FreshDistributor] = None
         /\ \A i \in QueryIds : hub[i].pointer # FreshDistributor
         /\ \A q \in Query : Holding(q) => distributor[q] # FreshDistributor
<1>1. FreshDistributor \in Distributor /\ idOf[FreshDistributor] = None
  BY Zenon DEF FreshDistributor
<1> QED
  BY <1>1, DistributorAssumption, HubAssumption DEF HubInv, Entries, Held

(* A session acquires a distributor.                                       *)
LEMMA ReceiverKeeps ==
  ASSUME HubInv, NEW i \in QueryIds, NEW s \in Session, NEW d \in Distributor,
         CreateOrAcquireDistributor(i, s, FALSE, d),
         UNCHANGED <<registry, pc, queryId, distributor>>
  PROVE  HubInv'
<1> USE DistributorAssumption, HubAssumption
<1>1. CASE AcquireDistributor(i, s, FALSE, d)
  <2>1. /\ refs' = [refs EXCEPT ![d] = @ \union {s}]
        /\ hub' = hub /\ idOf' = idOf /\ cleanup' = cleanup
    BY Zenon, <1>1 DEF AcquireDistributor, HubInv, HubTypes
  <2>2. HubTypes'
    BY Zenon, <2>1 DEF HubInv, HubTypes
  <2>3. Held'
    BY Zenon, <2>1 DEF HubInv, HubTypes, Held, Holding
  <2>4. (Owned /\ Found /\ Entries /\ Started /\ NoFailure)'
    BY Zenon, <2>1 DEF HubInv, Owned, Found, Entries, Started, NoFailure, Registered, Sending
  <2> QED BY Zenon, <2>2, <2>3, <2>4 DEF HubInv
<1>2. CASE CreateDistributor(i, s, FALSE, d)
  <2>1. /\ ~ Acquirable(i) /\ d = FreshDistributor
        /\ \E e \in Distributor : idOf[e] = None
        /\ hub' = [hub EXCEPT ![i] = [pointer |-> d, started |-> FALSE]]
        /\ refs' = [refs EXCEPT ![d] = {s}]
        /\ idOf' = [idOf EXCEPT ![d] = i]
        /\ cleanup' = [cleanup EXCEPT ![d] = TRUE]
    BY Zenon, <1>2 DEF CreateDistributor
  <2>2. /\ idOf[d] = None
        /\ \A j \in QueryIds : hub[j].pointer # d
        /\ \A q \in Query : Holding(q) => distributor[q] # d
    BY Zenon, <2>1, FreshIsNew
  <2>3. \A q \in Query : Sending(q) => queryId[q] # i /\ queryId[q] \in QueryIds
    BY Zenon, <2>1, SenderIsAcquirable
  <2>4. HubTypes'
    BY <2>1 DEF HubInv, HubTypes
  <2>5. Held'
    BY Zenon, <2>1, <2>2 DEF HubInv, HubTypes, Held, Holding
  <2>6. Found'
    BY <2>1, <2>3 DEF HubInv, HubTypes, Found, Sending
  <2>7. Entries'
    BY <2>1, <2>2 DEF HubInv, HubTypes, Entries
  <2>8. Started'
    BY <2>1 DEF HubInv, HubTypes, Started, Sending
  <2>9. (Owned /\ NoFailure)'
    BY Zenon DEF HubInv, Owned, NoFailure, Registered
  <2> QED BY Zenon, <2>4, <2>5, <2>6, <2>7, <2>8, <2>9 DEF HubInv
<1> QED BY Zenon, <1>1, <1>2 DEF CreateOrAcquireDistributor

(* The cleanup call of a destroyed distributor leaves the entry of a       *)
(* running operation alone.                                                *)
LEMMA DestroyKeeps ==
  ASSUME HubInv, NEW d \in Distributor, DestroyStep(d)
  PROVE  HubInv'
<1> USE DistributorAssumption, HubAssumption
<1> DEFINE i == idOf[d]
<1>1. /\ i \in QueryIds /\ ~ Alive(d)
      /\ hub' = IF Acquirable(i) THEN hub ELSE [hub EXCEPT ![i] = NoEntry]
      /\ cleanup' = [cleanup EXCEPT ![d] = FALSE]
      /\ UNCHANGED <<refs, idOf, registry, pc, queryId, distributor>>
  BY Zenon DEF DestroyStep, Destroy, DeleteFromDistributors, distributorVars, senderVars,
         HubInv, HubTypes
<1>2. \A j \in QueryIds : hub'[j].pointer # None =>
        hub'[j] = hub[j] /\ hub[j].pointer # d
  BY <1>1 DEF HubInv, HubTypes, Entries, NoEntry, Acquirable
<1>3. \A q \in Query : Sending(q) => hub'[queryId[q]] = hub[queryId[q]]
  BY Zenon, <1>1, SenderIsAcquirable DEF HubInv, HubTypes
<1>4. HubTypes'
  BY Zenon, <1>1 DEF HubInv, HubTypes, NoEntry
<1>5. Found'
  BY <1>1, <1>3 DEF HubInv, Found, Sending
<1>6. Entries'
  BY <1>1, <1>2 DEF HubInv, HubTypes, Entries
<1>7. Started'
  BY <1>1, <1>2 DEF HubInv, Started, Sending
<1>8. (Held /\ Owned /\ NoFailure)'
  BY Zenon, <1>1 DEF HubInv, Held, Owned, NoFailure, Registered, Holding
<1> QED BY Zenon, <1>4, <1>5, <1>6, <1>7, <1>8 DEF HubInv

(* An operation registers its id.                                          *)
LEMMA RegisterKeeps ==
  ASSUME HubInv, NEW q \in Query, NEW i \in QueryIds, Register(q, i)
  PROVE  HubInv'
<1> USE DistributorAssumption, HubAssumption
<1>0. pc[q] = "arrives" /\ UNCHANGED <<refs, hub, idOf, cleanup, distributor>>
  BY Zenon DEF Register, distributorVars, hubVars
<1>1. CASE registry[i] = None
  <2>1. /\ registry' = [registry EXCEPT ![i] = q]
        /\ queryId' = [queryId EXCEPT ![q] = i]
        /\ pc' = [pc EXCEPT ![q] = "registered"]
    BY Zenon, <1>1 DEF Register, Goto
  <2>2. HubTypes'
    BY Zenon, <1>0, <2>1 DEF HubInv, HubTypes, PC
  <2>3. Held'
    BY Zenon, <1>0, <2>1 DEF HubInv, HubTypes, Held, Holding
  <2>4. Owned'
    BY <1>0, <1>1, <2>1 DEF HubInv, HubTypes, Owned, Registered
  <2>5. Found'
    BY <1>0, <2>1 DEF HubInv, HubTypes, Found, Sending
  <2>6. Entries' /\ NoFailure'
    BY Zenon, <1>0, <2>1 DEF HubInv, HubTypes, Entries, NoFailure
  <2>7. Started'
    BY <1>0, <1>1, <2>1 DEF HubInv, HubTypes, Started, Sending
  <2> QED BY Zenon, <2>2, <2>3, <2>4, <2>5, <2>6, <2>7 DEF HubInv
<1>2. CASE registry[i] # None
  <2>1. pc' = [pc EXCEPT ![q] = "rejected"] /\ UNCHANGED <<registry, queryId>>
    BY Zenon, <1>2 DEF Register, Goto
  <2>2. HubTypes'
    BY Zenon, <1>0, <2>1 DEF HubInv, HubTypes, PC
  <2>3. (Held /\ Owned /\ Found)'
    BY <1>0, <2>1 DEF HubInv, HubTypes, Held, Holding, Owned, Registered, Found, Sending
  <2>4. (Entries /\ NoFailure)'
    BY Zenon, <1>0, <2>1 DEF HubInv, HubTypes, Entries, NoFailure
  <2>5. Started'
    BY Zenon, <1>0, <2>1 DEF HubInv, HubTypes, Started, Sending
  <2> QED BY Zenon, <2>2, <2>3, <2>4, <2>5 DEF HubInv
<1> QED BY Zenon, <1>1, <1>2

(* The contract check of the hub passes, and the operation gets the only   *)
(* distributor of its id.                                                  *)
LEMMA ConstructKeeps ==
  ASSUME HubInv, NEW q \in Query, Construct(q)
  PROVE  HubInv'
<1> USE DistributorAssumption, HubAssumption
<1> DEFINE i == queryId[q]
<1>0. pc[q] = "registered" /\ i \in QueryIds /\ registry[i] = q
  BY Zenon DEF Construct, HubInv, Owned, Registered
<1>1. ~ SecondSender(i)
  BY Zenon, <1>0 DEF SecondSender, Acquirable, HubInv, Started, Sending
<1>2. PICK d \in Distributor :
        /\ CreateOrAcquireDistributor(i, q, TRUE, d)
        /\ distributor' = [distributor EXCEPT ![q] = d]
        /\ pc' = [pc EXCEPT ![q] = "running"]
        /\ registry' = registry /\ queryId' = queryId
  BY Zenon, <1>1 DEF Construct, Goto
<1>3. \A r \in Query : Sending(r) => r # q /\ queryId[r] # i
  BY Zenon, <1>0 DEF HubInv, Owned, Sending, Registered
<1>4. Owned' /\ NoFailure'
  BY Zenon, <1>0, <1>2 DEF HubInv, HubTypes, Owned, Registered, NoFailure
<1>5. CASE AcquireDistributor(i, q, TRUE, d)
  <2>1. /\ hub[i].pointer # None /\ d = hub[i].pointer
        /\ hub' = [hub EXCEPT ![i] = [pointer |-> d, started |-> TRUE]]
        /\ refs' = [refs EXCEPT ![d] = @ \union {q}]
        /\ idOf' = idOf /\ cleanup' = cleanup
    BY Zenon, <1>0, <1>5 DEF AcquireDistributor, Acquirable, HubInv, HubTypes
  <2>2. /\ \A j \in QueryIds : hub'[j].pointer = hub[j].pointer
        /\ \A j \in QueryIds \ {i} : hub'[j] = hub[j]
        /\ hub'[i].started
    BY Zenon, <1>0, <2>1 DEF HubInv, HubTypes
  <2>3. HubTypes'
    BY <1>0, <1>2, <2>1 DEF HubInv, HubTypes, PC
  <2>4. Held'
    BY <1>0, <1>2, <2>1 DEF HubInv, HubTypes, Held, Holding, Entries
  <2>5. Found'
    BY <1>0, <1>2, <1>3, <2>1, <2>2 DEF HubInv, HubTypes, Found, Sending, Owned, Registered
  <2>6. Entries'
    BY <1>0, <2>1, <2>2 DEF HubInv, Entries
  <2>7. Started'
    BY <1>0, <1>2, <2>2 DEF HubInv, HubTypes, Started, Sending
  <2> QED BY Zenon, <1>4, <2>3, <2>4, <2>5, <2>6, <2>7 DEF HubInv
<1>6. CASE CreateDistributor(i, q, TRUE, d)
  <2>1. /\ d = FreshDistributor
        /\ \E e \in Distributor : idOf[e] = None
        /\ hub' = [hub EXCEPT ![i] = [pointer |-> d, started |-> TRUE]]
        /\ refs' = [refs EXCEPT ![d] = {q}]
        /\ idOf' = [idOf EXCEPT ![d] = i]
        /\ cleanup' = [cleanup EXCEPT ![d] = TRUE]
    BY Zenon, <1>6 DEF CreateDistributor
  <2>2. /\ idOf[d] = None
        /\ \A j \in QueryIds : hub[j].pointer # d
        /\ \A r \in Query : Holding(r) => distributor[r] # d
    BY Zenon, <2>1, FreshIsNew
  <2>3. HubTypes'
    BY <1>0, <1>2, <2>1 DEF HubInv, HubTypes, PC
  <2>4. Held'
    BY <1>0, <1>2, <2>1, <2>2 DEF HubInv, HubTypes, Held, Holding
  <2>5. Found'
    BY <1>0, <1>2, <1>3, <2>1 DEF HubInv, HubTypes, Found, Sending, Owned, Registered
  <2>6. Entries'
    BY <1>0, <2>1, <2>2 DEF HubInv, HubTypes, Entries
  <2>7. Started'
    BY <1>0, <1>2, <2>1 DEF HubInv, HubTypes, Started, Sending
  <2> QED BY Zenon, <1>4, <2>3, <2>4, <2>5, <2>6, <2>7 DEF HubInv
<1> QED BY Zenon, <1>2, <1>5, <1>6 DEF CreateOrAcquireDistributor

(* The operation moves on without changing who holds or finds what.        *)
LEMMA MoveKeeps ==
  ASSUME HubInv, NEW q \in Query,
         UNCHANGED <<refs, hub, idOf, cleanup, registry, queryId, distributor>>,
         \/ pc[q] = "running" /\ pc' = [pc EXCEPT ![q] = "finished"]
         \/ pc[q] = "left" /\ pc' = [pc EXCEPT ![q] = "signalled"]
  PROVE  HubInv'
<1>1. HubTypes'
  BY Zenon DEF HubInv, HubTypes, PC
<1>2. \A r \in Query : /\ Registered(r)' <=> Registered(r)
                       /\ Holding(r)' <=> Holding(r)
                       /\ Sending(r)' <=> Sending(r)
  BY Zenon DEF HubInv, HubTypes, Registered, Holding, Sending
<1>3. (Held /\ Owned)'
  BY Zenon, <1>2 DEF HubInv, Held, Owned
<1>4. (Found /\ Entries)'
  BY Zenon, <1>2 DEF HubInv, Found, Entries
<1>5. Started'
  BY Zenon, <1>2 DEF HubInv, Started
<1>6. NoFailure'
  BY Zenon DEF HubInv, HubTypes, NoFailure
<1> QED BY Zenon, <1>1, <1>3, <1>4, <1>5, <1>6 DEF HubInv

(* signalEndCall_ erases the entry of the operation and no other.          *)
LEMMA LeaveHubKeeps ==
  ASSUME HubInv, NEW q \in Query, LeaveHub(q)
  PROVE  HubInv'
<1> USE DistributorAssumption, HubAssumption
<1> DEFINE i == queryId[q]
<1>1. pc[q] = "finished" /\ Sending(q) /\ Holding(q) /\ Registered(q)
  BY Zenon DEF LeaveHub, Sending, Holding, Registered
<1>2. /\ i \in QueryIds /\ distributor[q] \in Distributor
      /\ idOf[distributor[q]] = i /\ registry[i] = q
      /\ hub[i].pointer = distributor[q]
  BY Zenon, <1>1 DEF HubInv, Held, Owned, Found
<1>3. /\ hub' = [hub EXCEPT ![i] = NoEntry]
      /\ cleanup' = [cleanup EXCEPT ![distributor[q]] = FALSE]
      /\ pc' = [pc EXCEPT ![q] = "left"]
      /\ UNCHANGED <<refs, idOf, registry, queryId, distributor>>
  BY Zenon, <1>2 DEF LeaveHub, DeleteFromDistributors, Goto, distributorVars
<1>4. HubTypes'
  BY Zenon, <1>2, <1>3 DEF HubInv, HubTypes, NoEntry, PC
<1>5. (Held /\ Owned)'
  BY <1>1, <1>3 DEF HubInv, HubTypes, Held, Owned, Holding, Registered
<1>6. NoFailure'
  BY Zenon, <1>1, <1>3 DEF HubInv, HubTypes, NoFailure
<1>7. Found'
  BY <1>1, <1>2, <1>3 DEF Found, HubInv, HubTypes, Sending, Registered, Owned
<1>8. Entries'
  BY <1>2, <1>3 DEF Entries, HubInv, HubTypes, NoEntry
<1>9. Started'
  BY <1>2, <1>3 DEF Started, HubInv, HubTypes, NoEntry, Sending
<1> QED BY Zenon, <1>4, <1>5, <1>6, <1>7, <1>8, <1>9 DEF HubInv

(* The id is given back when its entry has left the hub.                   *)
LEMMA UnregisterKeeps ==
  ASSUME HubInv, NEW q \in Query, Unregister(q)
  PROVE  HubInv'
<1> USE DistributorAssumption, HubAssumption
<1> DEFINE i == queryId[q]
<1>1. /\ pc[q] = "signalled" /\ i \in QueryIds /\ registry[i] = q
      /\ registry' = [registry EXCEPT ![i] = None]
      /\ pc' = [pc EXCEPT ![q] = "unregistered"]
      /\ UNCHANGED <<refs, hub, idOf, cleanup, queryId, distributor>>
  BY Zenon DEF Unregister, Goto, distributorVars, hubVars, HubInv, Owned, Registered
<1>2. HubTypes'
  BY Zenon, <1>1 DEF HubInv, HubTypes, PC
<1>3. Held'
  BY Zenon, <1>1 DEF HubInv, HubTypes, Held, Holding
<1>4. Owned'
  BY Zenon, <1>1 DEF HubInv, HubTypes, Owned, Registered
<1>5. (Found /\ Entries /\ NoFailure)'
  BY <1>1 DEF HubInv, HubTypes, Found, Sending, Entries, NoFailure
<1>6. Started'
  BY <1>1 DEF HubInv, HubTypes, Started, Sending
<1> QED BY Zenon, <1>2, <1>3, <1>4, <1>5, <1>6 DEF HubInv

(* The operation drops its distributor.                                    *)
LEMMA ReleaseKeeps ==
  ASSUME HubInv, NEW q \in Query, Release(q)
  PROVE  HubInv'
<1> USE DistributorAssumption, HubAssumption
<1>1. /\ pc[q] = "unregistered"
      /\ refs' = [refs EXCEPT ![distributor[q]] = @ \ {q}]
      /\ distributor' = [distributor EXCEPT ![q] = None]
      /\ queryId' = [queryId EXCEPT ![q] = None]
      /\ pc' = [pc EXCEPT ![q] = "over"]
      /\ UNCHANGED <<hub, idOf, cleanup, registry>>
  BY Zenon DEF Release, Goto, hubVars
<1>2. HubTypes'
  BY Zenon, <1>1 DEF HubInv, HubTypes, PC
<1>3. Held'
  BY Zenon, <1>1 DEF HubInv, HubTypes, Held, Holding
<1>4. Owned'
  BY Zenon, <1>1 DEF HubInv, HubTypes, Owned, Registered
<1>5. (Found /\ Entries /\ NoFailure)'
  BY <1>1 DEF HubInv, HubTypes, Found, Sending, Entries, NoFailure
<1>6. Started'
  BY Zenon, <1>1 DEF HubInv, HubTypes, Started, Sending
<1> QED BY Zenon, <1>2, <1>3, <1>4, <1>5, <1>6 DEF HubInv

-----------------------------------------------------------------------------
(* Every step of the system keeps the invariant.                           *)
LEMMA NextKeepsHub == HubInv /\ [Next]_vars => HubInv'
<1> SUFFICES ASSUME HubInv, [Next]_vars PROVE HubInv'
  OBVIOUS
<1>1. CASE UNCHANGED vars
  BY Zenon, <1>1, FrameKeeps DEF vars, distributorVars, hubVars, senderVars
<1>2. ASSUME NEW d \in Distributor, DistributorStep(d) PROVE HubInv'
  BY Zenon, <1>2, FrameKeeps DEF DistributorStep, RunUpdate, RunWake, hubVars, senderVars
<1>3. ASSUME NEW d \in Distributor, DestroyStep(d) PROVE HubInv'
  BY Zenon, <1>3, DestroyKeeps
<1>4. ASSUME NEW q \in Query, OperationStep(q) PROVE HubInv'
  BY Zenon, <1>4, ConstructKeeps, FrameKeeps, LeaveHubKeeps, MoveKeeps, RegisterKeeps, ReleaseKeeps,
       UnregisterKeeps DEF SendUpdate, hubVars, SetFinished, Goto, PostWake, OperationStep,
       Operation, SignalEnd
<1>5. ASSUME NEW s \in Session, SessionProgress(s) PROVE HubInv'
  <2>1. CASE Accepted(s) \/ AcceptFails(s) \/ Written(s)
    BY Zenon, <2>1, FrameKeeps DEF Accepted, AcceptFails, Written, distributorVars, hubVars, senderVars
  <2>2. CASE Ask(s)
    BY Zenon, <2>2, FrameKeeps DEF Ask, hubVars, senderVars
  <2>3. CASE Resume(s)
    BY Zenon, <2>3, FrameKeeps DEF Resume, hubVars, senderVars
  <2>4. CASE Closed(s)
    BY Zenon, <2>4, FrameKeeps, EndSessionKeeps DEF Closed, hubVars, senderVars
  <2>5. CASE Catch(s)
    BY Zenon, <2>5, EndSessionKeeps DEF Catch, hubVars
  <2> QED BY Zenon, <1>5, <2>1, <2>2, <2>3, <2>4, <2>5 DEF SessionProgress
<1>6. ASSUME NEW s \in Session, Client(s) PROVE HubInv'
  BY Zenon, <1>6, FrameKeeps, ReceiverKeeps DEF HandleSession, senderVars,
       CancelOnCloseCommand, CancelCommand, distributorVars, hubVars, Disconnect,
       DisconnectWaiting, Client
<1> QED BY Zenon, <1>1, <1>2, <1>3, <1>4, <1>5, <1>6 DEF Next

(* The inductive invariant holds in every reachable state.                 *)
THEOREM HubInvariant == Spec => []HubInv
  BY InitHub, NextKeepsHub, PTL DEF Spec

(* The contract check of createOrAcquireDistributorInternal never fails.   *)
THEOREM OneSender == Spec => []OneSenderPerDistributor
  BY HubInvariant, HubInvImplies, PTL

(* Whoever asks for the id of a running operation gets its distributor.    *)
THEOREM RunningOperationIsFound == Spec => []RunningIsFound
  BY HubInvariant, HubInvImplies, PTL

(* Every entry of the hub is alive or has a cleanup call to come.          *)
THEOREM NoDeadEntries == Spec => []HubHasNoLeak
  BY HubInvariant, HubInvImplies, PTL
-----------------------------------------------------------------------------
(* The second invariant follows an update from the operation through the   *)
(* strand into data_ and on to the client.                                 *)

Task == [run : {"update"}, arg : Query \X Nat]
          \union [run : {"wake"}, arg : {None}]
          \union [run : {"resume"}, arg : Session]

(* The handler that stores the n-th update of q.                           *)
UpdateNo(q, n) == UpdateTask(<<q, n>>)

IsUpdate(task) == task.run = "update"

(* No update is stored in D or on its way there in S.                      *)
Quiet(S, D) == D = <<>> /\ \A p \in 1 .. Len(S) : ~ IsUpdate(S[p])

(* The p-th handler of S stores the n-th update of q, after all earlier    *)
(* updates that are not in D.                                              *)
InTurn(S, D, q, p, n) ==
  /\ S[p] = UpdateNo(q, n)
  /\ n > Len(D)
  /\ n = Len(D) + 1 \/ \E o \in 1 .. Len(S) : o < p /\ S[o] = UpdateNo(q, n - 1)
  /\ \A o \in 1 .. Len(S) : \A m \in Nat : o < p /\ S[o] = UpdateNo(q, m) => m < n

(* D holds the first updates of q, and S has the ones that follow, in      *)
(* order and without a gap.                                                *)
Stream(S, D, q) ==
  /\ \A k \in 1 .. Len(D) : D[k] = <<q, k>>
  /\ \A p \in 1 .. Len(S) : IsUpdate(S[p]) =>
       \E n \in Nat : InTurn(S, D, q, p, n)

(* The last update in S and D is the one with the number n.                *)
UpTo(S, D, q, n) ==
  /\ Len(D) <= n
  /\ \A p \in 1 .. Len(S) : \A m \in Nat : S[p] = UpdateNo(q, m) => m <= n
  /\ Len(D) = n \/ \E p \in 1 .. Len(S) : S[p] = UpdateNo(q, n)

(* A handler that is no update is posted to the strand.                    *)
LEMMA PostOther ==
  ASSUME NEW S \in Seq(Task), NEW R \in Seq(Task), NEW D \in Seq(Query \X Nat),
         \A p \in 1 .. Len(R) : ~ IsUpdate(R[p])
  PROVE  /\ S \o R \in Seq(Task)
         /\ Quiet(S, D) => Quiet(S \o R, D)
         /\ \A q \in Query : Stream(S, D, q) => Stream(S \o R, D, q)
         /\ \A q \in Query : \A n \in Nat : UpTo(S, D, q, n) => UpTo(S \o R, D, q, n)
<1> DEFINE T == S \o R
<1>1. /\ T \in Seq(Task) /\ Len(T) = Len(S) + Len(R)
      /\ \A p \in 1 .. Len(S) : T[p] = S[p]
      /\ \A p \in 1 .. Len(T) : p > Len(S) => T[p] = R[p - Len(S)]
  OBVIOUS
<1>2. \A p \in 1 .. Len(T) : IsUpdate(T[p]) => p \in 1 .. Len(S)
  BY <1>1
<1>3. \A q, m : IsUpdate(UpdateNo(q, m))
  BY Zenon DEF IsUpdate, UpdateNo, UpdateTask
<1>3a. Len(S) \in Nat /\ Len(T) \in Nat /\ Len(D) \in Nat
  BY <1>1
<1> HIDE DEF T
<1>4. Quiet(S, D) => Quiet(T, D)
  BY Zenon, <1>1, <1>2, <1>3a DEF Quiet
<1>5. ASSUME NEW q \in Query, Stream(S, D, q) PROVE Stream(T, D, q)
  <2> SUFFICES ASSUME NEW p \in 1 .. Len(T), IsUpdate(T[p])
      PROVE \E n \in Nat : InTurn(T, D, q, p, n)
    BY Zenon, <1>5 DEF Stream
  <2>1. p \in 1 .. Len(S) /\ T[p] = S[p]
    BY Zenon, <1>1, <1>2
  <2>2. \A o \in 1 .. Len(T) : o < p => o \in 1 .. Len(S) /\ T[o] = S[o]
    BY <1>1, <1>3a, <2>1
  <2>3. PICK n \in Nat : InTurn(S, D, q, p, n)
    BY Zenon, <2>1, <1>5 DEF Stream
  <2>4. \A o \in 1 .. Len(S) : o \in 1 .. Len(T) /\ T[o] = S[o]
    BY <1>1, <1>3a
  <2>5. n = Len(D) + 1 \/ \E o \in 1 .. Len(T) : o < p /\ T[o] = UpdateNo(q, n - 1)
    BY Zenon, <2>3, <2>4 DEF InTurn
  <2>6. InTurn(T, D, q, p, n)
    BY Zenon, <2>1, <2>2, <2>3, <2>5 DEF InTurn
  <2> QED BY Zenon, <2>6
<1>6. ASSUME NEW q \in Query, NEW n \in Nat, UpTo(S, D, q, n) PROVE UpTo(T, D, q, n)
  <2>1. \A p \in 1 .. Len(T) : \A m \in Nat : T[p] = UpdateNo(q, m) => m <= n
    <3> SUFFICES ASSUME NEW p \in 1 .. Len(T), NEW m \in Nat, T[p] = UpdateNo(q, m)
        PROVE m <= n
      OBVIOUS
    <3>1. p \in 1 .. Len(S) /\ S[p] = UpdateNo(q, m)
      BY Zenon, <1>1, <1>2, <1>3
    <3> QED BY Zenon, <1>6, <3>1 DEF UpTo
  <2>2. \A p \in 1 .. Len(S) : p \in 1 .. Len(T) /\ T[p] = S[p]
    BY <1>1, <1>3a
  <2> QED BY Zenon, <1>6, <2>1, <2>2 DEF UpTo
<1> QED BY Zenon, <1>1, <1>4, <1>5, <1>6 DEF T

(* A handler that is no update is run.                                     *)
LEMMA RunOther ==
  ASSUME NEW S \in Seq(Task), NEW D \in Seq(Query \X Nat), S # <<>>, ~ IsUpdate(Head(S))
  PROVE  /\ Tail(S) \in Seq(Task)
         /\ Quiet(S, D) => Quiet(Tail(S), D)
         /\ \A q \in Query : Stream(S, D, q) => Stream(Tail(S), D, q)
         /\ \A q \in Query : \A n \in Nat : UpTo(S, D, q, n) => UpTo(Tail(S), D, q, n)
<1> DEFINE T == Tail(S)
<1>1. /\ T \in Seq(Task) /\ Len(T) = Len(S) - 1 /\ Len(S) > 0
      /\ \A p \in 1 .. Len(T) : T[p] = S[p + 1]
      /\ Head(S) = S[1]
      /\ Len(S) \in Nat /\ Len(T) \in Nat /\ Len(D) \in Nat
  OBVIOUS
<1>3. \A q, m : IsUpdate(UpdateNo(q, m))
  BY Zenon DEF IsUpdate, UpdateNo, UpdateTask
<1>2. \A p \in 1 .. Len(S) : \A q, m : S[p] = UpdateNo(q, m) =>
         p - 1 \in 1 .. Len(T) /\ T[p - 1] = S[p]
  BY <1>1, <1>3
<1> HIDE DEF T
<1>4. Quiet(S, D) => Quiet(T, D)
  BY <1>1 DEF Quiet
<1>5. ASSUME NEW q \in Query, Stream(S, D, q) PROVE Stream(T, D, q)
  <2> SUFFICES ASSUME NEW p \in 1 .. Len(T), IsUpdate(T[p])
      PROVE \E n \in Nat : InTurn(T, D, q, p, n)
    BY Zenon, <1>5 DEF Stream
  <2>1. p + 1 \in 1 .. Len(S) /\ T[p] = S[p + 1]
    BY <1>1
  <2>2. PICK n \in Nat : InTurn(S, D, q, p + 1, n)
    BY Zenon, <2>1, <1>5 DEF Stream
  <2>3. n = Len(D) + 1 \/ \E o \in 1 .. Len(T) : o < p /\ T[o] = UpdateNo(q, n - 1)
    BY <1>1, <1>2, <2>2 DEF InTurn
  <2>4. ASSUME NEW o \in 1 .. Len(T), NEW m \in Nat, o < p, T[o] = UpdateNo(q, m)
        PROVE  m < n
    BY <1>1, <2>2, <2>4 DEF InTurn
  <2>5. InTurn(T, D, q, p, n)
    BY Zenon, <2>1, <2>2, <2>3, <2>4 DEF InTurn
  <2> QED BY Zenon, <2>5
<1>6. ASSUME NEW q \in Query, NEW n \in Nat, UpTo(S, D, q, n) PROVE UpTo(T, D, q, n)
  BY <1>1, <1>2, <1>6 DEF UpTo
<1> QED BY Zenon, <1>1, <1>4, <1>5, <1>6 DEF T

(* An update is stored: it is the next one of its operation.               *)
LEMMA RunNextUpdate ==
  ASSUME NEW S \in Seq(Task), NEW D \in Seq(Query \X Nat), S # <<>>, IsUpdate(Head(S))
  PROVE  /\ Tail(S) \in Seq(Task)
         /\ Append(D, Head(S).arg) \in Seq(Query \X Nat)
         /\ ~ Quiet(S, D)
         /\ \A q \in Query : Stream(S, D, q) =>
              /\ Stream(Tail(S), Append(D, Head(S).arg), q)
              /\ \A n \in Nat : UpTo(S, D, q, n) => UpTo(Tail(S), Append(D, Head(S).arg), q, n)
<1> DEFINE T == Tail(S)
<1> DEFINE E == Append(D, Head(S).arg)
<1>1. /\ T \in Seq(Task) /\ Len(T) = Len(S) - 1 /\ Len(S) > 0
      /\ \A p \in 1 .. Len(T) : T[p] = S[p + 1]
      /\ Head(S) = S[1]
      /\ Len(S) \in Nat /\ Len(T) \in Nat /\ Len(D) \in Nat
  OBVIOUS
<1>2. Head(S) \in Task
  BY <1>1
<1>3. Head(S).arg \in Query \X Nat
  BY Zenon, <1>2 DEF Task, IsUpdate
<1>4. /\ E \in Seq(Query \X Nat) /\ Len(E) = Len(D) + 1
      /\ \A k \in 1 .. Len(D) : E[k] = D[k]
      /\ E[Len(D) + 1] = Head(S).arg
  BY <1>3
<1>5. \A q, m : UpdateNo(q, m).arg = <<q, m>>
  BY Zenon DEF UpdateNo, UpdateTask
<1>5a. \A q, m, n : UpdateNo(q, m) = UpdateNo(q, n) => m = n
  BY Zenon DEF UpdateNo, UpdateTask
<1> HIDE DEF T, E
<1>6. ~ Quiet(S, D)
  BY <1>1 DEF Quiet
<1>7. ASSUME NEW q \in Query, Stream(S, D, q)
      PROVE  /\ Stream(T, E, q)
             /\ \A n \in Nat : UpTo(S, D, q, n) => UpTo(T, E, q, n)
  <2>1. S[1] = UpdateNo(q, Len(D) + 1)
    BY <1>1, <1>7 DEF Stream, InTurn
  <2>2. ASSUME NEW k \in 1 .. Len(E) PROVE E[k] = <<q, k>>
    <3>1. E[Len(D) + 1] = <<q, Len(D) + 1>>
      BY <1>1, <1>4, <1>5, <2>1
    <3>2. k = Len(D) + 1 \/ (k \in 1 .. Len(D) /\ E[k] = D[k])
      BY <1>1, <1>4
    <3>3. \A l \in 1 .. Len(D) : D[l] = <<q, l>>
      BY Zenon, <1>7 DEF Stream
    <3> QED BY Zenon, <3>1, <3>2, <3>3
  <2>3. ASSUME NEW p \in 1 .. Len(T), IsUpdate(T[p])
        PROVE \E n \in Nat : InTurn(T, E, q, p, n)
    <3>1. p + 1 \in 1 .. Len(S) /\ T[p] = S[p + 1]
      BY <1>1
    <3>2. PICK n \in Nat : InTurn(S, D, q, p + 1, n)
      BY Zenon, <2>3, <3>1, <1>7 DEF Stream
    <3>3. n > Len(D) + 1
      BY <1>1, <2>1, <3>2 DEF InTurn
    <3>4. n = Len(E) + 1 \/ \E o \in 1 .. Len(T) : o < p /\ T[o] = UpdateNo(q, n - 1)
      <4>1. PICK o \in 1 .. Len(S) : o < p + 1 /\ S[o] = UpdateNo(q, n - 1)
        BY <1>1, <3>2, <3>3 DEF InTurn
      <4>2. CASE o = 1
        BY <1>1, <1>4, <1>5a, <2>1, <4>1, <4>2
      <4>3. CASE o # 1
        <5>1. o - 1 \in 1 .. Len(T) /\ T[o - 1] = S[o] /\ o - 1 < p
          BY <1>1, <4>1, <4>3
        <5> QED BY Zenon, <4>1, <5>1
      <4> QED BY Zenon, <4>2, <4>3
    <3>5. ASSUME NEW o \in 1 .. Len(T), NEW m \in Nat, o < p, T[o] = UpdateNo(q, m)
          PROVE  m < n
      BY <1>1, <3>2, <3>5 DEF InTurn
    <3>6. InTurn(T, E, q, p, n)
      BY Zenon, <1>1, <1>4, <3>1, <3>2, <3>3, <3>4, <3>5 DEF InTurn
    <3> QED BY Zenon, <3>6
  <2>4. ASSUME NEW n \in Nat, UpTo(S, D, q, n) PROVE UpTo(T, E, q, n)
    <3>1. Len(E) <= n
      BY <1>1, <1>4, <2>1, <2>4 DEF UpTo
    <3>2. \A p \in 1 .. Len(T) : \A m \in Nat : T[p] = UpdateNo(q, m) => m <= n
      BY <1>1, <2>4 DEF UpTo
    <3>3. Len(E) = n \/ \E p \in 1 .. Len(T) : T[p] = UpdateNo(q, n)
      <4>1. CASE Len(D) = n
        BY <3>1, <1>1, <1>4, <4>1
      <4>2. ASSUME NEW p \in 1 .. Len(S), S[p] = UpdateNo(q, n)
            PROVE Len(E) = n \/ \E r \in 1 .. Len(T) : T[r] = UpdateNo(q, n)
        <5>1. CASE p = 1
          BY <1>1, <1>4, <1>5a, <2>1, <4>2, <5>1
        <5>2. CASE p # 1
          <6>1. p - 1 \in 1 .. Len(T) /\ T[p - 1] = S[p]
            BY <1>1, <5>2
          <6> QED BY Zenon, <4>2, <6>1
        <5> QED BY Zenon, <5>1, <5>2
      <4> QED BY Zenon, <2>4, <4>1, <4>2 DEF UpTo
    <3> QED BY Zenon, <3>1, <3>2, <3>3 DEF UpTo
  <2> QED BY Zenon, <2>2, <2>3, <2>4 DEF Stream
<1> QED BY Zenon, <1>1, <1>4, <1>6, <1>7 DEF T, E

(* The operation posts its next update.                                    *)
LEMMA PostNextUpdate ==
  ASSUME NEW S \in Seq(Task), NEW D \in Seq(Query \X Nat), NEW q \in Query, NEW n \in Nat,
         Stream(S, D, q), UpTo(S, D, q, n)
  PROVE  /\ Append(S, UpdateNo(q, n + 1)) \in Seq(Task)
         /\ Stream(Append(S, UpdateNo(q, n + 1)), D, q)
         /\ UpTo(Append(S, UpdateNo(q, n + 1)), D, q, n + 1)
<1> DEFINE T == Append(S, UpdateNo(q, n + 1))
<1>1. UpdateNo(q, n + 1) \in Task
  BY DEF UpdateNo, UpdateTask, Task
<1>2. /\ T \in Seq(Task) /\ Len(T) = Len(S) + 1
      /\ \A p \in 1 .. Len(S) : T[p] = S[p]
      /\ T[Len(S) + 1] = UpdateNo(q, n + 1)
      /\ Len(S) \in Nat /\ Len(T) \in Nat /\ Len(D) \in Nat
  BY <1>1
<1>3. \A m, o : UpdateNo(q, m) = UpdateNo(q, o) => m = o
  BY Zenon DEF UpdateNo, UpdateTask
<1> HIDE DEF T
<1>4. UpTo(T, D, q, n + 1)
  <2>1. ASSUME NEW p \in 1 .. Len(T), NEW m \in Nat, T[p] = UpdateNo(q, m)
        PROVE  m <= n + 1
    <3>1. CASE p \in 1 .. Len(S)
      <4>1. m <= n
        BY Zenon, <1>2, <2>1, <3>1 DEF UpTo
      <4> QED BY <4>1
    <3>2. CASE p = Len(S) + 1
      <4>1. m = n + 1
        BY Zenon, <1>2, <1>3, <2>1, <3>2
      <4> QED BY <4>1
    <3> QED BY <1>2, <3>1, <3>2
  <2> QED BY <1>2, <2>1 DEF UpTo
<1>5. ASSUME NEW p \in 1 .. Len(T), IsUpdate(T[p])
      PROVE \E k \in Nat : InTurn(T, D, q, p, k)
  <2>1. CASE p \in 1 .. Len(S)
    <3>1. T[p] = S[p] /\ \A o \in 1 .. Len(T) : o < p => o \in 1 .. Len(S) /\ T[o] = S[o]
      BY <1>2, <2>1
    <3>2. PICK k \in Nat : InTurn(S, D, q, p, k)
      BY Zenon, <1>5, <2>1, <3>1 DEF Stream
    <3>3. \A o \in 1 .. Len(S) : o \in 1 .. Len(T) /\ T[o] = S[o]
      BY <1>2
    <3>4. InTurn(T, D, q, p, k)
      BY Zenon, <3>1, <3>2, <3>3 DEF InTurn
    <3> QED BY Zenon, <3>4
  <2>2. CASE p = Len(S) + 1
    <3>1. T[p] = UpdateNo(q, n + 1) /\ n + 1 > Len(D) /\ n + 1 \in Nat
      BY <1>2, <2>2 DEF UpTo
    <3>2. n + 1 = Len(D) + 1 \/ \E o \in 1 .. Len(T) : o < p /\ T[o] = UpdateNo(q, (n + 1) - 1)
      BY <1>2, <2>2 DEF UpTo
    <3>3. \A o \in 1 .. Len(T) : \A m \in Nat : o < p /\ T[o] = UpdateNo(q, m) => m < n + 1
      <4>1. \A o \in 1 .. Len(T) : o < p => o \in 1 .. Len(S) /\ T[o] = S[o]
        BY <1>2, <2>2
      <4>2. \A m \in Nat : m <= n => m < n + 1
        OBVIOUS
      <4> QED BY Zenon, <4>1, <4>2 DEF UpTo
    <3>4. InTurn(T, D, q, p, n + 1)
      BY Zenon, <3>1, <3>2, <3>3 DEF InTurn
    <3> QED BY Zenon, <3>1, <3>4
  <2> QED BY <1>2, <2>1, <2>2
<1>6. Stream(T, D, q)
  BY Zenon, <1>5 DEF Stream
<1> QED BY Zenon, <1>2, <1>4, <1>6 DEF T

(* An operation starts with an empty stream.                               *)
LEMMA QuietIsEmptyStream ==
  ASSUME NEW S \in Seq(Task), NEW D \in Seq(Query \X Nat), Quiet(S, D), NEW q \in Query
  PROVE  Stream(S, D, q) /\ UpTo(S, D, q, 0)
<1>1. \A m : IsUpdate(UpdateNo(q, m))
  BY Zenon DEF IsUpdate, UpdateNo, UpdateTask
<1> QED BY <1>1 DEF Quiet, Stream, UpTo

-----------------------------------------------------------------------------
(* The way of an update to the client.                                      *)

(* The session has a distributor.                                          *)
Watching(s) == at[s] \notin {"off", "over"}

QueueTypes ==
  /\ strand \in [Distributor -> Seq(Task)]
  /\ data \in [Distributor -> Seq(Query \X Nat)]
  /\ finished \in [Distributor -> BOOLEAN]
  /\ waiting \in [Distributor -> Seq(Session)]
  /\ updates \in [Query -> 0 .. MaxUpdates]
  /\ cancelled \in SUBSET Query

SessionTypes ==
  /\ at \in [Session -> At]
  /\ watched \in [Session -> QueryIds \union {None}]
  /\ fetcher \in [Session -> Distributor \union {None}]
  /\ nextIndex \in [Session -> Nat]
  /\ received \in [Session -> Seq(Query \X Nat)]
  /\ open \in [Session -> BOOLEAN] /\ reads \in [Session -> BOOLEAN]
  /\ cancelOnClose \in [Session -> BOOLEAN]

(* A session has a distributor and an id from its start to its end, and    *)
(* what it has written to the client is what it has read from data_.       *)
Attached ==
  \A s \in Session : Watching(s) =>
    /\ fetcher[s] \in Distributor /\ watched[s] \in QueryIds
    /\ nextIndex[s] <= Len(data[fetcher[s]])
    /\ \A k \in 1 .. nextIndex[s] : received[s][k] = data[fetcher[s]][k]

Counted ==
  \A s \in Session :
    Len(received[s]) = nextIndex[s] /\ (~ Watching(s) => nextIndex[s] = 0)

ReadInv == QueueTypes /\ SessionTypes /\ Attached /\ Counted

(* The invariant of the readers holds when the server starts.              *)
LEMMA InitRead == Init => ReadInv
<1> SUFFICES ASSUME Init PROVE ReadInv
  OBVIOUS
<1>1. QueueTypes
  BY UpdatesAssumption DEF Init, DistributorInit, SenderInit, QueueTypes
<1>2. SessionTypes
  BY DEF Init, SessionInit, SessionTypes, At
<1>3. Attached /\ Counted
  BY Zenon DEF Init, SessionInit, Attached, Counted, Watching
<1> QED BY Zenon, <1>1, <1>2, <1>3 DEF ReadInv

(* The data of a distributor only grows.                                   *)
DataGrows ==
  \A d \in Distributor :
    /\ Len(data[d]) <= Len(data'[d])
    /\ \A k \in 1 .. Len(data[d]) : data'[d][k] = data[d][k]

(* The sessions do nothing.                                                *)
LEMMA SessionFrame ==
  ASSUME ReadInv, QueueTypes', DataGrows, UNCHANGED sessionVars
  PROVE  ReadInv'
<1>1. SessionTypes'
  BY Zenon DEF ReadInv, SessionTypes, sessionVars
<1>2. Counted'
  BY Zenon DEF ReadInv, Counted, Watching, sessionVars
<1>3. Attached'
  BY DEF Attached, sessionVars, ReadInv, Watching, QueueTypes, SessionTypes, DataGrows
<1> QED BY Zenon, <1>1, <1>2, <1>3 DEF ReadInv

(* A session moves on: what it has read stays as it is.                    *)
LEMMA SessionMoves ==
  ASSUME ReadInv, QueueTypes', SessionTypes', NEW s \in Session, NEW to \in At,
         Watching(s), at' = [at EXCEPT ![s] = to], to \notin {"off", "over"},
         UNCHANGED <<data, watched, fetcher, nextIndex, received>>
  PROVE  ReadInv'
<1>1. \A t \in Session : Watching(t)' <=> Watching(t)
  BY Zenon DEF Watching, ReadInv, SessionTypes
<1>2. Attached'
  BY Zenon, <1>1 DEF ReadInv, Attached
<1>3. Counted'
  BY Zenon, <1>1 DEF ReadInv, Counted
<1> QED BY Zenon, <1>2, <1>3 DEF ReadInv

(* A session reads the next update.                                        *)
LEMMA DeliverRead ==
  ASSUME ReadInv, QueueTypes', NEW s \in Session, Watching(s), Deliver(s),
         UNCHANGED <<data, watched, fetcher, open, reads, cancelOnClose>>
  PROVE  ReadInv'
<1> DEFINE D == data[fetcher[s]]
<1> DEFINE n == nextIndex[s]
<1>1. /\ fetcher[s] \in Distributor /\ watched[s] \in QueryIds
      /\ D \in Seq(Query \X Nat) /\ Len(D) \in Nat
      /\ n \in Nat /\ received[s] \in Seq(Query \X Nat) /\ Len(received[s]) = n
      /\ \A k \in 1 .. n : received[s][k] = D[k]
  <2>1. /\ fetcher[s] \in Distributor /\ watched[s] \in QueryIds
        /\ \A k \in 1 .. n : received[s][k] = D[k]
    BY Zenon DEF ReadInv, Attached
  <2>2. /\ n \in Nat /\ received[s] \in Seq(Query \X Nat) /\ Len(received[s]) = n
    BY Zenon DEF ReadInv, SessionTypes, Counted
  <2>3. D \in Seq(Query \X Nat) /\ Len(D) \in Nat
    BY <2>1 DEF ReadInv, QueueTypes
  <2> QED BY Zenon, <2>1, <2>2, <2>3
<1>2. /\ n + 1 <= Len(D)
      /\ nextIndex' = [nextIndex EXCEPT ![s] = n + 1]
      /\ received' = [received EXCEPT ![s] = Append(received[s], D[n + 1])]
      /\ at' = [at EXCEPT ![s] = "writes"]
  BY <1>1 DEF Deliver, HasData, Step
<1>3. D[n + 1] \in Query \X Nat
  BY <1>1, <1>2
<1>4. /\ nextIndex'[s] = n + 1
      /\ received'[s] = Append(received[s], D[n + 1])
      /\ at'[s] = "writes"
      /\ \A t \in Session \ {s} : /\ nextIndex'[t] = nextIndex[t]
                                  /\ received'[t] = received[t]
                                  /\ at'[t] = at[t]
  BY Zenon, <1>2 DEF ReadInv, SessionTypes
<1>5. /\ received'[s] \in Seq(Query \X Nat) /\ Len(received'[s]) = n + 1
      /\ \A k \in 1 .. n + 1 : received'[s][k] = D[k]
  <2> HIDE DEF D, n
  <2>1. \A k \in 1 .. n + 1 : k = n + 1 \/ k \in 1 .. n
    BY <1>1
  <2>2. /\ received'[s] \in Seq(Query \X Nat) /\ Len(received'[s]) = n + 1
        /\ \A k \in 1 .. n : received'[s][k] = received[s][k]
        /\ received'[s][n + 1] = D[n + 1]
    BY <1>1, <1>3, <1>4
  <2> QED BY Zenon, <1>1, <2>1, <2>2
<1>6. SessionTypes'
  <2>1. at \in [Session -> At] /\ "writes" \in At
    BY Zenon DEF ReadInv, SessionTypes, At
  <2>2. nextIndex \in [Session -> Nat] /\ n + 1 \in Nat
    BY <1>1 DEF ReadInv, SessionTypes
  <2>3. /\ received \in [Session -> Seq(Query \X Nat)]
        /\ Append(received[s], D[n + 1]) \in Seq(Query \X Nat)
    BY <1>1, <1>3 DEF ReadInv, SessionTypes
  <2>4. /\ at' \in [Session -> At] /\ nextIndex' \in [Session -> Nat]
        /\ received' \in [Session -> Seq(Query \X Nat)]
    BY Zenon, <1>2, <2>1, <2>2, <2>3
  <2> QED BY Zenon, <2>4 DEF ReadInv, SessionTypes
<1>7. Attached'
  <2> SUFFICES ASSUME NEW t \in Session, Watching(t)'
      PROVE /\ fetcher[t] \in Distributor /\ watched[t] \in QueryIds
            /\ nextIndex'[t] <= Len(data[fetcher[t]])
            /\ \A k \in 1 .. nextIndex'[t] : received'[t][k] = data[fetcher[t]][k]
    BY Zenon DEF Attached
  <2>1. CASE t = s
    <3>1. nextIndex'[s] <= Len(D) /\ \A k \in 1 .. nextIndex'[s] : received'[s][k] = D[k]
      BY Zenon, <1>2, <1>4, <1>5
    <3> QED BY Zenon, <1>1, <2>1, <3>1
  <2>2. CASE t # s
    BY ZenonT(40), <1>4, <2>2 DEF ReadInv, Attached, Watching
  <2> QED BY Zenon, <2>1, <2>2
<1>8. Counted'
  BY Zenon, <1>4, <1>5 DEF ReadInv, Counted, Watching
<1> QED BY Zenon, <1>6, <1>7, <1>8 DEF ReadInv

(* The session is over.                                                    *)
LEMMA EndSessionRead ==
  ASSUME ReadInv, QueueTypes', NEW s \in Session, EndSession(s), UNCHANGED data
  PROVE  ReadInv'
<1>1. /\ at' = [at EXCEPT ![s] = "over"]
      /\ watched' = [watched EXCEPT ![s] = None]
      /\ fetcher' = [fetcher EXCEPT ![s] = None]
      /\ nextIndex' = [nextIndex EXCEPT ![s] = 0]
      /\ received' = [received EXCEPT ![s] = <<>>]
      /\ open' = [open EXCEPT ![s] = FALSE]
      /\ reads' = [reads EXCEPT ![s] = FALSE]
      /\ cancelOnClose' = [cancelOnClose EXCEPT ![s] = FALSE]
  BY Zenon DEF EndSession, Step
<1>2. SessionTypes'
  BY <1>1 DEF ReadInv, SessionTypes, At
<1>3. Attached'
  BY <1>1 DEF ReadInv, SessionTypes, Attached, Watching
<1>4. Counted'
  BY Zenon, <1>1 DEF ReadInv, SessionTypes, Counted, Watching
<1> QED BY Zenon, <1>2, <1>3, <1>4 DEF ReadInv
-----------------------------------------------------------------------------
(* The handler at the head of a strand runs and wakes up the listeners.    *)
LEMMA RunAndWakeUpTypes ==
  ASSUME QueueTypes, NEW d \in Distributor, strand[d] # <<>>, RunAndWakeUp(d)
  PROVE  /\ strand' \in [Distributor -> Seq(Task)]
         /\ waiting' \in [Distributor -> Seq(Session)]
         /\ Tail(strand[d]) \in Seq(Task)
         /\ Resumes(d) \in Seq(Task)
         /\ \A i \in 1 .. Len(Resumes(d)) : ~ IsUpdate(Resumes(d)[i])
         /\ strand'[d] = Tail(strand[d]) \o Resumes(d)
         /\ \A e \in Distributor \ {d} : strand'[e] = strand[e]
<1>1. /\ waiting[d] \in Seq(Session) /\ strand[d] \in Seq(Task)
      /\ Len(waiting[d]) \in Nat
  BY DEF QueueTypes
<1>2. \A i \in 1 .. Len(waiting[d]) : ResumeTask(waiting[d][i]) \in Task
  BY <1>1 DEF ResumeTask, Task
<1>3. Resumes(d) \in Seq(Task) /\ Len(Resumes(d)) = Len(waiting[d])
  BY <1>1, <1>2 DEF Resumes
<1>4. \A i \in 1 .. Len(Resumes(d)) : ~ IsUpdate(Resumes(d)[i])
  BY Zenon, <1>1, <1>3 DEF Resumes, ResumeTask, IsUpdate
<1>5. Tail(strand[d]) \in Seq(Task)
  BY <1>1
<1>6. Tail(strand[d]) \o Resumes(d) \in Seq(Task)
  BY <1>3, <1>5
<1> QED BY <1>3, <1>4, <1>5, <1>6 DEF RunAndWakeUp, QueueTypes

(* An update is stored behind what the sessions have read.                 *)
LEMMA RunUpdateRead ==
  ASSUME ReadInv, NEW d \in Distributor, DistributorStep(d)
  PROVE  ReadInv'
<1>1. /\ UNCHANGED <<refs, finished, hubVars, senderVars, sessionVars>>
      /\ strand[d] # <<>> /\ RunAndWakeUp(d)
  BY Zenon DEF DistributorStep, RunUpdate, RunWake
<1>2. /\ strand' \in [Distributor -> Seq(Task)]
      /\ waiting' \in [Distributor -> Seq(Session)]
  BY Zenon, <1>1, RunAndWakeUpTypes DEF ReadInv
<1>3. data' \in [Distributor -> Seq(Query \X Nat)] /\ DataGrows
  <2>1. CASE RunUpdate(d)
    <3>1. strand[d] \in Seq(Task) /\ data[d] \in Seq(Query \X Nat)
      BY Zenon DEF ReadInv, QueueTypes
    <3>2. Head(strand[d]) \in Task /\ Head(strand[d]).run = "update"
      BY <2>1, <3>1 DEF RunUpdate
    <3>3. Head(strand[d]).arg \in Query \X Nat
      BY Zenon, <3>2 DEF Task
    <3>4. data' = [data EXCEPT ![d] = Append(data[d], Head(strand[d]).arg)]
      BY Zenon, <2>1 DEF RunUpdate
    <3>5. /\ Append(data[d], Head(strand[d]).arg) \in Seq(Query \X Nat)
          /\ Len(Append(data[d], Head(strand[d]).arg)) = Len(data[d]) + 1
          /\ Len(data[d]) \in Nat
          /\ \A k \in 1 .. Len(data[d]) : Append(data[d], Head(strand[d]).arg)[k] = data[d][k]
      BY <3>1, <3>3
    <3>6. data' \in [Distributor -> Seq(Query \X Nat)]
      BY Zenon, <3>4, <3>5 DEF ReadInv, QueueTypes
    <3>7. \A e \in Distributor : Len(data[e]) \in Nat
      BY DEF ReadInv, QueueTypes
    <3>8. DataGrows
      BY <3>4, <3>5, <3>7 DEF ReadInv, QueueTypes, DataGrows
    <3> QED BY Zenon, <3>6, <3>8
  <2>2. CASE RunWake(d)
    BY <2>2 DEF RunWake, ReadInv, QueueTypes, DataGrows
  <2> QED BY Zenon, <2>1, <2>2 DEF DistributorStep
<1>4. QueueTypes'
  BY Zenon, <1>1, <1>2, <1>3 DEF ReadInv, QueueTypes, senderVars
<1> QED BY Zenon, <1>1, <1>3, <1>4, SessionFrame

(* A step that stores no update.                                           *)
LEMMA SameData == ASSUME ReadInv, data' = data PROVE DataGrows
<1>1. \A d \in Distributor : Len(data[d]) \in Nat
  BY DEF ReadInv, QueueTypes
<1> QED BY <1>1 DEF DataGrows

(* The steps of an operation.                                              *)
LEMMA OperationRead ==
  ASSUME HubInv, ReadInv, NEW q \in Query, OperationStep(q)
  PROVE  ReadInv'
<1> SUFFICES ASSUME TRUE PROVE data' = data /\ QueueTypes'
  BY Zenon, SameData, SessionFrame DEF OperationStep
<1> USE UpdatesAssumption
<1>1. CASE \/ \E i \in QueryIds : Register(q, i)
           \/ LeaveHub(q) \/ Unregister(q) \/ Release(q)
  BY Zenon, <1>1 DEF Register, LeaveHub, Unregister, Release, distributorVars, ReadInv, QueueTypes
<1>2. CASE Construct(q)
  BY Zenon, <1>2 DEF Construct, ReadInv, QueueTypes
<1>3. CASE SendUpdate(q)
  <2>1. distributor[q] \in Distributor
    BY Zenon, <1>3 DEF SendUpdate, HubInv, Held, Holding
  <2>2. updates[q] + 1 \in 0 .. MaxUpdates /\ updates[q] \in Nat
    BY <1>3 DEF SendUpdate, ReadInv, QueueTypes
  <2>3. UpdateTask(<<q, updates[q] + 1>>) \in Task
    BY <2>2 DEF UpdateTask, Task
  <2>4. strand' \in [Distributor -> Seq(Task)]
    BY <1>3, <2>1, <2>3 DEF SendUpdate, Post, ReadInv, QueueTypes
  <2>5. updates' \in [Query -> 0 .. MaxUpdates]
    BY Zenon, <1>3, <2>2 DEF SendUpdate, ReadInv, QueueTypes
  <2> QED BY Zenon, <1>3, <2>4, <2>5 DEF SendUpdate, ReadInv, QueueTypes
<1>4. CASE SetFinished(q)
  BY Zenon, <1>4 DEF SetFinished, ReadInv, QueueTypes
<1>5. CASE PostWake(q)
  BY <1>5 DEF WakeTask, Task, PostWake, HubInv, Held, Holding, Post, ReadInv, QueueTypes
<1> QED BY Zenon, <1>1, <1>2, <1>3, <1>4, <1>5 DEF OperationStep, Operation, SignalEnd

(* A session that watches a distributor has an id and an index.            *)
LEMMA WatchingTypes ==
  ASSUME ReadInv, NEW s \in Session, Watching(s)
  PROVE  /\ fetcher[s] \in Distributor /\ watched[s] \in QueryIds
         /\ strand[fetcher[s]] \in Seq(Task)
         /\ waiting[fetcher[s]] \in Seq(Session)
         /\ data[fetcher[s]] \in Seq(Query \X Nat)
  BY Zenon DEF ReadInv, QueueTypes, Attached

(* A client can only cancel an operation of the server.                    *)
LEMMA CancelTypes ==
  ASSUME HubInv, ReadInv, NEW s \in Session, Watching(s), TryToCancelQuery(s)
  PROVE  cancelled' \in SUBSET Query
<1>1. registry[watched[s]] \in Query \union {None}
  BY Zenon, WatchingTypes DEF HubInv, HubTypes
<1> QED BY Zenon, <1>1 DEF TryToCancelQuery, ReadInv, QueueTypes

(* The steps that a session takes by itself.                               *)
LEMMA SessionRead ==
  ASSUME HubInv, ReadInv, NEW s \in Session, SessionProgress(s)
  PROVE  ReadInv'
<1>0. Watching(s) /\ {"asks", "waits", "writes", "closes", "catches"} \subseteq At
  BY Zenon DEF SessionProgress, Accepted, AcceptFails, Ask, Resume, Written, Closed, Catch,
         Watching, At
<1>1. CASE Accepted(s)
  BY Zenon, <1>0, <1>1, SessionMoves DEF Accepted, Step, distributorVars, senderVars, ReadInv,
       QueueTypes, SessionTypes, At
<1>2. CASE AcceptFails(s)
  BY Zenon, <1>0, <1>2, SessionMoves DEF AcceptFails, Step, distributorVars, senderVars,
       ReadInv, QueueTypes, SessionTypes, At
<1>3. CASE Written(s)
  BY Zenon, <1>0, <1>3, SessionMoves DEF Written, Step, distributorVars, senderVars, ReadInv,
       QueueTypes, SessionTypes, At
<1>4. CASE Ask(s)
  <2>1. /\ UNCHANGED <<refs, strand, data, finished, hubVars, senderVars>>
        /\ UNCHANGED <<watched, fetcher, open, reads, cancelOnClose>>
    BY Zenon, <1>4 DEF Ask
  <2>2. waiting' \in [Distributor -> Seq(Session)]
    <3>1. Append(waiting[fetcher[s]], s) \in Seq(Session)
      BY <1>0, WatchingTypes
    <3> QED BY Zenon, <1>4, <3>1 DEF Ask, ReadInv, QueueTypes
  <2>3. QueueTypes'
    BY Zenon, <2>1, <2>2 DEF ReadInv, QueueTypes, senderVars
  <2>4. CASE Deliver(s)
    BY Zenon, <1>0, <2>1, <2>3, <2>4, DeliverRead
  <2>5. CASE ~ Deliver(s)
    BY Zenon, <1>0, <1>4, <2>1, <2>3, <2>5, SessionMoves DEF Ask, NoMoreData, Step, ReadInv,
         SessionTypes, At
  <2> QED BY Zenon, <2>4, <2>5
<1>5. CASE Resume(s)
  <2>1. /\ UNCHANGED <<refs, data, finished, waiting, hubVars, senderVars>>
        /\ UNCHANGED <<watched, fetcher, open, reads, cancelOnClose>>
    BY Zenon, <1>5 DEF Resume
  <2>2. strand' \in [Distributor -> Seq(Task)]
    <3>1. strand[fetcher[s]] # <<>> => Tail(strand[fetcher[s]]) \in Seq(Task)
      BY <1>0, WatchingTypes
    <3> QED BY Zenon, <1>5, <3>1 DEF Resume, ReadInv, QueueTypes
  <2>3. QueueTypes'
    BY Zenon, <2>1, <2>2 DEF ReadInv, QueueTypes, senderVars
  <2>4. CASE Deliver(s)
    BY Zenon, <1>0, <2>1, <2>3, <2>4, DeliverRead
  <2>5. CASE ~ Deliver(s)
    BY Zenon, <1>0, <1>5, <2>1, <2>3, <2>5, SessionMoves DEF Resume, NoMoreData, Step, ReadInv,
         SessionTypes, At
  <2> QED BY Zenon, <2>4, <2>5
<1>6. CASE Closed(s)
  BY Zenon, <1>0, <1>6, EndSessionRead, SessionMoves DEF Closed, senderVars, ReadInv,
       QueueTypes, Step, SessionTypes, At
<1>7. CASE Catch(s)
  BY Zenon, <1>0, <1>7, CancelTypes, EndSessionRead DEF Catch, ReadInv, QueueTypes
<1> QED BY Zenon, <1>1, <1>2, <1>3, <1>4, <1>5, <1>6, <1>7 DEF SessionProgress

(* The steps of a client and of its connection.                            *)
LEMMA ClientRead ==
  ASSUME HubInv, ReadInv, NEW s \in Session, Client(s)
  PROVE  ReadInv'
<1>1. ASSUME NEW i \in QueryIds, HandleSession(s, i) PROVE ReadInv'
  <2>1. PICK d \in Distributor : fetcher' = [fetcher EXCEPT ![s] = d]
    BY Zenon, <1>1 DEF HandleSession
  <2>2. /\ at[s] = "off" /\ at' = [at EXCEPT ![s] = "accepts"]
        /\ watched' = [watched EXCEPT ![s] = i]
        /\ UNCHANGED <<strand, data, finished, waiting, senderVars>>
        /\ UNCHANGED <<nextIndex, received, open, reads, cancelOnClose>>
    BY Zenon, <1>1 DEF HandleSession, Step
  <2>3. QueueTypes'
    BY Zenon, <2>2 DEF ReadInv, QueueTypes, senderVars
  <2>4. SessionTypes'
    BY Zenon, <2>1, <2>2 DEF ReadInv, SessionTypes, At
  <2>5. nextIndex[s] = 0 /\ Counted'
    BY Zenon, <2>2 DEF ReadInv, SessionTypes, Counted, Watching
  <2>6. Len(data[d]) \in Nat
    BY DEF ReadInv, QueueTypes
  <2>7. Attached'
    <3>1. /\ fetcher'[s] = d /\ watched'[s] = i
          /\ \A t \in Session \ {s} : /\ at'[t] = at[t] /\ fetcher'[t] = fetcher[t]
                                      /\ watched'[t] = watched[t]
      BY Zenon, <2>1, <2>2 DEF ReadInv, SessionTypes
    <3>2. \A k \in 1 .. 0 : FALSE
      OBVIOUS
    <3>3. 0 <= Len(data[d])
      BY <2>6
    <3> SUFFICES ASSUME NEW t \in Session, Watching(t)'
        PROVE /\ fetcher'[t] \in Distributor /\ watched'[t] \in QueryIds
              /\ nextIndex[t] <= Len(data[fetcher'[t]])
              /\ \A k \in 1 .. nextIndex[t] : received[t][k] = data[fetcher'[t]][k]
      BY Zenon, <2>2 DEF Attached
    <3>4. CASE t = s
      BY Zenon, <2>5, <3>1, <3>2, <3>3, <3>4
    <3>5. CASE t # s
      BY Zenon, <3>1, <3>5 DEF ReadInv, Attached, Watching
    <3> QED BY Zenon, <3>4, <3>5
  <2> QED BY Zenon, <2>3, <2>4, <2>5, <2>7 DEF ReadInv
<1>2. CASE CancelOnCloseCommand(s)
  BY Zenon, <1>2 DEF CancelOnCloseCommand, distributorVars, senderVars, ReadInv, QueueTypes,
       SessionTypes, Attached, Counted, Watching
<1>3. CASE CancelCommand(s)
  <2>1. Watching(s)
    BY Zenon, <1>3 DEF CancelCommand, Listening, Watching
  <2>2. cancelled' \in SUBSET Query
    BY Zenon, <1>3, <2>1, CancelTypes DEF CancelCommand
  <2>3. QueueTypes' /\ SessionTypes' /\ data' = data
    BY Zenon, <1>3, <2>2 DEF CancelCommand, distributorVars, ReadInv, QueueTypes, SessionTypes
  <2>4. Attached' /\ Counted'
    BY Zenon, <1>3, <2>3 DEF CancelCommand, ReadInv, Attached, Counted, Watching
  <2> QED BY Zenon, <2>3, <2>4 DEF ReadInv
<1>4. CASE Disconnect(s)
  BY Zenon, <1>4, SessionMoves DEF Disconnect, Step, distributorVars, senderVars, ReadInv,
       QueueTypes, SessionTypes, At, Watching
<1>5. CASE DisconnectWaiting(s)
  <2>1. Watching(s)
    BY Zenon, <1>5 DEF DisconnectWaiting, Watching
  <2>2. /\ UNCHANGED <<refs, data, finished, hubVars, senderVars>>
        /\ UNCHANGED <<at, watched, fetcher, nextIndex, received, reads, cancelOnClose>>
        /\ open' = [open EXCEPT ![s] = FALSE]
    BY Zenon, <1>5 DEF DisconnectWaiting
  <2>3. /\ strand' \in [Distributor -> Seq(Task)]
        /\ waiting' \in [Distributor -> Seq(Session)]
    <3>1. ResumeTask(s) \in Task
      BY Zenon DEF ResumeTask, Task
    <3>2. Append(strand[fetcher[s]], ResumeTask(s)) \in Seq(Task)
      BY <2>1, <3>1, WatchingTypes
    <3>3. \A k \in 1 .. Len(waiting[fetcher[s]]) :
            SubSeq(waiting[fetcher[s]], 1, k - 1)
              \o SubSeq(waiting[fetcher[s]], k + 1, Len(waiting[fetcher[s]])) \in Seq(Session)
      <4>1. waiting[fetcher[s]] \in Seq(Session)
        BY Zenon, <2>1, WatchingTypes
      <4> QED BY <4>1
    <3> QED BY Zenon, <1>5, <3>2, <3>3 DEF DisconnectWaiting, Post, ReadInv, QueueTypes
  <2>4. QueueTypes' /\ SessionTypes'
    BY Zenon, <2>2, <2>3 DEF ReadInv, QueueTypes, SessionTypes, senderVars
  <2>5. Attached' /\ Counted'
    BY Zenon, <2>2 DEF ReadInv, Attached, Counted, Watching
  <2> QED BY Zenon, <2>4, <2>5 DEF ReadInv
<1> QED BY Zenon, <1>1, <1>2, <1>3, <1>4, <1>5 DEF Client

(* Every step keeps the invariant of the readers.                          *)
LEMMA NextKeepsRead == HubInv /\ ReadInv /\ [Next]_vars => ReadInv'
<1> SUFFICES ASSUME HubInv, ReadInv, [Next]_vars PROVE ReadInv'
  OBVIOUS
<1>1. CASE UNCHANGED vars
  BY Zenon, <1>1, SameData, SessionFrame DEF vars, distributorVars, senderVars, ReadInv, QueueTypes
<1>2. ASSUME NEW d \in Distributor, DestroyStep(d) PROVE ReadInv'
  BY Zenon, <1>2, SameData, SessionFrame DEF DestroyStep, Destroy, distributorVars, senderVars,
       ReadInv, QueueTypes
<1> QED BY Zenon, <1>1, <1>2, RunUpdateRead, OperationRead, SessionRead, ClientRead DEF Next
-----------------------------------------------------------------------------
(* No operation has got the distributor yet.                               *)
Unclaimed(d) ==
  \/ idOf[d] = None
  \/ hub[idOf[d]].pointer = d /\ ~ hub[idOf[d]].started

StreamInv ==
  /\ \A d \in Distributor :
       \/ Quiet(strand[d], data[d])
       \/ \E q \in Query : Stream(strand[d], data[d], q)
  /\ \A d \in Distributor : Unclaimed(d) => Quiet(strand[d], data[d])
  /\ \A q \in Query :
       /\ pc[q] \in {"arrives", "registered"} => updates[q] = 0
       /\ pc[q] = "running" =>
            /\ Stream(strand[distributor[q]], data[distributor[q]], q)
            /\ UpTo(strand[distributor[q]], data[distributor[q]], q, updates[q])

(* No update is on its way when the server starts.                         *)
LEMMA InitStream == Init => StreamInv
  BY DEF Init, DistributorInit, SenderInit, StreamInv, Quiet

(* A step that adds no update to the distributor d.                        *)
Carries(d) ==
  /\ Quiet(strand[d], data[d]) => Quiet(strand'[d], data'[d])
  /\ \A q \in Query : Stream(strand[d], data[d], q) =>
       /\ Stream(strand'[d], data'[d], q)
       /\ \A n \in Nat : UpTo(strand[d], data[d], q, n) => UpTo(strand'[d], data'[d], q, n)

(* A step that leaves the strand and data_ of d alone.                     *)
LEMMA CarriesSame ==
  ASSUME UNCHANGED <<strand, data>> PROVE \A d \in Distributor : Carries(d)
  BY Zenon DEF Carries

(* The strand of d runs the handler at its head.                           *)
LEMMA CarriesRun ==
  ASSUME ReadInv, NEW d \in Distributor, DistributorStep(d)
  PROVE  \A e \in Distributor : Carries(e)
<1>1. strand[d] # <<>> /\ RunAndWakeUp(d) /\ QueueTypes
  BY Zenon DEF DistributorStep, RunUpdate, RunWake, ReadInv
<1> DEFINE R == Resumes(d)
<1>2. /\ Tail(strand[d]) \in Seq(Task) /\ R \in Seq(Task)
      /\ \A i \in 1 .. Len(R) : ~ IsUpdate(R[i])
      /\ strand'[d] = Tail(strand[d]) \o R
      /\ \A e \in Distributor \ {d} : strand'[e] = strand[e]
  BY Zenon, <1>1, RunAndWakeUpTypes
<1>3. strand[d] \in Seq(Task) /\ data[d] \in Seq(Query \X Nat)
  BY Zenon, <1>1 DEF QueueTypes
<1> HIDE DEF R
<1>4. CASE RunUpdate(d)
  <2>1. IsUpdate(Head(strand[d])) /\ data' = [data EXCEPT ![d] = Append(data[d], Head(strand[d]).arg)]
    BY Zenon, <1>4 DEF RunUpdate, IsUpdate
  <2> DEFINE E == Append(data[d], Head(strand[d]).arg)
  <2>2. data'[d] = E /\ \A e \in Distributor \ {d} : data'[e] = data[e]
    BY Zenon, <1>1, <2>1 DEF QueueTypes
  <2>3. /\ E \in Seq(Query \X Nat)
        /\ ~ Quiet(strand[d], data[d])
        /\ \A q \in Query : Stream(strand[d], data[d], q) =>
             /\ Stream(Tail(strand[d]), E, q)
             /\ \A n \in Nat : UpTo(strand[d], data[d], q, n) => UpTo(Tail(strand[d]), E, q, n)
    BY Zenon, <1>1, <1>3, <2>1, RunNextUpdate
  <2> HIDE DEF E
  <2>4. /\ \A q \in Query : Stream(Tail(strand[d]), E, q) => Stream(Tail(strand[d]) \o R, E, q)
        /\ \A q \in Query : \A n \in Nat :
             UpTo(Tail(strand[d]), E, q, n) => UpTo(Tail(strand[d]) \o R, E, q, n)
    BY Zenon, <1>2, <2>3, PostOther
  <2>5. Carries(d)
    BY Zenon, <1>2, <2>2, <2>3, <2>4 DEF Carries
  <2>6. ASSUME NEW e \in Distributor \ {d} PROVE Carries(e)
    BY Zenon, <1>2, <2>2 DEF Carries
  <2> QED BY Zenon, <2>5, <2>6
<1>5. CASE RunWake(d)
  <2>1. ~ IsUpdate(Head(strand[d])) /\ data' = data
    BY Zenon, <1>5 DEF RunWake, IsUpdate
  <2>2. /\ Quiet(strand[d], data[d]) => Quiet(Tail(strand[d]), data[d])
        /\ \A q \in Query : Stream(strand[d], data[d], q) => Stream(Tail(strand[d]), data[d], q)
        /\ \A q \in Query : \A n \in Nat :
             UpTo(strand[d], data[d], q, n) => UpTo(Tail(strand[d]), data[d], q, n)
    BY Zenon, <1>1, <1>3, <2>1, RunOther
  <2>3. /\ Quiet(Tail(strand[d]), data[d]) => Quiet(Tail(strand[d]) \o R, data[d])
        /\ \A q \in Query : Stream(Tail(strand[d]), data[d], q) => Stream(Tail(strand[d]) \o R, data[d], q)
        /\ \A q \in Query : \A n \in Nat :
             UpTo(Tail(strand[d]), data[d], q, n) => UpTo(Tail(strand[d]) \o R, data[d], q, n)
    BY Zenon, <1>2, <1>3, PostOther
  <2>4. Carries(d)
    BY Zenon, <1>2, <2>1, <2>2, <2>3 DEF Carries
  <2>5. ASSUME NEW e \in Distributor \ {d} PROVE Carries(e)
    BY Zenon, <1>2, <2>1 DEF Carries
  <2> QED BY Zenon, <2>4, <2>5
<1> QED BY Zenon, <1>4, <1>5 DEF DistributorStep

(* A handler that is no update is posted to the strand of d.               *)
LEMMA CarriesPost ==
  ASSUME QueueTypes, NEW d \in Distributor, NEW task \in Task, ~ IsUpdate(task),
         Post(d, task), data' = data
  PROVE  \A e \in Distributor : Carries(e)
<1>1. strand[d] \in Seq(Task) /\ data[d] \in Seq(Query \X Nat)
  BY Zenon DEF QueueTypes
<1>2. /\ strand'[d] = strand[d] \o <<task>>
      /\ \A e \in Distributor \ {d} : strand'[e] = strand[e]
  BY <1>1 DEF Post, QueueTypes
<1>3. <<task>> \in Seq(Task) /\ \A i \in 1 .. Len(<<task>>) : ~ IsUpdate(<<task>>[i])
  OBVIOUS
<1>4. /\ Quiet(strand[d], data[d]) => Quiet(strand[d] \o <<task>>, data[d])
      /\ \A q \in Query : Stream(strand[d], data[d], q) => Stream(strand[d] \o <<task>>, data[d], q)
      /\ \A q \in Query : \A n \in Nat :
           UpTo(strand[d], data[d], q, n) => UpTo(strand[d] \o <<task>>, data[d], q, n)
  BY Zenon, <1>1, <1>3, PostOther
<1>5. Carries(d)
  BY Zenon, <1>2, <1>4 DEF Carries
<1>6. ASSUME NEW e \in Distributor \ {d} PROVE Carries(e)
  BY Zenon, <1>2 DEF Carries
<1> QED BY Zenon, <1>5, <1>6

(* The handler at the head of the strand of d is no update.                *)
LEMMA CarriesPop ==
  ASSUME QueueTypes, NEW d \in Distributor, strand[d] # <<>>, ~ IsUpdate(Head(strand[d])),
         strand' = [strand EXCEPT ![d] = Tail(@)], data' = data
  PROVE  \A e \in Distributor : Carries(e)
<1>1. strand[d] \in Seq(Task) /\ data[d] \in Seq(Query \X Nat)
  BY Zenon DEF QueueTypes
<1>2. /\ strand'[d] = Tail(strand[d])
      /\ \A e \in Distributor \ {d} : strand'[e] = strand[e]
  BY Zenon, <1>1 DEF QueueTypes
<1>4. /\ Quiet(strand[d], data[d]) => Quiet(Tail(strand[d]), data[d])
      /\ \A q \in Query : Stream(strand[d], data[d], q) => Stream(Tail(strand[d]), data[d], q)
      /\ \A q \in Query : \A n \in Nat :
           UpTo(strand[d], data[d], q, n) => UpTo(Tail(strand[d]), data[d], q, n)
  BY Zenon, <1>1, RunOther
<1>5. Carries(d)
  BY Zenon, <1>2, <1>4 DEF Carries
<1>6. ASSUME NEW e \in Distributor \ {d} PROVE Carries(e)
  BY Zenon, <1>2 DEF Carries
<1> QED BY Zenon, <1>5, <1>6

(* A step that neither sends an update nor starts to do so.                *)
LEMMA StreamStep ==
  ASSUME HubInv, ReadInv, StreamInv, \A d \in Distributor : Carries(d), updates' = updates,
         \A d \in Distributor : Unclaimed(d)' => Unclaimed(d),
         \A q \in Query : pc'[q] = "running" =>
                            pc[q] = "running" /\ distributor'[q] = distributor[q],
         \A q \in Query : pc'[q] \in {"arrives", "registered"} =>
                            pc[q] \in {"arrives", "registered"}
  PROVE  StreamInv'
<1>1. ASSUME NEW d \in Distributor
      PROVE \/ Quiet(strand'[d], data'[d])
            \/ \E q \in Query : Stream(strand'[d], data'[d], q)
  BY Zenon DEF StreamInv, Carries
<1>2. ASSUME NEW d \in Distributor, Unclaimed(d)' PROVE Quiet(strand'[d], data'[d])
  BY Zenon, <1>2 DEF StreamInv, Carries
<1>3. ASSUME NEW q \in Query, pc'[q] = "running"
      PROVE  /\ Stream(strand'[distributor'[q]], data'[distributor'[q]], q)
             /\ UpTo(strand'[distributor'[q]], data'[distributor'[q]], q, updates'[q])
  <2>1. /\ pc[q] = "running" /\ distributor'[q] = distributor[q]
        /\ distributor[q] \in Distributor /\ updates[q] \in Nat
    BY <1>3, UpdatesAssumption DEF HubInv, Held, Holding, ReadInv, QueueTypes
  <2>2. /\ Stream(strand[distributor[q]], data[distributor[q]], q)
        /\ UpTo(strand[distributor[q]], data[distributor[q]], q, updates[q])
    BY Zenon, <2>1 DEF StreamInv
  <2> QED BY Zenon, <2>1, <2>2 DEF Carries
<1>4. ASSUME NEW q \in Query, pc'[q] \in {"arrives", "registered"} PROVE updates'[q] = 0
  BY Zenon, <1>4 DEF StreamInv
<1> QED BY Zenon, <1>1, <1>2, <1>3, <1>4 DEF StreamInv

(* A step that leaves every strand and every data_ alone.                  *)
LEMMA StreamFrame ==
  ASSUME HubInv, ReadInv, StreamInv, \A d \in Distributor : Carries(d),
         UNCHANGED <<hub, idOf, pc, distributor, updates>>
  PROVE  StreamInv'
<1>1. \A d \in Distributor : Unclaimed(d)' => Unclaimed(d)
  BY Zenon DEF Unclaimed
<1> QED BY Zenon, <1>1, StreamStep
-----------------------------------------------------------------------------
(* The hub gives a distributor to a session, or forgets one.               *)
LEMMA SessionClaimsNothing ==
  ASSUME HubInv, ReadInv, StreamInv, NEW s \in Session, NEW i \in QueryIds, HandleSession(s, i)
  PROVE  StreamInv'
<1> USE DistributorAssumption, HubAssumption
<1>1. PICK d \in Distributor : CreateOrAcquireDistributor(i, s, FALSE, d)
  BY Zenon DEF HandleSession
<1>2. UNCHANGED <<strand, data, pc, distributor, updates>>
  BY Zenon DEF HandleSession, senderVars
<1>3. \A e \in Distributor : Unclaimed(e)' => Unclaimed(e)
  BY <1>1 DEF AcquireDistributor, HubInv, HubTypes, Unclaimed, CreateDistributor,
       FreshDistributor, CreateOrAcquireDistributor
<1> QED BY Zenon, <1>2, <1>3, CarriesSame, StreamStep

(* A distributor is destroyed.                                             *)
LEMMA DestroyStream ==
  ASSUME HubInv, ReadInv, StreamInv, NEW d \in Distributor, DestroyStep(d)
  PROVE  StreamInv'
<1> USE DistributorAssumption, HubAssumption
<1>1. /\ UNCHANGED <<strand, data, idOf, pc, distributor, updates>>
      /\ hub' = hub \/ hub' = [hub EXCEPT ![idOf[d]] = NoEntry]
  BY Zenon DEF DestroyStep, Destroy, DeleteFromDistributors, distributorVars, senderVars
<1>2. \A e \in Distributor : Unclaimed(e)' => Unclaimed(e)
  BY <1>1 DEF Unclaimed, NoEntry, HubInv, HubTypes
<1> QED BY Zenon, <1>1, <1>2, CarriesSame, StreamStep

(* The operation starts to send on a distributor nobody sent on before.    *)
LEMMA ConstructStream ==
  ASSUME HubInv, HubInv', ReadInv, StreamInv, NEW q \in Query, Construct(q)
  PROVE  StreamInv'
<1> USE DistributorAssumption, HubAssumption
<1> DEFINE i == queryId[q]
<1>0. pc[q] = "registered" /\ i \in QueryIds /\ registry[i] = q
  BY Zenon DEF Construct, HubInv, Owned, Registered
<1>1. ~ hub[i].started \/ hub[i].pointer = None
  <2>1. ~ Sending(q)
    BY Zenon, <1>0 DEF Sending
  <2>2. Started
    BY Zenon DEF HubInv
  <2>3. hub[i].pointer # None /\ hub[i].started => \E r \in Query : registry[i] = r /\ Sending(r)
    BY Zenon, <1>0, <2>2 DEF Started
  <2> QED BY Zenon, <1>0, <2>1, <2>3
<1>1a. ~ SecondSender(i)
  BY Zenon, <1>1 DEF SecondSender, Acquirable
<1>2. PICK d \in Distributor :
        /\ CreateOrAcquireDistributor(i, q, TRUE, d)
        /\ distributor' = [distributor EXCEPT ![q] = d]
        /\ pc' = [pc EXCEPT ![q] = "running"]
        /\ UNCHANGED <<strand, data, updates>>
  BY Zenon, <1>1a DEF Construct, Goto
<1>3. /\ hub' = [hub EXCEPT ![i] = [pointer |-> d, started |-> TRUE]]
      /\ idOf' = idOf \/ idOf' = [idOf EXCEPT ![d] = i]
      /\ Unclaimed(d)
  BY Zenon, <1>0, <1>1, <1>2 DEF AcquireDistributor, Acquirable, HubInv, HubTypes, Entries, Unclaimed,
       CreateDistributor, FreshDistributor, CreateOrAcquireDistributor
<1>4. Quiet(strand[d], data[d]) /\ updates[q] = 0
  BY Zenon, <1>0, <1>3 DEF StreamInv
<1>5. strand[d] \in Seq(Task) /\ data[d] \in Seq(Query \X Nat)
  BY Zenon DEF ReadInv, QueueTypes
<1>6. Stream(strand[d], data[d], q) /\ UpTo(strand[d], data[d], q, updates[q])
  BY Zenon, <1>4, <1>5, QuietIsEmptyStream
<1>7. ASSUME NEW e \in Distributor, Unclaimed(e)' PROVE Quiet(strand[e], data[e])
  BY ZenonT(40), <1>0, <1>3, <1>7 DEF Unclaimed, HubInv, HubTypes, StreamInv
<1>8. ASSUME NEW r \in Query, pc'[r] = "running"
      PROVE  /\ Stream(strand[distributor'[r]], data[distributor'[r]], r)
             /\ UpTo(strand[distributor'[r]], data[distributor'[r]], r, updates[r])
  BY Zenon, <1>2, <1>6, <1>8 DEF HubInv, HubTypes, StreamInv
<1>9. ASSUME NEW r \in Query, pc'[r] \in {"arrives", "registered"} PROVE updates[r] = 0
  BY Zenon, <1>2, <1>9 DEF HubInv, HubTypes, StreamInv
<1> QED BY Zenon, <1>2, <1>7, <1>8, <1>9 DEF StreamInv

(* The operation sends its next update.                                    *)
LEMMA SendUpdateStream ==
  ASSUME HubInv, ReadInv, StreamInv, NEW q \in Query, SendUpdate(q)
  PROVE  StreamInv'
<1> USE DistributorAssumption, HubAssumption
<1> DEFINE d == distributor[q]
<1> DEFINE n == updates[q]
<1>0. /\ pc[q] = "running" /\ d \in Distributor /\ n \in Nat
      /\ strand[d] \in Seq(Task) /\ data[d] \in Seq(Query \X Nat)
  <2>1. pc[q] = "running" /\ d \in Distributor
    BY Zenon DEF SendUpdate, HubInv, Held, Holding
  <2>2. n \in Nat
    BY UpdatesAssumption DEF ReadInv, QueueTypes
  <2>3. strand[d] \in Seq(Task) /\ data[d] \in Seq(Query \X Nat)
    BY Zenon, <2>1 DEF ReadInv, QueueTypes
  <2> QED BY Zenon, <2>1, <2>2, <2>3
<1>1. /\ updates' = [updates EXCEPT ![q] = n + 1]
      /\ strand' = [strand EXCEPT ![d] = Append(strand[d], UpdateNo(q, n + 1))]
      /\ UNCHANGED <<data, hub, idOf, pc, distributor>>
  BY Zenon DEF SendUpdate, Post, UpdateNo, hubVars
<1>2. Stream(strand[d], data[d], q) /\ UpTo(strand[d], data[d], q, n)
  BY Zenon, <1>0 DEF StreamInv
<1> DEFINE T == Append(strand[d], UpdateNo(q, n + 1))
<1>3. Stream(T, data[d], q) /\ UpTo(T, data[d], q, n + 1)
  BY Zenon, <1>0, <1>2, PostNextUpdate
<1>4. /\ strand'[d] = T /\ updates'[q] = n + 1
      /\ \A e \in Distributor \ {d} : strand'[e] = strand[e]
      /\ \A r \in Query \ {q} : updates'[r] = updates[r]
  BY Zenon, <1>0, <1>1 DEF ReadInv, QueueTypes
<1> HIDE DEF T
<1>5. ~ Unclaimed(d)
  BY <1>0 DEF Unclaimed, HubInv, Held, Holding, Found, Sending
<1>6. ASSUME NEW r \in Query \ {q}, pc[r] = "running"
      PROVE  distributor[r] # d /\ distributor[r] \in Distributor
  BY <1>0, <1>6 DEF HubInv, Held, Holding, Owned, Registered
<1>7. ASSUME NEW e \in Distributor
      PROVE \/ Quiet(strand'[e], data[e])
            \/ \E r \in Query : Stream(strand'[e], data[e], r)
  BY Zenon, <1>3, <1>4 DEF StreamInv
<1>8. ASSUME NEW e \in Distributor, Unclaimed(e)' PROVE Quiet(strand'[e], data[e])
  BY Zenon, <1>1, <1>4, <1>5, <1>8 DEF Unclaimed, StreamInv
<1>9. ASSUME NEW r \in Query, pc[r] = "running"
      PROVE  /\ Stream(strand'[distributor[r]], data[distributor[r]], r)
             /\ UpTo(strand'[distributor[r]], data[distributor[r]], r, updates'[r])
  BY Zenon, <1>3, <1>4, <1>6, <1>9 DEF StreamInv
<1>10. ASSUME NEW r \in Query, pc[r] \in {"arrives", "registered"} PROVE updates'[r] = 0
  BY Zenon, <1>0, <1>4, <1>10 DEF StreamInv
<1> QED BY Zenon, <1>1, <1>7, <1>8, <1>9, <1>10 DEF StreamInv

(* The steps of an operation.                                              *)
LEMMA OperationStream ==
  ASSUME HubInv, HubInv', ReadInv, StreamInv, NEW q \in Query, OperationStep(q)
  PROVE  StreamInv'
<1> USE DistributorAssumption, HubAssumption
<1>0. pc \in [Query -> PC] /\ distributor \in [Query -> Distributor \union {None}]
  BY Zenon DEF HubInv, HubTypes
<1>1. ASSUME NEW i \in QueryIds, Register(q, i) PROVE StreamInv'
  BY Zenon, <1>0, <1>1, CarriesSame, StreamStep DEF Register, Goto, distributorVars, hubVars,
       Unclaimed
<1>2. CASE SetFinished(q)
  BY Zenon, <1>0, <1>2, CarriesSame, StreamStep DEF SetFinished, Goto, hubVars, Unclaimed
<1>3. CASE LeaveHub(q)
  BY ZenonT(40), <1>0, <1>3, CarriesSame, StreamStep DEF LeaveHub, Goto, distributorVars,
       DeleteFromDistributors, Unclaimed, NoEntry, HubInv, HubTypes
<1>4. CASE PostWake(q)
  <2>1. /\ UNCHANGED <<data, hub, idOf, distributor, updates>>
        /\ pc' = [pc EXCEPT ![q] = "signalled"]
        /\ Post(distributor[q], WakeTask)
    BY Zenon, <1>4 DEF PostWake, Goto, hubVars
  <2>2. \A d \in Distributor : Unclaimed(d)' => Unclaimed(d)
    BY Zenon, <2>1 DEF Unclaimed
  <2>3. distributor[q] \in Distributor /\ WakeTask \in Task /\ ~ IsUpdate(WakeTask) /\ QueueTypes
    BY Zenon, <1>4 DEF PostWake, HubInv, Held, Holding, WakeTask, Task, IsUpdate, ReadInv
  <2>4. \A d \in Distributor : Carries(d)
    BY Zenon, <2>1, <2>3, CarriesPost
  <2> QED BY Zenon, <1>0, <2>1, <2>2, <2>4, StreamStep
<1>5. CASE Unregister(q)
  BY Zenon, <1>0, <1>5, CarriesSame, StreamStep DEF Unregister, Goto, hubVars, distributorVars,
       Unclaimed
<1>6. CASE Release(q)
  BY Zenon, <1>0, <1>6, CarriesSame, StreamStep DEF Release, Goto, hubVars, Unclaimed
<1> QED BY Zenon, <1>1, <1>2, <1>3, <1>4, <1>5, <1>6, ConstructStream, SendUpdateStream
        DEF OperationStep, Operation, SignalEnd

(* The steps of a session, of its client and of the connection.            *)
LEMMA SessionStream ==
  ASSUME HubInv, ReadInv, StreamInv, NEW s \in Session, SessionProgress(s) \/ Client(s)
  PROVE  StreamInv'
<1>1. ASSUME NEW i \in QueryIds, HandleSession(s, i) PROVE StreamInv'
  BY Zenon, <1>1, SessionClaimsNothing
<1>2. CASE Accepted(s) \/ AcceptFails(s) \/ Written(s) \/ CancelOnCloseCommand(s) \/ Disconnect(s)
  BY Zenon, <1>2, CarriesSame, StreamFrame DEF Accepted, AcceptFails, Written, CancelOnCloseCommand,
       Disconnect, distributorVars, hubVars, senderVars
<1>3. CASE CancelCommand(s)
  BY Zenon, <1>3, CarriesSame, StreamFrame DEF CancelCommand, distributorVars, hubVars
<1>4. CASE Ask(s) \/ Closed(s)
  BY Zenon, <1>4, CarriesSame, StreamFrame DEF Ask, Closed, hubVars, senderVars
<1>5. CASE Catch(s)
  BY Zenon, <1>5, CarriesSame, StreamFrame DEF Catch, hubVars
<1>6. CASE Resume(s)
  <2>1. /\ UNCHANGED <<data, hub, idOf, pc, distributor, updates>>
        /\ strand[fetcher[s]] # <<>> /\ Head(strand[fetcher[s]]) = ResumeTask(s)
        /\ strand' = [strand EXCEPT ![fetcher[s]] = Tail(@)]
        /\ Watching(s)
    BY Zenon, <1>6 DEF Resume, hubVars, senderVars, Watching
  <2>2. fetcher[s] \in Distributor /\ ~ IsUpdate(ResumeTask(s)) /\ QueueTypes
    BY Zenon, <2>1, WatchingTypes DEF IsUpdate, ResumeTask, ReadInv
  <2>3. \A d \in Distributor : Carries(d)
    BY Zenon, <2>1, <2>2, CarriesPop
  <2> QED BY Zenon, <2>1, <2>3, StreamFrame
<1>7. CASE DisconnectWaiting(s)
  BY Zenon, <1>7, CarriesPost, CarriesSame, StreamFrame, WatchingTypes DEF DisconnectWaiting,
       hubVars, senderVars, Watching, IsUpdate, ResumeTask, Task, ReadInv
<1> QED BY Zenon, <1>1, <1>2, <1>3, <1>4, <1>5, <1>6, <1>7 DEF SessionProgress, Client

(* Every step keeps the updates of an operation in order.                  *)
LEMMA NextKeepsStream == HubInv /\ HubInv' /\ ReadInv /\ StreamInv /\ [Next]_vars => StreamInv'
<1> SUFFICES ASSUME HubInv, HubInv', ReadInv, StreamInv, [Next]_vars PROVE StreamInv'
  OBVIOUS
<1>1. CASE UNCHANGED vars
  BY Zenon, <1>1, CarriesSame, StreamFrame DEF vars, distributorVars, hubVars, senderVars
<1>2. ASSUME NEW d \in Distributor, DistributorStep(d) PROVE StreamInv'
  BY Zenon, <1>2, CarriesRun, StreamFrame DEF DistributorStep, hubVars, senderVars
<1> QED BY Zenon, <1>1, <1>2, DestroyStream, OperationStream, SessionStream DEF Next

(* What is read from such a stream is in order.                            *)
LEMMA ReadStreamImplies == ReadInv /\ StreamInv => ReceivedInOrder
<1> SUFFICES ASSUME ReadInv, StreamInv, NEW s \in Session, received[s] # <<>>
             PROVE  \E q \in Query : \A k \in 1 .. Len(received[s]) : received[s][k] = <<q, k>>
  BY Zenon DEF ReceivedInOrder
<1>1. /\ received[s] \in Seq(Query \X Nat) /\ Len(received[s]) = nextIndex[s]
      /\ nextIndex[s] \in Nat /\ nextIndex[s] # 0 /\ Watching(s)
  BY DEF ReadInv, SessionTypes, Counted
<1> DEFINE d == fetcher[s]
<1>2. /\ d \in Distributor /\ nextIndex[s] <= Len(data[d])
      /\ Len(data[d]) \in Nat
      /\ \A k \in 1 .. nextIndex[s] : received[s][k] = data[d][k]
  <2>1. /\ d \in Distributor /\ nextIndex[s] <= Len(data[d])
        /\ \A k \in 1 .. nextIndex[s] : received[s][k] = data[d][k]
    BY Zenon, <1>1 DEF ReadInv, Attached
  <2>2. data[d] \in Seq(Query \X Nat)
    BY Zenon, <2>1 DEF ReadInv, QueueTypes
  <2> QED BY <2>1, <2>2
<1>3. PICK q \in Query : Stream(strand[d], data[d], q)
  BY <1>1, <1>2 DEF StreamInv, Quiet
<1>4. \A k \in 1 .. Len(data[d]) : data[d][k] = <<q, k>>
  BY Zenon, <1>3 DEF Stream
<1>5. \A k \in 1 .. nextIndex[s] : k \in 1 .. Len(data[d])
  BY <1>1, <1>2
<1>6. ASSUME NEW k \in 1 .. Len(received[s]) PROVE received[s][k] = <<q, k>>
  BY Zenon, <1>1, <1>2, <1>4, <1>5
<1> QED BY Zenon, <1>6

-----------------------------------------------------------------------------
(* The inductive invariant.                                                *)
ReadStreamInv == HubInv /\ ReadInv /\ StreamInv

(* What a session reads is what the operation has sent, in every reachable *)
(* state.                                                                  *)
THEOREM StreamInvariant == Spec => []ReadStreamInv
<1>1. Init => ReadStreamInv
  BY Zenon, InitHub, InitRead, InitStream DEF ReadStreamInv
<1>2. ReadStreamInv /\ [Next]_vars => ReadStreamInv'
  BY Zenon, NextKeepsHub, NextKeepsRead, NextKeepsStream DEF ReadStreamInv
<1> QED BY <1>1, <1>2, PTL DEF Spec

(* A client gets the updates of one operation, in order and without a gap, *)
(* at whatever pace it reads.                                              *)
THEOREM UpdatesInOrder == Spec => []ReceivedInOrder
<1>1. ReadStreamInv => ReceivedInOrder
  BY Zenon, ReadStreamImplies DEF ReadStreamInv
<1> QED BY <1>1, StreamInvariant, PTL
=============================================================================
