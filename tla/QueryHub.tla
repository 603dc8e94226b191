------------------------------- MODULE QueryHub -------------------------------
(***************************************************************************)
(* The map from query ids to distributors, from                            *)
(* src/util/http/websocket/QueryHub.{h,cpp}.  The map holds weak pointers. *)
(* It is protected by one lock, so every operation on it is one step.  The *)
(* destructor of a distributor takes the lock some time after the last     *)
(* reference is gone, and others may use the map before it does.           *)
(***************************************************************************)
EXTENDS QueryToSocketDistributor

CONSTANT QueryIds

ASSUME HubAssumption == None \notin QueryIds

VARIABLES hub,       \* socketDistributors_
          idOf,      \* the id that cleanupCall of a distributor captured
          cleanup    \* the active_ flag of cleanupCall_
hubVars == <<hub, idOf, cleanup>>

NoEntry == [pointer |-> None, started |-> FALSE]

HubInit ==
  /\ hub = [i \in QueryIds |-> NoEntry]
  /\ idOf = [d \in Distributor |-> None]
  /\ cleanup = [d \in Distributor |-> FALSE]

(* The map contains the id and the weak_ptr can be locked.                 *)
Acquirable(i) == hub[i].pointer # None /\ Alive(hub[i].pointer)

(* Any address that was not used before: addresses are interchangeable.    *)
FreshDistributor == CHOOSE d \in Distributor : idOf[d] = None

-----------------------------------------------------------------------------
(* Mutant: the entry is erased whether or not it has expired.              *)
DeleteUnconditionally(i, alwaysDelete) ==
  hub' = [hub EXCEPT ![i] = NoEntry]

(* deleteFromDistributors                                                  *)
DeleteFromDistributors(i, alwaysDelete) ==
  hub' = IF alwaysDelete \/ ~ Acquirable(i)
         THEN [hub EXCEPT ![i] = NoEntry] ELSE hub

(* AD_CONTRACT_CHECK(!reference.started_) fails for a second sender.       *)
SecondSender(i) == Acquirable(i) /\ hub[i].started

(* createOrAcquireDistributorInternal for the holder h, which passes the   *)
(* contract check; d is the distributor it returns.                        *)
AcquireDistributor(i, h, isSender, d) ==
  /\ Acquirable(i)
  /\ d = hub[i].pointer
  /\ hub' = [hub EXCEPT ![i] = [pointer |-> d, started |-> @.started \/ isSender]]
  /\ refs' = [refs EXCEPT ![d] = @ \union {h}]
  /\ UNCHANGED <<idOf, cleanup>>

CreateDistributor(i, h, isSender, d) ==
  /\ ~ Acquirable(i)
  /\ \E e \in Distributor : idOf[e] = None
  /\ d = FreshDistributor
  /\ hub' = [hub EXCEPT ![i] = [pointer |-> d, started |-> isSender]]
  /\ refs' = [refs EXCEPT ![d] = {h}]
  /\ idOf' = [idOf EXCEPT ![d] = i]
  /\ cleanup' = [cleanup EXCEPT ![d] = TRUE]

CreateOrAcquireDistributor(i, h, isSender, d) ==
  \/ AcquireDistributor(i, h, isSender, d)
  \/ CreateDistributor(i, h, isSender, d)

-----------------------------------------------------------------------------
(* Mutant: the destructor does not call cleanupCall_.                      *)
DestroyWithoutCleanup(d) ==
  /\ idOf[d] # None /\ ~ Alive(d) /\ cleanup[d]
  /\ cleanup' = [cleanup EXCEPT ![d] = FALSE]
  /\ UNCHANGED <<distributorVars, hub, idOf>>

(* The destructor of the distributor d runs cleanupCall_.                  *)
Destroy(d) ==
  /\ idOf[d] # None /\ ~ Alive(d) /\ cleanup[d]
  /\ DeleteFromDistributors(idOf[d], FALSE)
  /\ cleanup' = [cleanup EXCEPT ![d] = FALSE]
  /\ UNCHANGED <<distributorVars, idOf>>
=============================================================================
