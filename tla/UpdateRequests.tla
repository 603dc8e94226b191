---------------------------- MODULE UpdateRequests ----------------------------
(***************************************************************************)
(* Update requests and queries of a server (Server::processUpdate): the    *)
(* requests wait for the only thread of updateThreadPool_, which executes  *)
(* the updates of a request one after the other.  A query works on the     *)
(* snapshot that was current when it began and shares the results of its   *)
(* scans with other queries through the cache, whose keys contain the      *)
(* index of the snapshot.  A Thread of DeltaTriplesManager is here the     *)
(* thread of the pool while it executes that request.                      *)
(***************************************************************************)
EXTENDS DeltaTriplesManager

CONSTANTS
  Query,     \* the queries
  MaxChain   \* bound: the number of updates in one request

ASSUME RequestAssumption == MaxChain \in Nat \ {0}

VARIABLES
  stage,      \* where a request is
  left,       \* the number of its updates that are still to be executed
  planned,    \* the index of the snapshot in its QueryExecutionContext
  running,    \* per query the set with its snapshot, if it runs
  cache       \* the results of scans in the QueryResultCache

requestVars == <<stage, left, planned>>
vars == <<managerVars, requestVars, running, cache>>

Stage == {"none", "waiting", "pool", "planned"}

RequestsInit ==
  /\ ManagerInit
  /\ stage = [u \in Thread |-> "none"]
  /\ left = [u \in Thread |-> 0] /\ planned = [u \in Thread |-> 0]
  /\ running = [q \in Query |-> {}] /\ cache = {}

-----------------------------------------------------------------------------
(* A request with several updates comes in; its QueryExecutionContext gets *)
(* the current snapshot.                                                   *)
Arrive(u) ==
  /\ up /\ stage[u] = "none"
  /\ stage' = [stage EXCEPT ![u] = "waiting"]
  /\ \E n \in 1 .. MaxChain : left' = [left EXCEPT ![u] = n]
  /\ planned' = [planned EXCEPT ![u] = snapshot.index]
  /\ UNCHANGED <<managerVars, running, cache>>

(* The pool has one thread (UPDATE_THREAD_POOL_SIZE).                      *)
Dispatch(u) ==
  /\ stage[u] = "waiting"
  /\ \A v \in Thread : stage[v] \notin {"pool", "planned"}
  /\ stage' = [stage EXCEPT ![u] = "pool"]
  /\ UNCHANGED <<managerVars, left, planned, running, cache>>

PlanOnly(u) ==
  /\ stage[u] = "pool" /\ pc[u] = "idle"
  /\ stage' = [stage EXCEPT ![u] = "planned"]
  /\ UNCHANGED <<managerVars, left, planned, running, cache>>

(* updateLocatedTriplesSnapshot and planQuery.                             *)
Plan(u) ==
  /\ stage[u] = "pool" /\ pc[u] = "idle"
  /\ stage' = [stage EXCEPT ![u] = "planned"]
  /\ planned' = [planned EXCEPT ![u] = snapshot.index]
  /\ UNCHANGED <<managerVars, left, running, cache>>

(* `modify` is called for a planned update.  The WHERE clause is evaluated *)
(* on the planned snapshot under the lock; its result may be anything.     *)
Execute(u) ==
  /\ stage[u] = "planned"
  /\ \E delete, insert \in SUBSET Updatable : StartUpdate(u, delete, insert)
  /\ stage' = [stage EXCEPT ![u] = "pool"]
  /\ UNCHANGED <<left, planned, running, cache>>

(* The command clear-delta-triples needs no planning.                      *)
ExecuteClear(u) ==
  /\ stage[u] = "pool" /\ left[u] = 1
  /\ StartClear(u)
  /\ UNCHANGED <<requestVars, running, cache>>

(* processUpdateImpl clears the cache before it returns.                   *)
ReturnFromUpdate(u) ==
  /\ Return(u)
  /\ cache' = {}
  /\ UNCHANGED <<requestVars, running>>

(* An exception ends the request, its remaining updates are not executed.  *)
Drop(u) ==
  /\ stage' = [stage EXCEPT ![u] = "none"]
  /\ left' = [left EXCEPT ![u] = 0]

Continue(u) ==
  /\ EraseFromInverse(u) \/ RegisterHandles(u) \/ OpenTemp(u) \/ SerializeIds(u) \/ Rename(u)
  /\ UNCHANGED <<requestVars, running, cache>>

ContinueOrThrow(u) ==
  /\ LocateAndAdd(u) \/ Cancel(u) \/ WriteFails(u)
  /\ IF pc'[u] = "idle" THEN Drop(u) ELSE UNCHANGED <<stage, left>>
  /\ UNCHANGED <<planned, running, cache>>

Finish(u) ==
  /\ UpdateSnapshot(u)
  /\ IF left[u] = 1 THEN Drop(u)
     ELSE left' = [left EXCEPT ![u] = left[u] - 1] /\ UNCHANGED stage
  /\ UNCHANGED <<planned, running, cache>>

(* The request is cancelled while it waits for the pool or is planned.     *)
Abandon(u) ==
  /\ up /\ stage[u] # "none" /\ pc[u] = "idle"
  /\ Drop(u)
  /\ UNCHANGED <<managerVars, planned, running, cache>>

Request(u) ==
  \/ Arrive(u) \/ Dispatch(u) \/ Plan(u) \/ Execute(u) \/ ExecuteClear(u)
  \/ ReturnFromUpdate(u) \/ Continue(u) \/ ContinueOrThrow(u) \/ Finish(u) \/ Abandon(u)

-----------------------------------------------------------------------------
(* The QueryExecutionContext of a query gets the current snapshot.         *)
BeginQuery(q) ==
  /\ up /\ running[q] = {}
  /\ running' = [running EXCEPT ![q] = {snapshot}]
  /\ UNCHANGED <<managerVars, requestVars, cache>>

Cached(p, s) == {e \in cache : e.scan = p /\ e.index = s.index}

(* computeOnce for the scan of a permutation that is not yet cached.       *)
Scan(q, p) ==
  /\ \E s \in running[q] :
       /\ Cached(p, s) = {}
       /\ cache' = cache \union {[scan |-> p, index |-> s.index, rows |-> s.located[p]]}
  /\ UNCHANGED <<managerVars, requestVars, running>>

EndQuery(q) ==
  /\ running[q] # {}
  /\ running' = [running EXCEPT ![q] = {}]
  /\ UNCHANGED <<managerVars, requestVars, cache>>

QueryStep(q) ==
  BeginQuery(q) \/ EndQuery(q) \/ \E p \in Permutation : Scan(q, p)

-----------------------------------------------------------------------------
CrashAll ==
  /\ Crash
  /\ stage' = [u \in Thread |-> "none"]
  /\ left' = [u \in Thread |-> 0] /\ planned' = [u \in Thread |-> 0]
  /\ running' = [q \in Query |-> {}] /\ cache' = {}

RestartAll == Restart /\ UNCHANGED <<requestVars, running, cache>>

RequestsNext ==
  \/ \E u \in Thread : Request(u)
  \/ \E q \in Query : QueryStep(q)
  \/ CrashAll \/ RestartAll

RequestsSpec == RequestsInit /\ [][RequestsNext]_vars

-----------------------------------------------------------------------------
(* The types of the variables of this module.                              *)
RequestsTypeOK ==
  /\ stage \in [Thread -> Stage]
  /\ left \in [Thread -> 0 .. MaxChain] /\ planned \in [Thread -> Nat]
  /\ \A q \in Query : \A s \in running[q] : s.index \in Nat
  /\ \A e \in cache : e.scan \in Permutation /\ e.rows \in [Triple -> Kind]

(* "A unique index for this snapshot that is used in the query cache"      *)
(* (LocatedTriplesSnapshot): whatever a query finds in the cache under the *)
(* index of its snapshot is what it would compute itself, although         *)
(* queries with older snapshots still store results after the cache was    *)
(* cleared.                                                                *)
CachedResultsAreCurrent ==
  \A q \in Query : \A s \in running[q] : \A p \in Permutation :
    \A e \in Cached(p, s) : e.rows = s.located[p]

(* Updates see the effect of the preceding updates: from the planning of   *)
(* an update to the end of its modification, the snapshot on which its     *)
(* WHERE clause is evaluated is the current one, so no other modification  *)
(* comes in between (processUpdate: "those have to run atomically").       *)
PlannedOnCurrentSnapshot ==
  \A u \in Thread :
    stage[u] = "planned" \/ pc[u] \in {"delete", "insert", "done"}
      => planned[u] = snapshot.index
=============================================================================
