---------------------- MODULE QueryToSocketDistributor ----------------------
(***************************************************************************)
(* The distributor of the status updates of one query, from                *)
(* src/util/http/websocket/QueryToSocketDistributor.{h,cpp}.  A query      *)
(* posts its updates to the strand of its distributor; the websocket       *)
(* sessions that watch the query read them there, each at its own pace,    *)
(* and wait on infiniteTimer_ when there is nothing to read.               *)
(*                                                                         *)
(* A strand runs the handlers that were posted to it one at a time and in  *)
(* the order of the posts, so one action is one handler.  The handlers     *)
(* that continue a session after network I/O are not queued in the model:  *)
(* the I/O completes at an arbitrary moment anyway.                        *)
(***************************************************************************)
EXTENDS Naturals, Sequences

CONSTANTS Distributor,   \* the addresses of distributors
          Query,         \* the operations the server processes
          Session,       \* the websocket connections
          None

ASSUME DistributorAssumption ==
  /\ None \notin Distributor \union Query \union Session
  /\ Query \intersect Session = {}

VARIABLES refs,        \* the queries and sessions with a shared_ptr to it
          strand,      \* strand_: the handlers posted and not yet run
          data,        \* data_
          finished,    \* finished_
          waiting      \* the sessions that wait on infiniteTimer_
distributorVars == <<refs, strand, data, finished, waiting>>

UpdateTask(u) == [run |-> "update", arg |-> u]
WakeTask == [run |-> "wake", arg |-> None]
ResumeTask(s) == [run |-> "resume", arg |-> s]

DistributorInit ==
  /\ refs = [d \in Distributor |-> {}]
  /\ strand = [d \in Distributor |-> <<>>]
  /\ data = [d \in Distributor |-> <<>>]
  /\ finished = [d \in Distributor |-> FALSE]
  /\ waiting = [d \in Distributor |-> <<>>]

(* A weak_ptr to d can be locked: somebody has a shared_ptr to d, or a     *)
(* handler that captured shared_from_this() is still to run.               *)
Alive(d) == refs[d] # {} \/ strand[d] # <<>>

(* The continuations of the waiting sessions, which re-arming the timer    *)
(* posts to the strand.                                                    *)
Resumes(d) == [i \in 1 .. Len(waiting[d]) |-> ResumeTask(waiting[d][i])]

Post(d, task) == strand' = [strand EXCEPT ![d] = Append(@, task)]

(* The first handler of the strand of d runs and wakes up all listeners.   *)
RunAndWakeUp(d) ==
  /\ strand' = [strand EXCEPT ![d] = Tail(@) \o Resumes(d)]
  /\ waiting' = [waiting EXCEPT ![d] = <<>>]

-----------------------------------------------------------------------------
(* Mutant: the listeners are told of an update that is not stored.         *)
WakesWithoutData(d) ==
  /\ strand[d] # <<>> /\ Head(strand[d]).run = "update"
  /\ RunAndWakeUp(d)
  /\ UNCHANGED <<refs, data, finished>>

(* The handler that addQueryStatusUpdate has posted.                       *)
RunUpdate(d) ==
  /\ strand[d] # <<>> /\ Head(strand[d]).run = "update"
  /\ data' = [data EXCEPT ![d] = Append(@, Head(strand[d]).arg)]
  /\ RunAndWakeUp(d)
  /\ UNCHANGED <<refs, finished>>

(* The handler that signalEnd has posted.                                  *)
RunWake(d) ==
  /\ strand[d] # <<>> /\ Head(strand[d]).run = "wake"
  /\ RunAndWakeUp(d)
  /\ UNCHANGED <<refs, data, finished>>
=============================================================================
