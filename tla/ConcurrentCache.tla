-------------------------- MODULE ConcurrentCache --------------------------
(***************************************************************************)
(* ad_utility::ConcurrentCache (src/src/util/ConcurrentCache.h): threads   *)
(* that ask for the result of a key share one cache and one map of the     *)
(* computations that are in progress.  The first thread to ask computes,   *)
(* the others wait on its ResultInProgress.                                *)
(*                                                                         *)
(* A step is what happens under one lock of `_cacheAndInProgressMap`, or   *)
(* under the mutex of one ResultInProgress.  computeFunction() is opaque:  *)
(* it succeeds with a value that is suitable for the cache (a fully        *)
(* materialized result), succeeds with one that is not (a lazy result), or *)
(* throws.  A thread that got a lazy result consumes it, and at the end of *)
(* that may store it (Operation::runComputationAndPrepareForCache).        *)
(***************************************************************************)
EXTENDS FlexibleCache

CONSTANTS
    Thread,
    Rip,                \* the identities of ResultInProgress objects
    NoRip, NoKey,       \* null values
    Outcomes,           \* what a call of computeFunction() can end with
    Limits,             \* the values the limits of the cache can have
    RoomRequests        \* what the memory allocator asks the cache to free

ASSUME NullAssumption == NoRip \notin Rip /\ NoKey \notin Key

ASSUME OutcomesAssumption == Outcomes \subseteq {"suitable", "unsuitable", "fails"}

ASSUME LimitsAssumption == Limits \subseteq Nat /\ RoomRequests \subseteq Nat

VARIABLES
    cache,          \* _cache
    inProgress,     \* _inProgress[k].second, NoRip if k is not in the map
    pinRequested,   \* _inProgress[k].first, FALSE if k is not in the map
    ripStatus,      \* _status and _result of each ResultInProgress
    pc,             \* where the thread is in its call
    key, pinned,    \* the arguments of its call
    handle,         \* its local variable resultInProgress
    outcome,        \* how its call ended, or why its computation is given up
    wiped           \* history: threads whose call overlapped a clearAll

cacheVars == <<cache, inProgress, pinRequested>>
callVars == <<pc, key, pinned, handle, outcome>>
vars == <<cacheVars, ripStatus, callVars, wiped>>

\* NULL is FINISHED with _result == nullptr.
RipStatus == {"IN_PROGRESS", "FINISHED", "NULL", "ABORTED"}

\* computing   computeFunction() runs, the thread is registered in the map
\* finishing   the result is in the cache, finish(result) is still to come
\* nulling     the map entry is erased, finish(nullptr) is still to come
\* caught      in the catch clause, the map entry is still there
\* aborting    in the catch clause, abort() is still to come
\* waiting     in getResult()
\* fallback    computeFunction() runs after getResult() returned nullptr
\* private     computeFunction() runs in computeButDontStore
\* lazy        the call returned a lazy result that is being consumed
Pc == {"idle", "computing", "finishing", "nulling", "caught", "aborting",
       "waiting", "fallback", "private", "lazy", "done"}

Owning == {"computing", "caught", "finishing", "nulling", "aborting"}

Outcome == {"none", "value", "null", "fails", "contract", "waited"} \cup Status

Init ==
    /\ \E n, s, e \in Limits : cache = EmptyCache(n, s, e)
    /\ inProgress = [k \in Key |-> NoRip]
    /\ pinRequested = [k \in Key |-> FALSE]
    /\ ripStatus = [r \in Rip |-> "IN_PROGRESS"]
    /\ pc = [t \in Thread |-> "idle"]
    /\ key = [t \in Thread |-> NoKey]
    /\ pinned = [t \in Thread |-> FALSE]
    /\ handle = [t \in Thread |-> NoRip]
    /\ outcome = [t \in Thread |-> "none"]
    /\ wiped = {}

-----------------------------------------------------------------------------
(* Bookkeeping of the calling thread.                                       *)

\* A call begins and has reached p.
Enter(t, k, pin, r, p, o) ==
    /\ pc[t] = "idle"
    /\ pc' = [pc EXCEPT ![t] = p]
    /\ key' = [key EXCEPT ![t] = k]
    /\ pinned' = [pinned EXCEPT ![t] = pin]
    /\ handle' = [handle EXCEPT ![t] = r]
    /\ outcome' = [outcome EXCEPT ![t] = o]

\* A call goes on from p to q, and gives up its handle if `keep` is false.
Move(t, p, q, o, keep) ==
    /\ pc[t] = p
    /\ pc' = [pc EXCEPT ![t] = q]
    /\ outcome' = [outcome EXCEPT ![t] = o]
    /\ handle' = IF keep THEN handle ELSE [handle EXCEPT ![t] = NoRip]
    /\ UNCHANGED <<key, pinned>>

\* No shared_ptr points to r: make_shared can use its identity.
Unreferenced(r) == \A t \in Thread : handle[t] # r

SetRip(r, status) == ripStatus' = [ripStatus EXCEPT ![r] = status]

UnregisterKey(k) ==
    /\ inProgress' = [inProgress EXCEPT ![k] = NoRip]
    /\ pinRequested' = [pinRequested EXCEPT ![k] = FALSE]

-----------------------------------------------------------------------------
(* computeOnceImpl, the part under the first lock.                          *)

\* The result is in the cache; a pinned call pins it there.
LookupHit(t, k, pin) ==
    /\ Contains(cache, k)
    /\ cache' = Touch(IF pin THEN MakePinnedIfExists(cache, k) ELSE cache, k)
    /\ Enter(t, k, pin, NoRip, "done", "value")
    /\ UNCHANGED <<inProgress, pinRequested, ripStatus, wiped>>

\* onlyReadFromCache, also of computeButDontStore.
LookupMiss(t, k) ==
    /\ ~ Contains(cache, k)
    /\ Enter(t, k, FALSE, NoRip, "done", "null")
    /\ UNCHANGED <<cacheVars, ripStatus, wiped>>

\* Someone else computes the result: ask for pinning, then wait.
JoinComputation(t, k, pin) ==
    /\ ~ Contains(cache, k)
    /\ inProgress[k] # NoRip
    /\ pinRequested' = [pinRequested EXCEPT ![k] = @ \/ pin]
    /\ Enter(t, k, pin, inProgress[k], "waiting", "none")
    /\ UNCHANGED <<cache, inProgress, ripStatus, wiped>>

\* Mutant: the computations in progress are not looked at.
StartRegardless(t, k, pin) ==
    /\ ~ Contains(cache, k)
    /\ \E r \in Rip :
          /\ Unreferenced(r)
          /\ SetRip(r, "IN_PROGRESS")
          /\ inProgress' = [inProgress EXCEPT ![k] = r]
          /\ Enter(t, k, pin, r, "computing", "none")
    /\ pinRequested' = [pinRequested EXCEPT ![k] = pin]
    /\ UNCHANGED <<cache, wiped>>

\* We are the first: register a blank ResultInProgress.
StartComputation(t, k, pin) ==
    /\ ~ Contains(cache, k)
    /\ inProgress[k] = NoRip
    /\ \E r \in Rip :
          /\ Unreferenced(r)
          /\ SetRip(r, "IN_PROGRESS")
          /\ inProgress' = [inProgress EXCEPT ![k] = r]
          /\ Enter(t, k, pin, r, "computing", "none")
    /\ pinRequested' = [pinRequested EXCEPT ![k] = pin]
    /\ UNCHANGED <<cache, wiped>>

-----------------------------------------------------------------------------
(* computeOnceImpl, the computing thread.                                   *)

\* Mutant: only the wish of the computing thread counts.
MoveToCacheOwnWish(t) ==
    LET k   == key[t]
        ins == IF pinned[t] THEN InsertPinned(cache, k) ELSE Insert(cache, k)
    IN  /\ pc[t] = "computing"
        /\ "suitable" \in Outcomes
        /\ cache' = ins.cache
        /\ IF Threw(ins.status)
           THEN /\ Move(t, "computing", "caught", ins.status, TRUE)
                /\ UNCHANGED <<inProgress, pinRequested>>
           ELSE /\ Move(t, "computing", "finishing", "value", TRUE)
                /\ UnregisterKey(k)
        /\ UNCHANGED <<ripStatus, wiped>>

\* moveFromInProgressToCache.  Whether the entry is pinned is decided by the
\* map, where waiting threads may have asked for it.
MoveToCache(t) ==
    LET k   == key[t]
        ins == IF pinRequested[k] THEN InsertPinned(cache, k) ELSE Insert(cache, k)
    IN  /\ pc[t] = "computing"
        /\ "suitable" \in Outcomes
        /\ cache' = ins.cache
        /\ IF Threw(ins.status)
           THEN /\ Move(t, "computing", "caught", ins.status, TRUE)
                /\ UNCHANGED <<inProgress, pinRequested>>
           ELSE /\ Move(t, "computing", "finishing", "value", TRUE)
                /\ UnregisterKey(k)
        /\ UNCHANGED <<ripStatus, wiped>>

\* Mutant: the map entry of an unsuitable result stays.
GiveUpWithoutErase(t) ==
    /\ "unsuitable" \in Outcomes
    /\ Move(t, "computing", IF pinned[t] THEN "caught" ELSE "nulling",
            IF pinned[t] THEN "contract" ELSE "value", TRUE)
    /\ UNCHANGED <<cacheVars, ripStatus, wiped>>

\* The result is not suitable for the cache; a pinned call must not end so.
GiveUpCaching(t) ==
    /\ "unsuitable" \in Outcomes
    /\ UNCHANGED <<cache, ripStatus, wiped>>
    /\ \/ /\ pinned[t]
          /\ Move(t, "computing", "caught", "contract", TRUE)
          /\ UNCHANGED <<inProgress, pinRequested>>
       \/ /\ ~ pinned[t]
          /\ Move(t, "computing", "nulling", "value", TRUE)
          /\ UnregisterKey(key[t])

\* Mutant: no catch clause.
ThrowsUncaught(t) ==
    /\ "fails" \in Outcomes
    /\ Move(t, "computing", "done", "fails", FALSE)
    /\ UNCHANGED <<cacheVars, ripStatus, wiped>>

ComputationThrows(t) ==
    /\ "fails" \in Outcomes
    /\ Move(t, "computing", "caught", "fails", TRUE)
    /\ UNCHANGED <<cacheVars, ripStatus, wiped>>

\* resultInProgress->finish(result), and the call returns.
Finish(t) ==
    /\ Move(t, "finishing", "done", "value", FALSE)
    /\ SetRip(handle[t], "FINISHED")
    /\ UNCHANGED <<cacheVars, wiped>>

\* Mutant: the waiting threads are not told that there is no result.
FinishNullSilently(t) ==
    /\ Move(t, "nulling", "lazy", "value", FALSE)
    /\ UNCHANGED <<cacheVars, ripStatus, wiped>>

\* resultInProgress->finish(nullptr), and the call returns a lazy result.
FinishNull(t) ==
    /\ Move(t, "nulling", "lazy", "value", FALSE)
    /\ SetRip(handle[t], "NULL")
    /\ UNCHANGED <<cacheVars, wiped>>

\* catch (...): whatever is registered for the key is erased ...
EraseInCatch(t) ==
    /\ Move(t, "caught", "aborting", outcome[t], TRUE)
    /\ UnregisterKey(key[t])
    /\ UNCHANGED <<cache, ripStatus, wiped>>

\* ... then the waiting threads are told, and the exception goes on.
Abort(t) ==
    /\ Move(t, "aborting", "done", outcome[t], FALSE)
    /\ SetRip(handle[t], "ABORTED")
    /\ UNCHANGED <<cacheVars, wiped>>

-----------------------------------------------------------------------------
(* computeOnceImpl, a waiting thread.                                       *)

GetResult(t) ==
    /\ pc[t] = "waiting"
    /\ UNCHANGED <<cacheVars, ripStatus, wiped>>
    /\ \/ /\ ripStatus[handle[t]] = "FINISHED"
          /\ Move(t, "waiting", "done", "value", FALSE)
       \/ /\ ripStatus[handle[t]] = "ABORTED"
          /\ Move(t, "waiting", "done", "waited", FALSE)
       \/ /\ ripStatus[handle[t]] = "NULL"
          /\ Move(t, "waiting", "fallback", "none", FALSE)

\* tryInsertIfNotPresent
TryInsertIfNotPresent(pin, k) ==
    IF pin
    THEN IF Contains(cache, k)
         THEN [cache |-> MakePinnedIfExists(cache, k), status |-> "ok"]
         ELSE InsertPinned(cache, k)
    ELSE IF Contains(cache, k)
         THEN [cache |-> cache, status |-> "ok"]
         ELSE Insert(cache, k)

\* The fallback computation of a waiting thread, which is not registered.
FallbackSuitable(t) ==
    LET ins == TryInsertIfNotPresent(pinned[t], key[t])
    IN  /\ pc[t] = "fallback"
        /\ "suitable" \in Outcomes
        /\ cache' = ins.cache
        /\ Move(t, "fallback", "done",
                IF Threw(ins.status) THEN ins.status ELSE "value", FALSE)
        /\ UNCHANGED <<inProgress, pinRequested, ripStatus, wiped>>

FallbackUnsuitable(t) ==
    /\ "unsuitable" \in Outcomes
    /\ UNCHANGED <<cacheVars, ripStatus, wiped>>
    /\ \/ pinned[t] /\ Move(t, "fallback", "done", "contract", FALSE)
       \/ ~ pinned[t] /\ Move(t, "fallback", "lazy", "value", FALSE)

FallbackThrows(t) ==
    /\ "fails" \in Outcomes
    /\ Move(t, "fallback", "done", "fails", FALSE)
    /\ UNCHANGED <<cacheVars, ripStatus, wiped>>

-----------------------------------------------------------------------------
(* computeButDontStore, and what callers do with a lazy result.             *)

ComputeButDontStore(t, k) ==
    /\ UNCHANGED <<inProgress, pinRequested, ripStatus, wiped>>
    /\ \/ /\ Contains(cache, k)
          /\ cache' = Touch(cache, k)
          /\ Enter(t, k, FALSE, NoRip, "done", "value")
       \/ /\ ~ Contains(cache, k)
          /\ cache' = cache
          /\ Enter(t, k, FALSE, NoRip, "private", "none")

PrivateComputation(t) ==
    /\ \E o \in Outcomes :
          Move(t, "private", "done", IF o = "fails" THEN "fails" ELSE "value", FALSE)
    /\ UNCHANGED <<cacheVars, ripStatus, wiped>>

\* The lazy result was consumed completely and its parts fit: it is stored.
StoreConsumed(t) ==
    LET ins == TryInsertIfNotPresent(FALSE, key[t])
    IN  /\ pc[t] = "lazy"
        /\ cache' = ins.cache
        /\ Move(t, "lazy", "done",
                IF Threw(ins.status) THEN ins.status ELSE "value", FALSE)
        /\ UNCHANGED <<inProgress, pinRequested, ripStatus, wiped>>

\* The consumer stops early, fails, or the parts grow too large to keep.
DropConsumed(t) ==
    /\ Move(t, "lazy", "done", "value", FALSE)
    /\ UNCHANGED <<cacheVars, ripStatus, wiped>>

Return(t) ==
    /\ pc[t] = "done"
    /\ pc' = [pc EXCEPT ![t] = "idle"]
    /\ key' = [key EXCEPT ![t] = NoKey]
    /\ pinned' = [pinned EXCEPT ![t] = FALSE]
    /\ outcome' = [outcome EXCEPT ![t] = "none"]
    /\ wiped' = wiped \ {t}
    /\ UNCHANGED <<cacheVars, ripStatus, handle>>

-----------------------------------------------------------------------------
(* Calls that only touch the cache; they come from other threads.           *)

OnCache(c) ==
    /\ cache' = c
    /\ UNCHANGED <<inProgress, pinRequested, ripStatus, callVars>>

DoClearUnpinnedOnly == OnCache(ClearUnpinnedOnly(cache)) /\ wiped' = wiped

DoClearAll ==
    /\ OnCache(ClearAll(cache))
    /\ wiped' = {t \in Thread : pc[t] # "idle"}

DoMakeRoom ==
    \E s \in RoomRequests :
        OnCache(MakeRoomAsMuchAsPossible(cache, s)) /\ wiped' = wiped

GetIfContained ==
    \E k \in Key : Contains(cache, k) /\ OnCache(Touch(cache, k)) /\ wiped' = wiped

DoSetMaxNumEntries ==
    \E n \in Limits : OnCache(SetMaxNumEntries(cache, n).cache) /\ wiped' = wiped

DoSetMaxSize ==
    \E s \in Limits : OnCache(SetMaxSize(cache, s).cache) /\ wiped' = wiped

DoSetMaxSizeSingleEntry ==
    \E s \in Limits : OnCache(SetMaxSizeSingleEntry(cache, s)) /\ wiped' = wiped

-----------------------------------------------------------------------------

Call(t) ==
    \E k \in Key :
        \/ \E pin \in BOOLEAN :
              \/ LookupHit(t, k, pin)
              \/ JoinComputation(t, k, pin)
              \/ StartComputation(t, k, pin)
        \/ LookupMiss(t, k)
        \/ ComputeButDontStore(t, k)

\* What a thread does once its call has begun.
Step(t) ==
    \/ MoveToCache(t) \/ GiveUpCaching(t) \/ ComputationThrows(t)
    \/ Finish(t) \/ FinishNull(t) \/ EraseInCatch(t) \/ Abort(t)
    \/ GetResult(t)
    \/ FallbackSuitable(t) \/ FallbackUnsuitable(t) \/ FallbackThrows(t)
    \/ PrivateComputation(t) \/ StoreConsumed(t) \/ DropConsumed(t)

Environment ==
    \/ DoClearUnpinnedOnly \/ DoClearAll \/ DoMakeRoom \/ GetIfContained
    \/ DoSetMaxNumEntries \/ DoSetMaxSize \/ DoSetMaxSizeSingleEntry

Next ==
    \/ \E t \in Thread : Call(t) \/ Step(t) \/ Return(t)
    \/ Environment

\* Threads are scheduled by the operating system, computeFunction() and the
\* consumption of a lazy result end: a thread inside a call goes on.
Fairness == \A t \in Thread : WF_vars(Step(t))

Spec == Init /\ [][Next]_vars

FairSpec == Spec /\ Fairness

-----------------------------------------------------------------------------

\* Every variable keeps its type; a call has a key, and a thread refers to a
\* ResultInProgress exactly while it has to resolve it or waits for it.
TypeOK ==
    /\ cache.entries \in Seq(Key)
    /\ cache.pinned \in SUBSET Key
    /\ inProgress \in [Key -> Rip \cup {NoRip}]
    /\ pinRequested \in [Key -> BOOLEAN]
    /\ ripStatus \in [Rip -> RipStatus]
    /\ pc \in [Thread -> Pc]
    /\ key \in [Thread -> Key \cup {NoKey}]
    /\ pinned \in [Thread -> BOOLEAN]
    /\ handle \in [Thread -> Rip \cup {NoRip}]
    /\ outcome \in [Thread -> Outcome]
    /\ wiped \in SUBSET Thread
    /\ \A t \in Thread :
          /\ pc[t] # "idle" => key[t] \in Key
          /\ pc[t] = "idle" => t \notin wiped
          /\ pc[t] \in Owning \cup {"waiting"} <=> handle[t] \in Rip
          /\ pc[t] \in {"caught", "aborting"} => outcome[t] # "value"

\* The catch-all clause erases "the key" and finish() and abort() must come
\* exactly once: a thread that computes, or that handles the exception of its
\* computation, finds its own ResultInProgress in the map, still untouched.
OwnRegistration ==
    \A t \in Thread :
        /\ pc[t] \in {"computing", "caught"} => inProgress[key[t]] = handle[t]
        /\ pc[t] \in Owning =>
              /\ ripStatus[handle[t]] = "IN_PROGRESS"
              /\ \A u \in Thread \ {t} : pc[u] \in Owning => handle[u] # handle[t]

\* Nobody waits for a ResultInProgress that no thread will finish or abort:
\* as long as it is in progress, some thread is on the way to resolve it, for
\* the key that the waiting thread asked for.
NoOrphanedWaiter ==
    \A t \in Thread :
        pc[t] = "waiting" /\ ripStatus[handle[t]] = "IN_PROGRESS" =>
            \E u \in Thread :
                /\ pc[u] \in Owning
                /\ handle[u] = handle[t]
                /\ key[u] = key[t]

\* The map of computations in progress does not leak: a registered key has a
\* thread that computes it (otherwise every later call would wait forever).
NoLeakedRegistration ==
    \A k \in Key :
        inProgress[k] # NoRip =>
            \E t \in Thread :
                pc[t] \in {"computing", "caught"} /\ key[t] = k /\ handle[t] = inProgress[k]

\* computeOncePinned: "After the call completes, the result will be pinned in
\* the underlying cache", also if another, unpinned call did the computation,
\* unless somebody cleared the whole cache meanwhile.
PinnedAfterCall ==
    \A t \in Thread :
        (pc[t] = "done" /\ pinned[t] /\ outcome[t] = "value" /\ t \notin wiped)
            => key[t] \in cache.pinned

\* The wish to pin is not lost on the way: while a result is computed the map
\* remembers the wish of the computing thread and of all waiting threads, and
\* from moveFromInProgressToCache on the entry is pinned.  A call that wants
\* to pin never ends with a lazy result.
PinRequestsKept ==
    \A t \in Thread : pinned[t] =>
        /\ pc[t] \notin {"nulling", "lazy", "private"}
        /\ pc[t] \in {"computing", "caught"} => pinRequested[key[t]]
        /\ pc[t] = "finishing" /\ t \notin wiped => key[t] \in cache.pinned
        /\ pc[t] = "waiting" =>
              /\ \A u \in Thread :
                    handle[u] = handle[t] /\ pc[u] \in {"computing", "caught"}
                       => pinRequested[key[t]]
              /\ (\/ ripStatus[handle[t]] = "FINISHED"
                  \/ \E u \in Thread : handle[u] = handle[t] /\ pc[u] = "finishing")
                    /\ t \notin wiped => key[t] \in cache.pinned

\* If all results are suitable for the cache, a result is never recomputed
\* while it is cached or being computed by another thread, and so inserting
\* it never fails because it is already there.
ComputedOnce ==
    "unsuitable" \notin Outcomes =>
        \A t \in Thread :
            /\ pc[t] # "fallback"
            /\ outcome[t] # "already_present"
            /\ pc[t] = "computing" =>
                  /\ ~ Contains(cache, key[t])
                  /\ \A u \in Thread \ {t} : pc[u] = "computing" => key[u] # key[t]

\* A computation that succeeded is not turned into a failure of the computing
\* and all waiting threads because its key turns out to be cached already
\* (ConcurrentCache.h:23-26 says when waiting threads are told of a failure).
SuccessIsNotAborted ==
    \A t \in Thread : pc[t] = "aborting" => outcome[t] # "already_present"

\* Every call of computeOnce(Pinned) and computeButDontStore returns: no thread
\* is inside a call for ever.
EveryCallReturns == \A t \in Thread : []<>(pc[t] \in {"done", "idle"})

=============================================================================
