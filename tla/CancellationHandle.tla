------------------------- MODULE CancellationHandle -------------------------
(***************************************************************************)
(* ad_utility::CancellationHandle (src/src/util/CancellationHandle.h/.cpp) *)
(* in the mode ENABLED: one atomic state that worker threads check, that   *)
(* other threads cancel, and that a watchdog thread moves along when nobody *)
(* checks.  Loads and compare-exchanges of the atomic are separate steps.  *)
(*                                                                         *)
(* A client is a thread of the query, a websocket session or the timer.    *)
(* It calls throwIfCancelled (isCancelled differs only in how it reports), *)
(* cancel and resetWatchDogState.  The handle is destroyed when the last   *)
(* shared_ptr to it is gone, so never during a call.                       *)
(***************************************************************************)
EXTENDS Naturals

CONSTANT Client

VARIABLES
    state,          \* cancellationState_
    running,        \* watchDogState_.running_
    watchDog,       \* the watchdog thread: where it is, and what it loaded
    pc,             \* where each client is in its call
    seen,           \* its local variable `state`
    windowMissed,   \* its local variable `windowMissed`
    newState,       \* the argument of setStatePreservingCancel
    alive,          \* the handle was not destroyed
    report,         \* history: what became of the last missed window
    cancelDone      \* history: some call of cancel has returned

dogVars == <<running, watchDog>>
locals == <<seen, windowMissed, newState>>
vars == <<state, dogVars, pc, locals, alive, report, cancelDone>>

Cancelled == {"MANUAL", "TIMEOUT"}

States == {"NOT_CANCELLED", "WAITING_FOR_CHECK", "CHECK_WINDOW_MISSED"} \cup Cancelled

Init ==
    /\ state = "NOT_CANCELLED"
    /\ running = FALSE
    /\ watchDog = [at |-> "none", seen |-> "NOT_CANCELLED"]
    /\ pc = [c \in Client |-> "out"]
    /\ seen = [c \in Client |-> "NOT_CANCELLED"]
    /\ windowMissed = [c \in Client |-> FALSE]
    /\ newState = [c \in Client |-> "NOT_CANCELLED"]
    /\ alive = TRUE
    /\ report = "none"
    /\ cancelDone = FALSE

-----------------------------------------------------------------------------
(* The watchdog.                                                            *)

\* startWatchDog, called once; the new thread begins with its loop.
StartWatchDog ==
    /\ alive
    /\ watchDog.at = "none"
    /\ running' = TRUE
    /\ watchDog' = [watchDog EXCEPT !.at = "load"]
    /\ UNCHANGED <<state, pc, locals, alive, report, cancelDone>>

WatchDogLoads ==
    /\ watchDog.at = "load"
    /\ watchDog' = [at |-> IF state \in Cancelled THEN "ended" ELSE "act", seen |-> state]
    /\ UNCHANGED <<state, running, pc, locals, alive, report, cancelDone>>

\* Mutant: the watchdog stores the new state without comparing.
WatchDogOverwrites ==
    /\ watchDog.at = "act"
    /\ watchDog' = [at |-> "wait", seen |-> "NOT_CANCELLED"]
    /\ state' = CASE watchDog.seen = "NOT_CANCELLED" -> "WAITING_FOR_CHECK"
                  [] watchDog.seen = "WAITING_FOR_CHECK" -> "CHECK_WINDOW_MISSED"
                  [] OTHER -> state
    /\ UNCHANGED <<running, pc, locals, alive, report, cancelDone>>

\* compare_exchange_strong: only if the state is still the one that was loaded.
WatchDogActs ==
    /\ watchDog.at = "act"
    /\ watchDog' = [at |-> "wait", seen |-> "NOT_CANCELLED"]
    /\ \/ /\ state = watchDog.seen /\ state = "NOT_CANCELLED"
          /\ state' = "WAITING_FOR_CHECK"
          /\ report' = report
       \/ /\ state = watchDog.seen /\ state = "WAITING_FOR_CHECK"
          /\ state' = "CHECK_WINDOW_MISSED"
          /\ report' = "due"
       \/ /\ state # watchDog.seen \/ state = "CHECK_WINDOW_MISSED"
          /\ UNCHANGED <<state, report>>
    /\ UNCHANGED <<running, pc, locals, alive, cancelDone>>

\* wait_for: the interval has passed, or the destructor has stopped the loop.
WatchDogWaits ==
    /\ watchDog.at = "wait"
    /\ watchDog' = [watchDog EXCEPT !.at = IF running THEN "load" ELSE "ended"]
    /\ UNCHANGED <<state, running, pc, locals, alive, report, cancelDone>>

\* Mutant: the destructor does not stop the watchdog.
DestroyOnly ==
    /\ alive
    /\ \A c \in Client : pc[c] = "out"
    /\ alive' = FALSE
    /\ UNCHANGED <<state, dogVars, pc, locals, report, cancelDone>>

\* The destructor; afterwards watchDogThread_ is joined.
Destroy ==
    /\ alive
    /\ \A c \in Client : pc[c] = "out"
    /\ alive' = FALSE
    /\ running' = FALSE
    /\ UNCHANGED <<state, watchDog, pc, locals, report, cancelDone>>

-----------------------------------------------------------------------------
(* Calls of the clients.  A compare_exchange_weak that fails, perhaps        *)
(* spuriously, has loaded the state.                                        *)

\* The next compare-exchange of the call will be tried with the state s.
Try(c, p, s) ==
    /\ pc' = [pc EXCEPT ![c] = p]
    /\ seen' = [seen EXCEPT ![c] = s]

\* The call returns, its locals are gone.
Leave(c) ==
    /\ pc' = [pc EXCEPT ![c] = "out"]
    /\ seen' = [seen EXCEPT ![c] = "NOT_CANCELLED"]
    /\ windowMissed' = [windowMissed EXCEPT ![c] = FALSE]
    /\ newState' = [newState EXCEPT ![c] = "NOT_CANCELLED"]

\* throwIfCancelled and isCancelled.  In all other states than these two the
\* call returns or throws at once and changes nothing.
CheckLoads(c) ==
    /\ alive
    /\ pc[c] = "out"
    /\ state \in {"WAITING_FOR_CHECK", "CHECK_WINDOW_MISSED"}
    /\ windowMissed' = [windowMissed EXCEPT ![c] = (state = "CHECK_WINDOW_MISSED")]
    /\ Try(c, "pleasing", state)
    /\ UNCHANGED <<state, dogVars, newState, alive, report, cancelDone>>

\* What is logged when the state goes back to NOT_CANCELLED.
Reported(missed) ==
    CASE missed /\ report = "due" -> "none"
      [] missed /\ report # "due" -> "repeated"
      [] ~ missed /\ state = "CHECK_WINDOW_MISSED" -> "dropped"
      [] OTHER -> report

\* pleaseWatchDog: the exchange succeeds, a missed window is logged.
PleaseSucceeds(c) ==
    /\ pc[c] = "pleasing"
    /\ state = seen[c]
    /\ state' = "NOT_CANCELLED"
    /\ report' = Reported(windowMissed[c])
    /\ Leave(c)
    /\ UNCHANGED <<dogVars, alive, cancelDone>>

\* Mutant: the loop goes on when another thread has reset the state.
PleaseForever(c) ==
    /\ pc[c] = "pleasing"
    /\ Try(c, "pleasing", seen[c])
    /\ UNCHANGED <<state, dogVars, windowMissed, newState, alive, report, cancelDone>>

PleaseFails(c) ==
    /\ pc[c] = "pleasing"
    /\ \/ /\ state \in Cancelled \cup {"NOT_CANCELLED"}
          /\ Leave(c)
       \/ /\ state \notin Cancelled \cup {"NOT_CANCELLED"}
          /\ Try(c, "pleasing", state)
          /\ UNCHANGED <<windowMissed, newState>>
    /\ UNCHANGED <<state, dogVars, alive, report, cancelDone>>

\* A call of cancel ends with this; resetWatchDogState passes NOT_CANCELLED.
Done(new) == cancelDone' = (cancelDone \/ new \in Cancelled)

\* cancel(reason) and resetWatchDogState(): setStatePreservingCancel.
SetLoads(c, new) ==
    /\ alive
    /\ pc[c] = "out"
    /\ new \in Cancelled \cup {"NOT_CANCELLED"}
    /\ \/ /\ state \in Cancelled
          /\ Done(new)
          /\ UNCHANGED <<pc, locals>>
       \/ /\ state \notin Cancelled
          /\ newState' = [newState EXCEPT ![c] = new]
          /\ Try(c, "setting", state)
          /\ UNCHANGED <<windowMissed, cancelDone>>
    /\ UNCHANGED <<state, dogVars, alive, report>>

SetSucceeds(c) ==
    /\ pc[c] = "setting"
    /\ state = seen[c]
    /\ state' = newState[c]
    /\ report' = IF report = "due" THEN "none" ELSE report
    /\ Done(newState[c])
    /\ Leave(c)
    /\ UNCHANGED <<dogVars, alive>>

\* Mutant: no second attempt.
SetGivesUp(c) ==
    /\ pc[c] = "setting"
    /\ state # seen[c]
    /\ Done(newState[c])
    /\ Leave(c)
    /\ UNCHANGED <<state, dogVars, alive, report>>

SetFails(c) ==
    /\ pc[c] = "setting"
    /\ \/ /\ state \in Cancelled
          /\ Done(newState[c])
          /\ Leave(c)
       \/ /\ state \notin Cancelled
          /\ Try(c, "setting", state)
          /\ UNCHANGED <<windowMissed, newState, cancelDone>>
    /\ UNCHANGED <<state, dogVars, alive, report>>

-----------------------------------------------------------------------------

WatchDogThread == WatchDogLoads \/ WatchDogActs \/ WatchDogWaits

Call(c) == CheckLoads(c) \/ \E new \in States : SetLoads(c, new)

GoOn(c) ==
    \/ PleaseSucceeds(c) \/ PleaseFails(c)
    \/ SetSucceeds(c) \/ SetFails(c)

Next ==
    \/ StartWatchDog \/ WatchDogThread \/ Destroy
    \/ \E c \in Client : Call(c) \/ GoOn(c)

\* Threads are scheduled, the watchdog's wait_for ends after the interval, and
\* a compare_exchange_weak does not fail spuriously for ever.
Fairness ==
    /\ WF_vars(WatchDogThread)
    /\ \A c \in Client :
          /\ WF_vars(GoOn(c))
          /\ SF_vars(PleaseSucceeds(c))
          /\ SF_vars(SetSucceeds(c))

Spec == Init /\ [][Next]_vars

FairSpec == Spec /\ Fairness

-----------------------------------------------------------------------------

\* Every variable keeps its type; pleaseWatchDog only ever works on one of
\* the two states that its AD_CORRECTNESS_CHECK admits, setStatePreservingCancel
\* never on a cancelled state, and a watchdog that has ended its loop had
\* nothing left to watch.
TypeOK ==
    /\ state \in States
    /\ running \in BOOLEAN
    /\ watchDog \in [at : {"none", "load", "act", "wait", "ended"}, seen : States]
    /\ pc \in [Client -> {"out", "pleasing", "setting"}]
    /\ seen \in [Client -> States]
    /\ windowMissed \in [Client -> BOOLEAN]
    /\ newState \in [Client -> Cancelled \cup {"NOT_CANCELLED"}]
    /\ alive \in BOOLEAN
    /\ report \in {"none", "due", "repeated", "dropped"}
    /\ cancelDone \in BOOLEAN
    /\ \A c \in Client :
          /\ pc[c] = "pleasing" => seen[c] \in {"WAITING_FOR_CHECK", "CHECK_WINDOW_MISSED"}
          /\ pc[c] = "setting" => seen[c] \notin Cancelled
    /\ watchDog.at # "none" => running = alive
    /\ watchDog.at = "ended" => state \in Cancelled \/ ~ alive

\* "No-op if this instance is already in a cancelled state": neither a racing
\* check, nor the watchdog, nor a second cancel or a reset takes back a
\* cancellation or changes its reason.
CancelSticky == [][(state \in Cancelled) => (state' = state)]_vars

\* cancel: "Sets the cancellation flag so the next call to throwIfCancelled
\* will throw".  Once cancel has returned the handle is cancelled, whatever
\* the watchdog and the checks did to the state between its load and its store.
CancelTakesEffect == cancelDone => state \in Cancelled

\* The destructor joins the watchdog thread, so its loop has to end.
WatchDogEnds == ~ alive ~> watchDog.at \in {"none", "ended"}

\* Every call returns: no compare-exchange loop runs for ever against the
\* watchdog and the other threads.
CallsReturn == \A c \in Client : pc[c] # "out" ~> pc[c] = "out"

\* CancellationHandle.h:196-198: "another thread already reported the missed
\* deadline, so we don't report a second time".
NoSecondReport == report # "repeated"

\* CancellationHandle.h:221-222: throwIfCancelled "will log a warning if this
\* check is not called frequently enough".
MissedIsReported == report # "dropped"

=============================================================================
