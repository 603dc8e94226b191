----------------------- MODULE CancellationHandleProof -----------------------
(***************************************************************************)
(* A cancellation is never lost and never taken back, for any number of    *)
(* client threads.  The type invariant says which states the local copies  *)
(* of the compare-exchange loops can hold; an exchange that succeeds finds *)
(* that copy in the atomic, so it never replaces a cancelled state.        *)
(***************************************************************************)
EXTENDS CancellationHandle, TLAPS

IInv == TypeOK /\ CancelTakesEffect

LEMMA InitIInv == Init => IInv
<1> SUFFICES ASSUME Init PROVE IInv
  OBVIOUS
<1>1. state \in States /\ watchDog.at = "none"
      /\ watchDog \in [at : {"none", "load", "act", "wait", "ended"}, seen : States]
  BY Zenon DEF Init, States
<1>2. pc \in [Client -> {"out", "pleasing", "setting"}] /\ \A c \in Client : pc[c] = "out"
  BY Zenon DEF Init
<1>3. seen \in [Client -> States] /\ newState \in [Client -> Cancelled \cup {"NOT_CANCELLED"}]
  BY Zenon DEF Init, States
<1>4. /\ windowMissed \in [Client -> BOOLEAN] /\ running \in BOOLEAN /\ alive \in BOOLEAN
      /\ cancelDone \in BOOLEAN /\ ~ cancelDone /\ report \in {"none", "due", "repeated", "dropped"}
  BY Zenon DEF Init
<1>. QED  BY Zenon, <1>1, <1>2, <1>3, <1>4 DEF IInv, TypeOK, CancelTakesEffect

\* Calls that only change the locals of one client.
LEMMA TryTypes ==
    ASSUME TypeOK, NEW c \in Client, NEW p \in {"pleasing", "setting"}, Try(c, p, state),
           p = "pleasing" => state \in {"WAITING_FOR_CHECK", "CHECK_WINDOW_MISSED"},
           p = "setting" => state \notin Cancelled
    PROVE  /\ pc' \in [Client -> {"out", "pleasing", "setting"}]
           /\ seen' \in [Client -> States]
           /\ \A d \in Client :
                /\ pc'[d] = "pleasing" => seen'[d] \in {"WAITING_FOR_CHECK", "CHECK_WINDOW_MISSED"}
                /\ pc'[d] = "setting" => seen'[d] \notin Cancelled
BY Zenon DEF Try, TypeOK

LEMMA LeaveTypes ==
    ASSUME TypeOK, NEW c \in Client, Leave(c)
    PROVE  /\ pc' \in [Client -> {"out", "pleasing", "setting"}]
           /\ seen' \in [Client -> States]
           /\ windowMissed' \in [Client -> BOOLEAN]
           /\ newState' \in [Client -> Cancelled \cup {"NOT_CANCELLED"}]
           /\ \A d \in Client :
                /\ pc'[d] = "pleasing" => seen'[d] \in {"WAITING_FOR_CHECK", "CHECK_WINDOW_MISSED"}
                /\ pc'[d] = "setting" => seen'[d] \notin Cancelled
BY Zenon DEF Leave, TypeOK, States

\* Where the watchdog is and what it has seen.
LEMMA WatchDogStep ==
    ASSUME IInv, StartWatchDog \/ WatchDogThread \/ Destroy
    PROVE  IInv' /\ (state \in Cancelled => state' = state)
<1>1. CASE StartWatchDog
  BY Zenon, <1>1 DEF IInv, TypeOK, CancelTakesEffect, StartWatchDog, locals, States
<1>2. CASE WatchDogLoads
  BY Zenon, <1>2 DEF IInv, TypeOK, CancelTakesEffect, WatchDogLoads, locals, States
<1>3. CASE WatchDogActs
  <2>1. watchDog' \in [at : {"none", "load", "act", "wait", "ended"}, seen : States]
        /\ watchDog'.at = "wait"
    BY Zenon, <1>3 DEF WatchDogActs, States
  <2>2. /\ state' \in States /\ (state \in Cancelled => state' = state)
        /\ report' \in {"none", "due", "repeated", "dropped"}
    BY Zenon, <1>3 DEF IInv, TypeOK, WatchDogActs, States, Cancelled
  <2>3. UNCHANGED <<running, pc, locals, alive, cancelDone>>
    BY Zenon, <1>3 DEF WatchDogActs
  <2>4. watchDog.at # "none" /\ running = alive
    BY Zenon, <1>3 DEF IInv, TypeOK, WatchDogActs
  <2>. QED  BY Zenon, <2>1, <2>2, <2>3, <2>4 DEF IInv, TypeOK, CancelTakesEffect, locals
<1>4. CASE WatchDogWaits
  BY Zenon, <1>4 DEF IInv, TypeOK, CancelTakesEffect, WatchDogWaits, locals, States
<1>5. CASE Destroy
  BY Zenon, <1>5 DEF IInv, TypeOK, CancelTakesEffect, Destroy, locals, States
<1>. QED  BY Zenon, <1>1, <1>2, <1>3, <1>4, <1>5 DEF WatchDogThread

LEMMA CheckStep ==
    ASSUME IInv, NEW c \in Client, CheckLoads(c) \/ PleaseSucceeds(c) \/ PleaseFails(c)
    PROVE  IInv' /\ (state \in Cancelled => state' = state)
<1>0. TypeOK
  BY Zenon DEF IInv
<1>1. CASE CheckLoads(c)
  <2>1. "pleasing" \in {"pleasing", "setting"} /\ Try(c, "pleasing", state)
    BY Zenon, <1>1 DEF CheckLoads
  <2>2. windowMissed' \in [Client -> BOOLEAN]
    BY Zenon, <1>0, <1>1 DEF CheckLoads, TypeOK
  <2>. QED  BY Zenon, <1>1, <2>1, <2>2, TryTypes DEF CheckLoads, IInv, TypeOK, CancelTakesEffect, dogVars
<1>2. CASE PleaseSucceeds(c)
  <2>1. state \notin Cancelled /\ state' \in States
    BY Zenon, <1>2 DEF PleaseSucceeds, IInv, TypeOK, States, Cancelled
  <2>2. report' \in {"none", "due", "repeated", "dropped"}
    BY Zenon, <1>0, <1>2 DEF PleaseSucceeds, Reported, TypeOK
  <2>. QED  BY Zenon, <1>0, <1>2, <2>1, <2>2, LeaveTypes
            DEF PleaseSucceeds, IInv, TypeOK, CancelTakesEffect, dogVars
<1>3. CASE PleaseFails(c)
  <2>1. CASE Leave(c)
    BY <1>0, <1>3, <2>1, LeaveTypes DEF PleaseFails, IInv, TypeOK, CancelTakesEffect, dogVars
  <2>2. CASE Try(c, "pleasing", state) /\ state \notin Cancelled \cup {"NOT_CANCELLED"}
             /\ UNCHANGED <<windowMissed, newState>>
    <3>1. state \in {"WAITING_FOR_CHECK", "CHECK_WINDOW_MISSED"}
      BY Zenon, <1>0, <2>2 DEF TypeOK, States
    <3>. QED  BY Zenon, <1>0, <1>3, <2>2, <3>1, TryTypes
              DEF PleaseFails, IInv, TypeOK, CancelTakesEffect, dogVars
  <2>. QED  BY Zenon, <1>3, <2>1, <2>2 DEF PleaseFails
<1>. QED  BY Zenon, <1>1, <1>2, <1>3

LEMMA SetStep ==
    ASSUME IInv, NEW c \in Client,
           (\E new \in States : SetLoads(c, new)) \/ SetSucceeds(c) \/ SetFails(c)
    PROVE  IInv' /\ (state \in Cancelled => state' = state)
<1>0. TypeOK /\ (cancelDone => state \in Cancelled)
  BY Zenon DEF IInv, CancelTakesEffect
<1>1. ASSUME NEW new \in States, SetLoads(c, new) PROVE IInv' /\ state' = state
  <2>0. new \in Cancelled \cup {"NOT_CANCELLED"} /\ UNCHANGED <<state, dogVars, alive, report>>
    BY Zenon, <1>1 DEF SetLoads
  <2>1. CASE state \in Cancelled /\ Done(new) /\ UNCHANGED <<pc, locals>>
    BY Zenon, <1>0, <2>0, <2>1 DEF Done, IInv, TypeOK, CancelTakesEffect, dogVars, locals
  <2>2. CASE /\ state \notin Cancelled /\ Try(c, "setting", state)
             /\ newState' = [newState EXCEPT ![c] = new]
             /\ UNCHANGED <<windowMissed, cancelDone>>
    <3>1. newState' \in [Client -> Cancelled \cup {"NOT_CANCELLED"}]
      BY Zenon, <1>0, <2>0, <2>2 DEF TypeOK
    <3>. QED  BY Zenon, <1>0, <2>0, <2>2, <3>1, TryTypes DEF IInv, TypeOK, CancelTakesEffect, dogVars
  <2>. QED  BY Zenon, <1>1, <2>0, <2>1, <2>2 DEF SetLoads
<1>2. CASE SetSucceeds(c)
  <2>1. state \notin Cancelled /\ state' \in Cancelled \cup {"NOT_CANCELLED"}
        /\ ~ cancelDone /\ state' = newState[c]
    BY Zenon, <1>0, <1>2 DEF SetSucceeds, TypeOK
  <2>2. cancelDone' \in BOOLEAN /\ (cancelDone' => state' \in Cancelled)
    BY Zenon, <1>2, <2>1 DEF SetSucceeds, Done
  <2>3. report' \in {"none", "due", "repeated", "dropped"}
    BY Zenon, <1>0, <1>2 DEF SetSucceeds, TypeOK
  <2>. QED  BY <1>0, <1>2, <2>1, <2>2, <2>3, LeaveTypes
            DEF SetSucceeds, IInv, TypeOK, CancelTakesEffect, dogVars, States
<1>3. CASE SetFails(c)
  <2>0. UNCHANGED <<state, dogVars, alive, report>>
    BY Zenon, <1>3 DEF SetFails
  <2>1. CASE state \in Cancelled /\ Done(newState[c]) /\ Leave(c)
    BY Zenon, <1>0, <2>0, <2>1, LeaveTypes DEF Done, IInv, TypeOK, CancelTakesEffect, dogVars
  <2>2. CASE /\ state \notin Cancelled /\ Try(c, "setting", state)
             /\ UNCHANGED <<windowMissed, newState, cancelDone>>
    BY Zenon, <1>0, <2>0, <2>2, TryTypes DEF IInv, TypeOK, CancelTakesEffect, dogVars
  <2>. QED  BY Zenon, <1>3, <2>0, <2>1, <2>2 DEF SetFails
<1>. QED  BY Zenon, <1>1, <1>2, <1>3

LEMMA NextIInv ==
    ASSUME IInv, [Next]_vars
    PROVE  IInv' /\ (state \in Cancelled => state' = state)
<1>1. CASE UNCHANGED vars
  BY Zenon, <1>1 DEF vars, dogVars, locals, IInv, TypeOK, CancelTakesEffect
<1>2. CASE Next
  BY Zenon, <1>2, WatchDogStep, CheckStep, SetStep DEF Next, Call, GoOn
<1>. QED  BY Zenon, <1>1, <1>2

\* The type invariant holds: the compare-exchange loops work on the states
\* that the checks in the code admit.
THEOREM TypeCorrect == Spec => []TypeOK
<1>1. IInv => TypeOK
  BY Zenon DEF IInv
<1>. QED  BY <1>1, InitIInv, NextIInv, PTL DEF Spec

\* Once a call of cancel has returned, the handle is cancelled.
THEOREM CancellationIsNotLost == Spec => []CancelTakesEffect
<1>1. IInv => CancelTakesEffect
  BY Zenon DEF IInv
<1>. QED  BY <1>1, InitIInv, NextIInv, PTL DEF Spec

\* A cancelled handle stays cancelled, with the reason that came first.
THEOREM CancellationIsFinal == Spec => CancelSticky
<1>1. IInv /\ [Next]_vars => [(state \in Cancelled) => (state' = state)]_vars
  BY Zenon, NextIInv
<1>. QED  BY <1>1, InitIInv, NextIInv, PTL DEF Spec, CancelSticky
=============================================================================
