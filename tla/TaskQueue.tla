----------------------------- MODULE TaskQueue -----------------------------
(***************************************************************************)
(* ad_utility::TaskQueue (src/src/util/TaskQueue.h): a bounded queue of    *)
(* tasks and the pool of threads that run them.  The modules that extend   *)
(* this one say what a task does.                                          *)
(***************************************************************************)
EXTENDS BlockingQueue, FiniteSets

CONSTANTS
    Worker,         \* the threads of the pool (threads_)
    Caller,         \* the other threads that use the queue
    MaxTasks        \* queueMaxSize_

ASSUME TaskQueueAssumption == Worker \cap Caller = {} /\ MaxTasks \in Nat \ {0}

VARIABLES
    tasks,              \* queuedTasks_
    startedFinishing,   \* startedFinishing_
    finishedFinishing,  \* finishedFinishing_
    fin,                \* where each thread is in finish()
    ended               \* the workers that have left function_for_thread

taskVars == <<tasks, startedFinishing, finishedFinishing, fin, ended>>

User == Worker \cup Caller

TaskQueueInit ==
    /\ tasks = EmptyQueue
    /\ startedFinishing = FALSE
    /\ finishedFinishing = FALSE
    /\ fin = [t \in User |-> "out"]
    /\ ended = {}

\* push(task), where `task` is accepted iff the queue is not finished
PushTask(task) ==
    /\ CanPush(tasks, MaxTasks)
    /\ tasks' = AfterPush(tasks, task)
    /\ UNCHANGED <<startedFinishing, finishedFinishing, fin, ended>>

\* The loop of function_for_thread: the next task is the head of the queue.
PopTask ==
    /\ CanPop(tasks) /\ PopResult(tasks) = "value"
    /\ tasks' = AfterPop(tasks)
    /\ UNCHANGED <<startedFinishing, finishedFinishing, fin, ended>>

\* Mutant: a thread ends when the queue is finished, not when it is empty.
WorkerQuits(w) ==
    /\ CanPop(tasks) /\ tasks.finish
    /\ ended' = ended \cup {w}
    /\ UNCHANGED <<tasks, startedFinishing, finishedFinishing, fin>>

\* pop returned nullopt.
WorkerEnds(w) ==
    /\ CanPop(tasks) /\ PopResult(tasks) = "nullopt"
    /\ ended' = ended \cup {w}
    /\ UNCHANGED <<tasks, startedFinishing, finishedFinishing, fin>>

-----------------------------------------------------------------------------
(* finish()                                                                 *)

BeginFinish(t) ==
    /\ fin[t] = "out"
    /\ fin' = [fin EXCEPT ![t] = "test"]
    /\ UNCHANGED <<tasks, startedFinishing, finishedFinishing, ended>>

\* startedFinishing_.test_and_set(): only the first call does something.
FinishTest(t) ==
    /\ fin[t] = "test"
    /\ fin' = [fin EXCEPT ![t] = IF startedFinishing THEN "out" ELSE "close"]
    /\ startedFinishing' = TRUE
    /\ UNCHANGED <<tasks, finishedFinishing, ended>>

\* queuedTasks_.finish()
FinishClose(t) ==
    /\ fin[t] = "close"
    /\ tasks' = AfterFinish(tasks)
    /\ fin' = [fin EXCEPT ![t] = "join"]
    /\ UNCHANGED <<startedFinishing, finishedFinishing, ended>>

\* Mutant: a thread of the pool also joins itself.
FinishJoinsItself(t) ==
    /\ fin[t] = "join"
    /\ Worker \subseteq ended
    /\ finishedFinishing' = TRUE
    /\ fin' = [fin EXCEPT ![t] = "out"]
    /\ UNCHANGED <<tasks, startedFinishing, ended>>

\* Every thread but the calling one has been joined.
FinishJoin(t) ==
    /\ fin[t] = "join"
    /\ Worker \ {t} \subseteq ended
    /\ finishedFinishing' = TRUE
    /\ fin' = [fin EXCEPT ![t] = "out"]
    /\ UNCHANGED <<tasks, startedFinishing, ended>>

FinishStep(t) == FinishTest(t) \/ FinishClose(t) \/ FinishJoin(t)

\* ~TaskQueue is finish(), after which a thread whose call was not the first
\* one waits for finishedFinishing_; then the JThreads of threads_ join.
CanDestroy(t) == fin[t] = "out" /\ finishedFinishing /\ ended = Worker

TaskQueueTypeOK(T) ==
    /\ IsQueue(tasks, T, MaxTasks) /\ ~ tasks.exception
    /\ startedFinishing \in BOOLEAN /\ finishedFinishing \in BOOLEAN
    /\ fin \in [User -> {"out", "test", "close", "join"}]
    /\ ended \subseteq Worker
    /\ finishedFinishing => tasks.finish
    /\ tasks.finish => startedFinishing
    /\ Cardinality({t \in User : fin[t] \in {"close", "join"}}) <= 1

=============================================================================
