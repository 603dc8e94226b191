------------------------- MODULE RdfParallelParser -------------------------
(***************************************************************************)
(* RdfParallelParser (src/src/parser/RdfParser.{h,cpp}): the thread Feeder *)
(* reads batches from the file and pushes them to the TaskQueue            *)
(* parallelParser_, whose threads parse them and push the triples to the   *)
(* ThreadSafeQueue tripleCollector_, from which Main gets them.  A batch   *)
(* is its position in the file.  Some batches do not parse, and reading    *)
(* may fail; what the triples are is left out.                             *)
(***************************************************************************)
EXTENDS TaskQueue

CONSTANTS
    Feeder, Main,
    MaxTriples,     \* QUEUE_SIZE_AFTER_PARALLEL_PARSING
    NumBatches

ASSUME ParserAssumption ==
    /\ Caller = {Feeder, Main} /\ Feeder # Main
    /\ MaxTriples \in Nat \ {0} /\ NumBatches \in Nat \ {0}

Batch == 0 .. NumBatches - 1

Last == NumBatches          \* the task that comes after the last batch
None == NumBatches + 1

VARIABLES
    bad, readFails,     \* the batches that do not parse; the read that throws
    api,                \* whether Main calls getLine or getBatch
    collector,          \* tripleCollector_
    batchIdx, numBatchesTotal,
    errors,             \* the positions in errorMessages_
    pc,                 \* where each thread is
    task,               \* the task of each worker
    nextBatch,          \* parsePosition: the batch that Feeder reads next
    got,                \* the batches Main has got
    outcome,            \* what Main has seen: the end or an exception
    reported,           \* the position of the error that getLine reports
    members             \* errorMessages_, batchIdx_, ... are alive

inputVars == <<bad, readFails, api>>
parserVars == <<collector, batchIdx, numBatchesTotal, errors, pc, task, nextBatch, got,
                outcome, reported, members>>
vars == <<inputVars, taskVars, parserVars>>

\* The first batch is what remains of the initialization; the reads begin at 1.
\* What comes behind a read that fails is not part of the input.
Init ==
    /\ readFails \in 1 .. NumBatches \cup {None}
    /\ bad \in SUBSET {b \in Batch : b < readFails}
    /\ api \in {"getLine", "getBatch"}
    /\ TaskQueueInit
    /\ collector = EmptyQueue
    /\ batchIdx = 0 /\ numBatchesTotal = 0
    /\ errors = {}
    /\ pc = [t \in User |-> CASE t = Feeder -> "reads" [] t = Main -> "gets" [] OTHER -> "pops"]
    /\ task = [w \in Worker |-> None]
    /\ nextBatch = 0
    /\ got = <<>>
    /\ outcome = "running" /\ reported = None
    /\ members = TRUE

Become(t, p) == pc' = [pc EXCEPT ![t] = p]

-----------------------------------------------------------------------------
(* feedBatchesToParser                                                      *)

\* The first batch, or getNextBlock() returns one; ++numBatchesTotal_.
ReadBatch ==
    /\ pc[Feeder] = "reads" /\ nextBatch < NumBatches /\ nextBatch # readFails
    /\ numBatchesTotal' = numBatchesTotal + 1
    /\ Become(Feeder, "pushes")
    /\ UNCHANGED <<inputVars, taskVars, collector, batchIdx, errors, task, nextBatch, got,
                   outcome, reported, members>>

\* parallelParser_.push(parseThisBatch): return if it is finished.
FeedBatch ==
    /\ pc[Feeder] = "pushes"
    /\ PushTask(nextBatch)
    /\ nextBatch' = nextBatch + 1
    /\ Become(Feeder, IF tasks.finish THEN "pushesLast" ELSE "reads")
    /\ UNCHANGED <<inputVars, collector, batchIdx, numBatchesTotal, errors, task, got,
                   outcome, reported, members>>

\* getNextBlock() returns nullopt.
EndOfFile ==
    /\ pc[Feeder] = "reads" /\ nextBatch = NumBatches /\ nextBatch # readFails
    /\ Become(Feeder, "pushesLast")
    /\ UNCHANGED <<inputVars, taskVars, collector, batchIdx, numBatchesTotal, errors, task,
                   nextBatch, got, outcome, reported, members>>

\* getNextBlock() throws: first the error message, then the exception.
ReadFails ==
    /\ pc[Feeder] = "reads" /\ nextBatch = readFails
    /\ errors' = errors \cup {nextBatch}
    /\ Become(Feeder, "throws")
    /\ UNCHANGED <<inputVars, taskVars, collector, batchIdx, numBatchesTotal, task, nextBatch,
                   got, outcome, reported, members>>

FeederThrows ==
    /\ pc[Feeder] = "throws"
    /\ collector' = AfterException(collector)
    /\ Become(Feeder, "pushesLast")
    /\ UNCHANGED <<inputVars, taskVars, batchIdx, numBatchesTotal, errors, task, nextBatch, got,
                   outcome, reported, members>>

\* The cleanup: push the task that may finish the collector, then finish().
PushLast ==
    /\ pc[Feeder] = "pushesLast"
    /\ PushTask(Last)
    /\ Become(Feeder, "finishes")
    /\ UNCHANGED <<inputVars, collector, batchIdx, numBatchesTotal, errors, task, nextBatch, got,
                   outcome, reported, members>>

FeederFinishes ==
    /\ pc[Feeder] = "finishes"
    /\ BeginFinish(Feeder)
    /\ Become(Feeder, "ends")
    /\ UNCHANGED <<inputVars, collector, batchIdx, numBatchesTotal, errors, task, nextBatch, got,
                   outcome, reported, members>>

FeederEnds ==
    /\ pc[Feeder] = "ends" /\ fin[Feeder] = "out"
    /\ Become(Feeder, "done")
    /\ UNCHANGED <<inputVars, taskVars, collector, batchIdx, numBatchesTotal, errors, task,
                   nextBatch, got, outcome, reported, members>>

FeederStep ==
    \/ ReadBatch \/ FeedBatch \/ EndOfFile \/ ReadFails \/ FeederThrows
    \/ PushLast \/ FeederFinishes \/ FeederEnds

-----------------------------------------------------------------------------
(* The threads of parallelParser_                                           *)

\* Mutant: a batch is counted when it is taken, not when it was collected.
TakeAndCount(w) ==
    /\ pc[w] = "pops"
    /\ PopTask
    /\ task' = [task EXCEPT ![w] = Head(tasks.items)]
    /\ batchIdx' = IF Head(tasks.items) \in Batch THEN batchIdx + 1 ELSE batchIdx
    /\ Become(w, CASE Head(tasks.items) = Last        -> "counts"
                   [] Head(tasks.items) \in bad       -> "fails"
                   [] Head(tasks.items) \in Batch \ bad -> "collects")
    /\ UNCHANGED <<inputVars, collector, numBatchesTotal, errors, nextBatch, got,
                   outcome, reported, members>>

\* function_for_thread pops a task: a batch, or the call of the cleanup.
TakeTask(w) ==
    /\ pc[w] = "pops"
    /\ PopTask
    /\ task' = [task EXCEPT ![w] = Head(tasks.items)]
    /\ Become(w, CASE Head(tasks.items) = Last        -> "counts"
                   [] Head(tasks.items) \in bad       -> "fails"
                   [] Head(tasks.items) \in Batch \ bad -> "collects")
    /\ UNCHANGED <<inputVars, collector, batchIdx, numBatchesTotal, errors, nextBatch, got,
                   outcome, reported, members>>

\* tripleCollector_.push(triples): the result is ignored.
Collect(w) ==
    /\ pc[w] = "collects"
    /\ CanPush(collector, MaxTriples)
    /\ collector' = AfterPush(collector, task[w])
    /\ Become(w, "counts")
    /\ UNCHANGED <<inputVars, taskVars, batchIdx, numBatchesTotal, errors, task, nextBatch, got,
                   outcome, reported, members>>

\* finishTripleCollectorIfLastBatch(): batchIdx_.fetch_add(1) and the
\* comparison; then the collector is finished or the task is over.
Count(w) ==
    /\ pc[w] = "counts"
    /\ batchIdx' = batchIdx + 1
    /\ Become(w, IF batchIdx = numBatchesTotal THEN "closes" ELSE "pops")
    /\ task' = [task EXCEPT ![w] = None]
    /\ UNCHANGED <<inputVars, taskVars, collector, numBatchesTotal, errors, nextBatch, got,
                   outcome, reported, members>>

CloseCollector(w) ==
    /\ pc[w] = "closes"
    /\ collector' = AfterFinish(collector)
    /\ Become(w, "pops")
    /\ UNCHANGED <<inputVars, taskVars, batchIdx, numBatchesTotal, errors, task, nextBatch, got,
                   outcome, reported, members>>

\* The batch does not parse: the error message, the exception, finish().
ParseFails(w) ==
    /\ pc[w] = "fails"
    /\ errors' = errors \cup {task[w]}
    /\ Become(w, "throws")
    /\ UNCHANGED <<inputVars, taskVars, collector, batchIdx, numBatchesTotal, task, nextBatch,
                   got, outcome, reported, members>>

WorkerThrows(w) ==
    /\ pc[w] = "throws"
    /\ collector' = AfterException(collector)
    /\ Become(w, "finishes")
    /\ UNCHANGED <<inputVars, taskVars, batchIdx, numBatchesTotal, errors, task, nextBatch, got,
                   outcome, reported, members>>

WorkerFinishes(w) ==
    /\ pc[w] = "finishes"
    /\ BeginFinish(w)
    /\ Become(w, "finishing")
    /\ UNCHANGED <<inputVars, collector, batchIdx, numBatchesTotal, errors, task, nextBatch, got,
                   outcome, reported, members>>

WorkerFinished(w) ==
    /\ pc[w] = "finishing" /\ fin[w] = "out"
    /\ Become(w, "pops")
    /\ task' = [task EXCEPT ![w] = None]
    /\ UNCHANGED <<inputVars, taskVars, collector, batchIdx, numBatchesTotal, errors, nextBatch,
                   got, outcome, reported, members>>

Ends(w) ==
    /\ pc[w] = "pops"
    /\ WorkerEnds(w)
    /\ Become(w, "done")
    /\ UNCHANGED <<inputVars, collector, batchIdx, numBatchesTotal, errors, task, nextBatch, got,
                   outcome, reported, members>>

WorkerStep(w) ==
    \/ TakeTask(w) \/ Collect(w) \/ Count(w) \/ CloseCollector(w)
    \/ ParseFails(w) \/ WorkerThrows(w) \/ WorkerFinishes(w) \/ WorkerFinished(w) \/ Ends(w)

-----------------------------------------------------------------------------
(* getLineImpl, getBatch and the destructor                                 *)

\* tripleCollector_.pop(); getBatch passes the exception on, getLine waits.
Get ==
    /\ pc[Main] = "gets"
    /\ CanPop(collector)
    /\ collector' = AfterPop(collector)
    /\ \/ /\ PopResult(collector) = "value"
          /\ got' = Append(got, Head(collector.items))
          /\ UNCHANGED <<pc, outcome>>
       \/ /\ PopResult(collector) = "nullopt"
          /\ outcome' = "nullopt"
          /\ Become(Main, "destroys")
          /\ UNCHANGED got
       \/ /\ PopResult(collector) = "exception"
          /\ outcome' = "exception"
          /\ Become(Main, IF api = "getLine" THEN "waits" ELSE "destroys")
          /\ UNCHANGED got
    /\ UNCHANGED <<inputVars, taskVars, batchIdx, numBatchesTotal, errors, task, nextBatch,
                   reported, members>>

\* Mutant: getLine does not wait for the other threads.
ReportAtOnce ==
    /\ pc[Main] = "waits"
    /\ reported' = CHOOSE e \in errors : \A f \in errors : e <= f
    /\ Become(Main, "destroys")
    /\ UNCHANGED <<inputVars, taskVars, collector, batchIdx, numBatchesTotal, errors, task,
                   nextBatch, got, outcome, members>>

\* parallelParser_.waitUntilFinished(), then the first of the errors.
ReportFirst ==
    /\ pc[Main] = "waits" /\ finishedFinishing
    /\ reported' = CHOOSE e \in errors : \A f \in errors : e <= f
    /\ Become(Main, "destroys")
    /\ UNCHANGED <<inputVars, taskVars, collector, batchIdx, numBatchesTotal, errors, task,
                   nextBatch, got, outcome, members>>

\* Code that uses the parser fails and destroys it.
LeaveEarly ==
    /\ pc[Main] = "gets"
    /\ outcome' = "left"
    /\ Become(Main, "destroys")
    /\ UNCHANGED <<inputVars, taskVars, collector, batchIdx, numBatchesTotal, errors, task,
                   nextBatch, got, reported, members>>

\* ~RdfParallelParser: parallelParser_.finish() ...
DestroyFinishes ==
    /\ pc[Main] = "destroys"
    /\ BeginFinish(Main)
    /\ Become(Main, "finishing")
    /\ UNCHANGED <<inputVars, collector, batchIdx, numBatchesTotal, errors, task, nextBatch, got,
                   outcome, reported, members>>

\* ... tripleCollector_.finish() ...
DestroyCollector ==
    /\ pc[Main] = "finishing" /\ fin[Main] = "out"
    /\ collector' = AfterFinish(collector)
    /\ Become(Main, "joins")
    /\ UNCHANGED <<inputVars, taskVars, batchIdx, numBatchesTotal, errors, task, nextBatch, got,
                   outcome, reported, members>>

\* ... and parseFuture_.wait().  The members are destroyed in the reverse order
\* of their declaration: the counters and errorMessages_ before the pool.
DestroyMembers ==
    /\ pc[Main] = "joins" /\ pc[Feeder] = "done"
    /\ members' = FALSE
    /\ Become(Main, "destroysPool")
    /\ UNCHANGED <<inputVars, taskVars, collector, batchIdx, numBatchesTotal, errors, task,
                   nextBatch, got, outcome, reported>>

\* ~TaskQueue
DestroyPool ==
    /\ pc[Main] = "destroysPool" /\ CanDestroy(Main)
    /\ Become(Main, "done")
    /\ UNCHANGED <<inputVars, taskVars, collector, batchIdx, numBatchesTotal, errors, task,
                   nextBatch, got, outcome, reported, members>>

MainStep ==
    \/ Get \/ ReportFirst \/ DestroyFinishes \/ DestroyCollector
    \/ DestroyMembers \/ DestroyPool

-----------------------------------------------------------------------------

Finishing(t) == FinishStep(t) /\ UNCHANGED <<inputVars, parserVars>>

Done == pc[Main] = "done"

Next ==
    \/ FeederStep
    \/ \E w \in Worker : WorkerStep(w)
    \/ MainStep \/ LeaveEarly
    \/ \E t \in User : Finishing(t)
    \/ Done /\ UNCHANGED vars

Spec == Init /\ [][Next]_vars

ThreadStep ==
    \/ FeederStep \/ MainStep
    \/ \E w \in Worker : WorkerStep(w)
    \/ \E t \in User : Finishing(t)

\* While some thread is not blocked, a thread runs.  More is not needed of the
\* scheduler: every thread takes finitely many steps.
FairSpec == Spec /\ WF_vars(ThreadStep)

-----------------------------------------------------------------------------

\* The errors of the input: the batches that do not parse, and the failed read.
InputErrors == bad \cup ({readFails} \ {None})

\* The variables have their types, and only one thread executes finishImpl.
TypeOK ==
    /\ TaskQueueTypeOK(Batch \cup {Last})
    /\ IsQueue(collector, Batch, MaxTriples)
    /\ batchIdx \in 0 .. NumBatches + 1 /\ numBatchesTotal \in 0 .. NumBatches
    /\ errors \subseteq InputErrors
    /\ task \in [Worker -> 0 .. None]
    /\ nextBatch \in 0 .. NumBatches
    /\ got \in Seq(Batch)
    /\ outcome \in {"running", "nullopt", "exception", "left"}

\* When the parser says that everything has been parsed, it has: there was no
\* error and Main has got each batch once.  The collector is finished by the
\* call of finishTripleCollectorIfLastBatch that finds that all batches have
\* been counted, whichever thread makes it.
EndMeansEverything ==
    /\ TypeOK
    /\ outcome = "nullopt" =>
          /\ InputErrors = {}
          /\ Len(got) = NumBatches
          /\ \A b \in Batch : \E i \in 1 .. NumBatches : got[i] = b

\* "In case of multiple errors in parallel batches, we always report the first
\* error": although the batches are parsed in any order and the pool is
\* finished by the first thread that fails.  An error message is there
\* whenever getLine looks for the first one
\* (AD_CORRECTNESS_CHECK(firstError != errors.end())).
FirstErrorReported ==
    /\ collector.exception => errors # {}
    /\ reported # None =>
          reported \in InputErrors /\ \A e \in InputErrors : reported <= e

\* "The destructor has to clean up all the parallel structures that might be
\* still running in the background": no task is left that will use a member
\* (the default graph, batchIdx_, errorMessages_) that has been destroyed.
MembersOutliveTasks ==
    ~ members => \A w \in Worker : pc[w] \notin {"collects", "counts", "fails"}

\* A parser that is used up to its end or its exception can be destroyed: the
\* destructor returns, and with it all threads have ended, whichever thread
\* failed and whoever began to finish the pool.
UsedUpParserIsDestroyed == <>(outcome = "left" \/ Done)

\* "The destructor has to clean up all the parallel structures [...] especially
\* when it is called before the parsing has finished": it returns in any case.
\* It does not when the threads of the pool, which it joins first, wait for
\* space in tripleCollector_.
DestructorReturns == <>Done

=============================================================================
