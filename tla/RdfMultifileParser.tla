------------------------- MODULE RdfMultifileParser -------------------------
(***************************************************************************)
(* RdfMultifileParser (src/src/parser/RdfParser.{h,cpp}): the thread       *)
(* Feeder pushes one task per file to the TaskQueue parsingQueue_, whose   *)
(* threads push the batches of their file to finishedBatchQueue_, from     *)
(* which Main gets them.  A batch is [file, n]; a file has NumBatches      *)
(* batches, and parsing some files throws after the first ones.            *)
(***************************************************************************)
EXTENDS TaskQueue

CONSTANTS
    Feeder, Main,
    MaxBatches,     \* the size of finishedBatchQueue_
    NumFiles, NumBatches

ASSUME MultifileAssumption ==
    /\ Caller = {Feeder, Main} /\ Feeder # Main
    /\ {MaxBatches, NumFiles} \subseteq Nat \ {0} /\ NumBatches \in Nat

File == 1 .. NumFiles

NoFile == 0

Batch == [file : File, n : 1 .. NumBatches]

VARIABLES
    failsAt,            \* for each file the batch that throws, if <= NumBatches
    numActiveParsers,
    finished,           \* finishedBatchQueue_
    pc,                 \* where each thread is
    file, n,            \* the file of each worker and the batch it parses next
    nextFile,           \* the file that Feeder pushes next
    got, outcome,       \* what Main has seen
    alive               \* parsingQueue_ exists

ownVars == <<failsAt, numActiveParsers, finished, pc, file, n, nextFile, got, outcome, alive>>
vars == <<taskVars, ownVars>>

Init ==
    /\ TaskQueueInit
    /\ failsAt \in [File -> 1 .. NumBatches + 1]
    /\ numActiveParsers = 0
    /\ finished = EmptyQueue
    /\ pc = [t \in User |-> CASE t = Feeder -> "counts" [] t = Main -> "gets" [] OTHER -> "pops"]
    /\ file = [w \in Worker |-> NoFile]
    /\ n = [w \in Worker |-> 1]
    /\ nextFile = 1
    /\ got = <<>>
    /\ outcome = "running"
    /\ alive = TRUE

Become(t, p) == pc' = [pc EXCEPT ![t] = p]

-----------------------------------------------------------------------------
(* makeParsers, in feederThread_                                            *)

\* numActiveParsers_++
CountFile ==
    /\ pc[Feeder] = "counts" /\ nextFile <= NumFiles
    /\ numActiveParsers' = numActiveParsers + 1
    /\ Become(Feeder, "pushes")
    /\ UNCHANGED <<taskVars, failsAt, finished, file, n, nextFile, got, outcome, alive>>

\* parsingQueue_.push: return if it is finished.
PushFile ==
    /\ pc[Feeder] = "pushes"
    /\ PushTask(nextFile)
    /\ nextFile' = nextFile + 1
    /\ Become(Feeder, IF tasks.finish THEN "done" ELSE "counts")
    /\ UNCHANGED <<failsAt, numActiveParsers, finished, file, n, got, outcome, alive>>

\* parsingQueue_.finish()
FeederFinishes ==
    /\ pc[Feeder] = "counts" /\ nextFile > NumFiles
    /\ BeginFinish(Feeder)
    /\ Become(Feeder, "finishing")
    /\ UNCHANGED <<failsAt, numActiveParsers, finished, file, n, nextFile, got, outcome, alive>>

FeederEnds ==
    /\ pc[Feeder] = "finishing" /\ fin[Feeder] = "out"
    /\ Become(Feeder, "done")
    /\ UNCHANGED <<taskVars, failsAt, numActiveParsers, finished, file, n, nextFile, got, outcome,
                   alive>>

FeederStep == CountFile \/ PushFile \/ FeederFinishes \/ FeederEnds

-----------------------------------------------------------------------------
(* parseFile, in the threads of parsingQueue_                               *)

TakeFile(w) ==
    /\ pc[w] = "pops"
    /\ PopTask
    /\ file' = [file EXCEPT ![w] = Head(tasks.items)]
    /\ n' = [n EXCEPT ![w] = 1]
    /\ Become(w, "parses")
    /\ UNCHANGED <<failsAt, numActiveParsers, finished, nextFile, got, outcome, alive>>

\* The thread returns from parseFile.
Leave(w, p) ==
    /\ Become(w, p)
    /\ file' = [file EXCEPT ![w] = NoFile]
    /\ n' = [n EXCEPT ![w] = 1]

\* A batch is parsed and pushed; return if the queue is finished.
PushBatch(w) ==
    /\ pc[w] = "parses" /\ n[w] <= NumBatches /\ n[w] # failsAt[file[w]]
    /\ CanPush(finished, MaxBatches)
    /\ finished' = AfterPush(finished, [file |-> file[w], n |-> n[w]])
    /\ IF finished.finish
       THEN Leave(w, "pops")
       ELSE n' = [n EXCEPT ![w] = @ + 1] /\ UNCHANGED <<pc, file>>
    /\ UNCHANGED <<taskVars, failsAt, numActiveParsers, nextFile, got, outcome, alive>>

\* Mutant: the exception is dropped.
FileSwallows(w) ==
    /\ pc[w] = "parses" /\ n[w] <= NumBatches /\ n[w] = failsAt[file[w]]
    /\ Leave(w, "pops")
    /\ UNCHANGED <<taskVars, failsAt, numActiveParsers, finished, nextFile, got, outcome, alive>>

\* Mutant: the batch with the error is skipped.
FileSkips(w) ==
    /\ pc[w] = "parses" /\ n[w] <= NumBatches /\ n[w] = failsAt[file[w]]
    /\ n' = [n EXCEPT ![w] = @ + 1]
    /\ UNCHANGED <<taskVars, failsAt, numActiveParsers, finished, pc, file, nextFile, got,
                   outcome, alive>>

\* getBatch of the parser of the file throws.
FileFails(w) ==
    /\ pc[w] = "parses" /\ n[w] <= NumBatches /\ n[w] = failsAt[file[w]]
    /\ finished' = AfterException(finished)
    /\ Leave(w, "pops")
    /\ UNCHANGED <<taskVars, failsAt, numActiveParsers, nextFile, got, outcome, alive>>

\* if (numActiveParsers_.fetch_sub(1) == 1) finishedBatchQueue_.finish()
FileEnds(w) ==
    /\ pc[w] = "parses" /\ n[w] > NumBatches
    /\ numActiveParsers' = numActiveParsers - 1
    /\ Leave(w, IF numActiveParsers = 1 THEN "closes" ELSE "pops")
    /\ UNCHANGED <<taskVars, failsAt, finished, nextFile, got, outcome, alive>>

CloseBatches(w) ==
    /\ pc[w] = "closes"
    /\ finished' = AfterFinish(finished)
    /\ Become(w, "pops")
    /\ UNCHANGED <<taskVars, failsAt, numActiveParsers, file, n, nextFile, got, outcome, alive>>

Ends(w) ==
    /\ pc[w] = "pops"
    /\ WorkerEnds(w)
    /\ Become(w, "done")
    /\ UNCHANGED <<failsAt, numActiveParsers, finished, file, n, nextFile, got, outcome, alive>>

WorkerStep(w) ==
    TakeFile(w) \/ PushBatch(w) \/ FileFails(w) \/ FileEnds(w) \/ CloseBatches(w) \/ Ends(w)

-----------------------------------------------------------------------------
(* getBatch and the destructor                                              *)

Get ==
    /\ pc[Main] = "gets"
    /\ CanPop(finished)
    /\ finished' = AfterPop(finished)
    /\ IF PopResult(finished) = "value"
       THEN got' = Append(got, Head(finished.items)) /\ UNCHANGED <<pc, outcome>>
       ELSE outcome' = PopResult(finished) /\ Become(Main, "destroys") /\ UNCHANGED got
    /\ UNCHANGED <<taskVars, failsAt, numActiveParsers, file, n, nextFile, alive>>

\* Code that uses the parser fails and destroys it.
LeaveEarly ==
    /\ pc[Main] = "gets"
    /\ outcome' = "left"
    /\ Become(Main, "destroys")
    /\ UNCHANGED <<taskVars, failsAt, numActiveParsers, finished, file, n, nextFile, got, alive>>

\* ~RdfMultifileParser: parsingQueue_.finish() ...
DestroyFinishes ==
    /\ pc[Main] = "destroys"
    /\ BeginFinish(Main)
    /\ Become(Main, "finishing")
    /\ UNCHANGED <<failsAt, numActiveParsers, finished, file, n, nextFile, got, outcome, alive>>

\* ... and finishedBatchQueue_.finish().
DestroyBatches ==
    /\ pc[Main] = "finishing" /\ fin[Main] = "out"
    /\ finished' = AfterFinish(finished)
    /\ Become(Main, "destroysPool")
    /\ UNCHANGED <<taskVars, failsAt, numActiveParsers, file, n, nextFile, got, outcome, alive>>

\* Then the members, the last declared first: ~TaskQueue of parsingQueue_ ...
DestroyPool ==
    /\ pc[Main] = "destroysPool" /\ CanDestroy(Main)
    /\ alive' = FALSE
    /\ Become(Main, "joins")
    /\ UNCHANGED <<taskVars, failsAt, numActiveParsers, finished, file, n, nextFile, got, outcome>>

\* ... and at the end feederThread_, which is joined.
DestroyFeeder ==
    /\ pc[Main] = "joins" /\ pc[Feeder] = "done"
    /\ Become(Main, "done")
    /\ UNCHANGED <<taskVars, failsAt, numActiveParsers, finished, file, n, nextFile, got, outcome,
                   alive>>

MainStep == Get \/ DestroyFinishes \/ DestroyBatches \/ DestroyPool \/ DestroyFeeder

-----------------------------------------------------------------------------

Finishing(t) == FinishStep(t) /\ UNCHANGED ownVars

Done == pc[Main] = "done"

Next ==
    \/ FeederStep
    \/ \E w \in Worker : WorkerStep(w)
    \/ MainStep \/ LeaveEarly
    \/ \E t \in User : Finishing(t)
    \/ Done /\ UNCHANGED vars

Spec == Init /\ [][Next]_vars

\* Every thread that is not blocked runs.
FairSpec ==
    /\ Spec
    /\ WF_vars(FeederStep) /\ WF_vars(MainStep)
    /\ \A w \in Worker : WF_vars(WorkerStep(w))
    /\ \A t \in User : WF_vars(Finishing(t))

-----------------------------------------------------------------------------

\* The variables have their types; numActiveParsers_, a size_t, never goes
\* below zero.
TypeOK ==
    /\ TaskQueueTypeOK(File)
    /\ IsQueue(finished, Batch, MaxBatches)
    /\ numActiveParsers \in 0 .. NumFiles
    /\ file \in [Worker -> File \cup {NoFile}]
    /\ n \in [Worker -> 1 .. NumBatches + 1]
    /\ got \in Seq(Batch)
    /\ outcome \in {"running", "nullopt", "exception", "left"}

BatchesOf(f) == SelectSeq(got, LAMBDA b : b.file = f)

\* Main gets the batches of each file in their order, none twice and none left
\* out in between, and none of those that come after an error.
FilesInOrder ==
    /\ TypeOK
    /\ \A f \in File :
          /\ \A i \in 1 .. Len(BatchesOf(f)) : BatchesOf(f)[i].n = i
          /\ Len(BatchesOf(f)) < failsAt[f]

\* When getBatch says that there are no more batches, all batches of all files
\* have been returned ("We are the last parser, we have to notify the
\* downstream code that the input has been parsed completely").
EndMeansEverything ==
    outcome = "nullopt" => \A f \in File : Len(BatchesOf(f)) = NumBatches

\* "The destructor has to clean up all the parallel structures that might be
\* still running in the background": feederThread_ does not use parsingQueue_
\* and numActiveParsers_ after their destruction.
QueueOutlivesFeeder ==
    ~ alive => pc[Feeder] \in {"finishing", "done"} /\ fin[Feeder] = "out"

\* A parser that is used up to its end or its exception can be destroyed: the
\* destructor returns, and with it all threads have ended, whichever thread
\* failed and whoever began to finish the pool.
UsedUpParserIsDestroyed == <>(outcome = "left" \/ Done)

\* "The destructor has to clean up all the parallel structures [...] especially
\* when it is called before the parsing has finished": it returns in any case.
\* It does not when the threads of the pool, which it joins first, wait for
\* space in finishedBatchQueue_.
DestructorReturns == <>Done

=============================================================================
