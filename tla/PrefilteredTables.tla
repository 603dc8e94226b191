------------------------- MODULE PrefilteredTables -------------------------
(***************************************************************************)
(* The two inputs of a lazy join.  An input is a sequence of tables, of    *)
(* which only the join column matters: a sorted sequence of Ids.  In the   *)
(* general case both inputs are results of operations and their tables are *)
(* handed to the join one after the other.  When the right input is an     *)
(* IndexScan, IndexScan::prefilterTables makes two coroutines that share   *)
(* one state: the first forwards the tables of the left input that can     *)
(* match a block of the index, the second reads only the blocks that can   *)
(* match a table.  Each pulls tables from the left input on behalf of the  *)
(* other, so what one of them yields depends on how far the other one is.  *)
(* A coroutine runs without interruption from one co_yield to the next.    *)
(***************************************************************************)
EXTENDS Integers, Sequences, SequencesExt, FiniteSets, FiniteSetsExt

VARIABLES
    input,       \* the tables of both sides: input[s][n] is a sequence of Ids
    limited,     \* the IndexScan has a LIMIT or OFFSET
    shared,      \* SharedGeneratorState
    generator    \* the coroutine of each side: where it stands, and the
                 \* tables it yields before it looks at the shared state again

inputVars == <<input, limited, shared, generator>>

Side == {"left", "right"}

\* Id::makeUndefined(), smaller than all other Ids.
Undef == 0

\* What an exhausted generator gives instead of the number of a table.
End == 0

AllTables(s) == [n \in 1..Len(input[s]) |-> n]

----------------------------------------------------------------------------
\* CompressedRelationReader::getBlocksForJoin: the blocks of the index whose
\* range of Ids contains an Id of the join column of table n.
GetBlocksForJoin(n) ==
    SelectSeq(AllTables("right"),
              LAMBDA b : \E i \in DOMAIN input.left[n] :
                            /\ Head(input.right[b]) <= input.left[n][i]
                            /\ input.left[n][i] <= Last(input.right[b]))

AdvanceInputToNextNonEmptyTable(st) ==
    LET nonEmpty == {n \in DOMAIN input.left : n > st.iterator /\ input.left[n] # <<>>}
        done == nonEmpty = {}
        next == IF done THEN Len(input.left) + 1 ELSE Min(nonEmpty)
    IN  [st EXCEPT !.iterator = next,
                   !.doneFetching = done,
                   !.hasUndef = IF st.iterator = 0
                                THEN ~done /\ Head(input.left[next]) = Undef
                                ELSE @]

\* Mutant: also the blocks in between that no row matches.
BlocksUpToLast(blocks, lastBlockIndex) ==
    SelectSeq(AllTables("right"), LAMBDA b : b > lastBlockIndex /\ b <= Last(blocks))

\* The blocks that were not handed out for an earlier table.  The last block of
\* a table is often the first one of the next.
NewBlocks(blocks, lastBlockIndex) == SelectSeq(blocks, LAMBDA b : b > lastBlockIndex)

\* SharedGeneratorState::fetch
RECURSIVE Fetch(_)
Fetch(st) ==
    LET next == AdvanceInputToNextNonEmptyTable(st)
        newBlocks == GetBlocksForJoin(next.iterator)
    IN  CASE st.prefetchedValues # <<>> /\ st.pendingBlocks # <<>> -> st
          [] next.doneFetching \/ next.hasUndef -> next
          [] newBlocks = <<>> -> Fetch(next)
          [] OTHER ->
               Fetch([next EXCEPT
                        !.prefetchedValues = Append(@, next.iterator),
                        !.pendingBlocks =
                            @ \o NewBlocks(newBlocks, next.lastBlockIndex),
                        !.lastBlockIndex = Last(newBlocks)])

\* SharedGeneratorState::hasUndef, which starts the input if necessary.
Started(st) == IF st.iterator = 0 THEN Fetch(st) ELSE st

\* IndexScan::getLazyScan: a LIMIT makes it ignore the blocks it is given.
GetLazyScan(blocks) == IF limited THEN AllTables("right") ELSE blocks

\* createPrefilteredJoinSide, from one co_yield to the next: the new shared
\* state, the tables to yield (none: the coroutine has returned), and where
\* the coroutine stands.
ResumeJoinSide(pc) ==
    LET begun == Started(shared)
        ready == IF begun.prefetchedValues = <<>> /\ ~begun.doneFetching
                 THEN Fetch(begun) ELSE begun
    IN  IF pc = "start" /\ begun.hasUndef
        THEN [state |-> begun, pc |-> "last",
              tables |-> SelectSeq(AllTables("left"), LAMBDA n : n >= begun.iterator)]
        ELSE [state |-> [ready EXCEPT !.prefetchedValues = <<>>], pc |-> "loop",
              tables |-> ready.prefetchedValues]

\* createPrefilteredIndexScanSide, likewise.
ResumeIndexScanSide(pc) ==
    LET begun == Started(shared)
        ready == IF begun.pendingBlocks = <<>> /\ ~begun.doneFetching
                 THEN Fetch(begun) ELSE begun
    IN  CASE pc = "start" /\ begun.hasUndef ->
               [state |-> begun, pc |-> "last", tables |-> GetLazyScan(AllTables("right"))]
          [] begun.pendingBlocks = <<>> /\ begun.doneFetching ->
               [state |-> begun, pc |-> "last", tables |-> <<>>]
          [] OTHER ->
               [state |-> [ready EXCEPT !.pendingBlocks = <<>>], pc |-> "loop",
                tables |-> GetLazyScan(ready.pendingBlocks)]

\* The state of the coroutine of side s when it is asked for its next table.
Resume(s) ==
    LET g == generator[s]
    IN  CASE g.tables # <<>> \/ g.pc = "last" ->
               [state |-> shared, pc |-> g.pc, tables |-> g.tables]
          [] s = "left" -> ResumeJoinSide(g.pc)
          [] OTHER -> ResumeIndexScanSide(g.pc)

\* The generator of side s makes its next step and yields table n, or ends.
AdvanceGenerator(s, n) ==
    \E r \in {Resume(s)} :
        /\ n = IF r.tables = <<>> THEN End ELSE Head(r.tables)
        /\ shared' = r.state
        /\ generator' = [generator EXCEPT
              ![s] = IF r.tables = <<>> THEN [pc |-> "last", tables |-> <<>>]
                     ELSE [pc |-> r.pc, tables |-> Tail(r.tables)]]
        /\ UNCHANGED <<input, limited>>

----------------------------------------------------------------------------
\* A fresh SharedGeneratorState.
FreshState ==
    [iterator |-> 0, prefetchedValues |-> <<>>, pendingBlocks |-> <<>>,
     lastBlockIndex |-> 0, hasUndef |-> FALSE, doneFetching |-> FALSE]

\* The inputs are left and right; prefiltered says whether the right one is an
\* IndexScan and prefilterTables is used.
InputInit(left, right, prefiltered) ==
    /\ input = [left |-> left, right |-> right]
    /\ shared = FreshState
    /\ generator = [s \in Side |->
          IF prefiltered THEN [pc |-> "start", tables |-> <<>>]
                         ELSE [pc |-> "last", tables |-> [n \in 1..Len(input[s]) |-> n]]]
=============================================================================
