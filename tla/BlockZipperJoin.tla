-------------------------- MODULE BlockZipperJoin --------------------------
(***************************************************************************)
(* BlockZipperJoinImpl: the join of two sorted inputs that arrive block by *)
(* block, with UNDEF values, as a normal or as an OPTIONAL join, together  *)
(* with AddCombinedRowToIdTable, which collects the rows of the result.    *)
(* One action handles one block of an input, or one round of the loops     *)
(* that work on buffered blocks.  A row is identified by the number of its *)
(* table and its position in it, so that the same value in two rows, and   *)
(* the same pair added twice, can be told apart.                           *)
(***************************************************************************)
EXTENDS PrefilteredTables

CONSTANTS FetchBlocks    \* FETCH_BLOCKS: blocks of equal Ids read at once

ASSUME FetchBlocksAssumption == FetchBlocks \in Nat \ {0}

VARIABLES
    optional,       \* DoOptionalJoin
    undefAware,     \* potentiallyHasUndef
    pc,             \* the function the join is in, see Step
    it,             \* the block the iterator of each side stands at, or End
    currentBlocks,  \* JoinSide::currentBlocks_
    undefBlocks,    \* JoinSide::undefBlocks_
    currentEl,
    fill,           \* fillEqualToCurrentEl: the side, numBlocksRead, and which
                    \* sides are known to have no further block with currentEl
    blockStatus,
    equalBlocks,    \* equalToCurrentElLeft and -Right
    rowAdder        \* AddCombinedRowToIdTable: inputs, buffered rows and result

joinVars == <<optional, undefAware, pc, it, currentBlocks, undefBlocks, currentEl, fill,
              blockStatus, equalBlocks, rowAdder>>

vars == <<inputVars, joinVars>>

\* A BlockAndSubrange: the rows first..last of a block.
FullBlock(s, n) == [block |-> n, first |-> 1, last |-> Len(input[s][n])]

IsEmptyRange(b) == b.last < b.first

Indices(b) == [i \in 1..(b.last - b.first + 1) |-> b.first + i - 1]

Value(s, b, i) == input[s][b.block][i]

Back(s, b) == Value(s, b, b.last)

\* The parts of b below, equal to and above el (lower_bound, equal_range and
\* upper_bound on the subrange).
Below(s, b, el) ==
    Cardinality({i \in b.first..b.last : Value(s, b, i) < el})

NotAbove(s, b, el) ==
    Cardinality({i \in b.first..b.last : Value(s, b, i) <= el})

----------------------------------------------------------------------------
(* AddCombinedRowToIdTable: rows are buffered as positions in the current  *)
(* pair of blocks and written with the blocks that are set at that moment. *)

NoRow == <<End, 0>>

\* flush.  addRow and addOptionalRow also call it when many rows are buffered.
Flush(a) ==
    [a EXCEPT !.result = @ \o [k \in DOMAIN a.buffer |->
                                 <<<<a.left, a.buffer[k][1]>>,
                                   IF a.buffer[k][2] = 0 THEN NoRow
                                   ELSE <<a.right, a.buffer[k][2]>>>>],
              !.buffer = <<>>]

\* setInput
SetInput(a, l, r) == [Flush(a) EXCEPT !.left = l.block, !.right = r.block]

\* setOnlyLeftInputForOptionalJoin
SetOnlyLeftInput(a, l) == [Flush(a) EXCEPT !.left = l.block, !.right = End]

----------------------------------------------------------------------------
(* The functions that add rows for buffered blocks, with addRow and        *)
(* addOptionalRow (position 0 on the right).                               *)

\* All pairs of a row of l and a row of r.
AddPairs(a, l, r) ==
    LET n == r.last - r.first + 1
    IN  [SetInput(a, l, r) EXCEPT
           !.buffer = [k \in 1..(l.last - l.first + 1) * n |->
                         <<l.first + ((k - 1) \div n), r.first + ((k - 1) % n)>>]]

\* addCartesianProduct
AddCartesianProduct(a, ls, rs) ==
    FoldLeft(LAMBDA a1, l : FoldLeft(LAMBDA a2, r : AddPairs(a2, l, r), a1, rs), a, ls)

AddOptionalRow(a, i) == [a EXCEPT !.buffer = Append(@, <<i, 0>>)]

\* One optional row for every row of the blocks.
AddOptionalRows(a, ls) ==
    FoldLeft(LAMBDA a1, l : [SetOnlyLeftInput(a1, l) EXCEPT
                               !.buffer = [k \in 1..(l.last - l.first + 1) |-> <<l.first + k - 1, 0>>]],
             a, ls)

\* addAll, with addNonMatchingRowsFromLeftForOptionalJoin
AddAll(a, ls, rs) ==
    LET noMatch == /\ optional
                   /\ undefBlocks.right = <<>>
                   /\ \A k \in DOMAIN rs : IsEmptyRange(rs[k])
    IN  Flush(AddCartesianProduct(IF noMatch THEN AddOptionalRows(a, ls) ELSE a, ls, rs))

\* joinWithUndefBlocks
JoinWithUndefBlocks(a, status, ls, rs) ==
    LET a1 == IF status \in {"allFilled", "leftMissing"}
              THEN AddCartesianProduct(a, ls, undefBlocks.right) ELSE a
    IN  IF status \in {"allFilled", "rightMissing"}
        THEN AddCartesianProduct(a1, undefBlocks.left, rs) ELSE a1

\* mergeWithUndefRight for row i of block l (the right block is r), with
\* findUndefValues and addNotFoundRowIndex.
MergeWithUndefRight(a, l, r, i, hasNoMatch) ==
    LET row == [l EXCEPT !.first = i, !.last = i]
        merged == IF undefAware
                  THEN SetInput(AddCartesianProduct(a, <<row>>, undefBlocks.right), l, r)
                  ELSE a
    IN  IF hasNoMatch /\ undefBlocks.right = <<>> /\ optional
        THEN AddOptionalRow(merged, i) ELSE merged

\* mergeWithUndefLeft for row j of block r.
MergeWithUndefLeft(a, l, r, j) ==
    LET row == [r EXCEPT !.first = j, !.last = j]
    IN  IF undefAware
        THEN SetInput(AddCartesianProduct(a, undefBlocks.left, <<row>>), l, r)
        ELSE a

\* The main loop of zipperJoinWithUndef on the subranges l and r.
RECURSIVE ZipperJoinWithUndef(_, _, _)
ZipperJoinWithUndef(a, l, r) ==
    LET i == l.first
        j == r.first
        endSame1 == i + NotAbove("left", l, Value("left", l, i))
        endSame2 == j + NotAbove("right", r, Value("right", r, j))
        same1 == [l EXCEPT !.last = endSame1 - 1]
        same2 == [r EXCEPT !.last = endSame2 - 1]
        fromLeft(a1, rows) ==
            FoldLeft(LAMBDA a2, k : MergeWithUndefRight(a2, l, r, k, FALSE), a1, Indices(rows))
        fromRight(a1, rows) ==
            FoldLeft(LAMBDA a2, k : MergeWithUndefLeft(a2, l, r, k), a1, Indices(rows))
    IN  IF IsEmptyRange(l) THEN fromRight(a, r)
        ELSE IF IsEmptyRange(r) \/ Value("left", l, i) < Value("right", r, j)
        THEN ZipperJoinWithUndef(MergeWithUndefRight(a, l, r, i, TRUE),
                                 [l EXCEPT !.first = i + 1], r)
        ELSE IF Value("right", r, j) < Value("left", l, i)
        THEN ZipperJoinWithUndef(MergeWithUndefLeft(a, l, r, j), l, [r EXCEPT !.first = j + 1])
        ELSE ZipperJoinWithUndef(
                 AddCartesianProduct(fromRight(fromLeft(a, same1), same2), <<same1>>, <<same2>>),
                 [l EXCEPT !.first = endSame1], [r EXCEPT !.first = endSame2])

----------------------------------------------------------------------------
(* The functions that change the buffered blocks.                          *)

\* getCurrentEl
GetCurrentEl ==
    LET el(s) == Back(s, Head(currentBlocks[s]))
    IN  IF el("right") < el("left") THEN el("right") ELSE el("left")

\* Mutant: also the elements above currentEl.
NotLessThanCurrentEl(s, blocks, el) ==
    IF blocks = <<>> THEN <<>>
    ELSE LET b == Last(blocks)
         IN  Append(Front(blocks), [b EXCEPT !.first = @ + Below(s, b, el)])

\* getEqualToCurrentEl
GetEqualToCurrentEl(s, blocks, el) ==
    IF blocks = <<>> THEN <<>>
    ELSE LET b == Last(blocks)
         IN  Append(Front(blocks), [b EXCEPT !.first = @ + Below(s, b, el),
                                             !.last = b.first + NotAbove(s, b, el) - 1])

\* removeEqualToCurrentEl
RemoveEqualToCurrentEl(s, blocks, el) ==
    LET b == Last(blocks)
        rest == [b EXCEPT !.first = @ + NotAbove(s, b, el)]
    IN  IF IsEmptyRange(rest) THEN <<>> ELSE <<rest>>

Other(s) == IF s = "left" THEN "right" ELSE "left"

\* ++side.it_
Advance(s) ==
    \E n \in {End} \union DOMAIN input[s] :
        AdvanceGenerator(s, n) /\ it' = [it EXCEPT ![s] = n]

Stay == UNCHANGED <<inputVars, it>>

\* *side.it_
Block(s) == IF it[s] = End THEN <<>> ELSE input[s][it[s]]

BeginsWithUndef(s) == Block(s) # <<>> /\ Head(Block(s)) = Undef

----------------------------------------------------------------------------
(* makeJoinSide: the iterators are set to the first blocks.                *)
Begin(s) ==
    /\ pc = [at |-> "begin", side |-> s]
    /\ Advance(s)
    /\ pc' = IF s = "left" THEN [at |-> "begin", side |-> "right"]
                           ELSE [at |-> "undef", side |-> "left"]
    /\ UNCHANGED <<optional, undefAware, currentBlocks, undefBlocks, currentEl, fill,
                   blockStatus, equalBlocks, rowAdder>>

\* findFirstBlockWithoutUndef: a block that begins with UNDEF.
TakeUndefBlock(s) ==
    /\ pc = [at |-> "undef", side |-> s]
    /\ BeginsWithUndef(s)
    /\ LET block == FullBlock(s, it[s])
           undefCount == NotAbove(s, block, Undef)
           undefs == [block EXCEPT !.last = undefCount]
           defined == [block EXCEPT !.first = undefCount + 1]
       IN  /\ undefBlocks' = [undefBlocks EXCEPT ![s] = Append(@, undefs)]
           /\ currentBlocks' = IF IsEmptyRange(defined) THEN currentBlocks
                               ELSE [currentBlocks EXCEPT ![s] = Append(@, defined)]
           /\ pc' = IF IsEmptyRange(defined) THEN pc ELSE [pc EXCEPT !.at = "undefEnd"]
    /\ Advance(s)
    /\ UNCHANGED <<optional, undefAware, currentEl, fill, blockStatus, equalBlocks, rowAdder>>

\* ... and its end.  After the right side fetchAndProcessUndefinedBlocks adds
\* the pairs of UNDEF rows, and without any the variant of the join that knows
\* no UNDEF goes on.
UndefBlocksTaken(s) ==
    /\ \/ pc = [at |-> "undefEnd", side |-> s]
       \/ pc = [at |-> "undef", side |-> s] /\ ~BeginsWithUndef(s)
    /\ IF s = "left"
       THEN /\ pc' = [at |-> "undef", side |-> "right"]
            /\ UNCHANGED <<undefAware, rowAdder>>
       ELSE /\ pc' = [at |-> "fill", side |-> "left"]
            /\ undefAware' = (\E t \in Side : undefBlocks[t] # <<>>)
            /\ rowAdder' = AddCartesianProduct(rowAdder, undefBlocks.left, undefBlocks.right)
    /\ Stay
    /\ UNCHANGED <<optional, currentBlocks, undefBlocks, currentEl, fill, blockStatus,
                   equalBlocks>>

\* fillWithAtLeastOne: one block of its loop.
FillWithAtLeastOne(s) ==
    /\ pc = [at |-> "fill", side |-> s]
    /\ currentBlocks[s] = <<>>
    /\ it[s] # End
    /\ currentBlocks' = IF Block(s) = <<>> THEN currentBlocks
                        ELSE [currentBlocks EXCEPT ![s] = <<FullBlock(s, it[s])>>]
    /\ Advance(s)
    /\ UNCHANGED <<optional, undefAware, pc, undefBlocks, currentEl, fill, blockStatus,
                   equalBlocks, rowAdder>>

\* ... and its end.  After the right side fillBuffer computes currentEl, unless
\* an input is exhausted.
Filled(s) ==
    /\ pc = [at |-> "fill", side |-> s]
    /\ currentBlocks[s] # <<>> \/ it[s] = End
    /\ IF s = "left" THEN
          /\ pc' = [at |-> "fill", side |-> "right"]
          /\ UNCHANGED <<currentEl, fill>>
       ELSE IF \E t \in Side : currentBlocks[t] = <<>> THEN
          /\ pc' = [at |-> "remaining", side |-> "left"]
          /\ UNCHANGED <<currentEl, fill>>
       ELSE
          /\ pc' = [at |-> "equal", side |-> "left"]
          /\ currentEl' = GetCurrentEl
          /\ fill' = [numBlocksRead |-> 0, all |-> {}]
    /\ Stay
    /\ UNCHANGED <<optional, undefAware, currentBlocks, undefBlocks, blockStatus, equalBlocks,
                   rowAdder>>

----------------------------------------------------------------------------
(* fillEqualToCurrentEl, called for both sides by                          *)
(* fillEqualToCurrentElBothSides ("equal") and for one by getNextBlocks    *)
(* ("more").                                                               *)

FillEqual(s) == pc \in {[at |-> "equal", side |-> s], [at |-> "more", side |-> s]}

\* Mutant: one call reads all blocks with currentEl.
ReadsWholeRun(s) == FillEqual(s) /\ it[s] # End

\* The loop goes on, with the block that the iterator stands at.
Reads(s) == FillEqual(s) /\ it[s] # End /\ fill.numBlocksRead < FetchBlocks

EmptyBlock(s) ==
    /\ Reads(s) /\ Block(s) = <<>>
    /\ Advance(s)
    /\ UNCHANGED <<optional, undefAware, pc, currentBlocks, undefBlocks, currentEl, fill,
                   blockStatus, equalBlocks, rowAdder>>

EqualBlock(s) ==
    /\ Reads(s) /\ Block(s) # <<>> /\ Head(Block(s)) = currentEl
    /\ currentBlocks' = [currentBlocks EXCEPT ![s] = Append(@, FullBlock(s, it[s]))]
    /\ fill' = [fill EXCEPT !.numBlocksRead = @ + 1]
    /\ Advance(s)
    /\ UNCHANGED <<optional, undefAware, pc, undefBlocks, currentEl, blockStatus, equalBlocks,
                   rowAdder>>

\* The function returns.  In getNextBlocks this sets the status, and the blocks
\* that come next in the Cartesian product.
FillReturns(s) ==
    /\ FillEqual(s)
    /\ ~Reads(s) \/ (Block(s) # <<>> /\ currentEl < Head(Block(s)))
    /\ LET all == IF Reads(s) \/ it[s] = End THEN {s} ELSE {}
           known == IF s = "left" THEN all ELSE fill.all \union all
       IN  IF pc.at = "more" THEN
              /\ pc' = [at |-> "product", side |-> "left"]
              /\ blockStatus' = IF all = {s} THEN "allFilled" ELSE blockStatus
              /\ equalBlocks' = [equalBlocks EXCEPT
                    ![s] = GetEqualToCurrentEl(s, currentBlocks[s], currentEl)]
              /\ UNCHANGED fill
           ELSE
              /\ fill' = [numBlocksRead |-> 0, all |-> known]
              /\ IF s = "right" /\ known # {} THEN
                    /\ pc' = [at |-> "join", side |-> "left"]
                    /\ blockStatus' = IF "right" \notin known THEN "rightMissing"
                                      ELSE IF "left" \notin known THEN "leftMissing"
                                      ELSE "allFilled"
                 ELSE
                    /\ pc' = [at |-> "equal", side |-> Other(s)]
                    /\ UNCHANGED blockStatus
              /\ UNCHANGED equalBlocks
    /\ Stay
    /\ UNCHANGED <<optional, undefAware, currentBlocks, undefBlocks, currentEl, rowAdder>>

----------------------------------------------------------------------------
\* The first part of joinBuffers: joinAndRemoveLessThanCurrentEl for the first
\* blocks, then the blocks with currentEl.
JoinBuffers ==
    /\ pc.at = "join"
    /\ undefAware => \A s \in Side : Value(s, Head(currentBlocks[s]), Head(currentBlocks[s]).first) # Undef
    /\ LET first == [s \in Side |-> Head(currentBlocks[s])]
           less == [s \in Side |->
                      [first[s] EXCEPT !.last = first[s].first + Below(s, first[s], currentEl) - 1]]
           rest == [s \in Side |->
                      <<[first[s] EXCEPT !.first = @ + Below(s, first[s], currentEl)]>>
                      \o Tail(currentBlocks[s])]
       IN  /\ rowAdder' = Flush(ZipperJoinWithUndef(SetInput(rowAdder, first.left, first.right),
                                                    less.left, less.right))
           /\ currentBlocks' = rest
           /\ equalBlocks' = [s \in Side |-> GetEqualToCurrentEl(s, rest[s], currentEl)]
    /\ pc' = [pc EXCEPT !.at = "product"]
    /\ Stay
    /\ UNCHANGED <<optional, undefAware, undefBlocks, currentEl, fill, blockStatus>>

\* The loop of joinBuffers: the Cartesian product of the blocks at hand.
AddProduct ==
    /\ pc.at = "product"
    /\ \A s \in Side : equalBlocks[s] # <<>>
    /\ rowAdder' = AddAll(JoinWithUndefBlocks(rowAdder, blockStatus,
                                              equalBlocks.left, equalBlocks.right),
                          equalBlocks.left, equalBlocks.right)
    /\ IF blockStatus = "allFilled" THEN
          /\ currentBlocks' = [s \in Side |->
                                 RemoveEqualToCurrentEl(s, currentBlocks[s], currentEl)]
          /\ pc' = [at |-> "fill", side |-> "left"]
       ELSE
          LET s == IF blockStatus = "rightMissing" THEN "right" ELSE "left"
          IN  /\ currentBlocks' = [currentBlocks EXCEPT
                                     ![s] = RemoveEqualToCurrentEl(s, @, currentEl)]
              /\ pc' = [at |-> "more", side |-> s]
    /\ fill' = [fill EXCEPT !.numBlocksRead = 0]
    /\ Stay
    /\ UNCHANGED <<optional, undefAware, undefBlocks, currentEl, blockStatus, equalBlocks>>

\* ... which ends when the side that was missing blocks turns out to have none.
ProductEnds ==
    /\ pc.at = "product"
    /\ \E s \in Side : equalBlocks[s] = <<>>
    /\ blockStatus = "allFilled"
    /\ rowAdder' = JoinWithUndefBlocks(rowAdder, blockStatus, equalBlocks.left, equalBlocks.right)
    /\ currentBlocks' = [s \in Side |->
                           IF currentBlocks[s] = <<>> THEN <<>>
                           ELSE RemoveEqualToCurrentEl(s, currentBlocks[s], currentEl)]
    /\ pc' = [at |-> "fill", side |-> "left"]
    /\ Stay
    /\ UNCHANGED <<optional, undefAware, undefBlocks, currentEl, fill, blockStatus, equalBlocks>>

----------------------------------------------------------------------------
(* An input is exhausted.                                                  *)

\* addRemainingUndefPairs: the buffered blocks of side s with the UNDEF rows of
\* the other side.
RemainingUndefPairs(s) ==
    /\ pc = [at |-> "remaining", side |-> s]
    /\ rowAdder' = IF ~undefAware THEN rowAdder
                   ELSE IF s = "left"
                   THEN AddCartesianProduct(rowAdder, currentBlocks.left, undefBlocks.right)
                   ELSE AddCartesianProduct(rowAdder, undefBlocks.left, currentBlocks.right)
    /\ pc' = [pc EXCEPT !.at = "consume"]
    /\ Stay
    /\ UNCHANGED <<optional, undefAware, currentBlocks, undefBlocks, currentEl, fill,
                   blockStatus, equalBlocks>>

\* consumeRemainingBlocks: the same for one of the blocks to come.
ConsumeRemainingBlock(s) ==
    /\ pc = [at |-> "consume", side |-> s]
    /\ undefAware
    /\ it[s] # End
    /\ LET block == <<FullBlock(s, it[s])>>
       IN  rowAdder' = Flush(IF s = "left"
                             THEN AddCartesianProduct(rowAdder, block, undefBlocks.right)
                             ELSE AddCartesianProduct(rowAdder, undefBlocks.left, block))
    /\ Advance(s)
    /\ UNCHANGED <<optional, undefAware, pc, currentBlocks, undefBlocks, currentEl, fill,
                   blockStatus, equalBlocks>>

\* The remaining pairs are complete.  An OPTIONAL join goes on with the first
\* part of fillWithAllFromLeft.
Consumed(s) ==
    /\ pc = [at |-> "consume", side |-> s]
    /\ ~undefAware \/ it[s] = End
    /\ IF s = "left" THEN
          /\ pc' = [at |-> "remaining", side |-> "right"]
          /\ UNCHANGED rowAdder
       ELSE IF optional /\ undefBlocks.right = <<>> THEN
          /\ pc' = [at |-> "rest", side |-> "left"]
          /\ rowAdder' = AddOptionalRows(Flush(rowAdder), currentBlocks.left)
       ELSE
          /\ pc' = [at |-> "done", side |-> "left"]
          /\ rowAdder' = Flush(rowAdder)
    /\ Stay
    /\ UNCHANGED <<optional, undefAware, currentBlocks, undefBlocks, currentEl, fill,
                   blockStatus, equalBlocks>>

\* fillWithAllFromLeft: one of the blocks to come.
FillWithBlockFromLeft ==
    /\ pc.at = "rest"
    /\ it.left # End
    /\ rowAdder' = Flush(AddOptionalRows(rowAdder, <<FullBlock("left", it.left)>>))
    /\ Advance("left")
    /\ UNCHANGED <<optional, undefAware, pc, currentBlocks, undefBlocks, currentEl, fill,
                   blockStatus, equalBlocks>>

FilledWithAllFromLeft ==
    /\ pc.at = "rest"
    /\ it.left = End
    /\ rowAdder' = Flush(rowAdder)
    /\ pc' = [pc EXCEPT !.at = "done"]
    /\ Stay
    /\ UNCHANGED <<optional, undefAware, currentBlocks, undefBlocks, currentEl, fill,
                   blockStatus, equalBlocks>>

\* The join has returned.
Terminated == pc.at = "done" /\ UNCHANGED vars

----------------------------------------------------------------------------
JoinInit ==
    /\ undefAware = TRUE
    /\ pc = [at |-> "begin", side |-> "left"]
    /\ it = [s \in Side |-> End]
    /\ currentBlocks = [s \in Side |-> <<>>]
    /\ undefBlocks = [s \in Side |-> <<>>]
    /\ currentEl = Undef
    /\ fill = [numBlocksRead |-> 0, all |-> {}]
    /\ blockStatus = "allFilled"
    /\ equalBlocks = [s \in Side |-> <<>>]
    /\ rowAdder = [left |-> End, right |-> End, buffer |-> <<>>, result |-> <<>>]

SideStep(s) ==
    \/ Begin(s) \/ TakeUndefBlock(s) \/ UndefBlocksTaken(s)
    \/ FillWithAtLeastOne(s) \/ Filled(s)
    \/ EmptyBlock(s) \/ EqualBlock(s) \/ FillReturns(s)
    \/ RemainingUndefPairs(s) \/ ConsumeRemainingBlock(s) \/ Consumed(s)

Next ==
    \/ \E s \in Side : SideStep(s)
    \/ JoinBuffers \/ AddProduct \/ ProductEnds
    \/ FillWithBlockFromLeft \/ FilledWithAllFromLeft
    \/ Terminated

----------------------------------------------------------------------------
Rows(s) == UNION {{<<n, i>> : i \in DOMAIN input[s][n]} : n \in DOMAIN input[s]}

Id(s, row) == input[s][row[1]][row[2]]

Compatible(l, r) ==
    \/ Id("left", l) = Id("right", r)
    \/ Id("left", l) = Undef
    \/ Id("right", r) = Undef

\* The join, by its definition.
Expected ==
    {pair \in Rows("left") \X Rows("right") : Compatible(pair[1], pair[2])}
    \union
    IF optional
    THEN {<<l, NoRow>> : l \in {row \in Rows("left") :
                                   \A r \in Rows("right") : ~Compatible(row, r)}}
    ELSE {}

\* AddCombinedRowToIdTable takes the Id that is not UNDEF.
JoinValue(pair) ==
    IF pair[2] = NoRow \/ Id("left", pair[1]) # Undef THEN Id("left", pair[1])
    ELSE Id("right", pair[2])

\* Whatever the blocks, and whichever order the two inputs are read in: the
\* result has every pair of compatible rows once, an OPTIONAL join also has
\* the rows of the left input that match nothing, and there is nothing else.
\* If no row is UNDEF the result is sorted, as Join::resultSortedOn says.
JoinIsCorrect ==
    pc.at = "done" =>
        /\ ToSet(rowAdder.result) = Expected
        /\ Len(rowAdder.result) = Cardinality(Expected)
        /\ (\A s \in Side : undefBlocks[s] = <<>>) =>
              \A k \in 1..Len(rowAdder.result) - 1 :
                  JoinValue(rowAdder.result[k]) <= JoinValue(rowAdder.result[k + 1])

\* The prefiltered side of an IndexScan reads the blocks in their order and,
\* unless the left input begins with UNDEF, none that matches no row of the
\* left input.
OnlyNeededBlocks ==
    [][it'.right # it.right =>
         \/ it'.right = End
         \/ /\ it'.right > it.right
            /\ \/ shared'.hasUndef \/ shared'.iterator = 0
               \/ \E n \in DOMAIN input.left : it'.right \in ToSet(GetBlocksForJoin(n))]_vars

\* How many tables of side s have rows with currentEl.
RunLength(s) == Cardinality({n \in DOMAIN input[s] : currentEl \in ToSet(input[s][n])})

\* "It is only required to have all the blocks with the `currentEl` in one of
\* the buffers (either left or right) at the same time. We can then process the
\* blocks from the other side in a streaming fashion" (BlockZipperJoinImpl): a
\* side buffers at most FETCH_BLOCKS blocks more than the run of currentEl on
\* the other side takes, however long its own run is.
LongRunsAreStreamed ==
    \A s \in Side : Len(currentBlocks[s]) <= FetchBlocks + Max({1, RunLength(Other(s))})

\* The join still holds table n of side s.
Alive(s, n) == n = End \/ \E b \in ToSet(currentBlocks[s] \o undefBlocks[s]) : b.block = n

\* AddCombinedRowToIdTable writes the rows it has buffered with the tables that
\* were set last, "before deleting the old inputs" (setInput): when joinBuffers
\* has returned and released its blocks, the tables of all rows that are still
\* buffered are held by the join.  This does not hold for an input that has
\* both UNDEF and a long run.
BufferedRowsAreAlive ==
    pc.at = "fill" /\ rowAdder.buffer # <<>> =>
        Alive("left", rowAdder.left) /\ Alive("right", rowAdder.right)
=============================================================================
