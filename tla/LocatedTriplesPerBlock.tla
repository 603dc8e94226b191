------------------------ MODULE LocatedTriplesPerBlock ------------------------
(***************************************************************************)
(* LocatedTriplesPerBlock: the located triples of one permutation, kept    *)
(* per block, how a scan merges them with the rows of a block, and the     *)
(* life of one such object: any sequence of the calls that DeltaTriples    *)
(* makes, for any layout of the permutation in blocks.  A block is the     *)
(* increasing sequence of its rows.                                        *)
(***************************************************************************)
EXTENDS LocatedTriples, FiniteSets, SequencesExt

CONSTANTS
  Triple,       \* the ranks of the triples
  GraphOf(_),   \* the graph that a triple belongs to
  MaxGraphs,    \* MAX_NUM_GRAPHS_STORED_IN_BLOCK_METADATA
  NoGraphInfo   \* std::nullopt in place of the graphs of a block

ASSUME TripleAssumption == Triple \subseteq Nat

VARIABLES
  blocks,     \* the rows of the permutation on disk; never changes
  located,    \* map_
  augmented   \* what getAugmentedMetadata returns

vars == <<blocks, located, augmented>>

-----------------------------------------------------------------------------
LocateStrict(t) ==
  LET larger == {b \in DOMAIN blocks : Last(blocks[b]) > t}
  IN  IF larger = {} THEN Len(blocks) + 1 ELSE Min(larger)

(* A triple belongs to the first block that contains a triple at least as  *)
(* large, or to a block of its own behind the last one.                    *)
Locate(t) ==
  LET notSmaller == {b \in DOMAIN blocks : Last(blocks[b]) >= t}
  IN  IF notSmaller = {} THEN Len(blocks) + 1 ELSE Min(notSmaller)

(* The std::set of located triples of block b.                             *)
UpdatesOf(lt, b) ==
  SetToSortSeq({t \in Keys(lt) : Locate(t) = b}, <)

(* The two iterators of mergeTriplesImpl: i on the rows of the block, j on *)
(* its located triples.  A deletion that meets its row skips both, an      *)
(* insertion that meets its row leaves the row to be copied.               *)
MergeTriples(block, updates, lt) ==
  LET Written(j) == IF lt[updates[j]] = "insert" THEN <<updates[j]>> ELSE <<>>
      merge[i \in 1 .. Len(block) + 1, j \in 1 .. Len(updates) + 1] ==
        CASE i > Len(block) /\ j > Len(updates) -> <<>>
          [] i <= Len(block) /\ (j > Len(updates) \/ updates[j] > block[i]) ->
               <<block[i]>> \o merge[i + 1, j]
          [] i <= Len(block) /\ updates[j] = block[i] ->
               merge[IF lt[updates[j]] = "delete" THEN i + 1 ELSE i, j + 1]
          [] OTHER -> Written(j) \o merge[i, j + 1]
  IN  merge[1, 1]

-----------------------------------------------------------------------------
(* The metadata of a block: its borders, and the set of its graphs unless  *)
(* they are too many (std::nullopt).                                       *)
GraphInfo(triples) ==
  LET graphs == {GraphOf(t) : t \in triples}
  IN  IF Cardinality(graphs) > MaxGraphs THEN NoGraphInfo ELSE graphs

OriginalMetadata ==
  [b \in DOMAIN blocks |-> [first |-> Head(blocks[b]), last |-> Last(blocks[b]),
                            graphs |-> GraphInfo(Range(blocks[b]))]]

GraphsUnchanged(graphs, updates, lt) == graphs

UpdateGraphMetadata(graphs, updates, lt) ==
  LET inserted == {t \in Range(updates) : lt[t] = "insert"}
      all == graphs \union {GraphOf(t) : t \in inserted}
  IN  IF graphs = NoGraphInfo \/ Cardinality(all) > MaxGraphs
      THEN NoGraphInfo ELSE all

FirstUnchanged(metadata, updates, lt) ==
  [first  |-> metadata.first, last |-> Max({metadata.last, Last(updates)}),
   graphs |-> UpdateGraphMetadata(metadata.graphs, updates, lt)]

(* The borders of a block with located triples, insertions and deletions   *)
(* alike.                                                                  *)
Enlarged(metadata, updates, lt) ==
  [first  |-> Min({metadata.first, Head(updates)}),
   last   |-> Max({metadata.last, Last(updates)}),
   graphs |-> UpdateGraphMetadata(metadata.graphs, updates, lt)]

UpdateAugmentedMetadata(lt) ==
  LET original == OriginalMetadata
      behind == UpdatesOf(lt, Len(blocks) + 1)
  IN  [b \in DOMAIN blocks |->
         LET updates == UpdatesOf(lt, b)
         IN  IF updates = <<>> THEN original[b]
             ELSE Enlarged(original[b], updates, lt)]
      \o (IF behind = <<>> THEN <<>>
          ELSE <<[first  |-> Head(behind), last |-> Last(behind),
                  graphs |-> UpdateGraphMetadata({}, behind, lt)]>>)

(* What a scan gets for block b of the augmented metadata.                 *)
ReadBlock(lt, b) ==
  LET rows == IF b \in DOMAIN blocks THEN blocks[b] ELSE <<>>
      updates == UpdatesOf(lt, b)
  IN  IF updates = <<>> THEN rows ELSE MergeTriples(rows, updates, lt)

-----------------------------------------------------------------------------
(* A permutation holds its triples in order, cut into blocks.              *)
Cut(rows, ends) ==
  LET ordered == SetToSortSeq(ends, <)
  IN  [b \in DOMAIN ordered |->
         SubSeq(rows, IF b = 1 THEN 1 ELSE ordered[b - 1] + 1, ordered[b])]

Layout == UNION {{Cut(SetToSortSeq(rows, <), ends) :
                  ends \in {e \in SUBSET (1 .. Cardinality(rows)) :
                              rows = {} \/ Cardinality(rows) \in e}} :
                 rows \in SUBSET Triple}

Init ==
  /\ blocks \in Layout
  /\ located = NoTriples(Triple)
  /\ augmented = OriginalMetadata

DoAdd(triples, kind) ==
  /\ ~AddFails(located, triples)
  /\ located' = Add(located, triples, kind)
  /\ augmented' = UpdateAugmentedMetadata(located')
  /\ UNCHANGED blocks

(* DeltaTriples updates the metadata once, after it has erased triples.    *)
DoErase(triples) ==
  /\ located' = Erase(located, triples)
  /\ augmented' = UpdateAugmentedMetadata(located')
  /\ UNCHANGED blocks

Clear ==
  /\ located' = NoTriples(Triple)
  /\ augmented' = OriginalMetadata
  /\ UNCHANGED blocks

Next ==
  \/ \E triples \in SUBSET Triple \ {{}} :
       \/ \E kind \in {"insert", "delete"} : DoAdd(triples, kind)
       \/ triples \subseteq Keys(located) /\ DoErase(triples)
  \/ Clear

Spec == Init /\ [][Next]_vars

-----------------------------------------------------------------------------
Rows == UNION {Range(blocks[b]) : b \in DOMAIN blocks}

Scan == FlattenSeq([b \in DOMAIN augmented |-> ReadBlock(located, b)])

(* A scan of the whole permutation yields, in order and without            *)
(* duplicates, the rows that are not deleted and the triples that are      *)
(* inserted, wherever the triples lie relative to the borders of the       *)
(* blocks (locateTriplesInPermutation, mergeTriplesImpl).                  *)
ScanIsCorrect ==
  Scan = SetToSortSeq({t \in Triple : \/ located[t] = "insert"
                                      \/ t \in Rows /\ located[t] # "delete"}, <)

(* The augmented blocks do not overlap, are in order, and contain what a   *)
(* scan reads from them, so that the binary searches on their borders find *)
(* every row (updateAugmentedMetadata).                                    *)
BordersAreSound ==
  \A b \in DOMAIN augmented :
    /\ \A t \in Range(ReadBlock(located, b)) :
         augmented[b].first <= t /\ t <= augmented[b].last
    /\ b + 1 \in DOMAIN augmented => augmented[b].last < augmented[b + 1].first

(* A block whose graphs are known names the graph of every row that a scan *)
(* reads from it; otherwise the filter on the graphs would skip it         *)
(* (updateGraphMetadata).                                                  *)
GraphInfoIsComplete ==
  \A b \in DOMAIN augmented : augmented[b].graphs # NoGraphInfo =>
    \A t \in Range(ReadBlock(located, b)) : GraphOf(t) \in augmented[b].graphs
=============================================================================
