------------------------- MODULE MCBlockZipperJoin -------------------------
(***************************************************************************)
(* The instance of BlockZipperJoin for TLC: every way to cut two sorted    *)
(* columns of up to MaxRows Ids into up to MaxBlocks tables, empty ones    *)
(* included, and runs of one Id in up to MaxRun tables, for each kind of   *)
(* join in Kinds.                                                          *)
(***************************************************************************)
EXTENDS BlockZipperJoin

CONSTANTS MaxBlocks, MaxRows, MaxRun, MaxId, Kinds

SortedColumns ==
    {q \in BoundedSeq(0..MaxId, MaxRows) : \A i, j \in DOMAIN q : i < j => q[i] <= q[j]}

\* Where a column of len rows may be cut into n tables.
Cuts(len, n) ==
    {c \in [0..n -> 0..len] : c[0] = 0 /\ c[n] = len /\ \A i \in 1..n : c[i - 1] <= c[i]}

Inputs ==
    UNION {{[i \in 1..n |-> SubSeq(q, c[i - 1] + 1, c[i])] : c \in Cuts(Len(q), n)} :
             q \in SortedColumns, n \in 0..MaxBlocks}

\* An Id that fills many tables, at the end of the input or before another Id.
LongInputs ==
    UNION {{run, Append(run, <<2>>)} : run \in {[i \in 1..n |-> <<1>>] : n \in MaxBlocks..MaxRun}}

HasUndef(in) == \E n \in DOMAIN in : in[n] # <<>> /\ Head(in[n]) = Undef

\* The blocks of an index: not empty, and without UNDEF.
IsScan(in) == \A n \in DOMAIN in : in[n] # <<>> /\ Head(in[n]) # Undef

EmptyBeforeUndef(in) ==
    \E n, m \in DOMAIN in : n < m /\ in[n] = <<>> /\ in[m] # <<>> /\ Head(in[m]) = Undef

\* The Ids that are in more tables than the join reads at once.
LongRuns(in) ==
    {id \in 1..MaxId : Cardinality({n \in DOMAIN in : id \in ToSet(in[n])}) > FetchBlocks}

\* The last table with one of them goes on with another Id.
RunEndsInside(in) == \E id \in LongRuns(in), n \in DOMAIN in : id \in ToSet(in[n]) /\ Last(in[n]) > id

\* The inputs for which the properties hold.
Handled(k, l, r) ==
    /\ ~k.limited
    /\ k.optional => ~HasUndef(l) /\ ~RunEndsInside(r)
    /\ \A in \in {l, r} : HasUndef(in) => ~EmptyBeforeUndef(in) /\ LongRuns(in) = {}

Init ==
    /\ JoinInit
    /\ \E l, r \in Inputs \union LongInputs, k \in Kinds :
          /\ k.prefiltered => IsScan(r)
          /\ k.handled => Handled(k, l, r)
          /\ limited = k.limited
          /\ optional = k.optional
          /\ InputInit(l, r, k.prefiltered)

Spec == Init /\ [][Next]_vars

Kind == [prefiltered |-> FALSE, optional |-> FALSE, limited |-> FALSE, handled |-> TRUE]

Prefiltered == [Kind EXCEPT !.prefiltered = TRUE]

\* The three ways a lazy join is run.
AllKinds == {Kind, [Kind EXCEPT !.optional = TRUE], Prefiltered}

\* The inputs that are left out, to be given to Kinds one at a time.
AnyInput == {[Kind EXCEPT !.handled = FALSE]}
AnyOptional == {[Kind EXCEPT !.handled = FALSE, !.optional = TRUE]}
AnyLimited == {[Prefiltered EXCEPT !.handled = FALSE, !.limited = TRUE]}
=============================================================================
