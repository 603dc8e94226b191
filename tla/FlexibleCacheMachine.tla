----------------------- MODULE FlexibleCacheMachine -----------------------
(***************************************************************************)
(* The life of one FlexibleCache: any sequence of calls of its public      *)
(* methods, with limits that change at run time (Server.cpp registers the  *)
(* three setters as runtime parameters).  `last` records the call that led *)
(* to the current state and how it ended, `recency` the non-pinned keys in *)
(* the order in which they were last used.                                 *)
(***************************************************************************)
EXTENDS FlexibleCache, FiniteSetsExt

CONSTANTS
    Limits,        \* the values that the three limits can be set to
    RoomRequests   \* the sizes that makeRoomAsMuchAsPossible is asked for

VARIABLES cache, last, recency

vars == <<cache, last, recency>>

\* The order of use after a call that uses the key in `used`, if any.
Recency(used) ==
    LET Other(k)  == \A i \in DOMAIN used : k # used[i]
        Stored(k) == ContainsNonPinned(cache', k)
    IN  SelectSeq(SelectSeq(recency, Other) \o used, Stored)

Call(op, used, result) ==
    /\ cache' = result.cache
    /\ last' = [op |-> op, status |-> result.status]
    /\ recency' = Recency(used)

Ok(c) == [cache |-> c, status |-> "ok"]

Init ==
    /\ \E n, s, e \in Limits : cache = EmptyCache(n, s, e)
    /\ last = [op |-> "construct", status |-> "ok"]
    /\ recency = <<>>

DoInsert ==
    \E k \in Key :
        LET r == Insert(cache, k)
        IN  Call("insert", IF r.status = "ok" THEN <<k>> ELSE <<>>, r)

DoInsertPinned ==
    \E k \in Key : Call("insertPinned", <<>>, InsertPinned(cache, k))

DoTouch == \E k \in Key : Contains(cache, k) /\ Call("get", <<k>>, Ok(Touch(cache, k)))

DoMakePinned ==
    \E k \in Key : Contains(cache, k)
                   /\ Call("makePinned", <<k>>, Ok(MakePinnedIfExists(cache, k)))

DoClearUnpinnedOnly == Call("clearUnpinnedOnly", <<>>, Ok(ClearUnpinnedOnly(cache)))

DoClearAll == Call("clearAll", <<>>, Ok(ClearAll(cache)))

DoMakeRoom ==
    \E s \in RoomRequests :
        Call("makeRoom", <<>>, Ok(MakeRoomAsMuchAsPossible(cache, s)))

DoSetMaxNumEntries ==
    \E n \in Limits : Call("setMaxNumEntries", <<>>, SetMaxNumEntries(cache, n))

DoSetMaxSize == \E s \in Limits : Call("setMaxSize", <<>>, SetMaxSize(cache, s))

DoSetMaxSizeSingleEntry ==
    \E s \in Limits :
        Call("setMaxSizeSingleEntry", <<>>, Ok(SetMaxSizeSingleEntry(cache, s)))

Next ==
    \/ DoInsert \/ DoInsertPinned \/ DoTouch \/ DoMakePinned
    \/ DoClearUnpinnedOnly \/ DoClearAll \/ DoMakeRoom
    \/ DoSetMaxNumEntries \/ DoSetMaxSize \/ DoSetMaxSizeSingleEntry

Spec == Init /\ [][Next]_vars

-----------------------------------------------------------------------------

SumOfSizes(S) == MapThenSumSet(LAMBDA k : Size[k], S)

NumEntries == Len(cache.entries) + Cardinality(cache.pinned)

PinnedOverflow == cache.sizePinned > cache.maxSize

\* Every member of the cache keeps its type: in particular no size counter
\* ever becomes negative.
TypeOK ==
    /\ cache \in [entries : Seq(Key), pinned : SUBSET Key,
                  sizeNonPinned : Nat, sizePinned : Nat,
                  maxNumEntries : Limits, maxSize : Limits,
                  maxSizeSingleEntry : Limits]
    /\ last.status \in Status

\* The incrementally maintained counters _totalSizePinned and
\* _totalSizeNonPinned agree with what pinnedSize() and nonPinnedSize()
\* recompute from the stored values, and no key is stored twice.
Accounting ==
    /\ TypeOK
    /\ cache.sizeNonPinned = SumOfSizes(NonPinnedKeys(cache))
    /\ cache.sizePinned = SumOfSizes(cache.pinned)
    /\ Cardinality(NonPinnedKeys(cache)) = Len(cache.entries)
    /\ NonPinnedKeys(cache) \cap cache.pinned = {}

SizeBound == cache.sizeNonPinned + cache.sizePinned <= cache.maxSize

NumEntriesBound ==
    \/ NumEntries <= cache.maxNumEntries + (IF \E k \in Key : Size[k] = 0 THEN 1 ELSE 0)
    \/ Len(cache.entries) <= 1

\* After every call the cache respects its limits, whatever limit was just
\* lowered, unless the pinned entries alone already exceed _maxSize: the stored
\* values fit into it, and the number of entries exceeds _maxNumEntries by at
\* most one, and only because an empty value asked makeRoomIfFits for no room.
\* A single non-pinned entry may sit on top of too many pinned ones.
LimitsRespected == PinnedOverflow \/ (SizeBound /\ NumEntriesBound)

\* Evicting is least-recently-used: whatever call made room, an entry only
\* goes when every entry that was used less recently goes too.
EvictionIsLRU ==
    [][ \A i, j \in DOMAIN recency :
           (i < j /\ ~ Contains(cache', recency[j]))
              => ~ Contains(cache', recency[i]) ]_vars

\* What the comments on `insert` promise (Cache.h:154-156): it throws iff the
\* key is already present; a value that does not fit is ignored.
InsertThrowsOnlyIfPresent ==
    last.op = "insert" => ~ Threw(last.status) \/ last.status = "already_present"

\* _maxNumEntries is the maximum number of entries (Cache.h:206) when the
\* pinned entries do not already use it up.
AtMostMaxNumEntries ==
    \/ NumEntries <= cache.maxNumEntries
    \/ Cardinality(cache.pinned) >= cache.maxNumEntries
    \/ PinnedOverflow

=============================================================================
