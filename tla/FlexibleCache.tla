--------------------------- MODULE FlexibleCache ---------------------------
(***************************************************************************)
(* ad_utility::FlexibleCache (src/src/util/Cache.h), the size-bounded LRU   *)
(* store below ConcurrentCache.  It is a plain object that its owner locks, *)
(* so every method is an operator from a cache to a cache.                  *)
(*                                                                         *)
(* A cache is a record with the members of the class:                      *)
(*   entries             _entries and _accessMap: the non-pinned keys, the *)
(*                       one that `removeOneEntry` pops next at the front; *)
(*   pinned              the keys of _pinnedMap;                           *)
(*   sizeNonPinned       _totalSizeNonPinned, maintained incrementally;    *)
(*   sizePinned          _totalSizePinned, maintained incrementally;       *)
(*   maxNumEntries, maxSize, maxSizeSingleEntry    the three limits.       *)
(* Scores are access times, so the order of `entries` is the order of the  *)
(* last accesses.  Equal keys have equal values, so a value is its key and *)
(* Size[key] is what the ValueSizeGetter says of it.                       *)
(*                                                                         *)
(* A method that may throw returns [cache, status]; the cache is the one   *)
(* that the exception leaves behind.  The method `erase` is left out:       *)
(* nothing calls it, and the class template is never instantiated with it. *)
(***************************************************************************)
EXTENDS Naturals, FiniteSets, Sequences

CONSTANTS
    Key,        \* the cache keys
    Size        \* Size[k]: the size of the value that belongs to k

\* The ValueSizeGetter yields a MemorySize, which is never negative.
ASSUME SizeAssumption == Size \in [Key -> Nat]

Caches ==
    [entries : Seq(Key), pinned : SUBSET Key,
     sizeNonPinned : Nat, sizePinned : Nat,
     maxNumEntries : Nat, maxSize : Nat, maxSizeSingleEntry : Nat]

\* What a throwing method ends with.  MemorySize::operator- throws an
\* underflow_error instead of wrapping around.
Status == {"ok", "ignored", "already_present", "too_big", "underflow"}

Threw(status) == status \in {"already_present", "too_big", "underflow"}

EmptyCache(maxNumEntries, maxSize, maxSizeSingleEntry) ==
    [entries |-> <<>>, pinned |-> {}, sizeNonPinned |-> 0, sizePinned |-> 0,
     maxNumEntries |-> maxNumEntries, maxSize |-> maxSize,
     maxSizeSingleEntry |-> maxSizeSingleEntry]

-----------------------------------------------------------------------------

NonPinnedKeys(c) == {c.entries[i] : i \in DOMAIN c.entries}

ContainsNonPinned(c, k) == k \in NonPinnedKeys(c) /\ k \notin c.pinned

Contains(c, k) == k \in c.pinned \/ ContainsNonPinned(c, k)

\* Assignments to the non-pinned and to the pinned part of the cache.
SetNonPinned(c, entries, size) == [c EXCEPT !.entries = entries, !.sizeNonPinned = size]

SetPinned(c, keys, size) == [c EXCEPT !.pinned = keys, !.sizePinned = size]

\* Taking the entry of k out of the priority queue, which holds it once.
WithoutKey(s, k) ==
    LET i == CHOOSE i \in DOMAIN s : s[i] = k
    IN  SubSeq(s, 1, i - 1) \o SubSeq(s, i + 1, Len(s))

\* Mutant: a lookup does not count as a use.
TouchNothing(c, k) == c

\* operator[]: a lookup moves a non-pinned entry to the back of the queue.
Touch(c, k) ==
    IF k \notin c.pinned /\ k \in NonPinnedKeys(c)
    THEN SetNonPinned(c, Append(WithoutKey(c.entries, k), k), c.sizeNonPinned)
    ELSE c

\* The summed size of the first n entries.
SizeOfFirst(s, n) ==
    LET sum[i \in 0..n] == IF i = 0 THEN 0 ELSE sum[i - 1] + Size[s[i]]
    IN  sum[n]

\* The cache after n calls of `removeOneEntry`.
RemoveEntries(c, n) ==
    SetNonPinned(c, SubSeq(c.entries, n + 1, Len(c.entries)),
                    c.sizeNonPinned - SizeOfFirst(c.entries, n))

\* while (!_entries.empty() && Over(cache)) { removeOneEntry(); }
RemoveWhile(c, Over(_)) ==
    LET n == CHOOSE n \in 0 .. Len(c.entries) :
                /\ n = Len(c.entries) \/ ~ Over(RemoveEntries(c, n))
                /\ \A m \in 0 .. n - 1 : Over(RemoveEntries(c, m))
    IN  RemoveEntries(c, n)

\* Mutant: the loop looks at the non-pinned entries only.
MakeRoomIgnoringPinned(c, size) ==
    LET Over(d) == d.sizeNonPinned + size > d.maxSize
    IN  IF c.maxSize < c.sizePinned
        THEN [cache |-> c, status |-> "underflow"]
        ELSE IF c.maxSize - c.sizePinned < size
             THEN [cache |-> c, status |-> "ignored"]
             ELSE [cache |-> RemoveWhile(c, Over), status |-> "ok"]

\* A size of zero means "only shrink back", also when the caller is about to
\* insert an element whose size happens to be zero.
MakeRoomIfFits(c, size) ==
    LET needToAddNewElement == IF size # 0 THEN 1 ELSE 0
        Over(d) ==
            \/ Len(d.entries) + Cardinality(d.pinned) + needToAddNewElement
                 > d.maxNumEntries
            \/ d.sizeNonPinned + d.sizePinned + size > d.maxSize
    IN  IF c.maxSize < c.sizePinned
        THEN [cache |-> c, status |-> "underflow"]
        ELSE IF c.maxSize - c.sizePinned < size
             THEN [cache |-> c, status |-> "ignored"]
             ELSE [cache |-> RemoveWhile(c, Over), status |-> "ok"]

-----------------------------------------------------------------------------

Insert(c, k) ==
    LET room == MakeRoomIfFits(c, Size[k])
    IN  IF Contains(c, k) THEN [cache |-> c, status |-> "already_present"]
        ELSE IF Size[k] > c.maxSizeSingleEntry
             THEN [cache |-> c, status |-> "ignored"]
        ELSE IF room.status = "ok"
             THEN [cache |-> SetNonPinned(room.cache, Append(room.cache.entries, k),
                                       room.cache.sizeNonPinned + Size[k]),
                   status |-> "ok"]
        ELSE room

\* The answer of `makeRoomIfFits` is not looked at: a pinned entry that does
\* not fit is stored nevertheless.
InsertPinned(c, k) ==
    LET room == MakeRoomIfFits(c, Size[k])
    IN  IF Contains(c, k) THEN [cache |-> c, status |-> "already_present"]
        ELSE IF Size[k] > c.maxSizeSingleEntry
             THEN [cache |-> c, status |-> "too_big"]
        ELSE IF room.status = "underflow" THEN room
        ELSE [cache |-> SetPinned(room.cache, c.pinned \cup {k}, c.sizePinned + Size[k]),
              status |-> "ok"]

\* containsAndMakePinnedIfExists: no eviction, the entry only changes sides.
MakePinnedIfExists(c, k) ==
    IF k \in c.pinned \/ k \notin NonPinnedKeys(c) THEN c
    ELSE SetPinned(
            SetNonPinned(c, WithoutKey(c.entries, k), c.sizeNonPinned - Size[k]),
            c.pinned \cup {k}, c.sizePinned + Size[k])

\* Mutant: the counter is not reset.
ClearWithoutReset(c) == SetNonPinned(c, <<>>, c.sizeNonPinned)

ClearUnpinnedOnly(c) == SetNonPinned(c, <<>>, 0)

ClearAll(c) == SetPinned(SetNonPinned(c, <<>>, 0), {}, 0)

MakeRoomAsMuchAsPossible(c, size) ==
    LET Over(d) == d.sizeNonPinned > c.sizeNonPinned - size
    IN  IF size > c.sizeNonPinned
        THEN ClearUnpinnedOnly(c)
        ELSE RemoveWhile(c, Over)

SetLimits(c, n, size, single) ==
    [c EXCEPT !.maxNumEntries = n, !.maxSize = size, !.maxSizeSingleEntry = single]

\* The setters assign the new limit before `makeRoomIfFits` may throw.
SetMaxNumEntries(c, n) ==
    MakeRoomIfFits(SetLimits(c, n, c.maxSize, c.maxSizeSingleEntry), 0)

SetMaxSize(c, size) ==
    MakeRoomIfFits(SetLimits(c, c.maxNumEntries, size, c.maxSizeSingleEntry), 0)

SetMaxSizeSingleEntry(c, size) ==
    SetLimits(c, c.maxNumEntries, c.maxSize, size)

=============================================================================
