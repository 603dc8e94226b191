------------------------ MODULE ConcurrentCacheProof ------------------------
(***************************************************************************)
(* The invariants of ConcurrentCache hold for any number of threads, keys,  *)
(* ResultInProgress objects and any limits.  They rest on facts about the  *)
(* operators of FlexibleCache, for every cache: which keys a call may add  *)
(* or remove, and what happens to the pinned ones.                         *)
(***************************************************************************)
EXTENDS ConcurrentCache, WellFoundedInduction, TLAPS

\* The type of a cache, whatever its counters and limits are drawn from.
CacheType(V) ==
    [entries : Seq(Key), pinned : SUBSET Key, sizeNonPinned : V, sizePinned : V,
     maxNumEntries : V, maxSize : V, maxSizeSingleEntry : V]

\* c has the members of the class, and stores keys.
IsCache(c) == \E V : c \in CacheType(V)

\* A set of natural numbers up to n that contains n has a least element.
LEMMA LeastElement ==
    ASSUME NEW n \in Nat, NEW S \in SUBSET (0 .. n), n \in S
    PROVE  \E m \in S : \A i \in 0 .. m - 1 : i \notin S
<1> DEFINE R == {p \in Nat \X Nat : p[1] < p[2]}
<1>1. S \subseteq Nat /\ S # {}
  OBVIOUS
<1>w. IsWellFoundedOn(R, Nat)
  BY Zenon, NatLessThanWellFounded DEF OpToRel
<1> HIDE DEF R
<1>2. PICK m \in S : \A y \in S : ~ (<<y, m>> \in R)
  BY Zenon, <1>1, <1>w, WFMin
<1>3. ASSUME NEW i \in 0 .. m - 1, i \in S PROVE FALSE
  <2>1. i \in Nat /\ m \in Nat /\ i < m
    BY <1>1, <1>3
  <2>2. <<i, m>> \in R
    BY Zenon, <2>1 DEF R
  <2>. QED  BY Zenon, <1>2, <1>3, <2>2
<1>. QED  BY Zenon, <1>2, <1>3

\* Assigning to the non-pinned part of a cache.
LEMMA SetNonPinnedCache ==
    ASSUME NEW c, IsCache(c), NEW e \in Seq(Key), NEW x
    PROVE  /\ IsCache(SetNonPinned(c, e, x))
           /\ SetNonPinned(c, e, x).entries = e
           /\ SetNonPinned(c, e, x).pinned = c.pinned
<1> DEFINE d == SetNonPinned(c, e, x)
<1>1. PICK V : c \in CacheType(V)
  BY Zenon DEF IsCache
<1>2. d \in CacheType(V \cup {x}) /\ d.entries = e /\ d.pinned = c.pinned
  BY Zenon, <1>1 DEF CacheType, SetNonPinned
<1>. QED  BY Zenon, <1>2 DEF IsCache

\* Assigning to the pinned part of a cache.
LEMMA SetPinnedCache ==
    ASSUME NEW c, IsCache(c), NEW p \in SUBSET Key, NEW y
    PROVE  /\ IsCache(SetPinned(c, p, y))
           /\ SetPinned(c, p, y).entries = c.entries
           /\ SetPinned(c, p, y).pinned = p
<1> DEFINE d == SetPinned(c, p, y)
<1>1. PICK V : c \in CacheType(V)
  BY Zenon DEF IsCache
<1>2. d \in CacheType(V \cup {y}) /\ d.entries = c.entries /\ d.pinned = p
  BY Zenon, <1>1 DEF CacheType, SetPinned
<1>. QED  BY Zenon, <1>2 DEF IsCache

\* Assigning to the limits of a cache.
LEMMA SetLimitsCache ==
    ASSUME NEW c, IsCache(c), NEW x, NEW y, NEW z
    PROVE  /\ IsCache(SetLimits(c, x, y, z))
           /\ SetLimits(c, x, y, z).entries = c.entries
           /\ SetLimits(c, x, y, z).pinned = c.pinned
<1> DEFINE d == SetLimits(c, x, y, z)
<1>1. PICK V : c \in CacheType(V)
  BY Zenon DEF IsCache
<1>2. d \in CacheType(V \cup {x, y, z}) /\ d.entries = c.entries /\ d.pinned = c.pinned
  BY Zenon, <1>1 DEF CacheType, SetLimits
<1>. QED  BY Zenon, <1>2 DEF IsCache

-----------------------------------------------------------------------------
(* What eviction does.                                                      *)

\* d arose from c by evicting: nothing pinned is touched, nothing is added.
IsEvictionOf(d, c) ==
    /\ IsCache(d)
    /\ d.pinned = c.pinned
    /\ NonPinnedKeys(d) \subseteq NonPinnedKeys(c)

\* removeOneEntry, called n times, only evicts.
LEMMA RemoveEntriesEvicts ==
    ASSUME NEW c, IsCache(c), NEW n \in 0 .. Len(c.entries)
    PROVE  IsEvictionOf(RemoveEntries(c, n), c)
<1> DEFINE d == RemoveEntries(c, n)
<1> DEFINE e == SubSeq(c.entries, n + 1, Len(c.entries))
<1>1. c.entries \in Seq(Key) /\ Len(c.entries) \in Nat
  BY DEF IsCache, CacheType
<1>2. /\ e \in Seq(Key)
      /\ Len(e) = Len(c.entries) - n
      /\ \A i \in 1 .. Len(e) : e[i] = c.entries[n + i]
  BY <1>1
<1>3. IsCache(d) /\ d.entries = e /\ d.pinned = c.pinned
  <2> DEFINE x == c.sizeNonPinned - SizeOfFirst(c.entries, n)
  <2>1. d = SetNonPinned(c, e, x)
    BY Zenon DEF RemoveEntries
  <2> HIDE DEF d, e, x
  <2>. QED  BY <1>2, <2>1, SetNonPinnedCache
<1>4. {e[i] : i \in DOMAIN e} \subseteq {c.entries[i] : i \in DOMAIN c.entries}
  BY <1>1, <1>2
<1>. QED  BY Zenon, <1>3, <1>4 DEF IsEvictionOf, NonPinnedKeys

\* makeRoomIfFits only evicts, and says how it went.
LEMMA MakeRoomIfFitsEvicts ==
    ASSUME NEW c, IsCache(c), NEW size
    PROVE  /\ IsEvictionOf(MakeRoomIfFits(c, size).cache, c)
           /\ MakeRoomIfFits(c, size).status \in {"ok", "ignored", "underflow"}
<1> DEFINE need == IF size # 0 THEN 1 ELSE 0
           Over(d) == \/ Len(d.entries) + Cardinality(d.pinned) + need > d.maxNumEntries
                      \/ d.sizeNonPinned + d.sizePinned + size > d.maxSize
           N == Len(c.entries)
           Stop(n) == n = N \/ ~ Over(RemoveEntries(c, n))
           S == {n \in 0 .. N : Stop(n)}
           n0 == CHOOSE n \in 0 .. N : Stop(n) /\ \A m \in 0 .. n - 1 : Over(RemoveEntries(c, m))
<1>1. N \in Nat
  BY DEF IsCache, CacheType
<1>2. n0 \in 0 .. N
  <2>1. N \in S /\ S \in SUBSET (0 .. N)
    BY <1>1
  <2>2. PICK m \in S : \A i \in 0 .. m - 1 : i \notin S
    <3> HIDE DEF S
    <3>. QED  BY Zenon, <1>1, <2>1, LeastElement
  <2>3. m \in 0 .. N /\ Stop(m)
    BY Zenon, <2>2
  <2>4. \A i \in 0 .. m - 1 : Over(RemoveEntries(c, i))
    BY <1>1, <2>2, <2>3
  <2> HIDE DEF Over, Stop
  <2>. QED  BY Zenon, <2>3, <2>4
<1>3. RemoveWhile(c, Over) = RemoveEntries(c, n0)
  BY Zenon DEF RemoveWhile
<1>4. IsEvictionOf(RemoveWhile(c, Over), c)
  <2> HIDE DEF n0
  <2>. QED  BY Zenon, <1>2, <1>3, RemoveEntriesEvicts
<1>5. IsEvictionOf(c, c)
  BY Zenon DEF IsEvictionOf
<1>6. \/ MakeRoomIfFits(c, size) = [cache |-> c, status |-> "underflow"]
      \/ MakeRoomIfFits(c, size) = [cache |-> c, status |-> "ignored"]
      \/ MakeRoomIfFits(c, size) = [cache |-> RemoveWhile(c, Over), status |-> "ok"]
  BY Zenon DEF MakeRoomIfFits
<1> HIDE DEF Over
<1>. QED  BY <1>4, <1>5, <1>6

\* clearUnpinnedOnly evicts everything that is not pinned.
LEMMA ClearUnpinnedOnlyEvicts ==
    ASSUME NEW c, IsCache(c)
    PROVE  IsEvictionOf(ClearUnpinnedOnly(c), c) /\ NonPinnedKeys(ClearUnpinnedOnly(c)) = {}
<1> DEFINE d == ClearUnpinnedOnly(c)
<1>1. IsCache(d) /\ d.entries = <<>> /\ d.pinned = c.pinned
  <2> DEFINE e == <<>>
             x == 0
  <2>1. e \in Seq(Key) /\ d = SetNonPinned(c, e, x)
    BY DEF ClearUnpinnedOnly
  <2>2. IsCache(d) /\ d.entries = e /\ d.pinned = c.pinned
    <3> HIDE DEF d, e, x
    <3>. QED  BY <2>1, SetNonPinnedCache
  <2>. QED  BY Zenon, <2>2
<1>2. NonPinnedKeys(d) = {}
  BY <1>1 DEF NonPinnedKeys
<1>. QED  BY Zenon, <1>1, <1>2 DEF IsEvictionOf

\* makeRoomAsMuchAsPossible only evicts.
LEMMA MakeRoomAsMuchAsPossibleEvicts ==
    ASSUME NEW c, IsCache(c), NEW size
    PROVE  IsEvictionOf(MakeRoomAsMuchAsPossible(c, size), c)
<1> DEFINE Over(d) == d.sizeNonPinned > c.sizeNonPinned - size
           N == Len(c.entries)
           Stop(n) == n = N \/ ~ Over(RemoveEntries(c, n))
           S == {n \in 0 .. N : Stop(n)}
           n0 == CHOOSE n \in 0 .. N : Stop(n) /\ \A m \in 0 .. n - 1 : Over(RemoveEntries(c, m))
<1>1. N \in Nat
  BY DEF IsCache, CacheType
<1>2. n0 \in 0 .. N
  <2>1. N \in S /\ S \in SUBSET (0 .. N)
    BY <1>1
  <2>2. PICK m \in S : \A i \in 0 .. m - 1 : i \notin S
    <3> HIDE DEF S
    <3>. QED  BY Zenon, <1>1, <2>1, LeastElement
  <2>3. m \in 0 .. N /\ Stop(m)
    BY Zenon, <2>2
  <2>4. \A i \in 0 .. m - 1 : Over(RemoveEntries(c, i))
    BY <1>1, <2>2, <2>3
  <2> HIDE DEF Over, Stop
  <2>. QED  BY Zenon, <2>3, <2>4
<1>3. RemoveWhile(c, Over) = RemoveEntries(c, n0)
  BY Zenon DEF RemoveWhile
<1>4. IsEvictionOf(RemoveWhile(c, Over), c)
  <2> HIDE DEF n0
  <2>. QED  BY Zenon, <1>2, <1>3, RemoveEntriesEvicts
<1>5. IsEvictionOf(ClearUnpinnedOnly(c), c)
  BY Zenon, ClearUnpinnedOnlyEvicts
<1>6. \/ MakeRoomAsMuchAsPossible(c, size) = ClearUnpinnedOnly(c)
      \/ MakeRoomAsMuchAsPossible(c, size) = RemoveWhile(c, Over)
  BY Zenon DEF MakeRoomAsMuchAsPossible
<1> HIDE DEF Over
<1>. QED  BY Zenon, <1>4, <1>5, <1>6

-----------------------------------------------------------------------------
(* What the other calls do to the stored keys.                              *)

AllKeys(c) == c.pinned \cup NonPinnedKeys(c)

\* `contains` looks into both maps.
LEMMA ContainsIsAllKeys ==
    ASSUME NEW c, NEW k
    PROVE  Contains(c, k) <=> k \in AllKeys(c)
  BY Zenon DEF Contains, ContainsNonPinned, AllKeys

\* Taking a key out of the priority queue leaves only keys that were in it.
LEMMA WithoutKeyShrinks ==
    ASSUME NEW s \in Seq(Key), NEW k, \E i \in DOMAIN s : s[i] = k
    PROVE  /\ WithoutKey(s, k) \in Seq(Key)
           /\ \A i \in DOMAIN WithoutKey(s, k) : \E j \in DOMAIN s : WithoutKey(s, k)[i] = s[j]
<1> DEFINE p == CHOOSE i \in DOMAIN s : s[i] = k
           u == SubSeq(s, 1, p - 1)
           v == SubSeq(s, p + 1, Len(s))
<1>1. p \in 1 .. Len(s) /\ Len(s) \in Nat
  OBVIOUS
<1>2. WithoutKey(s, k) = u \o v
  BY Zenon DEF WithoutKey
<1> HIDE DEF p
<1>3. /\ u \in Seq(Key) /\ Len(u) = p - 1 /\ \A i \in 1 .. Len(u) : u[i] = s[i]
      /\ v \in Seq(Key) /\ Len(v) = Len(s) - p /\ \A i \in 1 .. Len(v) : v[i] = s[p + i]
  BY <1>1
<1> HIDE DEF u, v
<1>4. u \o v \in Seq(Key) /\ DOMAIN (u \o v) = 1 .. Len(u) + Len(v)
  BY <1>3
<1>5. ASSUME NEW i \in 1 .. Len(u) + Len(v) PROVE \E j \in 1 .. Len(s) : (u \o v)[i] = s[j]
  <2>1. CASE i <= Len(u)
    BY <1>1, <1>3, <2>1
  <2>2. CASE i > Len(u)
    <3>0. i - Len(u) \in 1 .. Len(v)
      BY <1>1, <1>3, <2>2
    <3>1. (u \o v)[i] = v[i - Len(u)] /\ i - Len(u) \in 1 .. Len(v)
      BY SMTT(30), <1>3, <2>2, <3>0
    <3>2. v[i - Len(u)] = s[p + (i - Len(u))] /\ p + (i - Len(u)) \in 1 .. Len(s)
      BY <1>1, <1>3, <3>1
    <3>. QED  BY Zenon, <3>1, <3>2
  <2>. QED  BY <1>1, <1>3, <2>1, <2>2
<1>6. DOMAIN s = 1 .. Len(s)
  OBVIOUS
<1>. QED  BY Zenon, <1>2, <1>4, <1>5, <1>6

\* Appending adds one key.
LEMMA AppendKeys ==
    ASSUME NEW s \in Seq(Key), NEW k \in Key
    PROVE  /\ Append(s, k) \in Seq(Key)
           /\ \A i \in DOMAIN Append(s, k) :
                 Append(s, k)[i] = k \/ \E j \in DOMAIN s : Append(s, k)[i] = s[j]
  OBVIOUS

\* insert leaves the pinned entries alone and adds at most its key.
LEMMA InsertKeys ==
    ASSUME NEW c, IsCache(c), NEW k \in Key
    PROVE  /\ IsCache(Insert(c, k).cache)
           /\ Insert(c, k).cache.pinned = c.pinned
           /\ AllKeys(Insert(c, k).cache) \subseteq AllKeys(c) \cup {k}
           /\ Insert(c, k).status \in Status
           /\ Insert(c, k).status = "already_present" <=> Contains(c, k)
<1> DEFINE room == MakeRoomIfFits(c, Size[k])
           r == room.cache
           e == Append(r.entries, k)
           x == r.sizeNonPinned + Size[k]
           d == SetNonPinned(r, e, x)
<1>1. IsEvictionOf(r, c) /\ room.status \in {"ok", "ignored", "underflow"}
  BY Zenon, MakeRoomIfFitsEvicts
<1>2. IsCache(r) /\ r.entries \in Seq(Key)
  BY Zenon, <1>1 DEF IsEvictionOf, IsCache, CacheType
<1>3. /\ Insert(c, k) \in {[cache |-> c, status |-> "already_present"],
                           [cache |-> c, status |-> "ignored"],
                           [cache |-> d, status |-> "ok"], room}
      /\ Insert(c, k).status = "already_present" <=> Contains(c, k)
  BY Zenon, <1>1 DEF Insert
<1> HIDE DEF room, r
<1>4. /\ e \in Seq(Key)
      /\ \A i \in DOMAIN e : e[i] = k \/ \E j \in DOMAIN r.entries : e[i] = r.entries[j]
  BY Zenon, <1>2, AppendKeys
<1> HIDE DEF e, x
<1>5. IsCache(d) /\ d.entries = e /\ d.pinned = r.pinned
  BY <1>2, <1>4, SetNonPinnedCache
<1> HIDE DEF d
<1>6. AllKeys(d) \subseteq AllKeys(r) \cup {k}
  BY <1>4, <1>5 DEF AllKeys, NonPinnedKeys
<1>7. AllKeys(r) \subseteq AllKeys(c) /\ r.pinned = c.pinned
  BY Zenon, <1>1 DEF AllKeys, IsEvictionOf
<1>. QED  BY <1>1, <1>2, <1>3, <1>5, <1>6, <1>7 DEF Status, r

\* insertPinned keeps what is pinned, pins its key unless it throws, and adds
\* nothing else.
LEMMA InsertPinnedKeys ==
    ASSUME NEW c, IsCache(c), NEW k \in Key
    PROVE  /\ IsCache(InsertPinned(c, k).cache)
           /\ c.pinned \subseteq InsertPinned(c, k).cache.pinned
           /\ AllKeys(InsertPinned(c, k).cache) \subseteq AllKeys(c) \cup {k}
           /\ InsertPinned(c, k).status \in Status
           /\ ~ Threw(InsertPinned(c, k).status) => k \in InsertPinned(c, k).cache.pinned
           /\ InsertPinned(c, k).status = "already_present" <=> Contains(c, k)
<1> DEFINE room == MakeRoomIfFits(c, Size[k])
           r == room.cache
           q == c.pinned \cup {k}
           y == c.sizePinned + Size[k]
           d == SetPinned(r, q, y)
<1>1. IsEvictionOf(r, c) /\ room.status \in {"ok", "ignored", "underflow"}
  BY Zenon, MakeRoomIfFitsEvicts
<1>2. IsCache(r) /\ q \in SUBSET Key
  BY Zenon, <1>1 DEF IsEvictionOf, IsCache, CacheType
<1>3. /\ \/ InsertPinned(c, k) = [cache |-> c, status |-> "already_present"]
         \/ InsertPinned(c, k) = [cache |-> c, status |-> "too_big"]
         \/ InsertPinned(c, k) = room /\ room.status = "underflow"
         \/ InsertPinned(c, k) = [cache |-> d, status |-> "ok"]
      /\ InsertPinned(c, k).status = "already_present" <=> Contains(c, k)
  BY Zenon, <1>1 DEF InsertPinned
<1> HIDE DEF room, r, y
<1>4. IsCache(d) /\ d.entries = r.entries /\ d.pinned = q
  BY <1>2, SetPinnedCache
<1> HIDE DEF d
<1>5. AllKeys(d) \subseteq AllKeys(c) \cup {k}
  BY Zenon, <1>1, <1>4 DEF AllKeys, NonPinnedKeys, IsEvictionOf
<1>6. AllKeys(r) \subseteq AllKeys(c) /\ r.pinned = c.pinned
  BY Zenon, <1>1 DEF AllKeys, IsEvictionOf
<1>. QED  BY <1>1, <1>2, <1>3, <1>4, <1>5, <1>6 DEF Status, Threw, r

\* containsAndMakePinnedIfExists pins a key that is stored and adds none.
LEMMA MakePinnedKeys ==
    ASSUME NEW c, IsCache(c), NEW k \in Key
    PROVE  /\ IsCache(MakePinnedIfExists(c, k))
           /\ c.pinned \subseteq MakePinnedIfExists(c, k).pinned
           /\ AllKeys(MakePinnedIfExists(c, k)) \subseteq AllKeys(c)
           /\ Contains(c, k) => k \in MakePinnedIfExists(c, k).pinned
<1>1. CASE k \in c.pinned \/ k \notin NonPinnedKeys(c)
  BY Zenon, <1>1 DEF MakePinnedIfExists, Contains, ContainsNonPinned
<1>2. CASE k \notin c.pinned /\ k \in NonPinnedKeys(c)
  <2> DEFINE e == WithoutKey(c.entries, k)
             x == c.sizeNonPinned - Size[k]
             y == c.sizePinned + Size[k]
             q == c.pinned \cup {k}
             f == SetNonPinned(c, e, x)
             d == SetPinned(f, q, y)
  <2>1. MakePinnedIfExists(c, k) = d
    BY Zenon, <1>2 DEF MakePinnedIfExists
  <2>2. c.entries \in Seq(Key) /\ q \in SUBSET Key
    BY Zenon DEF IsCache, CacheType
  <2>3. /\ e \in Seq(Key)
        /\ \A i \in DOMAIN e : \E j \in DOMAIN c.entries : e[i] = c.entries[j]
    BY <1>2, <2>2, WithoutKeyShrinks DEF NonPinnedKeys
  <2> HIDE DEF e, x, y
  <2>4. IsCache(f) /\ f.entries = e /\ f.pinned = c.pinned
    BY <2>3, SetNonPinnedCache
  <2> HIDE DEF f
  <2>5. IsCache(d) /\ d.entries = e /\ d.pinned = q
    BY <2>2, <2>4, SetPinnedCache
  <2> HIDE DEF d
  <2>6. AllKeys(d) \subseteq AllKeys(c)
    BY <1>2, <2>3, <2>5 DEF AllKeys, NonPinnedKeys
  <2>. QED  BY Zenon, <2>1, <2>5, <2>6
<1>. QED  BY Zenon, <1>1, <1>2

\* A lookup only reorders the entries.
LEMMA TouchKeys ==
    ASSUME NEW c, IsCache(c), NEW k \in Key
    PROVE  /\ IsCache(Touch(c, k))
           /\ Touch(c, k).pinned = c.pinned
           /\ AllKeys(Touch(c, k)) \subseteq AllKeys(c)
<1>1. CASE ~ (k \notin c.pinned /\ k \in NonPinnedKeys(c))
  BY Zenon, <1>1 DEF Touch
<1>2. CASE k \notin c.pinned /\ k \in NonPinnedKeys(c)
  <2> DEFINE w == WithoutKey(c.entries, k)
             e == Append(w, k)
             x == c.sizeNonPinned
             d == SetNonPinned(c, e, x)
  <2>1. Touch(c, k) = d
    BY Zenon, <1>2 DEF Touch
  <2>2. c.entries \in Seq(Key)
    BY Zenon DEF IsCache, CacheType
  <2>3. /\ w \in Seq(Key)
        /\ \A i \in DOMAIN w : \E j \in DOMAIN c.entries : w[i] = c.entries[j]
    BY <1>2, <2>2, WithoutKeyShrinks DEF NonPinnedKeys
  <2> HIDE DEF w, x
  <2>4. /\ e \in Seq(Key)
        /\ \A i \in DOMAIN e : e[i] = k \/ \E j \in DOMAIN w : e[i] = w[j]
    BY Zenon, <2>3, AppendKeys
  <2> HIDE DEF e
  <2>5. IsCache(d) /\ d.entries = e /\ d.pinned = c.pinned
    BY <2>4, SetNonPinnedCache
  <2> HIDE DEF d
  <2>6. AllKeys(d) \subseteq AllKeys(c)
    BY <1>2, <2>3, <2>4, <2>5 DEF AllKeys, NonPinnedKeys
  <2>. QED  BY Zenon, <2>1, <2>5, <2>6
<1>. QED  BY Zenon, <1>1, <1>2

\* clearAll leaves no key.
LEMMA ClearAllKeys ==
    ASSUME NEW c, IsCache(c)
    PROVE  IsCache(ClearAll(c)) /\ AllKeys(ClearAll(c)) = {}
<1> DEFINE f == ClearUnpinnedOnly(c)
           z == 0
           q == {}
           d == SetPinned(f, q, z)
<1>1. ClearAll(c) = d
  BY Zenon DEF ClearAll, ClearUnpinnedOnly
<1>2. IsCache(f) /\ NonPinnedKeys(f) = {}
  BY Zenon, ClearUnpinnedOnlyEvicts DEF IsEvictionOf
<1>3. q \in SUBSET Key
  OBVIOUS
<1> HIDE DEF f, q, z
<1>4. IsCache(d) /\ d.entries = f.entries /\ d.pinned = q
  BY <1>2, <1>3, SetPinnedCache
<1> HIDE DEF d
<1>. QED  BY Zenon, <1>1, <1>2, <1>4 DEF AllKeys, NonPinnedKeys, q

\* The setters of the limits only evict.
LEMMA SettersEvict ==
    ASSUME NEW c, IsCache(c), NEW v
    PROVE  /\ IsEvictionOf(SetMaxNumEntries(c, v).cache, c)
           /\ IsEvictionOf(SetMaxSize(c, v).cache, c)
           /\ IsEvictionOf(SetMaxSizeSingleEntry(c, v), c)
<1>1. ASSUME NEW x, NEW y, NEW z
      PROVE  /\ IsEvictionOf(SetLimits(c, x, y, z), c)
             /\ IsEvictionOf(MakeRoomIfFits(SetLimits(c, x, y, z), 0).cache, c)
  <2> DEFINE d == SetLimits(c, x, y, z)
  <2>1. IsCache(d) /\ d.entries = c.entries /\ d.pinned = c.pinned
    BY SetLimitsCache
  <2> HIDE DEF d
  <2>2. IsEvictionOf(MakeRoomIfFits(d, 0).cache, d)
    BY Zenon, <2>1, MakeRoomIfFitsEvicts
  <2>. QED  BY Zenon, <2>1, <2>2 DEF IsEvictionOf, NonPinnedKeys, d
<1>. QED  BY Zenon, <1>1 DEF SetMaxNumEntries, SetMaxSize, SetMaxSizeSingleEntry

-----------------------------------------------------------------------------

\* The inductive invariant.
IInv ==
    /\ IsCache(cache)
    /\ TypeOK
    /\ OwnRegistration
    /\ NoOrphanedWaiter
    /\ NoLeakedRegistration
    /\ PinRequestsKept
    /\ PinnedAfterCall

-----------------------------------------------------------------------------
(* What a step does to the cache: pinned entries stay, except in clearAll.  *)

LEMMA EvictionCache ==
    ASSUME NEW c, NEW d, IsCache(c), IsEvictionOf(d, c)
    PROVE  IsCache(d) /\ d.pinned = c.pinned
BY Zenon DEF IsEvictionOf

\* tryInsertIfNotPresent keeps pinned entries, and pins if it is asked to and
\* does not throw.
LEMMA TryInsertKeys ==
    ASSUME IsCache(cache), NEW pin \in BOOLEAN, NEW k \in Key
    PROVE  LET ins == TryInsertIfNotPresent(pin, k) IN
           /\ IsCache(ins.cache)
           /\ cache.pinned \subseteq ins.cache.pinned
           /\ AllKeys(ins.cache) \subseteq AllKeys(cache) \cup {k}
           /\ ins.status \in Status
           /\ pin /\ ~ Threw(ins.status) => k \in ins.cache.pinned
<1>1. CASE pin /\ Contains(cache, k)
  BY Zenon, <1>1, MakePinnedKeys DEF TryInsertIfNotPresent, Status
<1>2. CASE pin /\ ~ Contains(cache, k)
  BY Zenon, <1>2, InsertPinnedKeys DEF TryInsertIfNotPresent
<1>3. CASE ~ pin /\ Contains(cache, k)
  BY Zenon, <1>3 DEF TryInsertIfNotPresent, Status
<1>4. CASE ~ pin /\ ~ Contains(cache, k)
  BY Zenon, <1>4, InsertKeys DEF TryInsertIfNotPresent
<1>. QED  BY Zenon, <1>1, <1>2, <1>3, <1>4

-----------------------------------------------------------------------------
(* Steps that do not touch the protocol of the computations in progress.    *)

\* Only the call of thread t goes on.
OnlyMoves(t) ==
    \A u \in Thread \ {t} :
        /\ pc'[u] = pc[u] /\ key'[u] = key[u] /\ pinned'[u] = pinned[u]
        /\ handle'[u] = handle[u] /\ outcome'[u] = outcome[u]

\* A thread that neither computes nor waits afterwards, and did not compute
\* before, disturbs nobody, as long as it leaves pinned entries alone.
LEMMA NeutralStep ==
    ASSUME IInv, TypeOK', IsCache(cache'), cache.pinned \subseteq cache'.pinned,
           NEW t \in Thread, OnlyMoves(t),
           pc[t] \notin Owning, pc'[t] \notin Owning \cup {"waiting"},
           UNCHANGED <<inProgress, pinRequested, ripStatus>>,
           wiped \ {t} \subseteq wiped',
           pinned'[t] => pc'[t] \notin {"lazy", "private"},
           (pc'[t] = "done" /\ pinned'[t] /\ outcome'[t] = "value" /\ t \notin wiped')
               => key'[t] \in cache'.pinned
    PROVE  IInv'
<1> USE DEF OnlyMoves, Owning
<1>1. OwnRegistration'
  BY DEF IInv, OwnRegistration
<1>2. NoOrphanedWaiter'
  BY DEF IInv, NoOrphanedWaiter
<1>3. NoLeakedRegistration'
  BY DEF IInv, NoLeakedRegistration
<1>4. PinRequestsKept'
  BY DEF PinRequestsKept, IInv
<1>5. PinnedAfterCall'
  BY Zenon DEF IInv, PinnedAfterCall
<1>. QED  BY Zenon, <1>1, <1>2, <1>3, <1>4, <1>5 DEF IInv

\* Calls that only change the cache disturb nobody either.
LEMMA EnvironmentStep ==
    ASSUME IInv, Environment
    PROVE  IInv'
<1>1. ASSUME NEW d, IsCache(d), cache.pinned \subseteq d.pinned, OnCache(d), wiped' = wiped
      PROVE  IInv'
  <2>1. IsCache(cache') /\ cache.pinned \subseteq cache'.pinned
    BY Zenon, <1>1 DEF OnCache
  <2>2. UNCHANGED <<inProgress, pinRequested, ripStatus, callVars, wiped>>
    BY Zenon, <1>1 DEF OnCache
  <2>3. TypeOK'
    BY Zenon, <2>1, <2>2 DEF IInv, TypeOK, IsCache, CacheType, callVars
  <2>. QED
    BY <2>1, <2>2, <2>3
    DEF IInv, OwnRegistration, NoOrphanedWaiter, NoLeakedRegistration,
        PinRequestsKept, PinnedAfterCall, callVars
<1>2. IsCache(cache)
  BY Zenon DEF IInv
<1>3. CASE DoClearUnpinnedOnly
  BY Zenon, <1>1, <1>2, <1>3, ClearUnpinnedOnlyEvicts DEF DoClearUnpinnedOnly, IsEvictionOf
<1>4. CASE DoMakeRoom
  BY Zenon, <1>1, <1>2, <1>4, MakeRoomAsMuchAsPossibleEvicts DEF DoMakeRoom, IsEvictionOf
<1>5. CASE GetIfContained
  BY Zenon, <1>1, <1>2, <1>5, TouchKeys DEF GetIfContained
<1>6. CASE DoSetMaxNumEntries
  BY Zenon, <1>1, <1>2, <1>6, SettersEvict DEF DoSetMaxNumEntries, IsEvictionOf
<1>7. CASE DoSetMaxSize
  BY Zenon, <1>1, <1>2, <1>7, SettersEvict DEF DoSetMaxSize, IsEvictionOf
<1>8. CASE DoSetMaxSizeSingleEntry
  BY Zenon, <1>1, <1>2, <1>8, SettersEvict DEF DoSetMaxSizeSingleEntry, IsEvictionOf
<1>9. CASE DoClearAll
  <2>1. IsCache(cache')
    BY Zenon, <1>2, <1>9, ClearAllKeys DEF DoClearAll, OnCache
  <2>2. /\ UNCHANGED <<inProgress, pinRequested, ripStatus, callVars>>
        /\ wiped' = {t \in Thread : pc[t] # "idle"}
    BY Zenon, <1>9 DEF DoClearAll, OnCache
  <2>3. TypeOK'
    BY Zenon, <2>1, <2>2 DEF IInv, TypeOK, IsCache, CacheType, callVars
  <2>4. \A t \in Thread : pc[t] # "idle" => t \in wiped'
    BY Zenon, <2>2
  <2>5. OwnRegistration' /\ NoOrphanedWaiter' /\ NoLeakedRegistration'
    BY <2>2 DEF IInv, OwnRegistration, NoOrphanedWaiter, NoLeakedRegistration, callVars
  <2>6. PinRequestsKept' /\ PinnedAfterCall'
    BY Zenon, <2>2, <2>4 DEF IInv, PinRequestsKept, PinnedAfterCall, callVars
  <2>. QED  BY Zenon, <2>1, <2>3, <2>5, <2>6 DEF IInv
<1>. QED  BY Zenon, <1>3, <1>4, <1>5, <1>6, <1>7, <1>8, <1>9 DEF Environment

-----------------------------------------------------------------------------
(* The beginning of a call, and the parts outside the protocol.             *)

LEMMA EnterMoves ==
    ASSUME TypeOK, NEW t \in Thread, NEW k, NEW pin, NEW r, NEW p, NEW o,
           Enter(t, k, pin, r, p, o)
    PROVE  /\ OnlyMoves(t)
           /\ pc[t] = "idle" /\ t \notin wiped
           /\ pc'[t] = p /\ key'[t] = k /\ pinned'[t] = pin
           /\ handle'[t] = r /\ outcome'[t] = o
BY Zenon DEF Enter, TypeOK, OnlyMoves

LEMMA EnterTypes ==
    ASSUME TypeOK, NEW t \in Thread, NEW k \in Key, NEW pin \in BOOLEAN,
           NEW r \in Rip \cup {NoRip}, NEW p \in Pc, NEW o \in Outcome,
           Enter(t, k, pin, r, p, o), UNCHANGED wiped,
           p \notin {"idle", "caught", "aborting"},
           p \in Owning \cup {"waiting"} <=> r \in Rip,
           IsCache(cache'),
           inProgress' \in [Key -> Rip \cup {NoRip}],
           pinRequested' \in [Key -> BOOLEAN],
           ripStatus' \in [Rip -> RipStatus]
    PROVE  TypeOK'
<1>1. cache'.entries \in Seq(Key) /\ cache'.pinned \in SUBSET Key
  BY Zenon DEF IsCache, CacheType
<1>2. /\ pc' \in [Thread -> Pc]
      /\ key' \in [Thread -> Key \cup {NoKey}]
      /\ pinned' \in [Thread -> BOOLEAN]
      /\ handle' \in [Thread -> Rip \cup {NoRip}]
      /\ outcome' \in [Thread -> Outcome]
      /\ wiped' \in SUBSET Thread
  BY Zenon DEF Enter, TypeOK
<1>3. ASSUME NEW u \in Thread
      PROVE  /\ pc'[u] # "idle" => key'[u] \in Key
             /\ pc'[u] = "idle" => u \notin wiped'
             /\ pc'[u] \in Owning \cup {"waiting"} <=> handle'[u] \in Rip
             /\ pc'[u] \in {"caught", "aborting"} => outcome'[u] # "value"
  BY EnterMoves DEF OnlyMoves, TypeOK
<1>. QED  BY Zenon, <1>1, <1>2, <1>3 DEF TypeOK

\* The same for a call that needs no ResultInProgress.
LEMMA EnterOutside ==
    ASSUME TypeOK, NEW t \in Thread, NEW k \in Key, NEW pin \in BOOLEAN,
           NEW p \in {"done", "private"}, NEW o \in {"value", "null", "none"},
           Enter(t, k, pin, NoRip, p, o), UNCHANGED wiped,
           IsCache(cache'),
           inProgress' \in [Key -> Rip \cup {NoRip}],
           pinRequested' \in [Key -> BOOLEAN],
           ripStatus' \in [Rip -> RipStatus]
    PROVE  TypeOK'
<1>1. p \in Pc /\ p \notin Owning \cup {"waiting"} /\ o \in Outcome
      /\ p \notin {"idle", "caught", "aborting"}
  BY Zenon DEF Pc, Owning, Outcome
<1>2. NoRip \in Rip \cup {NoRip} /\ NoRip \notin Rip
  BY Zenon, NullAssumption
<1>. QED  BY <1>1, <1>2, EnterTypes

LEMMA MapTypes ==
    ASSUME TypeOK
    PROVE  /\ inProgress \in [Key -> Rip \cup {NoRip}]
           /\ pinRequested \in [Key -> BOOLEAN]
           /\ ripStatus \in [Rip -> RipStatus]
BY Zenon DEF TypeOK

LEMMA LookupHitStep ==
    ASSUME IInv, NEW t \in Thread, NEW k \in Key, NEW pin \in BOOLEAN,
           LookupHit(t, k, pin)
    PROVE  IInv'
<1> DEFINE d == IF pin THEN MakePinnedIfExists(cache, k) ELSE cache
<1>0. IsCache(cache) /\ TypeOK
  BY Zenon DEF IInv
<1>1. IsCache(d) /\ cache.pinned \subseteq d.pinned /\ (pin => k \in d.pinned)
  BY Zenon, <1>0, MakePinnedKeys DEF LookupHit
<1>2. cache' = Touch(d, k)
  BY Zenon DEF LookupHit
<1> HIDE DEF d
<1>3. /\ IsCache(cache') /\ cache.pinned \subseteq cache'.pinned
      /\ pin => k \in cache'.pinned
  BY Zenon, <1>1, <1>2, TouchKeys
<1>4. Enter(t, k, pin, NoRip, "done", "value")
      /\ UNCHANGED <<inProgress, pinRequested, ripStatus, wiped>>
  BY Zenon DEF LookupHit
<1>5. TypeOK'
  BY Zenon, <1>0, <1>3, <1>4, MapTypes, EnterOutside
<1>. QED  BY <1>0, <1>3, <1>4, <1>5, EnterMoves, NeutralStep DEF Owning

LEMMA LookupMissStep ==
    ASSUME IInv, NEW t \in Thread, NEW k \in Key, LookupMiss(t, k)
    PROVE  IInv'
<1>0. IsCache(cache) /\ TypeOK
  BY Zenon DEF IInv
<1>1. Enter(t, k, FALSE, NoRip, "done", "null")
      /\ UNCHANGED <<cache, inProgress, pinRequested, ripStatus, wiped>>
  BY Zenon DEF LookupMiss, cacheVars
<1>2. TypeOK'
  BY Zenon, <1>0, <1>1, MapTypes, EnterOutside
<1>3. OnlyMoves(t) /\ pc[t] = "idle" /\ pc'[t] = "done" /\ ~ pinned'[t]
  BY Zenon, <1>0, <1>1, EnterMoves
<1>. QED  BY Zenon, <1>0, <1>1, <1>2, <1>3, NeutralStep DEF Owning

LEMMA ComputeButDontStoreStep ==
    ASSUME IInv, NEW t \in Thread, NEW k \in Key, ComputeButDontStore(t, k)
    PROVE  IInv'
<1>0. IsCache(cache) /\ TypeOK
  BY Zenon DEF IInv
<1>1. PICK p \in {"done", "private"}, o \in {"value", "none"} :
         Enter(t, k, FALSE, NoRip, p, o)
  BY Zenon DEF ComputeButDontStore
<1>2. /\ IsCache(cache') /\ cache.pinned \subseteq cache'.pinned
      /\ UNCHANGED <<inProgress, pinRequested, ripStatus, wiped>>
  BY Zenon, <1>0, TouchKeys DEF ComputeButDontStore
<1>3. TypeOK'
  BY Zenon, <1>0, <1>1, <1>2, MapTypes, EnterOutside
<1>. QED  BY Zenon, <1>0, <1>1, <1>2, <1>3, EnterMoves, NeutralStep DEF Owning

LEMMA MoveMoves ==
    ASSUME TypeOK, NEW t \in Thread, NEW p, NEW q, NEW o, NEW keep \in BOOLEAN,
           Move(t, p, q, o, keep)
    PROVE  /\ OnlyMoves(t)
           /\ pc[t] = p /\ pc'[t] = q /\ outcome'[t] = o
           /\ key' = key /\ pinned' = pinned
           /\ handle'[t] = IF keep THEN handle[t] ELSE NoRip
BY Zenon DEF Move, TypeOK, OnlyMoves

LEMMA MoveTypes ==
    ASSUME TypeOK, NEW t \in Thread, NEW p, NEW q \in Pc, NEW o \in Outcome,
           NEW keep \in BOOLEAN,
           Move(t, p, q, o, keep), UNCHANGED wiped, p # "idle", q # "idle",
           q \in Owning <=> keep, q # "waiting", keep => p \in Owning,
           q \in {"caught", "aborting"} => o # "value",
           IsCache(cache'),
           inProgress' \in [Key -> Rip \cup {NoRip}],
           pinRequested' \in [Key -> BOOLEAN],
           ripStatus' \in [Rip -> RipStatus]
    PROVE  TypeOK'
<1>1. cache'.entries \in Seq(Key) /\ cache'.pinned \in SUBSET Key
  BY Zenon DEF IsCache, CacheType
<1>2. /\ pc' \in [Thread -> Pc]
      /\ key' \in [Thread -> Key \cup {NoKey}]
      /\ pinned' \in [Thread -> BOOLEAN]
      /\ outcome' \in [Thread -> Outcome]
      /\ wiped' \in SUBSET Thread
  BY Zenon DEF Move, TypeOK
<1>3. handle' \in [Thread -> Rip \cup {NoRip}]
  BY Zenon DEF Move, TypeOK
<1>4. ASSUME NEW u \in Thread
      PROVE  /\ pc'[u] # "idle" => key'[u] \in Key
             /\ pc'[u] = "idle" => u \notin wiped'
             /\ pc'[u] \in Owning \cup {"waiting"} <=> handle'[u] \in Rip
             /\ pc'[u] \in {"caught", "aborting"} => outcome'[u] # "value"
  BY MoveMoves, NullAssumption DEF TypeOK, OnlyMoves
<1>. QED  BY Zenon, <1>1, <1>2, <1>3, <1>4 DEF TypeOK

\* A thread that gives up its handle and leaves the protocol, or is outside.
LEMMA MoveOutside ==
    ASSUME IInv, NEW t \in Thread,
           NEW p \in {"waiting", "fallback", "private", "lazy"},
           NEW q \in {"fallback", "lazy", "done"}, NEW o \in Outcome,
           Move(t, p, q, o, FALSE),
           IsCache(cache'), cache.pinned \subseteq cache'.pinned,
           UNCHANGED <<inProgress, pinRequested, ripStatus, wiped>>,
           pinned[t] => q # "lazy",
           q = "done" /\ pinned[t] /\ o = "value" /\ t \notin wiped
               => key[t] \in cache'.pinned
    PROVE  IInv'
<1>0. TypeOK
  BY Zenon DEF IInv
<1>1. p # "idle" /\ p \notin Owning /\ q \notin Owning \cup {"waiting", "idle"} /\ q \in Pc
  BY Zenon DEF Owning, Pc
<1>2. TypeOK'
  <2> DEFINE keep == FALSE
  <2>1. keep \in BOOLEAN /\ ~ keep /\ Move(t, p, q, o, keep)
    BY Zenon
  <2> HIDE DEF keep
  <2>. QED  BY Zenon, <1>0, <1>1, <2>1, MapTypes, MoveTypes
<1>3. /\ OnlyMoves(t)
      /\ pc[t] = p /\ pc'[t] = q /\ outcome'[t] = o
      /\ key' = key /\ pinned' = pinned
  BY Zenon, <1>0, MoveMoves
<1>. QED  BY Zenon, <1>1, <1>2, <1>3, NeutralStep

LEMMA GetResultStep ==
    ASSUME IInv, NEW t \in Thread, GetResult(t)
    PROVE  IInv'
<1>0. IsCache(cache) /\ UNCHANGED <<cache, inProgress, pinRequested, ripStatus, wiped>>
  BY Zenon DEF IInv, GetResult, cacheVars
<1>1. "value" \in Outcome /\ "waited" \in Outcome /\ "none" \in Outcome
  BY Zenon DEF Outcome
<1>2. CASE ripStatus[handle[t]] = "FINISHED" /\ Move(t, "waiting", "done", "value", FALSE)
  BY Zenon, <1>0, <1>1, <1>2, MoveOutside DEF IInv, PinRequestsKept, Move
<1>3. CASE Move(t, "waiting", "done", "waited", FALSE)
  BY Zenon, <1>0, <1>1, <1>3, MoveOutside
<1>4. CASE Move(t, "waiting", "fallback", "none", FALSE)
  BY Zenon, <1>0, <1>1, <1>4, MoveOutside
<1>. QED  BY Zenon, <1>2, <1>3, <1>4 DEF GetResult

LEMMA FallbackSuitableStep ==
    ASSUME IInv, NEW t \in Thread, FallbackSuitable(t)
    PROVE  IInv'
<1> DEFINE ins == TryInsertIfNotPresent(pinned[t], key[t])
           o == IF Threw(ins.status) THEN ins.status ELSE "value"
<1>0. IsCache(cache) /\ pinned[t] \in BOOLEAN /\ key[t] \in Key
  BY Zenon DEF IInv, TypeOK, FallbackSuitable
<1>1. /\ IsCache(ins.cache) /\ cache.pinned \subseteq ins.cache.pinned
      /\ ins.status \in Status
      /\ pinned[t] /\ ~ Threw(ins.status) => key[t] \in ins.cache.pinned
  BY Zenon, <1>0, TryInsertKeys
<1>2. /\ cache' = ins.cache /\ Move(t, "fallback", "done", o, FALSE)
      /\ UNCHANGED <<inProgress, pinRequested, ripStatus, wiped>>
  BY Zenon DEF FallbackSuitable
<1> HIDE DEF ins
<1>3. o \in Outcome /\ (o = "value" => ~ Threw(ins.status))
  BY Zenon, <1>1 DEF Outcome, Threw
<1> HIDE DEF o
<1>. QED  BY Zenon, <1>1, <1>2, <1>3, MoveOutside

LEMMA StoreConsumedStep ==
    ASSUME IInv, NEW t \in Thread, StoreConsumed(t)
    PROVE  IInv'
<1> DEFINE ins == TryInsertIfNotPresent(FALSE, key[t])
           o == IF Threw(ins.status) THEN ins.status ELSE "value"
<1>0. IsCache(cache) /\ key[t] \in Key /\ ~ pinned[t]
  BY Zenon DEF IInv, TypeOK, PinRequestsKept, StoreConsumed
<1>1. /\ IsCache(ins.cache) /\ cache.pinned \subseteq ins.cache.pinned
      /\ ins.status \in Status
  BY Zenon, <1>0, TryInsertKeys
<1>2. /\ cache' = ins.cache /\ Move(t, "lazy", "done", o, FALSE)
      /\ UNCHANGED <<inProgress, pinRequested, ripStatus, wiped>>
  BY Zenon DEF StoreConsumed
<1> HIDE DEF ins
<1>3. o \in Outcome
  BY Zenon, <1>1 DEF Outcome, Threw
<1> HIDE DEF o
<1>. QED  BY Zenon, <1>0, <1>1, <1>2, <1>3, MoveOutside

LEMMA OutsideSteps ==
    ASSUME IInv, NEW t \in Thread,
           \/ FallbackUnsuitable(t) \/ FallbackThrows(t)
           \/ PrivateComputation(t) \/ DropConsumed(t)
    PROVE  IInv'
<1>0. IsCache(cache) /\ UNCHANGED <<cache, inProgress, pinRequested, ripStatus, wiped>>
  BY Zenon DEF IInv, FallbackUnsuitable, FallbackThrows, PrivateComputation, DropConsumed, cacheVars
<1>1. "value" \in Outcome /\ "contract" \in Outcome /\ "fails" \in Outcome
  BY Zenon DEF Outcome
<1>2. CASE FallbackUnsuitable(t)
  BY Zenon, <1>0, <1>1, <1>2, MoveOutside DEF FallbackUnsuitable
<1>3. CASE FallbackThrows(t)
  BY Zenon, <1>0, <1>1, <1>3, MoveOutside DEF FallbackThrows
<1>4. CASE PrivateComputation(t)
  BY Zenon, <1>0, <1>1, <1>4, MoveOutside DEF PrivateComputation, IInv, PinRequestsKept, Move
<1>5. CASE DropConsumed(t)
  BY Zenon, <1>0, <1>1, <1>5, MoveOutside DEF DropConsumed, IInv, PinRequestsKept, Move
<1>. QED  BY Zenon, <1>2, <1>3, <1>4, <1>5

LEMMA ReturnStep ==
    ASSUME IInv, NEW t \in Thread, Return(t)
    PROVE  IInv'
<1>0. IsCache(cache) /\ TypeOK
  BY Zenon DEF IInv
<1>1. UNCHANGED <<cache, inProgress, pinRequested, ripStatus, handle>>
  BY Zenon DEF Return, cacheVars
<1>2. /\ OnlyMoves(t) /\ pc[t] = "done" /\ pc'[t] = "idle" /\ ~ pinned'[t]
      /\ wiped' = wiped \ {t}
  BY Zenon, <1>0 DEF Return, TypeOK, OnlyMoves
<1>3. /\ pc' \in [Thread -> Pc]
      /\ key' \in [Thread -> Key \cup {NoKey}]
      /\ pinned' \in [Thread -> BOOLEAN]
      /\ outcome' \in [Thread -> Outcome]
  BY Zenon, <1>0 DEF Return, TypeOK, Pc, Outcome
<1>4. ASSUME NEW u \in Thread
      PROVE  /\ pc'[u] # "idle" => key'[u] \in Key
             /\ pc'[u] = "idle" => u \notin wiped'
             /\ pc'[u] \in Owning \cup {"waiting"} <=> handle'[u] \in Rip
             /\ pc'[u] \in {"caught", "aborting"} => outcome'[u] # "value"
  BY Zenon, <1>0, <1>1, <1>2 DEF TypeOK, OnlyMoves, Owning
<1>5. TypeOK'
  BY Zenon, <1>0, <1>1, <1>2, <1>3, <1>4 DEF TypeOK
<1>. QED  BY Zenon, <1>0, <1>1, <1>2, <1>5, NeutralStep DEF Owning

-----------------------------------------------------------------------------
(* The protocol of the computations in progress.                            *)

\* A ResultInProgress that is still to be resolved belongs to one thread, and
\* everyone who waits for it wants the key of that thread.
LEMMA OneOwner ==
    ASSUME IInv, NEW t \in Thread, pc[t] \in Owning
    PROVE  /\ handle[t] \in Rip /\ ripStatus[handle[t]] = "IN_PROGRESS"
           /\ \A u \in Thread : pc[u] \in Owning /\ handle[u] = handle[t] => u = t
           /\ \A u \in Thread : pc[u] = "waiting" /\ handle[u] = handle[t] => key[u] = key[t]
<1>1. handle[t] \in Rip /\ ripStatus[handle[t]] = "IN_PROGRESS"
  BY Zenon DEF IInv, TypeOK, OwnRegistration
<1>2. ASSUME NEW u \in Thread, pc[u] \in Owning, handle[u] = handle[t] PROVE u = t
  BY Zenon, <1>2 DEF IInv, OwnRegistration
<1>3. ASSUME NEW u \in Thread, pc[u] = "waiting", handle[u] = handle[t] PROVE key[u] = key[t]
  BY Zenon, <1>1, <1>2, <1>3 DEF IInv, NoOrphanedWaiter
<1>. QED  BY Zenon, <1>1, <1>2, <1>3

\* computeFunction() or the insertion threw: nothing is resolved yet.
LEMMA CaughtStep ==
    ASSUME IInv, NEW t \in Thread, NEW o \in Outcome,
           Move(t, "computing", "caught", o, TRUE), o # "value",
           IsCache(cache'), cache.pinned \subseteq cache'.pinned,
           UNCHANGED <<inProgress, pinRequested, ripStatus, wiped>>
    PROVE  IInv'
<1>0. TypeOK
  BY Zenon DEF IInv
<1>1. /\ OnlyMoves(t) /\ pc[t] = "computing" /\ pc'[t] = "caught"
      /\ key' = key /\ pinned' = pinned
      /\ handle' = handle
  BY Zenon, <1>0, MoveMoves DEF Move
<1>2. TypeOK'
  <2> DEFINE keep == TRUE
             p == "computing"
             q == "caught"
  <2>1. /\ keep \in BOOLEAN /\ keep /\ Move(t, p, q, o, keep)
        /\ p \in Owning /\ q \in Owning /\ q \in Pc
        /\ p # "idle" /\ q # "idle" /\ q # "waiting"
    BY Zenon DEF Owning, Pc
  <2> HIDE DEF keep, p, q
  <2>. QED  BY Zenon, <1>0, <2>1, MapTypes, MoveTypes
<1> USE DEF OnlyMoves, Owning
<1>3. OwnRegistration'
  BY <1>1 DEF IInv, OwnRegistration
<1>4. NoOrphanedWaiter'
  BY <1>1 DEF IInv, NoOrphanedWaiter
<1>5. NoLeakedRegistration'
  BY <1>1 DEF IInv, NoLeakedRegistration
<1>6. PinRequestsKept'
  BY <1>1 DEF PinRequestsKept, IInv
<1>7. PinnedAfterCall'
  BY Zenon, <1>1 DEF IInv, PinnedAfterCall
<1>. QED  BY Zenon, <1>2, <1>3, <1>4, <1>5, <1>6, <1>7 DEF IInv

\* A thread removes the entry of its key from the map: with the result in the
\* cache, without a result, or because of an exception.
LEMMA UnregisterStep ==
    ASSUME IInv, NEW t \in Thread, NEW p \in {"computing", "caught"},
           NEW q \in {"finishing", "nulling", "aborting"}, NEW o \in Outcome,
           Move(t, p, q, o, TRUE), UnregisterKey(key[t]),
           IsCache(cache'), cache.pinned \subseteq cache'.pinned,
           UNCHANGED <<ripStatus, wiped>>,
           q = "finishing" /\ pinRequested[key[t]] => key[t] \in cache'.pinned,
           q = "nulling" => ~ pinned[t], q = "aborting" => o # "value"
    PROVE  IInv'
<1>0. TypeOK
  BY Zenon DEF IInv
<1>1. /\ OnlyMoves(t) /\ pc[t] = p /\ pc'[t] = q
      /\ key' = key /\ pinned' = pinned
      /\ handle' = handle /\ key[t] \in Key
  BY Zenon, <1>0, MoveMoves DEF Move, TypeOK
<1>2. /\ inProgress' \in [Key -> Rip \cup {NoRip}]
      /\ pinRequested' \in [Key -> BOOLEAN]
      /\ inProgress'[key[t]] = NoRip
      /\ \A k \in Key \ {key[t]} : /\ inProgress'[k] = inProgress[k]
                                   /\ pinRequested'[k] = pinRequested[k]
  BY Zenon, <1>0, <1>1 DEF UnregisterKey, TypeOK
<1>3. TypeOK'
  <2> DEFINE keep == TRUE
  <2>1. /\ keep \in BOOLEAN /\ keep /\ Move(t, p, q, o, keep)
        /\ p \in Owning /\ q \in Owning /\ q \in Pc
        /\ p # "idle" /\ q # "idle" /\ q # "waiting"
    BY Zenon DEF Owning, Pc
  <2> HIDE DEF keep
  <2>. QED  BY Zenon, <1>0, <1>2, <2>1, MapTypes, MoveTypes
<1>4. /\ pc[t] \in Owning /\ inProgress[key[t]] = handle[t]
      /\ handle[t] \in Rip
  BY Zenon, <1>1, OneOwner DEF Owning, IInv, OwnRegistration
<1>5. \A u \in Thread \ {t} : pc[u] \in {"computing", "caught"} => key[u] # key[t]
  BY <1>4, OneOwner DEF IInv, OwnRegistration, Owning
<1>6. OwnRegistration'
  BY <1>0, <1>1, <1>2, <1>4, <1>5 DEF OwnRegistration, IInv, OnlyMoves, Owning, TypeOK
<1>7. NoOrphanedWaiter'
  <2>1. \A u \in Thread : pc[u] \in Owning => pc'[u] \in Owning
    BY Zenon, <1>1 DEF OnlyMoves, Owning
  <2>2. \A u \in Thread : pc'[u] = "waiting" => pc[u] = "waiting"
    BY Zenon, <1>1 DEF OnlyMoves
  <2>. QED  BY Zenon, <1>1, <2>1, <2>2 DEF IInv, NoOrphanedWaiter
<1>8. NoLeakedRegistration'
  <2> SUFFICES ASSUME NEW k \in Key, inProgress'[k] # NoRip
               PROVE  \E u \in Thread : /\ pc'[u] \in {"computing", "caught"}
                                        /\ key'[u] = k /\ handle'[u] = inProgress'[k]
    BY Zenon DEF NoLeakedRegistration
  <2>1. k # key[t] /\ inProgress'[k] = inProgress[k]
    BY Zenon, <1>2
  <2>2. PICK u \in Thread : /\ pc[u] \in {"computing", "caught"}
                            /\ key[u] = k /\ handle[u] = inProgress[k]
    BY Zenon, <2>1 DEF IInv, NoLeakedRegistration
  <2>. QED  BY Zenon, <1>1, <2>1, <2>2 DEF OnlyMoves
<1>9. PinRequestsKept'
  <2> SUFFICES ASSUME NEW u \in Thread, pinned'[u]
               PROVE  PinRequestsKept!(u)'
    BY Zenon DEF PinRequestsKept
  <2>1. CASE u = t
    <3>1. pinRequested[key[t]]
      BY Zenon, <1>1, <2>1 DEF IInv, PinRequestsKept
    <3>. QED  BY Zenon, <1>1, <2>1, <3>1
  <2>2. CASE u # t /\ pc[u] # "waiting"
    <3>1. pc[u] \in {"computing", "caught"} => pinRequested'[key[u]]
      BY Zenon, <1>0, <1>1, <1>2, <1>5, <2>2 DEF IInv, PinRequestsKept, TypeOK
    <3>. QED  BY Zenon, <1>1, <2>2, <3>1 DEF IInv, PinRequestsKept, OnlyMoves
  <2>3. CASE u # t /\ pc[u] = "waiting"
    <3>1. key[u] \in Key /\ pc'[u] = "waiting" /\ pinned[u]
      BY Zenon, <1>0, <1>1, <2>3 DEF TypeOK, OnlyMoves
    <3>2. ASSUME NEW v \in Thread, handle[v] = handle[u], pc'[v] \in {"computing", "caught"}
          PROVE  pinRequested'[key[u]]
      <4>1. v # t /\ pc[v] \in {"computing", "caught"}
        BY Zenon, <1>1, <3>2 DEF OnlyMoves
      <4>2. pinRequested[key[u]]
        BY Zenon, <2>3, <3>1, <3>2, <4>1 DEF IInv, PinRequestsKept
      <4>3. key[u] = key[v]
        BY Zenon, <2>3, <3>2, <4>1, OneOwner DEF Owning
      <4>. QED  BY Zenon, <1>2, <1>5, <3>1, <4>1, <4>2, <4>3
    <3>3. ASSUME u \notin wiped,
                 \/ ripStatus[handle[u]] = "FINISHED"
                 \/ \E v \in Thread : handle[v] = handle[u] /\ pc'[v] = "finishing"
          PROVE  key[u] \in cache'.pinned
      <4>1. CASE handle[u] = handle[t]
        <5>1. key[u] = key[t] /\ ripStatus[handle[u]] = "IN_PROGRESS"
          BY Zenon, <1>4, <2>3, <4>1, OneOwner
        <5>2. PICK v \in Thread : handle[v] = handle[u] /\ pc'[v] = "finishing"
          BY Zenon, <3>3, <5>1
        <5>3. v = t
          <6>1. v # t => pc[v] = "finishing" /\ "finishing" \in Owning
            BY Zenon, <1>1, <5>2 DEF OnlyMoves, Owning
          <6>. QED  BY Zenon, <1>4, <4>1, <5>2, <6>1, OneOwner
        <5>4. pinRequested[key[u]]
          BY Zenon, <1>1, <2>3, <3>1, <4>1 DEF IInv, PinRequestsKept
        <5>. QED  BY Zenon, <1>1, <5>1, <5>2, <5>3, <5>4
      <4>2. CASE handle[u] # handle[t]
        <5>1. \/ ripStatus[handle[u]] = "FINISHED"
              \/ \E v \in Thread : handle[v] = handle[u] /\ pc[v] = "finishing"
          BY Zenon, <1>1, <3>3, <4>2 DEF OnlyMoves
        <5>. QED  BY Zenon, <2>3, <3>1, <3>3, <5>1 DEF IInv, PinRequestsKept
      <4>. QED  BY Zenon, <4>1, <4>2
    <3>. QED  BY Zenon, <1>1, <3>1, <3>2, <3>3
  <2>. QED  BY Zenon, <2>1, <2>2, <2>3
<1>10. PinnedAfterCall'
  BY Zenon, <1>1 DEF IInv, PinnedAfterCall, OnlyMoves, Move
<1>. QED  BY Zenon, <1>3, <1>6, <1>7, <1>8, <1>9, <1>10 DEF IInv

\* finish(result), finish(nullptr) and abort(): the owner lets go.
LEMMA ResolveStep ==
    ASSUME IInv, NEW t \in Thread, NEW p \in {"finishing", "nulling", "aborting"},
           NEW q \in {"done", "lazy"}, NEW o \in Outcome,
           NEW status \in {"FINISHED", "NULL", "ABORTED"},
           Move(t, p, q, o, FALSE), SetRip(handle[t], status),
           UNCHANGED <<cache, inProgress, pinRequested, wiped>>,
           status = "FINISHED" => p = "finishing",
           pinned[t] => q # "lazy" /\ (o = "value" => p = "finishing")
    PROVE  IInv'
<1>0. TypeOK /\ IsCache(cache')
  BY Zenon DEF IInv
<1>1. pc[t] \in Owning
  BY Zenon, <1>0, MoveMoves DEF Owning
<1>2. /\ OnlyMoves(t) /\ pc[t] = p /\ pc'[t] = q /\ outcome'[t] = o
      /\ key' = key /\ pinned' = pinned
  BY Zenon, <1>0, MoveMoves
<1>3. /\ ripStatus' \in [Rip -> RipStatus]
      /\ ripStatus'[handle[t]] = status
      /\ \A r \in Rip \ {handle[t]} : ripStatus'[r] = ripStatus[r]
  BY Zenon, <1>0, <1>1, OneOwner DEF SetRip, TypeOK, RipStatus
<1>4. TypeOK'
  <2> DEFINE keep == FALSE
  <2>1. /\ keep \in BOOLEAN /\ ~ keep /\ Move(t, p, q, o, keep)
        /\ q \notin Owning /\ q \in Pc
        /\ p # "idle" /\ q # "idle" /\ q # "waiting"
    BY Zenon DEF Owning, Pc
  <2> HIDE DEF keep
  <2>. QED  BY Zenon, <1>0, <1>3, <2>1, MapTypes, MoveTypes
<1>5. \A u \in Thread \ {t} : pc[u] \in Owning \cup {"waiting"} => handle[u] \in Rip
  BY Zenon, <1>0 DEF TypeOK
<1>6. OwnRegistration'
  <2> SUFFICES ASSUME NEW u \in Thread, u # t PROVE OwnRegistration!(u)'
    BY Zenon, <1>2 DEF OwnRegistration, Owning
  <2>1. pc[u] \in Owning => ripStatus'[handle[u]] = ripStatus[handle[u]]
    BY Zenon, <1>1, <1>3, <1>5, OneOwner
  <2>2. pc'[u] = pc[u] /\ key'[u] = key[u] /\ handle'[u] = handle[u]
    BY Zenon, <1>2 DEF OnlyMoves
  <2>3. \A v \in Thread \ {u} : pc'[v] \in Owning => pc[v] \in Owning /\ handle'[v] = handle[v]
    BY Zenon, <1>2 DEF OnlyMoves, Owning
  <2>4. OwnRegistration!(u)
    BY Zenon DEF IInv, OwnRegistration
  <2>5. pc[u] \in {"computing", "caught"} => pc[u] \in Owning
    BY Zenon DEF Owning
  <2>. QED  BY Zenon, <2>1, <2>2, <2>3, <2>4, <2>5
<1>7. NoOrphanedWaiter'
  <2> SUFFICES ASSUME NEW u \in Thread, pc'[u] = "waiting", ripStatus'[handle'[u]] = "IN_PROGRESS"
               PROVE  \E v \in Thread : /\ pc'[v] \in Owning
                                        /\ handle'[v] = handle'[u] /\ key'[v] = key'[u]
    BY Zenon DEF NoOrphanedWaiter
  <2>1. u # t /\ pc[u] = "waiting" /\ handle'[u] = handle[u] /\ handle[u] # handle[t]
    BY Zenon, <1>2, <1>3 DEF OnlyMoves
  <2>2. ripStatus[handle[u]] = "IN_PROGRESS"
    BY Zenon, <1>3, <1>5, <2>1
  <2>3. PICK v \in Thread : pc[v] \in Owning /\ handle[v] = handle[u] /\ key[v] = key[u]
    BY Zenon, <2>1, <2>2 DEF IInv, NoOrphanedWaiter
  <2>. QED  BY Zenon, <1>2, <2>1, <2>3 DEF OnlyMoves
<1>8. NoLeakedRegistration'
  <2> SUFFICES ASSUME NEW j \in Key, inProgress'[j] # NoRip
               PROVE  \E u \in Thread : /\ pc'[u] \in {"computing", "caught"}
                                        /\ key'[u] = j /\ handle'[u] = inProgress'[j]
    BY Zenon DEF NoLeakedRegistration
  <2>1. inProgress'[j] = inProgress[j] /\ inProgress[j] # NoRip
    BY Zenon
  <2>2. PICK u \in Thread : /\ pc[u] \in {"computing", "caught"}
                            /\ key[u] = j /\ handle[u] = inProgress[j]
    BY Zenon, <2>1 DEF IInv, NoLeakedRegistration
  <2>3. u # t
    BY Zenon, <1>2, <2>2
  <2>4. pc'[u] = pc[u] /\ key'[u] = key[u] /\ handle'[u] = handle[u]
    BY Zenon, <1>2, <2>3 DEF OnlyMoves
  <2>. QED  BY Zenon, <2>1, <2>2, <2>4
<1>9. PinRequestsKept'
  <2> SUFFICES ASSUME NEW u \in Thread, pinned'[u]
               PROVE  PinRequestsKept!(u)'
    BY Zenon DEF PinRequestsKept
  <2>1. CASE u = t
    BY Zenon, <1>2, <2>1
  <2>2. CASE u # t /\ pc[u] # "waiting"
    BY Zenon, <1>2, <2>2 DEF IInv, PinRequestsKept, OnlyMoves
  <2>3. CASE u # t /\ pc[u] = "waiting"
    <3>1. /\ pc'[u] = "waiting" /\ pinned[u] /\ handle'[u] = handle[u] /\ handle[u] \in Rip
      BY Zenon, <1>2, <1>5, <2>3 DEF OnlyMoves
    <3>2. ASSUME NEW v \in Thread, handle'[v] = handle[u], pc'[v] \in {"computing", "caught"}
          PROVE  pinRequested'[key[u]]
      <4>1. handle[v] = handle[u] /\ pc[v] \in {"computing", "caught"}
        BY Zenon, <1>2, <3>2 DEF OnlyMoves
      <4>. QED  BY Zenon, <2>3, <3>1, <4>1 DEF IInv, PinRequestsKept
    <3>3. ASSUME u \notin wiped,
                 \/ ripStatus'[handle[u]] = "FINISHED"
                 \/ \E v \in Thread : handle'[v] = handle[u] /\ pc'[v] = "finishing"
          PROVE  key[u] \in cache'.pinned
      <4>1. \/ ripStatus[handle[u]] = "FINISHED"
            \/ \E v \in Thread : handle[v] = handle[u] /\ pc[v] = "finishing"
        <5>1. ASSUME NEW v \in Thread, handle'[v] = handle[u], pc'[v] = "finishing"
              PROVE  handle[v] = handle[u] /\ pc[v] = "finishing"
          BY Zenon, <1>2, <5>1 DEF OnlyMoves
        <5>2. ASSUME ripStatus'[handle[u]] = "FINISHED", ripStatus[handle[u]] # "FINISHED"
              PROVE  handle[t] = handle[u] /\ pc[t] = "finishing"
          BY Zenon, <1>2, <1>3, <3>1, <5>2
        <5>. QED  BY Zenon, <3>3, <5>1, <5>2
      <4>. QED  BY Zenon, <2>3, <3>1, <3>3, <4>1 DEF IInv, PinRequestsKept
    <3>. QED  BY Zenon, <1>2, <3>1, <3>2, <3>3
  <2>. QED  BY Zenon, <2>1, <2>2, <2>3
<1>10. PinnedAfterCall'
  BY Zenon, <1>2 DEF PinnedAfterCall, IInv, PinRequestsKept, OnlyMoves
<1>. QED  BY Zenon, <1>0, <1>4, <1>6, <1>7, <1>8, <1>9, <1>10 DEF IInv

LEMMA JoinComputationStep ==
    ASSUME IInv, NEW t \in Thread, NEW k \in Key, NEW pin \in BOOLEAN,
           JoinComputation(t, k, pin)
    PROVE  IInv'
<1> DEFINE r == inProgress[k]
<1>0. TypeOK /\ IsCache(cache') /\ UNCHANGED <<cache, inProgress, ripStatus, wiped>>
  BY Zenon DEF IInv, JoinComputation
<1>1. r \in Rip /\ Enter(t, k, pin, r, "waiting", "none")
  BY Zenon, <1>0 DEF JoinComputation, TypeOK
<1>2. /\ OnlyMoves(t) /\ pc[t] = "idle" /\ pc'[t] = "waiting" /\ key'[t] = k
      /\ pinned'[t] = pin /\ handle'[t] = r
  <2> DEFINE p == "waiting"
             o == "none"
  <2>1. Enter(t, k, pin, r, p, o) /\ p = "waiting"
    BY Zenon, <1>1
  <2> HIDE DEF p, o, r
  <2>2. /\ OnlyMoves(t) /\ pc[t] = "idle" /\ pc'[t] = p /\ key'[t] = k
        /\ pinned'[t] = pin /\ handle'[t] = r
    BY Zenon, <1>0, <2>1, EnterMoves
  <2>. QED  BY Zenon, <2>1, <2>2
<1>3. /\ pinRequested' \in [Key -> BOOLEAN]
      /\ pinRequested'[k] = (pinRequested[k] \/ pin)
      /\ \A j \in Key : pinRequested[j] => pinRequested'[j]
  BY Zenon, <1>0 DEF JoinComputation, TypeOK
<1>4. TypeOK'
  <2> DEFINE p == "waiting"
             o == "none"
  <2>1. /\ p \in Pc /\ o \in Outcome /\ p \notin {"idle", "caught", "aborting"} /\ p \in Owning \cup {"waiting"}
        /\ Enter(t, k, pin, r, p, o)
    BY Zenon, <1>1 DEF Pc, Outcome
  <2> HIDE DEF p, o
  <2>. QED  BY Zenon, <1>0, <1>1, <1>3, <2>1, MapTypes, EnterTypes
<1>5. PICK w \in Thread : pc[w] \in {"computing", "caught"} /\ key[w] = k /\ handle[w] = r
  BY Zenon, <1>1, NullAssumption DEF IInv, NoLeakedRegistration
<1> HIDE DEF r
<1>6. /\ w # t /\ pc[w] \in Owning /\ ripStatus[r] = "IN_PROGRESS"
      /\ \A u \in Thread : pc[u] \in Owning /\ handle[u] = r => u = w
  BY <1>2, <1>5, OneOwner DEF Owning
<1>7. OwnRegistration'
  <2> SUFFICES ASSUME NEW u \in Thread, u # t PROVE OwnRegistration!(u)'
    BY Zenon, <1>2 DEF OwnRegistration, Owning
  <2>1. pc'[u] = pc[u] /\ key'[u] = key[u] /\ handle'[u] = handle[u]
    BY Zenon, <1>2 DEF OnlyMoves
  <2>2. \A v \in Thread \ {u} : pc'[v] \in Owning => pc[v] \in Owning /\ handle'[v] = handle[v]
    BY Zenon, <1>2 DEF OnlyMoves, Owning
  <2>3. OwnRegistration!(u)
    BY Zenon DEF IInv, OwnRegistration
  <2>. QED  BY Zenon, <1>0, <2>1, <2>2, <2>3
<1>8. NoOrphanedWaiter'
  BY <1>0, <1>2, <1>5, <1>6 DEF NoOrphanedWaiter, OnlyMoves, IInv, Owning
<1>9. NoLeakedRegistration'
  BY <1>0, <1>2 DEF NoLeakedRegistration, IInv, OnlyMoves
<1>10. PinRequestsKept'
  BY <1>0, <1>2, <1>3, <1>5, <1>6 DEF PinRequestsKept, OnlyMoves, Owning, TypeOK, IInv
<1>11. PinnedAfterCall'
  BY Zenon, <1>0, <1>2 DEF IInv, PinnedAfterCall, OnlyMoves
<1>. QED  BY Zenon, <1>0, <1>4, <1>7, <1>8, <1>9, <1>10, <1>11 DEF IInv

LEMMA StartComputationStep ==
    ASSUME IInv, NEW t \in Thread, NEW k \in Key, NEW pin \in BOOLEAN,
           StartComputation(t, k, pin)
    PROVE  IInv'
<1>0. TypeOK /\ IsCache(cache') /\ UNCHANGED <<cache, wiped>> /\ inProgress[k] = NoRip
  BY Zenon DEF IInv, StartComputation
<1>1. PICK r \in Rip : /\ Unreferenced(r) /\ SetRip(r, "IN_PROGRESS")
                       /\ inProgress' = [inProgress EXCEPT ![k] = r]
                       /\ Enter(t, k, pin, r, "computing", "none")
  BY Zenon DEF StartComputation
<1>2. /\ OnlyMoves(t) /\ pc[t] = "idle" /\ pc'[t] = "computing" /\ key'[t] = k
      /\ pinned'[t] = pin /\ handle'[t] = r
  <2> DEFINE p == "computing"
             o == "none"
  <2>1. Enter(t, k, pin, r, p, o) /\ p = "computing"
    BY Zenon, <1>1
  <2> HIDE DEF p, o
  <2>2. /\ OnlyMoves(t) /\ pc[t] = "idle" /\ pc'[t] = p /\ key'[t] = k
        /\ pinned'[t] = pin /\ handle'[t] = r
    BY Zenon, <1>0, <2>1, EnterMoves
  <2>. QED  BY Zenon, <2>1, <2>2
<1>3. /\ inProgress' \in [Key -> Rip \cup {NoRip}]
      /\ pinRequested' \in [Key -> BOOLEAN]
      /\ ripStatus' \in [Rip -> RipStatus]
      /\ inProgress'[k] = r /\ pinRequested'[k] = pin /\ ripStatus'[r] = "IN_PROGRESS"
      /\ \A j \in Key \ {k} : /\ inProgress'[j] = inProgress[j]
                             /\ pinRequested'[j] = pinRequested[j]
      /\ \A x \in Rip \ {r} : ripStatus'[x] = ripStatus[x]
  BY Zenon, <1>0, <1>1, MapTypes DEF StartComputation, SetRip, RipStatus
<1>4. TypeOK'
  <2> DEFINE p == "computing"
             o == "none"
  <2>1. /\ p \in Pc /\ o \in Outcome /\ p \notin {"idle", "caught", "aborting"} /\ p \in Owning \cup {"waiting"}
        /\ Enter(t, k, pin, r, p, o)
    BY Zenon, <1>1 DEF Pc, Outcome, Owning
  <2> HIDE DEF p, o
  <2>. QED  BY <1>0, <1>1, <1>3, <2>1, EnterTypes
<1>5. /\ \A u \in Thread : handle[u] # r
      /\ \A u \in Thread : pc[u] \in Owning \cup {"waiting"} =>
            handle[u] \in Rip /\ ripStatus'[handle[u]] = ripStatus[handle[u]]
  BY Zenon, <1>0, <1>1, <1>3 DEF Unreferenced, TypeOK
<1>6. \A u \in Thread : pc[u] \in {"computing", "caught"} => key[u] \in Key \ {k}
  BY Zenon, <1>0, NullAssumption DEF TypeOK, IInv, OwnRegistration, Owning
<1>7. OwnRegistration'
  BY <1>2, <1>3, <1>5, <1>6 DEF OwnRegistration, OnlyMoves, IInv
<1>8. NoOrphanedWaiter'
  BY <1>2, <1>5 DEF NoOrphanedWaiter, OnlyMoves, IInv, Owning
<1>9. NoLeakedRegistration'
  BY <1>2, <1>3 DEF NoLeakedRegistration, IInv, OnlyMoves
<1>10. PinRequestsKept'
  <2> SUFFICES ASSUME NEW u \in Thread, pinned'[u]
               PROVE  PinRequestsKept!(u)'
    BY Zenon DEF PinRequestsKept
  <2>1. CASE u = t
    BY Zenon, <1>2, <1>3, <2>1
  <2>2. CASE u # t /\ pc[u] # "waiting"
    <3>1. pc[u] \in {"computing", "caught"} => pinRequested'[key[u]]
      BY Zenon, <1>2, <1>3, <1>6, <2>2 DEF IInv, PinRequestsKept, OnlyMoves
    <3>. QED  BY Zenon, <1>0, <1>2, <2>2, <3>1 DEF IInv, PinRequestsKept, OnlyMoves
  <2>3. CASE u # t /\ pc[u] = "waiting"
    <3>1. /\ pc'[u] = "waiting" /\ pinned[u] /\ handle'[u] = handle[u] /\ key'[u] = key[u]
          /\ handle[u] # r /\ ripStatus'[handle[u]] = ripStatus[handle[u]]
      BY Zenon, <1>2, <1>5, <2>3 DEF OnlyMoves
    <3>2. ASSUME NEW v \in Thread, handle'[v] = handle[u], pc'[v] \in {"computing", "caught"}
          PROVE  pinRequested'[key[u]]
      <4>1. v # t /\ pc[v] \in {"computing", "caught"} /\ handle[v] = handle[u]
        BY Zenon, <1>2, <3>1, <3>2 DEF OnlyMoves
      <4>2. pinRequested[key[u]] /\ key[u] = key[v]
        BY Zenon, <2>3, <3>1, <4>1, OneOwner DEF IInv, PinRequestsKept, Owning
      <4>. QED  BY Zenon, <1>3, <1>6, <4>1, <4>2
    <3>3. ASSUME u \notin wiped,
                 \/ ripStatus'[handle[u]] = "FINISHED"
                 \/ \E v \in Thread : handle'[v] = handle[u] /\ pc'[v] = "finishing"
          PROVE  key[u] \in cache.pinned
      <4>1. \/ ripStatus[handle[u]] = "FINISHED"
            \/ \E v \in Thread : handle[v] = handle[u] /\ pc[v] = "finishing"
        BY Zenon, <1>2, <3>1, <3>3 DEF OnlyMoves
      <4>. QED  BY Zenon, <2>3, <3>1, <3>3, <4>1 DEF IInv, PinRequestsKept
    <3>. QED  BY Zenon, <1>0, <3>1, <3>2, <3>3
  <2>. QED  BY Zenon, <2>1, <2>2, <2>3
<1>11. PinnedAfterCall'
  BY Zenon, <1>0, <1>2 DEF IInv, PinnedAfterCall, OnlyMoves
<1>. QED  BY Zenon, <1>0, <1>4, <1>7, <1>8, <1>9, <1>10, <1>11 DEF IInv

LEMMA MoveToCacheStep ==
    ASSUME IInv, NEW t \in Thread, MoveToCache(t)
    PROVE  IInv'
<1> DEFINE k == key[t]
           ins == IF pinRequested[k] THEN InsertPinned(cache, k) ELSE Insert(cache, k)
<1>0. IsCache(cache) /\ k \in Key /\ UNCHANGED <<ripStatus, wiped>> /\ cache' = ins.cache
  BY Zenon DEF IInv, TypeOK, MoveToCache
<1>1. /\ IsCache(ins.cache) /\ cache.pinned \subseteq ins.cache.pinned
      /\ ins.status \in Outcome /\ ins.status # "value"
      /\ pinRequested[k] /\ ~ Threw(ins.status) => k \in ins.cache.pinned
  <2>1. Status \subseteq Outcome /\ "value" \notin Status
    BY Zenon DEF Outcome, Status
  <2>2. /\ pinRequested[k] => ins = InsertPinned(cache, k)
        /\ ~ pinRequested[k] => ins = Insert(cache, k)
    BY Zenon
  <2> HIDE DEF ins, k
  <2>3. CASE pinRequested[k]
    <3> DEFINE i == InsertPinned(cache, k)
    <3>1. /\ IsCache(i.cache) /\ cache.pinned \subseteq i.cache.pinned
          /\ i.status \in Status
          /\ ~ Threw(i.status) => k \in i.cache.pinned
      BY Zenon, <1>0, InsertPinnedKeys
    <3>2. ins = i
      BY Zenon, <2>2, <2>3
    <3> HIDE DEF i
    <3>. QED  BY Zenon, <2>1, <3>1, <3>2
  <2>4. CASE ~ pinRequested[k]
    <3> DEFINE i == Insert(cache, k)
    <3>1. IsCache(i.cache) /\ i.cache.pinned = cache.pinned /\ i.status \in Status
      BY Zenon, <1>0, InsertKeys
    <3>2. ins = i
      BY Zenon, <2>2, <2>4
    <3> HIDE DEF i
    <3>. QED  BY Zenon, <2>1, <2>4, <3>1, <3>2
  <2>. QED  BY Zenon, <2>3, <2>4
<1>2. CASE Threw(ins.status)
  BY Zenon, <1>0, <1>1, <1>2, CaughtStep DEF MoveToCache
<1>3. CASE ~ Threw(ins.status)
  BY Zenon, <1>0, <1>1, <1>3, UnregisterStep DEF MoveToCache, Outcome
<1>. QED  BY Zenon, <1>2, <1>3

\* The other steps of a thread that computes.
LEMMA ComputingSteps ==
    ASSUME IInv, NEW t \in Thread,
           \/ GiveUpCaching(t) \/ ComputationThrows(t) \/ EraseInCatch(t)
           \/ Finish(t) \/ FinishNull(t) \/ Abort(t)
    PROVE  IInv'
<1>0. IsCache(cache) /\ UNCHANGED <<cache, wiped>> /\ outcome[t] \in Outcome
  BY Zenon DEF IInv, TypeOK, GiveUpCaching, ComputationThrows, EraseInCatch, Finish,
         FinishNull, Abort, cacheVars
<1>1. "value" \in Outcome /\ "contract" \in Outcome /\ "fails" \in Outcome
  BY Zenon DEF Outcome
<1>2. CASE GiveUpCaching(t)
  BY Zenon, <1>0, <1>1, <1>2, CaughtStep, UnregisterStep DEF GiveUpCaching
<1>3. CASE ComputationThrows(t)
  BY Zenon, <1>0, <1>1, <1>3, CaughtStep DEF ComputationThrows, cacheVars
<1>4. CASE EraseInCatch(t)
  BY Zenon, <1>0, <1>4, UnregisterStep DEF IInv, TypeOK, EraseInCatch, Move
<1>5. CASE Finish(t)
  BY Zenon, <1>0, <1>1, <1>5, ResolveStep DEF Finish, cacheVars
<1>6. CASE FinishNull(t)
  BY Zenon, <1>0, <1>1, <1>6, ResolveStep DEF IInv, PinRequestsKept, FinishNull, Move,
       cacheVars
<1>7. CASE Abort(t)
  BY Zenon, <1>0, <1>7, ResolveStep DEF IInv, TypeOK, Abort, Move, cacheVars
<1>. QED  BY Zenon, <1>2, <1>3, <1>4, <1>5, <1>6, <1>7

-----------------------------------------------------------------------------

LEMMA InitIInv == Init => IInv
<1> SUFFICES ASSUME Init PROVE IInv
  BY Zenon
<1>1. IsCache(cache) /\ cache.entries \in Seq(Key) /\ cache.pinned \in SUBSET Key
  <2>1. PICK n \in Limits, s \in Limits, e \in Limits : cache = EmptyCache(n, s, e)
    BY Zenon DEF Init
  <2>2. cache \in CacheType(Limits \cup {0})
    BY <2>1 DEF EmptyCache, CacheType
  <2>. QED  BY Zenon, <2>2 DEF IsCache, CacheType
<1>2. TypeOK
  BY Zenon, <1>1, NullAssumption DEF Init, TypeOK, Pc, Outcome, Owning, RipStatus
<1>. QED
  BY Zenon, <1>1, <1>2 DEF Init, IInv, OwnRegistration, NoOrphanedWaiter, NoLeakedRegistration,
                    PinRequestsKept, PinnedAfterCall, Owning

LEMMA NextIInv == IInv /\ [Next]_vars => IInv'
<1> SUFFICES ASSUME IInv, [Next]_vars PROVE IInv'
  BY Zenon
<1>1. CASE UNCHANGED vars
  <2> USE <1>1 DEF vars, cacheVars, callVars, IInv
  <2>1. IsCache(cache')
    BY Zenon
  <2>2. TypeOK'
    BY Zenon DEF TypeOK
  <2>3. OwnRegistration' /\ NoLeakedRegistration'
    BY ZenonT(60) DEF OwnRegistration, NoLeakedRegistration
  <2>4. NoOrphanedWaiter' /\ PinnedAfterCall'
    BY Zenon DEF NoOrphanedWaiter, PinnedAfterCall
  <2>5. PinRequestsKept'
    BY Zenon DEF PinRequestsKept
  <2>. QED  BY Zenon, <2>1, <2>2, <2>3, <2>4, <2>5
<1>2. ASSUME NEW t \in Thread, Call(t) PROVE IInv'
  BY Zenon, <1>2, ComputeButDontStoreStep, JoinComputationStep, LookupHitStep, LookupMissStep,
       StartComputationStep DEF Call
<1>3. ASSUME NEW t \in Thread, Step(t) PROVE IInv'
  BY Zenon, <1>3, MoveToCacheStep, ComputingSteps, GetResultStep, FallbackSuitableStep,
     StoreConsumedStep, OutsideSteps DEF Step
<1>. QED  BY Zenon, <1>1, <1>2, <1>3, ReturnStep, EnvironmentStep DEF Next

\* The type invariant.
THEOREM TypeCorrect == Spec => []TypeOK
<1>1. IInv => TypeOK
  BY Zenon DEF IInv
<1>. QED  BY <1>1, InitIInv, NextIInv, PTL DEF Spec

\* A computing thread resolves exactly its own ResultInProgress (the catch
\* clause of computeOnceImpl erases no foreign registration).
THEOREM RegistrationsAreOwn == Spec => []OwnRegistration
<1>1. IInv => OwnRegistration
  BY Zenon DEF IInv
<1>. QED  BY <1>1, InitIInv, NextIInv, PTL DEF Spec

\* Every waiting thread has someone who will wake it: nobody waits for a
\* ResultInProgress that no thread is going to finish or abort.
THEOREM WaitersAreServed == Spec => []NoOrphanedWaiter
<1>1. IInv => NoOrphanedWaiter
  BY Zenon DEF IInv
<1>. QED  BY <1>1, InitIInv, NextIInv, PTL DEF Spec

\* No key stays registered without a thread that computes it.
THEOREM RegistrationsEnd == Spec => []NoLeakedRegistration
<1>1. IInv => NoLeakedRegistration
  BY Zenon DEF IInv
<1>. QED  BY <1>1, InitIInv, NextIInv, PTL DEF Spec

\* A call of computeOncePinned that returns a value has pinned it, whoever
\* computed it.
THEOREM PinnedCallsPin == Spec => []PinnedAfterCall
<1>1. IInv => PinnedAfterCall
  BY Zenon DEF IInv
<1>. QED  BY <1>1, InitIInv, NextIInv, PTL DEF Spec

-----------------------------------------------------------------------------
(* Computed once: with results that are all suitable for the cache.         *)

\* The strengthening of ComputedOnce, next to IInv.
Once ==
    "unsuitable" \notin Outcomes =>
        /\ \A r \in Rip : ripStatus[r] # "NULL"
        /\ \A t \in Thread :
              /\ pc[t] \notin {"nulling", "lazy", "fallback"}
              /\ outcome[t] # "already_present"
              /\ pc[t] = "computing" => ~ Contains(cache, key[t])

\* Nothing enters the cache, and the thread t at most goes on somewhere else.
LEMMA OnceNeutral ==
    ASSUME Once, "unsuitable" \notin Outcomes, NEW t \in Thread, OnlyMoves(t),
           pc'[t] \notin {"nulling", "lazy", "fallback", "computing"},
           outcome'[t] # "already_present",
           AllKeys(cache') \subseteq AllKeys(cache), UNCHANGED ripStatus
    PROVE  Once'
<1>1. \A k : Contains(cache', k) => Contains(cache, k)
  BY Zenon, ContainsIsAllKeys
<1>. QED  BY Zenon, <1>1 DEF Once, OnlyMoves

LEMMA OnceEnvironment ==
    ASSUME IInv, Once, Environment PROVE Once'
<1>0. IsCache(cache)
  BY Zenon DEF IInv
<1>1. ASSUME NEW d, AllKeys(d) \subseteq AllKeys(cache), OnCache(d)
      PROVE  Once'
  BY Zenon, <1>1, ContainsIsAllKeys DEF OnCache, callVars, Once
<1>2. ASSUME NEW d, IsEvictionOf(d, cache), OnCache(d) PROVE Once'
  BY Zenon, <1>1, <1>2 DEF IsEvictionOf, AllKeys
<1>3. CASE DoClearUnpinnedOnly
  BY Zenon, <1>0, <1>2, <1>3, ClearUnpinnedOnlyEvicts DEF DoClearUnpinnedOnly
<1>4. CASE DoMakeRoom
  BY Zenon, <1>0, <1>2, <1>4, MakeRoomAsMuchAsPossibleEvicts DEF DoMakeRoom
<1>5. CASE GetIfContained
  BY Zenon, <1>0, <1>1, <1>5, TouchKeys DEF GetIfContained
<1>6. CASE DoSetMaxNumEntries \/ DoSetMaxSize \/ DoSetMaxSizeSingleEntry
  BY Zenon, <1>0, <1>2, <1>6, SettersEvict DEF DoSetMaxNumEntries, DoSetMaxSize, DoSetMaxSizeSingleEntry
<1>7. CASE DoClearAll
  BY Zenon, <1>0, <1>1, <1>7, ClearAllKeys DEF DoClearAll
<1>. QED  BY Zenon, <1>3, <1>4, <1>5, <1>6, <1>7 DEF Environment

LEMMA OnceCall ==
    ASSUME IInv, Once, "unsuitable" \notin Outcomes, NEW t \in Thread, Call(t)
    PROVE  Once'
<1>0. IsCache(cache) /\ TypeOK
  BY Zenon DEF IInv
<1>1. PICK k \in Key, pin \in BOOLEAN :
         \/ LookupHit(t, k, pin) \/ JoinComputation(t, k, pin) \/ StartComputation(t, k, pin)
         \/ LookupMiss(t, k) \/ ComputeButDontStore(t, k)
  BY Zenon DEF Call
<1>2. ASSUME NEW b, NEW r, NEW p \in {"done", "private", "waiting"},
             NEW o \in {"value", "null", "none"},
             Enter(t, k, b, r, p, o), AllKeys(cache') \subseteq AllKeys(cache),
             UNCHANGED ripStatus
      PROVE  Once'
  BY Zenon, <1>0, <1>2, EnterMoves, OnceNeutral
<1>3. CASE LookupHit(t, k, pin)
  <2> DEFINE d == IF pin THEN MakePinnedIfExists(cache, k) ELSE cache
  <2>1. IsCache(d) /\ AllKeys(d) \subseteq AllKeys(cache) /\ cache' = Touch(d, k)
    BY Zenon, <1>0, <1>3, MakePinnedKeys DEF LookupHit
  <2> HIDE DEF d
  <2>2. AllKeys(cache') \subseteq AllKeys(cache)
    BY Zenon, <2>1, TouchKeys
  <2>. QED  BY Zenon, <1>2, <1>3, <2>2 DEF LookupHit
<1>4. CASE JoinComputation(t, k, pin)
  BY Zenon, <1>2, <1>4 DEF JoinComputation
<1>5. CASE LookupMiss(t, k)
  BY Zenon, <1>2, <1>5 DEF LookupMiss, cacheVars
<1>6. CASE ComputeButDontStore(t, k)
  BY Zenon, <1>0, <1>2, <1>6, TouchKeys DEF ComputeButDontStore
<1>7. CASE StartComputation(t, k, pin)
  <2>1. PICK r \in Rip : SetRip(r, "IN_PROGRESS") /\ Enter(t, k, pin, r, "computing", "none")
    BY Zenon, <1>7 DEF StartComputation
  <2>2. OnlyMoves(t) /\ pc'[t] = "computing" /\ key'[t] = k /\ outcome'[t] = "none"
    BY Zenon, <1>0, <2>1, EnterMoves
  <2>3. \A x \in Rip : ripStatus'[x] # "NULL"
    BY Zenon, <1>0, <2>1 DEF SetRip, TypeOK, Once
  <2>4. ~ Contains(cache, k) /\ cache' = cache
    BY Zenon, <1>7 DEF StartComputation
  <2>. QED  BY Zenon, <2>2, <2>3, <2>4 DEF Once, OnlyMoves
<1>. QED  BY Zenon, <1>1, <1>3, <1>4, <1>5, <1>6, <1>7

LEMMA OnceStep ==
    ASSUME IInv, Once, "unsuitable" \notin Outcomes, NEW t \in Thread,
           Step(t) \/ Return(t)
    PROVE  Once'
<1>0. IsCache(cache) /\ TypeOK
  BY Zenon DEF IInv
<1>1. pc[t] \notin {"nulling", "lazy", "fallback"} /\ outcome[t] # "already_present"
  BY Zenon DEF Once
<1>2. ASSUME NEW p, NEW q \in {"caught", "aborting", "done"}, NEW o, NEW keep \in BOOLEAN,
             Move(t, p, q, o, keep), o # "already_present",
             cache' = cache, UNCHANGED ripStatus
      PROVE  Once'
  <2>1. OnlyMoves(t) /\ pc'[t] = q /\ outcome'[t] = o
    <3>1. TypeOK /\ Move(t, p, q, o, keep)
      BY Zenon, <1>0, <1>2
    <3>. QED  BY ZenonT(60), <3>1, MoveMoves
  <2>2. AllKeys(cache') \subseteq AllKeys(cache)
    BY Zenon, <1>2
  <2>. QED  BY Zenon, <1>0, <1>2, <2>1, <2>2, OnceNeutral
<1>3. CASE MoveToCache(t)
  <2> DEFINE k == key[t]
             ins == IF pinRequested[k] THEN InsertPinned(cache, k) ELSE Insert(cache, k)
  <2>1. k \in Key /\ pc[t] = "computing" /\ ~ Contains(cache, k)
    BY Zenon, <1>0, <1>3 DEF MoveToCache, TypeOK, Once
  <2>2. AllKeys(ins.cache) \subseteq AllKeys(cache) \cup {k} /\ ins.status # "already_present"
    BY Zenon, <1>0, <2>1, InsertKeys, InsertPinnedKeys
  <2>3. /\ cache' = ins.cache /\ UNCHANGED ripStatus
        /\ \E q \in {"caught", "finishing"}, o \in {ins.status, "value"} :
              Move(t, "computing", q, o, TRUE)
    BY Zenon, <1>3 DEF MoveToCache
  <2> HIDE DEF ins
  <2>4. PICK q \in {"caught", "finishing"}, o \in {ins.status, "value"} :
           Move(t, "computing", q, o, TRUE)
    BY Zenon, <2>3
  <2>5. OnlyMoves(t) /\ pc'[t] = q /\ outcome'[t] = o
    BY Zenon, <1>0, <2>4, MoveMoves
  <2>6. \A u \in Thread \ {t} : pc[u] = "computing" => key[u] # k
    <3> SUFFICES ASSUME NEW u \in Thread \ {t}, pc[u] = "computing", key[u] = k
                 PROVE  FALSE
      BY Zenon
    <3>1. pc[t] \in Owning /\ pc[u] \in Owning
      BY Zenon, <2>1 DEF Owning
    <3>2. handle[u] = inProgress[k] /\ handle[t] = inProgress[k]
      BY Zenon, <2>1 DEF IInv, OwnRegistration
    <3>. QED  BY Zenon, <3>1, <3>2, OneOwner
  <2>7. \A u \in Thread \ {t} : pc[u] = "computing" => ~ Contains(cache', key[u])
    BY Zenon, <2>2, <2>3, <2>6, ContainsIsAllKeys DEF Once
  <2>8. outcome'[t] # "already_present"
    BY Zenon, <2>2, <2>5
  <2>. QED  BY Zenon, <2>3, <2>5, <2>7, <2>8 DEF Once, OnlyMoves
<1>4. CASE ComputationThrows(t)
  BY Zenon, <1>2, <1>4 DEF ComputationThrows, cacheVars
<1>5. CASE EraseInCatch(t)
  BY Zenon, <1>1, <1>2, <1>5 DEF EraseInCatch
<1>6. ASSUME NEW p \in {"finishing", "aborting"}, NEW o, NEW status \in {"FINISHED", "ABORTED"},
             Move(t, p, "done", o, FALSE), o # "already_present",
             SetRip(handle[t], status), cache' = cache
      PROVE  Once'
  <2>1. OnlyMoves(t) /\ pc'[t] = "done" /\ outcome'[t] = o
    BY Zenon, <1>0, <1>6, MoveMoves
  <2>2. \A x \in Rip : ripStatus'[x] # "NULL"
    BY Zenon, <1>0, <1>6 DEF SetRip, TypeOK, Once
  <2>. QED  BY Zenon, <1>6, <2>1, <2>2 DEF Once, OnlyMoves
<1>7. CASE Finish(t)
  BY Zenon, <1>6, <1>7 DEF Finish, cacheVars
<1>8. CASE Abort(t)
  BY Zenon, <1>1, <1>6, <1>8 DEF Abort, cacheVars
<1>9. CASE GetResult(t)
  BY Zenon, <1>0, <1>2, <1>9 DEF GetResult, TypeOK, Once, cacheVars
<1>10. CASE PrivateComputation(t)
  BY Zenon, <1>2, <1>10 DEF PrivateComputation, cacheVars
<1>11. CASE Return(t)
  BY Zenon, <1>0, <1>11, OnceNeutral DEF Return, TypeOK, OnlyMoves, cacheVars
<1>12. ~ GiveUpCaching(t) /\ ~ FinishNull(t) /\ ~ FallbackSuitable(t) /\ ~ FallbackUnsuitable(t)
       /\ ~ FallbackThrows(t) /\ ~ StoreConsumed(t) /\ ~ DropConsumed(t)
  BY Zenon, <1>1 DEF GiveUpCaching, FinishNull, FallbackSuitable, FallbackUnsuitable,
              FallbackThrows, StoreConsumed, DropConsumed, Move
<1>. QED  BY Zenon, <1>3, <1>4, <1>5, <1>7, <1>8, <1>9, <1>10, <1>11, <1>12 DEF Step

\* No result is computed while it is cached or being computed by another
\* thread, if all results are suitable for the cache.
THEOREM ResultsAreComputedOnce == Spec => []ComputedOnce
<1>1. Init => Once
  BY Zenon DEF Init, Once, RipStatus
<1>2. IInv /\ Once /\ [Next]_vars => Once'
  BY Zenon, OnceCall, OnceEnvironment, OnceStep DEF Once, vars, cacheVars, callVars, Next
<1>3. IInv /\ Once => ComputedOnce
  <2> SUFFICES ASSUME IInv, Once, "unsuitable" \notin Outcomes PROVE ComputedOnce
    BY Zenon DEF ComputedOnce
  <2>1. \A t \in Thread : pc[t] = "computing" =>
           \A u \in Thread \ {t} : pc[u] = "computing" => key[u] # key[t]
    BY OneOwner DEF IInv, OwnRegistration, Owning
  <2>. QED  BY Zenon, <2>1 DEF Once, ComputedOnce
<1>. QED  BY <1>1, <1>2, <1>3, InitIInv, NextIInv, PTL DEF Spec

=============================================================================
