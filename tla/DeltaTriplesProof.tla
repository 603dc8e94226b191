--------------------------- MODULE DeltaTriplesProof ---------------------------
(***************************************************************************)
(* Proofs about DeltaTriplesManager, for any number of threads, triples    *)
(* and permutations: what holds in spite of cancellations and failed       *)
(* writes, and what holds without them, where snapshots are whole.         *)
(***************************************************************************)
EXTENDS DeltaTriplesManager, TLAPS

(* There is at least one permutation.                                      *)
LEMMA SomePermutation == NumPermutations \in Nat \ {0}
  BY Zenon, DeltaTriplesAssumption

USE SomePermutation

Deltas == [Triple -> Kind]

-----------------------------------------------------------------------------
(* Adding triples changes only these, and all of them if none of them was  *)
(* there (LocatedTriplesPerBlock::add).                                    *)
LEMMA AddChanges ==
  ASSUME NEW lt \in Deltas, NEW ts \in SUBSET Triple, NEW kind \in Kind
  PROVE  /\ Add(lt, ts, kind) \in Deltas
         /\ \A t \in Triple : t \notin ts => Add(lt, ts, kind)[t] = lt[t]
         /\ ~AddFails(lt, ts) => \A t \in ts : Add(lt, ts, kind)[t] = kind
  BY Zenon DEF Add, Added, AddFails, Keys, Deltas, Kind

(* Erasing triples changes only these (LocatedTriplesPerBlock::erase).     *)
LEMMA EraseChanges ==
  ASSUME NEW lt \in Deltas, NEW ts
  PROVE  /\ Erase(lt, ts) \in Deltas
         /\ \A t \in Triple : Erase(lt, ts)[t] = IF t \in ts THEN "none" ELSE lt[t]
  BY Zenon DEF Erase, Deltas, Kind

NothingLocated == NoTriples(Triple)

LEMMA NothingLocatedAt ==
  /\ NothingLocated \in Deltas
  /\ \A t \in Triple : NothingLocated[t] = "none"
  BY Zenon DEF NothingLocated, NoTriples, Deltas, Kind

(* The located triples of a permutation are exactly those of the two maps. *)
Exactly(d) ==
  /\ d.located \in Deltas
  /\ d.inserted \in SUBSET Triple /\ d.deleted \in SUBSET Triple
  /\ d.inserted \intersect d.deleted = {}
  /\ \A t \in Triple : /\ t \in d.inserted => d.located[t] = "insert"
                       /\ t \in d.deleted => d.located[t] = "delete"
                       /\ t \notin d.inserted \union d.deleted => d.located[t] = "none"

(* insertTriples and deleteTriples, when nobody disturbs them, put the     *)
(* triples into the target map, take them out of the other one and keep    *)
(* the located triples in accordance with the maps.                        *)
LEMMA ModifiedIsExact ==
  ASSUME NEW d, Exactly(d), NEW ts \in SUBSET Triple, NEW kind \in {"insert", "delete"}
  PROVE  /\ Exactly(Modified(d, ts, kind))
         /\ Modified(d, ts, kind).inserted =
              IF kind = "insert" THEN d.inserted \union ts ELSE d.inserted \ ts
         /\ Modified(d, ts, kind).deleted =
              IF kind = "insert" THEN d.deleted \ ts ELSE d.deleted \union ts
<1> DEFINE lt == d.located
           ins == d.inserted
           del == d.deleted
           target  == IF kind = "insert" THEN ins ELSE del
           inverse == IF kind = "insert" THEN del ELSE ins
           new     == ts \ target
           erased  == Erase(lt, new \intersect inverse)
           added   == Add(erased, new, kind)
           m == Modified(d, ts, kind)
<1>1. /\ lt \in Deltas /\ ins \in SUBSET Triple /\ del \in SUBSET Triple
      /\ ins \intersect del = {}
      /\ \A t \in Triple : /\ t \in ins => lt[t] = "insert"
                           /\ t \in del => lt[t] = "delete"
                           /\ t \notin ins \union del => lt[t] = "none"
  BY Zenon DEF Exactly
<1>2. /\ m.located = added
      /\ m.inserted = IF kind = "insert" THEN ins \union new ELSE ins \ new
      /\ m.deleted = IF kind = "insert" THEN del \ new ELSE del \union new
  BY Zenon DEF Modified
<1>3. new \in SUBSET Triple /\ kind \in Kind
  BY Zenon DEF Kind
<1>4. /\ erased \in Deltas
      /\ \A t \in Triple : erased[t] = IF t \in new \intersect inverse THEN "none" ELSE lt[t]
  <2> HIDE DEF target, inverse, new
  <2> QED  BY <1>1, EraseChanges
<1>5. ~AddFails(erased, new)
  BY Zenon, <1>1, <1>3, <1>4 DEF AddFails, Keys
<1>6. /\ added \in Deltas
      /\ \A t \in Triple : added[t] = IF t \in new THEN kind ELSE erased[t]
  <2> HIDE DEF new, erased
  <2>0. erased \in Deltas  BY Zenon, <1>4
  <2> HIDE DEF target, inverse, m
  <2>1. /\ Add(erased, new, kind) \in Deltas
        /\ \A t \in Triple : t \notin new => Add(erased, new, kind)[t] = erased[t]
        /\ \A t \in new : Add(erased, new, kind)[t] = kind
    BY <2>0, <1>3, <1>5, AddChanges
  <2> QED  BY Zenon, <2>1
<1>7. \A t \in Triple : added[t] = IF t \in new THEN kind ELSE lt[t]
  BY Zenon, <1>3, <1>4, <1>6
<1>8. /\ m.inserted = IF kind = "insert" THEN ins \union ts ELSE ins \ ts
      /\ m.deleted = IF kind = "insert" THEN del \ ts ELSE del \union ts
  <2> HIDE DEF m
  <2> QED  BY Zenon, <1>1, <1>2
<1>9. Exactly(m)
  <2> HIDE DEF m, added
  <2>1. /\ m.located = added /\ added \in Deltas
        /\ m.inserted \in SUBSET Triple /\ m.deleted \in SUBSET Triple
        /\ m.inserted \intersect m.deleted = {}
    BY Zenon, <1>1, <1>2, <1>3, <1>6
  <2>2. ASSUME NEW t \in Triple
        PROVE  /\ t \in m.inserted => added[t] = "insert"
               /\ t \in m.deleted => added[t] = "delete"
               /\ t \notin m.inserted \union m.deleted => added[t] = "none"
    BY <1>1, <1>2, <1>7
  <2> QED  BY Zenon, <2>1, <2>2 DEF Exactly
<1> QED  BY Zenon, <1>8, <1>9

-----------------------------------------------------------------------------
(* The new ids tell the triples of the file apart that have blank nodes.   *)
LEMMA NewIdsAreFresh ==
  ASSUME NEW ids \in NewIds
  PROVE  /\ DOMAIN ids = BlankOnDisk
         /\ \A t \in DOMAIN ids : ids[t] \in LocalBlank
         /\ \A s, t \in DOMAIN ids : ids[s] = ids[t] => s = t
<1>1. ids \in [BlankOnDisk -> LocalBlank] /\ IsInjective(ids)
  BY Zenon DEF NewIds, Injection
<1> QED  BY Zenon, <1>1 DEF IsInjective

(* What becomes of the triples of one of the two ranges.                   *)
LEMMA Deserialized ==
  ASSUME NEW ids \in NewIds, NEW ts \in SUBSET Triple,
         ts \subseteq disk.deleted \union disk.inserted
  PROVE  /\ DeserializeIds(ids, ts) \in SUBSET Triple
         /\ \A t \in Named : t \in DeserializeIds(ids, ts) <=> t \in ts
         /\ \A t \in DOMAIN ids : ids[t] \in DeserializeIds(ids, ts) <=> t \in ts
         /\ \A t \in Blank \ {ids[s] : s \in DOMAIN ids} : t \notin DeserializeIds(ids, ts)
<1> DEFINE new == DeserializeIds(ids, ts)
<1>1. /\ \A t \in DOMAIN ids : t \in Blank /\ ids[t] \in LocalBlank
      /\ \A s, t \in DOMAIN ids : ids[s] = ids[t] => s = t
      /\ \A t \in ts : t \in Blank => t \in DOMAIN ids
  BY Zenon, NewIdsAreFresh DEF BlankOnDisk
<1>2. LocalBlank \subseteq Blank /\ LocalBlank \subseteq Triple
  BY Zenon, ManagerAssumption DEF Blank
<1>3. \A t \in Named : t \notin Blank
  BY Zenon DEF Named
<1>4. \A n : n \in new <=> \E t \in ts : n = IF t \in Blank THEN ids[t] ELSE t
  BY Zenon DEF DeserializeIds
<1> HIDE DEF new
<1>5. new \in SUBSET Triple
  BY <1>1, <1>2, <1>4
<1>6. \A t \in Named : t \in new <=> t \in ts
  BY <1>1, <1>2, <1>3, <1>4
<1>7. \A t \in DOMAIN ids : ids[t] \in new <=> t \in ts
  BY <1>1, <1>2, <1>4
<1>8. \A t \in Blank \ {ids[s] : s \in DOMAIN ids} : t \notin new
  BY <1>1, <1>4
<1> QED  BY Zenon, <1>5, <1>6, <1>7, <1>8 DEF new

(* Reading the file into an empty DeltaTriples gives all permutations the  *)
(* triples of the two maps, whatever the file holds.                       *)
LEMMA ReadIsExact ==
  ASSUME TypeOK, NEW p \in Permutation, located[p] = NothingLocated, NEW ids \in NewIds
  PROVE  /\ Exactly(ReadFromDisk(ids, p))
         /\ ReadFromDisk(ids, p).inserted =
              DeserializeIds(ids, disk.inserted) \ DeserializeIds(ids, disk.deleted)
         /\ ReadFromDisk(ids, p).deleted = DeserializeIds(ids, disk.deleted)
<1> DEFINE ins == DeserializeIds(ids, disk.inserted)
           del == DeserializeIds(ids, disk.deleted)
           empty == [located |-> located[p], inserted |-> {}, deleted |-> {}]
           first == Modified(empty, ins, "insert")
           second == Modified(first, del, "delete")
<1>1. ins \in SUBSET Triple /\ del \in SUBSET Triple
  <2>1. disk.inserted \in SUBSET Triple /\ disk.deleted \in SUBSET Triple
    BY Zenon DEF TypeOK
  <2>2. /\ disk.inserted \subseteq disk.deleted \union disk.inserted
        /\ disk.deleted \subseteq disk.deleted \union disk.inserted
    BY Zenon
  <2> QED  BY <2>1, <2>2, Deserialized
<1>2. Exactly(empty)
  BY Zenon, NothingLocatedAt DEF Exactly
<1> HIDE DEF ins, del
<1>3. Exactly(first) /\ first.inserted = ins /\ first.deleted = {}
  <2>1. Exactly(first)
    BY Zenon, <1>1, <1>2, ModifiedIsExact
  <2>2. empty.inserted = {} /\ empty.deleted = {}  OBVIOUS
  <2> HIDE DEF empty
  <2>3. first.inserted = empty.inserted \union ins /\ first.deleted = empty.deleted \ ins
    BY Zenon, <1>1, <1>2, ModifiedIsExact
  <2> QED  BY Zenon, <2>1, <2>2, <2>3
<1>5. Exactly(second) /\ second.inserted = ins \ del /\ second.deleted = del
  <2> HIDE DEF first
  <2>1. Exactly(second)
    BY Zenon, <1>1, <1>3, ModifiedIsExact
  <2>2. second.inserted = first.inserted \ del /\ second.deleted = first.deleted \union del
    BY Zenon, <1>1, <1>3, ModifiedIsExact
  <2> QED  BY Zenon, <1>3, <2>1, <2>2
<1>6. ReadFromDisk(ids, p) = second
  BY Zenon DEF ReadFromDisk, ins, del
<1> QED  BY Zenon, <1>5, <1>6 DEF ins, del

-----------------------------------------------------------------------------
(* The disjuncts of NextOrFail, one per action.                            *)
LEMMA NextCases ==
  ASSUME NextOrFail
  PROVE  \/ \E u \in Thread :
              \/ \E delete, insert \in SUBSET Updatable : StartUpdate(u, delete, insert)
              \/ StartClear(u) \/ EraseFromInverse(u) \/ LocateAndAdd(u) \/ RegisterHandles(u)
              \/ Return(u) \/ OpenTemp(u) \/ SerializeIds(u) \/ Rename(u) \/ WriteFails(u)
              \/ Cancel(u) \/ UpdateSnapshot(u)
         \/ Crash \/ Restart
  BY Zenon DEF NextOrFail, Next, ThreadStep, Fails, Environment

(* A process that is down has no triples in memory and no running thread.  *)
DownIsEmpty ==
  ~up => /\ located = [p \in Permutation |-> NothingLocated]
         /\ triplesInserted = {} /\ triplesDeleted = {}
         /\ pc = [u \in Thread |-> "idle"]

LEMMA DownIsEmptyStep ==
  ASSUME DownIsEmpty, [NextOrFail]_managerVars
  PROVE  DownIsEmpty'
<1> USE DEF DownIsEmpty
<1>1. CASE UNCHANGED managerVars
  BY Zenon, <1>1 DEF managerVars, deltaVars
<1>2. ASSUME NEW u \in Thread,
             NEW delete \in SUBSET Updatable, NEW insert \in SUBSET Updatable,
             StartUpdate(u, delete, insert)
      PROVE  DownIsEmpty'
  BY Zenon, <1>2 DEF StartUpdate, LockFree
<1>3. ASSUME NEW u \in Thread,
             \/ StartClear(u) \/ EraseFromInverse(u) \/ LocateAndAdd(u) \/ RegisterHandles(u)
             \/ Return(u) \/ OpenTemp(u) \/ SerializeIds(u) \/ Rename(u) \/ WriteFails(u)
             \/ Cancel(u) \/ UpdateSnapshot(u)
      PROVE  DownIsEmpty'
  BY <1>3 DEF StartClear, LockFree, EraseFromInverse, LocateAndAdd, RegisterHandles, Return,
              OpenTemp, SerializeIds, Rename, WriteFails, Cancel, UpdateSnapshot, Modifies, Goto
<1>4. CASE Crash
  BY Zenon, <1>4 DEF Crash, NothingLocated
<1>5. CASE Restart
  BY Zenon, <1>5 DEF Restart
<1> QED  BY Zenon, <1>1, <1>2, <1>3, <1>4, <1>5, NextCases

-----------------------------------------------------------------------------
(* The changes to the located triples keep their type.                     *)
LEMMA DeltaTypes ==
  ASSUME TypeOK
  PROVE  /\ \A ts, kind : EraseInverse(ts, kind) =>
              /\ located' \in [Permutation -> Deltas] /\ augmented' \in [Permutation -> SUBSET Triple]
              /\ triplesInserted' \in SUBSET Triple /\ triplesDeleted' \in SUBSET Triple
         /\ \A p \in Permutation, ts \in SUBSET Triple, kind \in Kind : AddTo(p, ts, kind) =>
              /\ located' \in [Permutation -> Deltas] /\ augmented' \in [Permutation -> SUBSET Triple]
              /\ UNCHANGED <<triplesInserted, triplesDeleted>>
<1>1. /\ located \in [Permutation -> Deltas] /\ augmented \in [Permutation -> SUBSET Triple]
      /\ triplesInserted \in SUBSET Triple /\ triplesDeleted \in SUBSET Triple
  BY Zenon DEF TypeOK, Deltas
<1>2. \A lt \in Deltas : Keys(lt) \in SUBSET Triple
  BY Zenon DEF Keys, Deltas
<1>3. ASSUME NEW ts, NEW kind, EraseInverse(ts, kind)
      PROVE  /\ located' \in [Permutation -> Deltas] /\ augmented' \in [Permutation -> SUBSET Triple]
             /\ triplesInserted' \in SUBSET Triple /\ triplesDeleted' \in SUBSET Triple
  <2>1. located' \in [Permutation -> Deltas]
    BY <1>1, <1>3, EraseChanges DEF EraseInverse
  <2> QED  BY Zenon, <1>1, <1>2, <1>3, <2>1 DEF EraseInverse
<1>4. ASSUME NEW p \in Permutation, NEW ts \in SUBSET Triple, NEW kind \in Kind, AddTo(p, ts, kind)
      PROVE  /\ located' \in [Permutation -> Deltas] /\ augmented' \in [Permutation -> SUBSET Triple]
             /\ UNCHANGED <<triplesInserted, triplesDeleted>>
  BY <1>1, <1>2, <1>4, AddChanges DEF AddTo
<1> QED  BY Zenon, <1>3, <1>4

(* What a restart puts into memory.                                        *)
LEMMA RestartReads ==
  ASSUME TypeOK, DownIsEmpty, Restart
  PROVE  /\ \A p \in Permutation :
              /\ Exactly([located |-> located'[p], inserted |-> triplesInserted',
                          deleted |-> triplesDeleted'])
              /\ augmented'[p] = IF Persists THEN Keys(located'[p]) ELSE augmented[p]
         /\ Persists => \E ids \in NewIds :
              /\ triplesInserted' = DeserializeIds(ids, disk.inserted)
                                      \ DeserializeIds(ids, disk.deleted)
              /\ triplesDeleted' = DeserializeIds(ids, disk.deleted)
<1>1. /\ \A p \in Permutation : located[p] = NothingLocated
      /\ triplesInserted = {} /\ triplesDeleted = {}
  BY Zenon DEF DownIsEmpty, Restart
<1>2. 1 \in Permutation
  BY DEF Permutation
<1>3. CASE Persists
  <2>1. PICK ids \in NewIds :
          /\ located' = [p \in Permutation |-> ReadFromDisk(ids, p).located]
          /\ augmented' = [p \in Permutation |-> Keys(located'[p])]
          /\ triplesInserted' = ReadFromDisk(ids, 1).inserted
          /\ triplesDeleted' = ReadFromDisk(ids, 1).deleted
    BY Zenon, <1>3 DEF Restart
  <2>2. /\ triplesInserted' = DeserializeIds(ids, disk.inserted)
                                \ DeserializeIds(ids, disk.deleted)
        /\ triplesDeleted' = DeserializeIds(ids, disk.deleted)
    BY Zenon, <1>1, <1>2, <2>1, ReadIsExact
  <2>3. ASSUME NEW p \in Permutation
        PROVE  Exactly([located |-> located'[p], inserted |-> triplesInserted',
                        deleted |-> triplesDeleted'])
    <3>1. /\ Exactly(ReadFromDisk(ids, p))
          /\ ReadFromDisk(ids, p).located = located'[p]
          /\ ReadFromDisk(ids, p).inserted = triplesInserted'
          /\ ReadFromDisk(ids, p).deleted = triplesDeleted'
      BY Zenon, <1>1, <2>1, <2>2, ReadIsExact
    <3> QED  BY Zenon, <3>1 DEF Exactly
  <2> QED  BY Zenon, <1>3, <2>1, <2>2, <2>3
<1>4. CASE ~Persists
  BY Zenon, <1>1, <1>4, NothingLocatedAt DEF Restart, deltaVars, Exactly
<1> QED  BY Zenon, <1>3, <1>4

LEMMA ThrowTypes ==
  ASSUME TypeOK, NEW u \in Thread, Throw(u)
  PROVE  /\ lock' \in Thread \union {None} /\ pc' \in [Thread -> PC]
         /\ todo' \in [Thread -> SUBSET Triple] /\ toInsert' \in [Thread -> SUBSET Triple]
         /\ next' \in [Thread -> 0 .. NumPermutations + 1]
  BY DEF Throw, TypeOK, PC

LEMMA TypeStep ==
  ASSUME TypeOK, DownIsEmpty, [NextOrFail]_managerVars
  PROVE  TypeOK'
<1> USE DEF fileVars, threadVars, deltaVars
<1>1. CASE UNCHANGED managerVars
  BY Zenon, <1>1 DEF managerVars, TypeOK
<1>2. ASSUME NEW u \in Thread,
             NEW delete \in SUBSET Updatable, NEW insert \in SUBSET Updatable,
             StartUpdate(u, delete, insert)
      PROVE  TypeOK'
  BY ManagerAssumption, <1>2 DEF StartUpdate, TypeOK, PC
<1>3. ASSUME NEW u \in Thread, StartClear(u)
      PROVE  TypeOK'
  BY Zenon, <1>3, NothingLocatedAt DEF StartClear, Clear, NothingLocated, Deltas, TypeOK, PC
<1>4. ASSUME NEW u \in Thread, EraseFromInverse(u)
      PROVE  TypeOK'
  BY <1>4, DeltaTypes DEF EraseFromInverse, Deltas, NotYetIn, TypeOK
<1>5. ASSUME NEW u \in Thread, LocateAndAdd(u)
      PROVE  TypeOK'
  <2>1. next[u] \in Permutation /\ todo[u] \in SUBSET Triple /\ pc[u] \in Kind
    BY Zenon, <1>5 DEF LocateAndAdd, Modifies, Kind, TypeOK
  <2>2. /\ located' \in [Permutation -> [Triple -> Kind]]
        /\ augmented' \in [Permutation -> SUBSET Triple]
        /\ UNCHANGED <<triplesInserted, triplesDeleted>>
    BY Zenon, <1>5, <2>1, DeltaTypes DEF LocateAndAdd, Deltas
  <2>3. /\ lock' \in Thread \union {None} /\ pc' \in [Thread -> PC]
        /\ todo' \in [Thread -> SUBSET Triple] /\ toInsert' \in [Thread -> SUBSET Triple]
        /\ next' \in [Thread -> 0 .. NumPermutations + 1]
    <3>1. CASE AddFails(located[next[u]], todo[u])
      BY Zenon, <1>5, <3>1, ThrowTypes DEF LocateAndAdd
    <3>2. CASE ~AddFails(located[next[u]], todo[u])
      <4>1. next' = [next EXCEPT ![u] = next[u] + 1] /\ UNCHANGED <<lock, pc, todo, toInsert>>
        BY Zenon, <1>5, <3>2 DEF LocateAndAdd
      <4>2. next \in [Thread -> 0 .. NumPermutations + 1]
        BY Zenon DEF TypeOK
      <4>3. next' \in [Thread -> 0 .. NumPermutations + 1]
        BY <2>1, <4>1, <4>2 DEF Permutation
      <4> QED  BY Zenon, <4>1, <4>3 DEF TypeOK
    <3> QED  BY Zenon, <3>1, <3>2
  <2> QED  BY Zenon, <1>5, <2>2, <2>3 DEF LocateAndAdd, TypeOK
<1>6. ASSUME NEW u \in Thread, RegisterHandles(u)
      PROVE  TypeOK'
  <2>1. triplesInserted' \in SUBSET Triple /\ triplesDeleted' \in SUBSET Triple
    BY Zenon, <1>6 DEF RegisterHandles, Register, TypeOK
  <2>2. /\ pc' \in [Thread -> PC] /\ todo' \in [Thread -> SUBSET Triple]
        /\ toInsert' \in [Thread -> SUBSET Triple]
        /\ next' \in [Thread -> 0 .. NumPermutations + 1]
    BY <1>6 DEF RegisterHandles, TypeOK, PC
  <2> QED  BY Zenon, <1>6, <2>1, <2>2 DEF RegisterHandles, Register, TypeOK
<1>7. ASSUME NEW u \in Thread, Return(u) \/ Cancel(u) \/ WriteFails(u)
      PROVE  TypeOK'
  BY Zenon, <1>7, ThrowTypes DEF Return, TypeOK, PC, Cancel, WriteFails
<1>8. ASSUME NEW u \in Thread, OpenTemp(u) \/ SerializeIds(u) \/ Rename(u)
      PROVE  TypeOK'
  <2> DEFINE File == [complete : BOOLEAN, deleted : SUBSET Triple, inserted : SUBSET Triple]
  <2>1. disk \in File /\ temp \in File
    BY Zenon DEF TypeOK
  <2>2. pc' \in [Thread -> PC]
    BY Zenon, <1>8 DEF OpenTemp, SerializeIds, Rename, Goto, TypeOK, PC
  <2>3. disk' \in File /\ temp' \in File
    <3>1. EmptyFile \in File /\ [EmptyFile EXCEPT !.complete = FALSE] \in File
      BY Zenon DEF EmptyFile
    <3>2. CASE OpenTemp(u)
      BY Zenon, <2>1, <3>1, <3>2 DEF OpenTemp
    <3>3. CASE SerializeIds(u)
      BY Zenon, <2>1, <3>3 DEF SerializeIds, TypeOK
    <3>4. CASE Rename(u)
      BY Zenon, <2>1, <3>1, <3>4 DEF Rename
    <3> QED  BY Zenon, <1>8, <3>2, <3>3, <3>4
  <2> QED  BY Zenon, <1>8, <2>2, <2>3 DEF OpenTemp, SerializeIds, Rename, TypeOK
<1>9. ASSUME NEW u \in Thread, UpdateSnapshot(u)
      PROVE  TypeOK'
  BY <1>9 DEF UpdateSnapshot, Goto, SnapshotOf, TypeOK, PC
<1>10. CASE Crash
  <2>1. located' \in [Permutation -> [Triple -> Kind]]
    BY Zenon, <1>10, NothingLocatedAt DEF Crash, NothingLocated, Deltas
  <2>2. augmented' \in [Permutation -> SUBSET Triple]
    BY Zenon, <1>10 DEF Crash
  <2>3. snapshot' \in [index : Nat, located : [Permutation -> [Triple -> Kind]],
                       augmented : [Permutation -> SUBSET Triple]]
    BY Zenon, <1>10, <2>1, <2>2 DEF Crash, SnapshotOf
  <2>4. /\ pc' \in [Thread -> PC] /\ todo' \in [Thread -> SUBSET Triple]
        /\ toInsert' \in [Thread -> SUBSET Triple]
        /\ next' \in [Thread -> 0 .. NumPermutations + 1]
    BY <1>10 DEF Crash, PC
  <2> QED  BY Zenon, <1>10, <2>1, <2>2, <2>3, <2>4 DEF Crash, TypeOK
<1>11. CASE Restart
  <2>1. /\ located' \in [Permutation -> [Triple -> Kind]]
        /\ augmented' \in [Permutation -> SUBSET Triple]
        /\ triplesInserted' \in SUBSET Triple /\ triplesDeleted' \in SUBSET Triple
    <3>1. \A p \in Permutation : located'[p] \in Deltas
      BY Zenon, <1>11, RestartReads DEF Exactly
    <3>2. triplesInserted' \in SUBSET Triple /\ triplesDeleted' \in SUBSET Triple
      BY <1>11, RestartReads DEF Exactly, Permutation
    <3>3. \A lt \in Deltas : Keys(lt) \in SUBSET Triple
      BY Zenon DEF Keys, Deltas
    <3>4. located' \in [Permutation -> Deltas]
      BY Zenon, <1>11, <3>1 DEF Restart, TypeOK, Deltas
    <3>5. augmented' \in [Permutation -> SUBSET Triple]
      BY <1>11, <3>3, <3>4 DEF Restart, TypeOK
    <3> QED  BY Zenon, <3>2, <3>4, <3>5 DEF Deltas
  <2>2. snapshot' \in [index : Nat, located : [Permutation -> [Triple -> Kind]],
                       augmented : [Permutation -> SUBSET Triple]]
    BY Zenon, <1>11, <2>1 DEF Restart, SnapshotOf
  <2> QED  BY Zenon, <1>11, <2>1, <2>2 DEF Restart, TypeOK
<1> QED  BY Zenon, <1>1, <1>2, <1>3, <1>4, <1>5, <1>6, <1>7, <1>8, <1>9, <1>10, <1>11, NextCases

-----------------------------------------------------------------------------
(* Only one thread is anywhere but at the start of `modify`.               *)
LEMMA OthersAreIdle ==
  ASSUME OneModification, NEW u \in Thread, pc[u] # "idle"
  PROVE  \A v \in Thread : v # u => pc[v] = "idle"
  BY Zenon DEF OneModification

LEMMA LockStep ==
  ASSUME TypeOK, OneModification, [NextOrFail]_managerVars
  PROVE  OneModification'
<1> USE DEF OneModification
<1>0. pc \in [Thread -> PC]
  BY Zenon DEF TypeOK
<1>t. ASSUME NEW u \in Thread, pc[u] # "idle", Throw(u)
      PROVE  OneModification'
  BY Zenon, <1>0, <1>t, OthersAreIdle DEF Throw
<1>1. CASE UNCHANGED managerVars
  BY Zenon, <1>1 DEF managerVars
<1>2. ASSUME NEW u \in Thread,
             NEW delete \in SUBSET Updatable, NEW insert \in SUBSET Updatable,
             StartUpdate(u, delete, insert)
      PROVE  OneModification'
  BY Zenon, ManagerAssumption, <1>0, <1>2 DEF StartUpdate, LockFree
<1>3. ASSUME NEW u \in Thread, StartClear(u)
      PROVE  OneModification'
  BY Zenon, ManagerAssumption, <1>0, <1>3 DEF StartClear, LockFree
<1>4. ASSUME NEW u \in Thread, EraseFromInverse(u) \/ RegisterHandles(u)
      PROVE  OneModification'
  <2>1. CASE EraseFromInverse(u)
    BY Zenon, <2>1 DEF EraseFromInverse
  <2>2. CASE RegisterHandles(u)
    BY Zenon, <1>0, <2>2 DEF RegisterHandles, Modifies
  <2> QED  BY Zenon, <1>4, <2>1, <2>2
<1>5. ASSUME NEW u \in Thread, LocateAndAdd(u)
      PROVE  OneModification'
  <2>1. CASE AddFails(located[next[u]], todo[u])
    BY Zenon, <1>5, <1>t, <2>1 DEF LocateAndAdd, Modifies
  <2>2. CASE ~AddFails(located[next[u]], todo[u])
    BY Zenon, <1>5, <2>2 DEF LocateAndAdd
  <2> QED  BY Zenon, <2>1, <2>2
<1>6. ASSUME NEW u \in Thread, Cancel(u) \/ WriteFails(u)
      PROVE  OneModification'
  BY Zenon, <1>6, <1>t DEF Cancel, WriteFails, Modifies
<1>7. ASSUME NEW u \in Thread,
             Return(u) \/ OpenTemp(u) \/ SerializeIds(u) \/ Rename(u) \/ UpdateSnapshot(u)
      PROVE  OneModification'
  BY Zenon, <1>0, <1>7 DEF Return, OpenTemp, SerializeIds, Rename, UpdateSnapshot, Goto
<1>8. CASE Crash \/ Restart
  BY Zenon, <1>0, <1>8 DEF Crash, Restart, threadVars
<1> QED  BY Zenon, <1>1, <1>2, <1>3, <1>4, <1>5, <1>6, <1>7, <1>8, NextCases

-----------------------------------------------------------------------------
(* What locateAndAddTriples has done so far: its triples are in neither    *)
(* map, and the permutations it went through hold them.                    *)
Progress ==
  \A u \in Thread : Modifies(u) /\ next[u] > 0 =>
    /\ todo[u] \intersect (triplesInserted \union triplesDeleted) = {}
    /\ \A p \in Permutation : p < next[u] => \A t \in todo[u] : located[p][t] = pc[u]

HandleInv ==
  /\ TypeOK /\ DownIsEmpty /\ OneModification
  /\ AtMostOneMap /\ HandlesAreValid /\ Progress

(* The effect of EraseFromInverse on the maps and the permutations.        *)
LEMMA EraseEffect ==
  ASSUME TypeOK, NEW u \in Thread, EraseFromInverse(u)
  PROVE  LET new == NotYetIn(todo[u], pc[u])
         IN  /\ new \in SUBSET Triple /\ todo'[u] = new /\ next'[u] = 1
             /\ pc' = pc /\ up' = up /\ up
             /\ pc[u] = "insert" =>
                  /\ new = todo[u] \ triplesInserted
                  /\ triplesInserted' = triplesInserted /\ triplesDeleted' = triplesDeleted \ new
                  /\ \A p \in Permutation, t \in Triple : located'[p][t] =
                       IF t \in new \intersect triplesDeleted THEN "none" ELSE located[p][t]
             /\ pc[u] = "delete" =>
                  /\ new = todo[u] \ triplesDeleted
                  /\ triplesDeleted' = triplesDeleted /\ triplesInserted' = triplesInserted \ new
                  /\ \A p \in Permutation, t \in Triple : located'[p][t] =
                       IF t \in new \intersect triplesInserted THEN "none" ELSE located[p][t]
<1> DEFINE new == NotYetIn(todo[u], pc[u])
<1>1. new \in SUBSET Triple /\ todo'[u] = new /\ next'[u] = 1 /\ pc' = pc /\ up' = up /\ up
  BY Zenon DEF EraseFromInverse, NotYetIn, TypeOK, Modifies
<1>2. \A p \in Permutation : located[p] \in Deltas
  BY Zenon DEF TypeOK, Deltas
<1>3. EraseInverse(new, pc[u])
  BY Zenon DEF EraseFromInverse
<1>4. ASSUME pc[u] = "insert"
      PROVE  /\ new = todo[u] \ triplesInserted
             /\ triplesInserted' = triplesInserted /\ triplesDeleted' = triplesDeleted \ new
             /\ \A p \in Permutation, t \in Triple : located'[p][t] =
                  IF t \in new \intersect triplesDeleted THEN "none" ELSE located[p][t]
  BY <1>2, <1>3, <1>4, EraseChanges DEF NotYetIn, EraseInverse
<1>5. ASSUME pc[u] = "delete"
      PROVE  /\ new = todo[u] \ triplesDeleted
             /\ triplesDeleted' = triplesDeleted /\ triplesInserted' = triplesInserted \ new
             /\ \A p \in Permutation, t \in Triple : located'[p][t] =
                  IF t \in new \intersect triplesInserted THEN "none" ELSE located[p][t]
  BY <1>2, <1>3, <1>5, EraseChanges DEF NotYetIn, EraseInverse
<1> QED  BY Zenon, <1>1, <1>4, <1>5

(* The effect of one round of locateAndAddTriples.                         *)
LEMMA AddEffect ==
  ASSUME TypeOK, NEW u \in Thread, LocateAndAdd(u)
  PROVE  /\ next[u] \in Permutation /\ todo[u] \in SUBSET Triple /\ up
         /\ UNCHANGED <<triplesInserted, triplesDeleted, up>>
         /\ \A p \in Permutation, t \in Triple :
              p # next[u] \/ t \notin todo[u] => located'[p][t] = located[p][t]
         /\ \/ Throw(u)
            \/ /\ UNCHANGED <<lock, pc, todo, toInsert>>
               /\ next' = [next EXCEPT ![u] = next[u] + 1]
               /\ \A t \in todo[u] : located'[next[u]][t] = pc[u]
<1> DEFINE p == next[u]
<1>1. /\ p \in Permutation /\ todo[u] \in SUBSET Triple /\ pc[u] \in Kind /\ up
      /\ UNCHANGED <<triplesInserted, triplesDeleted, up>>
  BY Zenon DEF LocateAndAdd, AddTo, Modifies, TypeOK, Kind
<1>2. located \in [Permutation -> Deltas]
  BY Zenon DEF TypeOK, Deltas
<1>3. located' = [located EXCEPT ![p] = Add(located[p], todo[u], pc[u])]
  BY Zenon DEF LocateAndAdd, AddTo
<1> HIDE DEF p
<1>4. /\ \A t \in Triple : t \notin todo[u] => located'[p][t] = located[p][t]
      /\ ~AddFails(located[p], todo[u]) => \A t \in todo[u] : located'[p][t] = pc[u]
  BY <1>1, <1>2, <1>3, AddChanges
<1>5. \A q \in Permutation : q # p => located'[q] = located[q]
  BY Zenon, <1>1, <1>2, <1>3
<1>6. \/ Throw(u)
      \/ /\ UNCHANGED <<lock, pc, todo, toInsert>>
         /\ next' = [next EXCEPT ![u] = next[u] + 1]
         /\ ~AddFails(located[p], todo[u])
  BY Zenon DEF LocateAndAdd, p
<1> QED  BY Zenon, <1>1, <1>4, <1>5, <1>6 DEF p

-----------------------------------------------------------------------------
(* A step that leaves the DeltaTriples alone and lets no thread go on in   *)
(* insertTriples or deleteTriples.                                         *)
LEMMA QuietStep ==
  ASSUME HandleInv, UNCHANGED <<located, triplesInserted, triplesDeleted, up>>,
         \A v \in Thread : \/ pc'[v] \notin {"delete", "insert"} \/ next'[v] = 0
                           \/ UNCHANGED <<pc[v], next[v], todo[v]>>
  PROVE  AtMostOneMap' /\ HandlesAreValid' /\ Progress'
<1>1. AtMostOneMap' /\ HandlesAreValid'
  BY Zenon DEF HandleInv, AtMostOneMap, HandlesAreValid
<1>2. Progress'
  BY DEF HandleInv, Progress, Modifies
<1> QED  BY Zenon, <1>1, <1>2

LEMMA HandleStep ==
  ASSUME HandleInv, [NextOrFail]_managerVars
  PROVE  AtMostOneMap' /\ HandlesAreValid' /\ Progress'
<1> DEFINE Goal == AtMostOneMap' /\ HandlesAreValid' /\ Progress'
<1> USE DEF deltaVars, fileVars, threadVars
<1>0. /\ TypeOK /\ DownIsEmpty /\ OneModification
      /\ AtMostOneMap /\ HandlesAreValid /\ Progress
  BY Zenon DEF HandleInv
<1>1. CASE UNCHANGED managerVars
  <2> QED  BY Zenon, <1>1, QuietStep DEF managerVars
<1>2. ASSUME NEW u \in Thread,
             NEW delete \in SUBSET Updatable, NEW insert \in SUBSET Updatable,
             StartUpdate(u, delete, insert)
      PROVE  Goal
  BY Zenon, <1>0, <1>2, QuietStep DEF StartUpdate, TypeOK
<1>3. ASSUME NEW u \in Thread, StartClear(u)
      PROVE  Goal
  <2>1. \A v \in Thread : pc'[v] \notin {"delete", "insert"}
    BY Zenon, ManagerAssumption, <1>0, <1>3 DEF StartClear, LockFree, OneModification, TypeOK
  <2> QED  BY Zenon, <1>3, <2>1 DEF StartClear, Clear, AtMostOneMap, HandlesAreValid, Progress, Modifies
<1>4. ASSUME NEW u \in Thread, EraseFromInverse(u)
      PROVE  Goal
  <2> DEFINE new == NotYetIn(todo[u], pc[u])
  <2>1. /\ new \in SUBSET Triple /\ todo'[u] = new /\ next'[u] = 1
        /\ pc' = pc /\ up' = up /\ up
    BY Zenon, <1>0, <1>4, EraseEffect
  <2>2. pc[u] \in {"insert", "delete"}
    BY Zenon, <1>4 DEF EraseFromInverse, Modifies
  <2>3. pc[u] = "insert" =>
          /\ new = todo[u] \ triplesInserted
          /\ triplesInserted' = triplesInserted /\ triplesDeleted' = triplesDeleted \ new
          /\ \A p \in Permutation, t \in Triple : located'[p][t] =
               IF t \in new \intersect triplesDeleted THEN "none" ELSE located[p][t]
    BY Zenon, <1>0, <1>4, EraseEffect
  <2>4. pc[u] = "delete" =>
          /\ new = todo[u] \ triplesDeleted
          /\ triplesDeleted' = triplesDeleted /\ triplesInserted' = triplesInserted \ new
          /\ \A p \in Permutation, t \in Triple : located'[p][t] =
               IF t \in new \intersect triplesInserted THEN "none" ELSE located[p][t]
    BY Zenon, <1>0, <1>4, EraseEffect
  <2> HIDE DEF new
  <2>5. triplesInserted \in SUBSET Triple /\ triplesDeleted \in SUBSET Triple
    BY Zenon, <1>0 DEF TypeOK
  <2>6. AtMostOneMap' /\ HandlesAreValid'
    <3>1. AtMostOneMap'
      BY Zenon, <1>0, <2>2, <2>3, <2>4 DEF AtMostOneMap
    <3>2. ASSUME NEW p \in Permutation, NEW t \in Triple
          PROVE  /\ t \in triplesInserted' => located'[p][t] = "insert"
                 /\ t \in triplesDeleted' => located'[p][t] = "delete"
      BY <1>0, <2>2, <2>3, <2>4 DEF HandlesAreValid, AtMostOneMap
    <3>3. triplesInserted' \in SUBSET Triple /\ triplesDeleted' \in SUBSET Triple
      BY Zenon, <2>2, <2>3, <2>4, <2>5
    <3> QED  BY Zenon, <3>1, <3>2, <3>3 DEF HandlesAreValid
  <2>7. new \intersect (triplesInserted' \union triplesDeleted') = {}
    BY Zenon, <2>2, <2>3, <2>4
  <2>8. Progress'
    BY <1>0, <2>1, <2>2, <2>7, OthersAreIdle DEF Permutation, Progress, Modifies
  <2> QED  BY Zenon, <2>6, <2>8
<1>5. ASSUME NEW u \in Thread, LocateAndAdd(u)
      PROVE  Goal
  <2>1. /\ next[u] \in Permutation /\ todo[u] \in SUBSET Triple /\ up
        /\ UNCHANGED <<triplesInserted, triplesDeleted, up>>
    BY Zenon, <1>0, <1>5, AddEffect
  <2>2. \A p \in Permutation, t \in Triple :
          p # next[u] \/ t \notin todo[u] => located'[p][t] = located[p][t]
    BY Zenon, <1>0, <1>5, AddEffect
  <2>3. Modifies(u) /\ next[u] > 0 /\ pc[u] # "idle"
    BY SMTT(60), <1>5, <2>1 DEF LocateAndAdd, Modifies, Permutation
  <2>4. /\ todo[u] \intersect (triplesInserted \union triplesDeleted) = {}
        /\ triplesInserted \in SUBSET Triple /\ triplesDeleted \in SUBSET Triple
        /\ \A p \in Permutation : p < next[u] => \A t \in todo[u] : located[p][t] = pc[u]
    BY Zenon, <1>0, <2>3 DEF Progress, TypeOK
  <2>5. AtMostOneMap' /\ HandlesAreValid'
    BY <1>0, <2>1, <2>2, <2>4 DEF AtMostOneMap, HandlesAreValid
  <2>6. \A v \in Thread : v # u => pc[v] = "idle"
    BY Zenon, <1>0, <2>3, OthersAreIdle
  <2>7. CASE Throw(u)
    BY Zenon, <1>0, <2>5, <2>6, <2>7 DEF Throw, TypeOK, Progress, Modifies
  <2>8. CASE /\ UNCHANGED <<lock, pc, todo, toInsert>>
             /\ next' = [next EXCEPT ![u] = next[u] + 1]
             /\ \A t \in todo[u] : located'[next[u]][t] = pc[u]
    <3>1. next'[u] = next[u] + 1
      BY Zenon, <1>0, <2>8 DEF TypeOK
    <3>2. \A p \in Permutation : p < next[u] + 1 => p < next[u] \/ p = next[u]
      BY <2>1 DEF Permutation
    <3>3. \A p \in Permutation : p < next[u] => p # next[u]
      BY <2>1 DEF Permutation
    <3>4. \A p \in Permutation : p < next'[u] => \A t \in todo[u] : located'[p][t] = pc[u]
      <4> SUFFICES ASSUME NEW p \in Permutation, p < next[u] + 1, NEW t \in todo[u]
                   PROVE  located'[p][t] = pc[u]
        BY Zenon, <3>1
      <4>1. CASE p = next[u]
        BY Zenon, <2>8, <4>1
      <4>2. CASE p < next[u]
        <5>1. located'[p][t] = located[p][t]
          BY Zenon, <2>1, <2>2, <3>3, <4>2
        <5> QED  BY Zenon, <2>4, <4>2, <5>1
      <4> QED  BY Zenon, <3>2, <4>1, <4>2
    <3>5. Progress'
      BY Zenon, <2>1, <2>4, <2>6, <2>8, <3>4 DEF Progress, Modifies
    <3> QED  BY Zenon, <2>5, <3>5
  <2> QED  BY Zenon, <1>0, <1>5, <2>5, <2>7, <2>8, AddEffect
<1>6. ASSUME NEW u \in Thread, RegisterHandles(u)
      PROVE  Goal
  <2>1. /\ Modifies(u) /\ next[u] > 0 /\ pc[u] \in {"insert", "delete"} /\ UNCHANGED located
        /\ \A p \in Permutation : p < next[u]
    BY <1>6 DEF RegisterHandles, Register, Modifies, Permutation
  <2>2. /\ todo[u] \intersect (triplesInserted \union triplesDeleted) = {}
        /\ \A p \in Permutation, t \in todo[u] : located[p][t] = pc[u]
    BY Zenon, <1>0, <2>1 DEF Progress
  <2>3. AtMostOneMap' /\ HandlesAreValid'
    BY <1>0, <1>6, <2>1, <2>2 DEF RegisterHandles, Register, AtMostOneMap, HandlesAreValid
  <2>4. \A v \in Thread : Modifies(v)' => next'[v] = 0
    BY Zenon, <1>0, <1>6, <2>1, OthersAreIdle DEF RegisterHandles, Modifies, TypeOK
  <2> QED  BY <2>3, <2>4 DEF Progress
<1>7. ASSUME NEW u \in Thread, Cancel(u) \/ WriteFails(u)
      PROVE  Goal
  BY Zenon, <1>0, <1>7, QuietStep DEF Cancel, WriteFails, Throw, TypeOK
<1>8. ASSUME NEW u \in Thread,
             Return(u) \/ OpenTemp(u) \/ SerializeIds(u) \/ Rename(u) \/ UpdateSnapshot(u)
      PROVE  Goal
  BY Zenon, <1>0, <1>8, QuietStep DEF Return, OpenTemp, SerializeIds, Rename, UpdateSnapshot, Goto,
       PC, TypeOK
<1>9. CASE Crash
  BY Zenon, <1>9 DEF Crash, AtMostOneMap, HandlesAreValid, Progress, Modifies
<1>10. CASE Restart
  BY <1>0, <1>10, RestartReads DEF Permutation, Exactly, AtMostOneMap, HandlesAreValid,
       Restart, DownIsEmpty, Progress, Modifies
<1> QED
  <2> HIDE DEF Goal
  <2> QED  BY Zenon, <1>1, <1>2, <1>3, <1>4, <1>5, <1>6, <1>7, <1>8, <1>9, <1>10, NextCases DEF Goal

LEMMA HandleInvInit ==
  ASSUME Init
  PROVE  HandleInv
<1> USE DEF Init, ManagerInit, DeltaInit, ThreadInit
<1>1. located \in [Permutation -> [Triple -> Kind]]
  BY Zenon, NothingLocatedAt DEF NothingLocated, Deltas
<1>2. TypeOK
  BY SMTT(60), <1>1 DEF TypeOK, SnapshotOf, EmptyFile, PC
<1>3. DownIsEmpty /\ OneModification
  BY Zenon DEF DownIsEmpty, OneModification
<1>4. AtMostOneMap /\ HandlesAreValid /\ Progress
  BY Zenon DEF AtMostOneMap, HandlesAreValid, Progress, Modifies
<1> QED  BY Zenon, <1>2, <1>3, <1>4 DEF HandleInv

(* HandleInv is inductive.                                                  *)
THEOREM HandleInvariant == SpecWithFailures => []HandleInv
<1>1. HandleInv /\ [NextOrFail]_managerVars => HandleInv'
  BY Zenon, DownIsEmptyStep, TypeStep, LockStep, HandleStep DEF HandleInv
<1> QED  BY <1>1, HandleInvInit, PTL DEF SpecWithFailures

(* The variables keep their types, whatever is cancelled, fails or crashes.  *)
THEOREM TypeCorrect == SpecWithFailures => []TypeOK
<1>1. HandleInv => TypeOK
  BY Zenon DEF HandleInv
<1> QED  BY <1>1, HandleInvariant, PTL

(* No triple is ever inserted and deleted at once, no matter where updates  *)
(* are cancelled or the process crashes, for any number of triples.         *)
THEOREM MapsStayDisjoint == SpecWithFailures => []AtMostOneMap
<1>1. HandleInv => AtMostOneMap
  BY Zenon DEF HandleInv
<1> QED  BY <1>1, HandleInvariant, PTL

(* The handles in the maps never dangle: eraseTripleInAllPermutations finds *)
(* what it erases in every permutation.                                     *)
THEOREM HandlesNeverDangle == SpecWithFailures => []HandlesAreValid
<1>1. HandleInv => HandlesAreValid
  BY Zenon DEF HandleInv
<1> QED  BY <1>1, HandleInvariant, PTL

(* The write lock covers all of `modify`, from the function to the file and *)
(* the snapshot.                                                            *)
THEOREM ModificationsExclude == SpecWithFailures => []OneModification
<1>1. HandleInv => OneModification
  BY Zenon DEF HandleInv
<1> QED  BY <1>1, HandleInvariant, PTL
-----------------------------------------------------------------------------
(* The disjuncts of Next, one per action.                                  *)
LEMMA NormalCases ==
  ASSUME Next
  PROVE  \/ \E u \in Thread :
              \/ \E delete, insert \in SUBSET Updatable : StartUpdate(u, delete, insert)
              \/ StartClear(u) \/ EraseFromInverse(u) \/ LocateAndAdd(u) \/ RegisterHandles(u)
              \/ Return(u) \/ OpenTemp(u) \/ SerializeIds(u) \/ Rename(u) \/ UpdateSnapshot(u)
         \/ Crash \/ Restart
  BY Zenon DEF Next, ThreadStep, Environment

(* HandleInv holds with failures, hence without them.                       *)
THEOREM HandleInvariantWithoutFailures == Spec => []HandleInv
<1>1. [Next]_managerVars => [NextOrFail]_managerVars
  BY Zenon DEF NextOrFail
<1> QED  BY <1>1, HandleInvariant, PTL DEF Spec, SpecWithFailures

-----------------------------------------------------------------------------
(* As long as nothing is cancelled and no write fails, a permutation holds *)
(* no triples but those of the maps and those being added, its metadata    *)
(* accounts for what it holds, and the published snapshot is whole.        *)
NoLeftovers ==
  \A p \in Permutation, t \in Triple : located[p][t] # "none" =>
    \/ t \in triplesInserted \union triplesDeleted
    \/ \E u \in Thread : Modifies(u) /\ p < next[u] /\ t \in todo[u]

MetadataIsCurrent == \A p \in Permutation : augmented[p] = Keys(located[p])

WholeInv == NoLeftovers /\ MetadataIsCurrent /\ SnapshotIsWhole

(* The triples of an addition are new, hence `add` does not throw.         *)
LEMMA AddSucceeds ==
  ASSUME HandleInv, NoLeftovers
  PROVE  AddedTriplesAreNew
<1> SUFFICES ASSUME NEW u \in Thread, Modifies(u), next[u] \in Permutation
             PROVE  ~AddFails(located[next[u]], todo[u])
  BY Zenon DEF AddedTriplesAreNew
<1>1. \A v \in Thread : Modifies(v) => v = u
  BY Zenon, OthersAreIdle DEF HandleInv, Modifies
<1>2. todo[u] \intersect (triplesInserted \union triplesDeleted) = {} /\ todo[u] \in SUBSET Triple
  <2>1. next[u] > 0
    BY DEF Permutation
  <2> QED  BY Zenon, <2>1 DEF HandleInv, Progress, TypeOK
<1>3. ~(next[u] < next[u])
  BY DEF Permutation
<1>4. \A t \in todo[u] : located[next[u]][t] = "none"
  BY Zenon, <1>1, <1>2, <1>3 DEF NoLeftovers
<1> QED  BY Zenon, <1>4 DEF AddFails, Keys

(* Two permutations with the same maps and nothing else hold the same.     *)
LEMMA ExactlyTheSame ==
  ASSUME NEW lt1, NEW lt2, NEW ins, NEW del,
         Exactly([located |-> lt1, inserted |-> ins, deleted |-> del]),
         Exactly([located |-> lt2, inserted |-> ins, deleted |-> del])
  PROVE  lt1 = lt2
<1>1. lt1 \in Deltas /\ lt2 \in Deltas
  BY Zenon DEF Exactly
<1>2. \A t \in Triple : /\ t \in ins => lt1[t] = "insert" /\ lt2[t] = "insert"
                        /\ t \in del => lt1[t] = "delete" /\ lt2[t] = "delete"
                        /\ t \notin ins \union del => lt1[t] = "none" /\ lt2[t] = "none"
  BY Zenon DEF Exactly
<1>3. \A t \in Triple : lt1[t] = lt2[t]
  BY Zenon, <1>2
<1>4. lt1 = [t \in Triple |-> lt1[t]] /\ lt2 = [t \in Triple |-> lt2[t]]
  BY Zenon, <1>1 DEF Deltas
<1> QED  BY Zenon, <1>3, <1>4

(* While nobody modifies, the maps determine the permutations.             *)
LEMMA QuietIsExact ==
  ASSUME HandleInv, NoLeftovers, \A u \in Thread : ~Modifies(u), NEW p \in Permutation
  PROVE  Exactly([located |-> located[p], inserted |-> triplesInserted, deleted |-> triplesDeleted])
<1>1. located[p] \in Deltas
  BY Zenon DEF HandleInv, TypeOK, Deltas
<1>2. \A t \in Triple : t \notin triplesInserted \union triplesDeleted => located[p][t] = "none"
  BY Zenon DEF NoLeftovers
<1>3. /\ triplesInserted \in SUBSET Triple /\ triplesDeleted \in SUBSET Triple
      /\ triplesInserted \intersect triplesDeleted = {}
      /\ \A t \in triplesInserted : located[p][t] = "insert"
      /\ \A t \in triplesDeleted : located[p][t] = "delete"
  BY Zenon DEF HandleInv, TypeOK, AtMostOneMap, HandlesAreValid
<1> QED  BY Zenon, <1>1, <1>2, <1>3 DEF Exactly

(* A step that leaves the DeltaTriples alone and starts or ends nothing in *)
(* locateAndAddTriples.                                                    *)
LEMMA QuietWhole ==
  ASSUME WholeInv, UNCHANGED <<located, augmented, triplesInserted, triplesDeleted, up>>,
         \A v \in Thread : Modifies(v) /\ next[v] > 0 => UNCHANGED <<pc[v], next[v], todo[v]>>,
         TypeOK
  PROVE  NoLeftovers' /\ MetadataIsCurrent'
<1>1. NoLeftovers'
  <2> SUFFICES ASSUME NEW p \in Permutation, NEW t \in Triple, located[p][t] # "none",
                      t \notin triplesInserted \union triplesDeleted
               PROVE  \E u \in Thread : Modifies(u)' /\ p < next'[u] /\ t \in todo'[u]
    BY Zenon DEF NoLeftovers
  <2>1. PICK u \in Thread : Modifies(u) /\ p < next[u] /\ t \in todo[u]
    BY Zenon DEF WholeInv, NoLeftovers
  <2>2. next[u] > 0
    BY <2>1 DEF Permutation, TypeOK
  <2> QED  BY Zenon, <2>1, <2>2 DEF Modifies
<1>2. MetadataIsCurrent'
  BY Zenon DEF WholeInv, MetadataIsCurrent
<1> QED  BY Zenon, <1>1, <1>2

LEMMA WholeStep ==
  ASSUME HandleInv, HandleInv', WholeInv, [Next]_managerVars
  PROVE  WholeInv'
<1> USE DEF deltaVars, fileVars, threadVars
<1>0. /\ TypeOK /\ DownIsEmpty /\ OneModification /\ AtMostOneMap /\ HandlesAreValid /\ Progress
      /\ NoLeftovers /\ MetadataIsCurrent /\ SnapshotIsWhole
  BY Zenon DEF HandleInv, WholeInv
<1>1. ASSUME UNCHANGED <<deltaVars, up, snapshot>>,
             \A v \in Thread : Modifies(v) /\ next[v] > 0 => UNCHANGED <<pc[v], next[v], todo[v]>>
      PROVE  WholeInv'
  BY Zenon, <1>0, <1>1, QuietWhole DEF SnapshotIsWhole, WholeInv
<1>2. CASE UNCHANGED managerVars
  BY Zenon, <1>1, <1>2 DEF managerVars
<1>3. ASSUME NEW u \in Thread,
             NEW delete \in SUBSET Updatable, NEW insert \in SUBSET Updatable,
             StartUpdate(u, delete, insert)
      PROVE  WholeInv'
  BY Zenon, <1>0, <1>1, <1>3, ManagerAssumption DEF StartUpdate, LockFree, OneModification, Modifies
<1>4. ASSUME NEW u \in Thread, StartClear(u)
      PROVE  WholeInv'
  BY Zenon, <1>0, <1>4, NothingLocatedAt DEF StartClear, Clear, NothingLocated, Keys, Deltas,
       SnapshotIsWhole, WholeInv, NoLeftovers, MetadataIsCurrent
<1>5. ASSUME NEW u \in Thread, EraseFromInverse(u)
      PROVE  WholeInv'
  <2> DEFINE new == NotYetIn(todo[u], pc[u])
  <2>1. pc[u] \in {"insert", "delete"} /\ next[u] = 0
    BY Zenon, <1>5 DEF EraseFromInverse, Modifies
  <2>2. \A v \in Thread, p \in Permutation : ~(Modifies(v) /\ p < next[v])
    BY <1>0, <2>1, OthersAreIdle DEF Modifies, Permutation
  <2>3. ASSUME NEW p \in Permutation, NEW t \in Triple, located'[p][t] # "none"
        PROVE  t \in triplesInserted' \union triplesDeleted'
    BY <1>0, <1>5, <2>1, <2>2, <2>3, EraseEffect DEF NoLeftovers
  <2>4. NoLeftovers'
    BY Zenon, <2>3 DEF NoLeftovers
  <2>5. MetadataIsCurrent'
    BY Zenon, <1>5 DEF EraseFromInverse, EraseInverse, MetadataIsCurrent
  <2>6. SnapshotIsWhole'
    BY Zenon, <1>0, <1>5 DEF EraseFromInverse, SnapshotIsWhole
  <2> QED  BY Zenon, <2>4, <2>5, <2>6 DEF WholeInv
<1>6. ASSUME NEW u \in Thread, LocateAndAdd(u)
      PROVE  WholeInv'
  <2>1. /\ next[u] \in Permutation /\ todo[u] \in SUBSET Triple
        /\ UNCHANGED <<triplesInserted, triplesDeleted, up>>
        /\ \A p \in Permutation, t \in Triple :
             p # next[u] \/ t \notin todo[u] => located'[p][t] = located[p][t]
    BY Zenon, <1>0, <1>6, AddEffect
  <2>2. Modifies(u) /\ ~AddFails(located[next[u]], todo[u])
    <3>1. AddedTriplesAreNew
      BY Zenon, <1>0, AddSucceeds DEF WholeInv
    <3> QED  BY Zenon, ManagerAssumption, <1>6, <3>1 DEF LocateAndAdd, AddedTriplesAreNew
  <2>3. /\ UNCHANGED <<lock, pc, todo, toInsert>>
        /\ next' = [next EXCEPT ![u] = next[u] + 1] /\ next'[u] = next[u] + 1
    BY Zenon, <1>0, <1>6, <2>2 DEF LocateAndAdd, TypeOK
  <2>4. ASSUME NEW p \in Permutation, NEW t \in Triple, located'[p][t] # "none"
        PROVE  \/ t \in triplesInserted \union triplesDeleted
               \/ \E v \in Thread : Modifies(v)' /\ p < next'[v] /\ t \in todo'[v]
    BY <1>0, <2>1, <2>2, <2>3, <2>4, OthersAreIdle DEF Modifies, Permutation, NoLeftovers
  <2>5. NoLeftovers'
    BY Zenon, <2>1, <2>4 DEF NoLeftovers
  <2>6. MetadataIsCurrent'
    BY Zenon, <1>0, <1>6, <2>1, <2>2 DEF LocateAndAdd, AddTo, MetadataIsCurrent, TypeOK
  <2>7. SnapshotIsWhole'
    BY Zenon, <1>0, <1>6 DEF LocateAndAdd, SnapshotIsWhole
  <2> QED  BY Zenon, <2>5, <2>6, <2>7 DEF WholeInv
<1>7. ASSUME NEW u \in Thread, RegisterHandles(u)
      PROVE  WholeInv'
  BY Zenon, <1>0, <1>7, OthersAreIdle DEF RegisterHandles, Modifies, Register, NoLeftovers, WholeInv,
       MetadataIsCurrent, SnapshotIsWhole
<1>9. ASSUME NEW u \in Thread, Return(u) \/ OpenTemp(u) \/ SerializeIds(u) \/ Rename(u)
      PROVE  WholeInv'
  BY Zenon, <1>0, <1>1, <1>9, OthersAreIdle DEF Return, OpenTemp, SerializeIds, Rename, Goto, Modifies
<1>10. ASSUME NEW u \in Thread, UpdateSnapshot(u)
       PROVE  WholeInv'
  <2>1. pc[u] # "idle" /\ ~Modifies(u)
    BY Zenon, <1>10 DEF UpdateSnapshot, Goto, Modifies
  <2>2. \A v \in Thread : ~Modifies(v)
    BY Zenon, <1>0, <2>1, OthersAreIdle DEF Modifies
  <2>3. NoLeftovers' /\ MetadataIsCurrent'
    BY Zenon, <1>0, <1>10, <2>2, QuietWhole DEF UpdateSnapshot, WholeInv
  <2>4. snapshot'.located = located /\ snapshot'.augmented = augmented
    BY Zenon, <1>10 DEF UpdateSnapshot, SnapshotOf
  <2>5. \A p \in Permutation : located[p] = located[1]
    <3>1. 1 \in Permutation
      BY DEF Permutation
    <3> QED  BY Zenon, <1>0, <2>2, <3>1, QuietIsExact, ExactlyTheSame DEF HandleInv
  <2> QED  BY Zenon, <1>0, <2>3, <2>4, <2>5 DEF WholeInv, SnapshotIsWhole, MetadataIsCurrent
<1>11. CASE Crash
  <2>1. /\ \A p \in Permutation, t \in Triple : located'[p][t] = "none"
        /\ \A p \in Permutation : augmented'[p] = {} /\ located'[p] = NothingLocated
        /\ snapshot'.located = located' /\ snapshot'.augmented = augmented'
    BY Zenon, <1>11, NothingLocatedAt DEF Crash, NothingLocated, SnapshotOf
  <2>2. Keys(NothingLocated) = {}
    BY Zenon, NothingLocatedAt DEF Keys, Deltas
  <2>3. 1 \in Permutation
    BY DEF Permutation
  <2> QED  BY ZenonT(40), <2>1, <2>2, <2>3 DEF WholeInv, NoLeftovers, MetadataIsCurrent, SnapshotIsWhole
<1>12. CASE Restart
  <2> DEFINE d(p) == [located |-> located'[p], inserted |-> triplesInserted',
                      deleted |-> triplesDeleted']
  <2>1. \A p \in Permutation : Exactly(d(p))
    BY Zenon, <1>0, <1>12, RestartReads
  <2>2. 1 \in Permutation
    BY DEF Permutation
  <2>3. \A p \in Permutation : located'[p] = located'[1]
    BY Zenon, <2>1, <2>2, ExactlyTheSame
  <2>4. NoLeftovers'
    BY Zenon, <2>1 DEF NoLeftovers, Exactly
  <2>5. MetadataIsCurrent'
    BY Zenon, <1>0, <1>12 DEF Restart, MetadataIsCurrent
  <2>6. snapshot'.located = located' /\ snapshot'.augmented = augmented'
    BY Zenon, <1>12 DEF Restart, SnapshotOf
  <2> QED  BY Zenon, <2>3, <2>4, <2>5, <2>6 DEF WholeInv, MetadataIsCurrent, SnapshotIsWhole
<1> QED
  BY Zenon, <1>2, <1>3, <1>4, <1>5, <1>6, <1>7, <1>9, <1>10, <1>11, <1>12, NormalCases

LEMMA WholeInvInit ==
  ASSUME Init
  PROVE  WholeInv
<1> USE DEF Init, ManagerInit, DeltaInit, ThreadInit
<1>1. /\ \A p \in Permutation, t \in Triple : located[p][t] = "none"
      /\ \A p \in Permutation : augmented[p] = {} /\ located[p] = NothingLocated
      /\ snapshot.located = located /\ snapshot.augmented = augmented
  BY Zenon, NothingLocatedAt DEF NothingLocated, SnapshotOf
<1>2. Keys(NothingLocated) = {}
  BY Zenon, NothingLocatedAt DEF Keys, Deltas
<1>3. 1 \in Permutation
  BY DEF Permutation
<1> QED  BY ZenonT(60), <1>1, <1>2, <1>3 DEF WholeInv, NoLeftovers, MetadataIsCurrent, SnapshotIsWhole

(* WholeInv is inductive relative to HandleInv.                             *)
THEOREM WholeInvariant == Spec => []WholeInv
<1>1. HandleInv /\ HandleInv' /\ WholeInv /\ [Next]_managerVars => WholeInv'
  BY Zenon, WholeStep
<1> QED  BY <1>1, WholeInvInit, HandleInvariantWithoutFailures, PTL DEF Spec

(* Without cancellations and failed writes the precondition of             *)
(* LocatedTriplesPerBlock::add holds: nothing that an update adds is        *)
(* already there, whatever updates and crashes came before.                 *)
THEOREM AdditionsNeverFail == Spec => []AddedTriplesAreNew
<1>1. HandleInv /\ WholeInv => AddedTriplesAreNew
  BY Zenon, AddSucceeds DEF WholeInv
<1> QED  BY <1>1, HandleInvariantWithoutFailures, WholeInvariant, PTL

(* Without cancellations and failed writes no query ever sees a snapshot    *)
(* whose permutations disagree.                                             *)
THEOREM SnapshotsAreWhole == Spec => []SnapshotIsWhole
<1>1. WholeInv => SnapshotIsWhole
  BY Zenon DEF WholeInv
<1> QED  BY <1>1, WholeInvariant, PTL

=============================================================================
