------------------------- MODULE UpdateRequestsProof -------------------------
(***************************************************************************)
(* Proofs about UpdateRequests and the file of DeltaTriplesManager, for    *)
(* any number of requests, queries, triples and permutations, and chains   *)
(* of any length.  With persistent updates, no cancellation and no failed  *)
(* write the manager implements UpdateStore; and whatever happens, the     *)
(* requests keep the cache and the update thread sound.                    *)
(***************************************************************************)
EXTENDS UpdateRequests, DeltaTriplesProof

USE DeltaTriplesAssumption

(* The file and the snapshot, when updates persist and nothing is          *)
(* cancelled, as far as triples without blank nodes are concerned: while   *)
(* nobody modifies the file holds the maps; until then it holds no triple  *)
(* that the modification has lost, unless it is a clear; and until the end *)
(* of the modification queries see what the file holds.                    *)
MapsOnDisk ==
  /\ Named \intersect disk.inserted = Named \intersect triplesInserted
  /\ Named \intersect disk.deleted = Named \intersect triplesDeleted

InProgress(u) == IF Modifies(u) /\ next[u] > 0 THEN todo[u] ELSE {}

FileIsSound == disk.complete /\ disk.inserted \intersect disk.deleted = {}

FileIsCurrent == up /\ lock = None => MapsOnDisk

TempIsCurrent ==
  \A u \in Thread : pc[u] = "rename" =>
    temp = [complete |-> TRUE, deleted |-> triplesDeleted, inserted |-> triplesInserted]

WrittenBeforePublished == \A u \in Thread : pc[u] = "publish" => MapsOnDisk

NamedOnDisk == Named \intersect (disk.inserted \union disk.deleted)

NothingLost ==
  \A u \in Thread : pc[u] # "idle" =>
    \/ NamedOnDisk \subseteq triplesInserted \union triplesDeleted \union InProgress(u)
    \/ /\ pc[u] \in {"write", "writing", "rename", "publish"}
       /\ triplesInserted = {} /\ triplesDeleted = {}

QueriesSeeFile ==
  up /\ (\A u \in Thread : pc[u] # "publish") =>
    NamedOnly(snapshot.located[1]) = NamedOnly(OnDisk)

FileInv ==
  /\ FileIsSound /\ FileIsCurrent /\ TempIsCurrent /\ WrittenBeforePublished
  /\ NothingLost /\ QueriesSeeFile

LEMMA ExactlyIsDeltaOf ==
  ASSUME NEW lt, NEW ins, NEW del,
         Exactly([located |-> lt, inserted |-> ins, deleted |-> del])
  PROVE  lt = DeltaOf(del, ins)
<1>1. lt \in Deltas
  BY Zenon DEF Exactly
<1>2. \A t \in Triple : /\ t \in ins => lt[t] = "insert"
                        /\ t \in del => lt[t] = "delete"
                        /\ t \notin ins \union del => lt[t] = "none"
  BY Zenon DEF Exactly
<1>3. \A t \in Triple : lt[t] = IF t \in ins THEN "insert"
                                ELSE IF t \in del THEN "delete" ELSE "none"
  BY Zenon, <1>2
<1>4. lt = [t \in Triple |-> lt[t]]
  BY Zenon, <1>1 DEF Deltas
<1> QED  BY Zenon, <1>3, <1>4 DEF DeltaOf

(* What is seen of the triples without blank nodes depends on them alone.  *)
LEMMA SameNamed ==
  ASSUME NEW del, NEW ins, NEW del2, NEW ins2,
         Named \intersect del = Named \intersect del2,
         Named \intersect ins = Named \intersect ins2
  PROVE  NamedOnly(DeltaOf(del, ins)) = NamedOnly(DeltaOf(del2, ins2))
<1>1. \A t \in Named : DeltaOf(del, ins)[t] = DeltaOf(del2, ins2)[t]
  BY Zenon DEF DeltaOf, Named
<1> QED  BY Zenon, <1>1 DEF NamedOnly

(* Reading the file gives back its triples without blank nodes.            *)
LEMMA NamedAreRead ==
  ASSUME Persists, TypeOK, DownIsEmpty, FileIsSound, Restart
  PROVE  /\ Named \intersect triplesInserted' = Named \intersect disk.inserted
         /\ Named \intersect triplesDeleted' = Named \intersect disk.deleted
<1>1. PICK ids \in NewIds :
        /\ triplesInserted' = DeserializeIds(ids, disk.inserted) \ DeserializeIds(ids, disk.deleted)
        /\ triplesDeleted' = DeserializeIds(ids, disk.deleted)
  BY Zenon, RestartReads
<1>2. disk.inserted \in SUBSET Triple /\ disk.deleted \in SUBSET Triple
  BY Zenon DEF TypeOK
<1>3. /\ \A t \in Named : t \in DeserializeIds(ids, disk.inserted) <=> t \in disk.inserted
      /\ \A t \in Named : t \in DeserializeIds(ids, disk.deleted) <=> t \in disk.deleted
  BY <1>2, Deserialized
<1> QED  BY Zenon, <1>1, <1>3 DEF FileIsSound

LEMMA FileInvInit ==
  ASSUME Init
  PROVE  FileInv
<1> USE DEF Init, ManagerInit, DeltaInit, ThreadInit
<1>1. /\ disk = EmptyFile /\ triplesInserted = {} /\ triplesDeleted = {}
      /\ \A u \in Thread : pc[u] = "idle"
  OBVIOUS
<1>2. snapshot.located[1] = NothingLocated
  BY DEF SnapshotOf, NothingLocated, Permutation
<1>3. NothingLocated = DeltaOf({}, {})
  BY Zenon DEF NothingLocated, NoTriples, DeltaOf
<1>4. disk.complete /\ disk.inserted = {} /\ disk.deleted = {}
  BY <1>1 DEF EmptyFile
<1>5. snapshot.located[1] = OnDisk
  BY Zenon, <1>2, <1>3, <1>4 DEF OnDisk
<1>6. MapsOnDisk /\ disk.inserted \intersect disk.deleted = {}
  BY Zenon, <1>1, <1>4 DEF MapsOnDisk
<1>7. \A u \in Thread : pc[u] # "rename" /\ pc[u] # "publish" /\ ~(pc[u] # "idle")
  BY Zenon, <1>1
<1> QED  BY Zenon, <1>4, <1>5, <1>6, <1>7
     DEF FileInv, FileIsSound, FileIsCurrent, TempIsCurrent, WrittenBeforePublished, NothingLost, QueriesSeeFile

LEMMA FileStep ==
  ASSUME Persists, HandleInv, HandleInv', WholeInv, WholeInv',
         FileInv, [Next]_managerVars
  PROVE  FileInv'
<1> USE DEF deltaVars, fileVars, threadVars
<1>0. TypeOK /\ DownIsEmpty /\ OneModification /\ AtMostOneMap /\ NoLeftovers
  BY Zenon DEF HandleInv, WholeInv
<1>1. CASE UNCHANGED managerVars
  BY <1>1
       DEF managerVars, FileInv, FileIsSound, FileIsCurrent, TempIsCurrent, WrittenBeforePublished, NothingLost, QueriesSeeFile, MapsOnDisk, InProgress, Modifies,
           NamedOnDisk, OnDisk
<1>2. ASSUME NEW u \in Thread, pc'[u] # "idle", pc'[u] # "publish", pc'[u] # "rename",
             \A v \in Thread : v # u => pc'[v] = "idle",
             lock' = u, up, up', UNCHANGED <<snapshot, disk>>,
             \A v \in Thread : pc[v] # "publish",
             \/ NamedOnDisk \subseteq triplesInserted' \union triplesDeleted' \union InProgress(u)'
             \/ /\ pc'[u] \in {"write", "writing"}
                /\ triplesInserted' = {} /\ triplesDeleted' = {}
      PROVE  FileInv'
  BY Zenon, <1>2, ManagerAssumption DEF FileInv, FileIsSound, FileIsCurrent, TempIsCurrent,
       WrittenBeforePublished, NothingLost, QueriesSeeFile, NamedOnDisk, OnDisk
<1>3. ASSUME NEW u \in Thread, pc[u] # "idle", lock' = lock, UNCHANGED up, up, pc[u] # "publish",
             \A v \in Thread : v # u => pc'[v] = pc[v]
      PROVE  /\ lock' = u
             /\ \A v \in Thread : v # u => pc'[v] = "idle"
             /\ \A v \in Thread : pc[v] # "publish"
  BY Zenon, <1>0, <1>3, OthersAreIdle DEF OneModification
<1>4. ASSUME NEW u \in Thread,
             NEW delete \in SUBSET Updatable, NEW insert \in SUBSET Updatable,
             StartUpdate(u, delete, insert)
      PROVE  FileInv'
  BY SMTT(30), <1>0, <1>2, <1>4, ManagerAssumption DEF StartUpdate, LockFree, OneModification, TypeOK,
       FileInv, FileIsCurrent, MapsOnDisk, NamedOnDisk
<1>5. ASSUME NEW u \in Thread, StartClear(u)
      PROVE  FileInv'
  <2>1. \A v \in Thread : pc[v] = "idle"
    BY Zenon, ManagerAssumption, <1>0, <1>5 DEF StartClear, LockFree, OneModification
  <2>2. /\ pc'[u] = "write" /\ \A v \in Thread : v # u => pc'[v] = "idle"
        /\ up /\ up' /\ lock' = u /\ UNCHANGED <<snapshot, disk>>
        /\ triplesInserted' = {} /\ triplesDeleted' = {}
    BY Zenon, <1>0, <1>5, <2>1 DEF StartClear, Clear, LockFree, TypeOK
  <2> QED  BY Zenon, <1>2, <2>1, <2>2
<1>6. ASSUME NEW u \in Thread, EraseFromInverse(u)
      PROVE  FileInv'
  <2>1. /\ pc[u] \in {"delete", "insert"} /\ next[u] = 0 /\ UNCHANGED <<lock, pc, snapshot, disk, up>>
        /\ up
    BY Zenon, <1>6 DEF EraseFromInverse, Modifies
  <2>2. NamedOnDisk \subseteq triplesInserted \union triplesDeleted
    BY <2>1 DEF FileInv, NothingLost, InProgress
  <2>3. triplesInserted \union triplesDeleted
          \subseteq triplesInserted' \union triplesDeleted' \union todo'[u]
    BY <1>0, <1>6, <2>1, EraseEffect
  <2>4. InProgress(u)' = todo'[u]
    BY SMTT(30), <1>0, <1>6, <2>1, EraseEffect DEF InProgress, Modifies
  <2> QED  BY Zenon, <1>2, <1>3, <2>1, <2>2, <2>3, <2>4
<1>7. ASSUME NEW u \in Thread, LocateAndAdd(u)
      PROVE  FileInv'
  <2>1. /\ Modifies(u) /\ next[u] \in Permutation /\ ~AddFails(located[next[u]], todo[u])
        /\ UNCHANGED <<snapshot, disk, up, triplesInserted, triplesDeleted>>
    BY Zenon, <1>0, <1>7, AddSucceeds DEF LocateAndAdd, AddTo, AddedTriplesAreNew
  <2>2. /\ UNCHANGED <<lock, pc, todo, toInsert>> /\ next'[u] = next[u] + 1
    BY Zenon, <1>0, <1>7, <2>1 DEF LocateAndAdd, TypeOK
  <2>3. InProgress(u)' = InProgress(u)
    BY <2>1, <2>2, ManagerAssumption DEF Permutation, Modifies, InProgress
  <2>4. NamedOnDisk \subseteq triplesInserted \union triplesDeleted \union InProgress(u)
    BY Zenon, <2>1 DEF FileInv, NothingLost, Modifies
  <2> QED  BY Zenon, <1>2, <1>3, <2>1, <2>2, <2>3, <2>4 DEF Modifies
<1>8. ASSUME NEW u \in Thread, RegisterHandles(u)
      PROVE  FileInv'
  BY <1>0, <1>2, <1>3, <1>8 DEF RegisterHandles, Register, InProgress, TypeOK, FileInv,
       NothingLost, Modifies
<1>10. ASSUME NEW u \in Thread, Return(u) \/ OpenTemp(u)
       PROVE  FileInv'
  <2>1. /\ pc[u] \in {"done", "write"} /\ pc'[u] \in {"write", "writing"} /\ up
        /\ \A v \in Thread : v # u => pc'[v] = pc[v]
        /\ UNCHANGED <<lock, snapshot, disk, up, triplesInserted, triplesDeleted>>
    BY Zenon, <1>0, <1>10 DEF Return, OpenTemp, Goto, TypeOK
  <2>2. InProgress(u) = {}
    BY Zenon, <2>1 DEF InProgress, Modifies
  <2>3. \/ NamedOnDisk \subseteq triplesInserted \union triplesDeleted
        \/ triplesInserted = {} /\ triplesDeleted = {}
    BY Zenon, <2>1, <2>2 DEF FileInv, NothingLost
  <2> QED  BY Zenon, <1>2, <1>3, <2>1, <2>3
<1>11. ASSUME NEW u \in Thread, SerializeIds(u)
       PROVE  FileInv'
  <2>1. /\ pc[u] = "writing" /\ pc'[u] = "rename" /\ up
        /\ \A v \in Thread : v # u => pc'[v] = pc[v]
        /\ UNCHANGED <<lock, snapshot, disk, up, triplesInserted, triplesDeleted>>
        /\ temp' = [complete |-> TRUE, deleted |-> triplesDeleted, inserted |-> triplesInserted]
    BY Zenon, <1>0, <1>11 DEF SerializeIds, Goto, TypeOK
  <2>2. InProgress(u) = {}
    BY Zenon, <2>1 DEF InProgress, Modifies
  <2>3. \/ NamedOnDisk \subseteq triplesInserted \union triplesDeleted
        \/ triplesInserted = {} /\ triplesDeleted = {}
    BY Zenon, <2>1, <2>2 DEF FileInv, NothingLost
  <2>4. /\ lock' = u /\ lock' # None
        /\ \A v \in Thread : v # u => pc'[v] = "idle"
        /\ \A v \in Thread : pc[v] # "publish"
    BY Zenon, ManagerAssumption, <1>3, <2>1
  <2> QED  BY Zenon, <2>1, <2>3, <2>4
       DEF FileInv, FileIsSound, FileIsCurrent, TempIsCurrent, WrittenBeforePublished, NothingLost, QueriesSeeFile,
           NamedOnDisk, OnDisk
<1>12. ASSUME NEW u \in Thread, Rename(u)
       PROVE  FileInv'
  <2>1. /\ pc[u] = "rename" /\ pc'[u] = "publish" /\ up
        /\ \A v \in Thread : v # u => pc'[v] = pc[v]
        /\ UNCHANGED <<lock, up, triplesInserted, triplesDeleted>> /\ disk' = temp
    BY Zenon, <1>0, <1>12 DEF Rename, Goto, TypeOK
  <2>2. disk' = [complete |-> TRUE, deleted |-> triplesDeleted, inserted |-> triplesInserted]
    BY Zenon, <2>1 DEF FileInv, TempIsCurrent
  <2>3. /\ disk'.complete /\ disk'.inserted = triplesInserted /\ disk'.deleted = triplesDeleted
    BY Zenon, <2>2
  <2>4. lock' # None /\ \A v \in Thread : v # u => pc'[v] = "idle"
    BY Zenon, ManagerAssumption, <1>3, <2>1
  <2>5. /\ MapsOnDisk' /\ NamedOnDisk' \subseteq triplesInserted' \union triplesDeleted'
        /\ disk'.inserted \intersect disk'.deleted = {}
    BY Zenon, <1>0, <2>1, <2>3 DEF MapsOnDisk, NamedOnDisk, AtMostOneMap
  <2> QED  BY Zenon, <2>1, <2>3, <2>4, <2>5
       DEF FileInv, FileIsSound, FileIsCurrent, TempIsCurrent, WrittenBeforePublished, NothingLost, QueriesSeeFile
<1>13. ASSUME NEW u \in Thread, UpdateSnapshot(u)
       PROVE  FileInv'
  <2>1. /\ pc[u] = "publish" /\ pc'[u] = "idle" /\ up
        /\ \A v \in Thread : v # u => pc'[v] = pc[v]
        /\ UNCHANGED <<disk, triplesInserted, triplesDeleted>>
        /\ snapshot'.located[1] = located[1]
    BY Zenon, <1>0, <1>13 DEF UpdateSnapshot, SnapshotOf, Goto, TypeOK
  <2>2. MapsOnDisk
    BY Zenon, <2>1 DEF FileInv, WrittenBeforePublished
  <2>3. \A v \in Thread : pc'[v] = "idle" /\ ~Modifies(v)
    BY Zenon, <1>0, <2>1, OthersAreIdle DEF Modifies
  <2>4. located[1] = DeltaOf(triplesDeleted, triplesInserted)
    <3>1. 1 \in Permutation
      BY DEF Permutation
    <3>2. Exactly([located |-> located[1], inserted |-> triplesInserted,
                   deleted |-> triplesDeleted])
      BY Zenon, <1>0, <2>3, <3>1, QuietIsExact
    <3> QED  BY Zenon, <3>2, ExactlyIsDeltaOf
  <2>5. NamedOnly(located[1]) = NamedOnly(OnDisk)
    BY <2>2, <2>4, SameNamed DEF MapsOnDisk, OnDisk
  <2>6. MapsOnDisk' /\ OnDisk' = OnDisk
    BY Zenon, <2>1, <2>2 DEF MapsOnDisk, OnDisk
  <2> QED  BY Zenon, <2>1, <2>3, <2>5, <2>6
       DEF FileInv, FileIsSound, FileIsCurrent, TempIsCurrent, WrittenBeforePublished, NothingLost, QueriesSeeFile
<1>14. CASE Crash
  BY Zenon, <1>14
       DEF Crash, FileInv, FileIsSound, FileIsCurrent, TempIsCurrent, WrittenBeforePublished, NothingLost, QueriesSeeFile
<1>15. CASE Restart
  <2>1. 1 \in Permutation
    BY SMTT(30) DEF Permutation
  <2>2. located'[1] = DeltaOf(triplesDeleted', triplesInserted')
    BY Zenon, <1>0, <1>15, <2>1, RestartReads, ExactlyIsDeltaOf
  <2>3. /\ Named \intersect triplesInserted' = Named \intersect disk.inserted
        /\ Named \intersect triplesDeleted' = Named \intersect disk.deleted
    BY Zenon, <1>0, <1>15, NamedAreRead DEF FileInv
  <2>4. NamedOnly(located'[1]) = NamedOnly(OnDisk)
    BY <2>2, <2>3, SameNamed DEF OnDisk
  <2>5. /\ UNCHANGED disk /\ snapshot'.located = located'
        /\ \A v \in Thread : pc'[v] = "idle"
    BY Zenon, <1>0, <1>15 DEF Restart, SnapshotOf, DownIsEmpty
  <2>6. disk'.complete /\ disk'.inserted \intersect disk'.deleted = {} /\ MapsOnDisk'
    BY Zenon, <2>3, <2>5 DEF FileInv, FileIsSound, MapsOnDisk
  <2> HIDE DEF MapsOnDisk
  <2>7. NamedOnly(snapshot'.located[1]) = NamedOnly(OnDisk')
    BY Zenon, <2>4, <2>5 DEF OnDisk
  <2> QED  BY Zenon, <2>5, <2>6, <2>7
       DEF FileInv, FileIsSound, FileIsCurrent, TempIsCurrent, WrittenBeforePublished, NothingLost, QueriesSeeFile,
           NamedOnly
<1> QED
  BY Zenon, <1>1, <1>4, <1>5, <1>6, <1>7, <1>8, <1>10, <1>11, <1>12, <1>13, <1>14, <1>15, NormalCases

(* FileInv is inductive relative to HandleInv and WholeInv.                 *)
THEOREM FileInvariant ==
  ASSUME Persists
  PROVE  Spec => []FileInv
<1>1. /\ HandleInv /\ HandleInv' /\ WholeInv /\ WholeInv' /\ FileInv /\ [Next]_managerVars
      => FileInv'
  BY Zenon, FileStep
<1> QED  BY <1>1, FileInvInit, HandleInvariantWithoutFailures, WholeInvariant, PTL DEF Spec

-----------------------------------------------------------------------------
(* The values of the refinement mapping.                                   *)
Visible == IF ~up THEN Restored
           ELSE IF SnapshotIsWhole THEN NamedOnly(snapshot.located[1]) ELSE None

LEMMA MappedInit ==
  ASSUME Init
  PROVE  Store!Init
<1>1. FileInv /\ SnapshotIsWhole
  BY Zenon, FileInvInit, WholeInvInit DEF WholeInv
<1>2. /\ up /\ \A u \in Thread : pc[u] # "publish"
      /\ disk.deleted = {} /\ disk.inserted = {}
  BY Zenon DEF Init, ManagerInit, ThreadInit, EmptyFile
<1>3. NamedOnly(DeltaOf({}, {})) = Store!Nothing
  BY Zenon DEF DeltaOf, NamedOnly, Named, Store!Nothing
<1> QED  BY Zenon, <1>1, <1>2, <1>3 DEF Store!Init, FileInv, FileIsSound, QueriesSeeFile, Restored,
            OnDisk

(* A step that leaves the file, the snapshot and `up` alone is a stutter.  *)
LEMMA MappedStutter ==
  ASSUME UNCHANGED <<disk, snapshot, up>>
  PROVE  UNCHANGED <<Restored, Visible>>
<1>1. SnapshotIsWhole' = SnapshotIsWhole
  BY Zenon DEF SnapshotIsWhole
<1> QED  BY Zenon, <1>1 DEF Restored, Visible, OnDisk, NamedOnly

LEMMA MappedStep ==
  ASSUME Persists, HandleInv, HandleInv', WholeInv, WholeInv',
         FileInv, FileInv', [Next]_managerVars
  PROVE  Store!Next \/ UNCHANGED <<Restored, Visible>>
<1> USE DEF deltaVars, fileVars, threadVars
<1>0. /\ TypeOK /\ DownIsEmpty /\ OneModification /\ AtMostOneMap
      /\ SnapshotIsWhole /\ SnapshotIsWhole'
  BY Zenon DEF HandleInv, WholeInv
<1>1. /\ Restored = NamedOnly(OnDisk) /\ Restored' = NamedOnly(OnDisk')
      /\ Visible = IF up THEN NamedOnly(snapshot.located[1]) ELSE Restored
      /\ Visible' = IF up' THEN NamedOnly(snapshot'.located[1]) ELSE Restored'
  BY Zenon, <1>0 DEF FileInv, FileIsSound, Restored, Visible, NamedOnly
<1>2. CASE UNCHANGED managerVars
  BY Zenon, <1>2, MappedStutter DEF managerVars
<1>3. ASSUME NEW u \in Thread,
             NEW delete \in SUBSET Updatable, NEW insert \in SUBSET Updatable,
             StartUpdate(u, delete, insert)
      PROVE  UNCHANGED <<Restored, Visible>>
  BY Zenon, <1>3, MappedStutter DEF StartUpdate
<1>4. ASSUME NEW u \in Thread,
             \/ StartClear(u) \/ EraseFromInverse(u) \/ LocateAndAdd(u) \/ RegisterHandles(u)
             \/ Return(u) \/ OpenTemp(u) \/ SerializeIds(u)
      PROVE  UNCHANGED <<Restored, Visible>>
  BY Zenon, <1>4, MappedStutter DEF StartClear, EraseFromInverse, LocateAndAdd, RegisterHandles,
              Return, OpenTemp, SerializeIds
<1>5. ASSUME NEW u \in Thread, Rename(u)
      PROVE  Store!Commit \/ Store!CommitClear
  <2>1. /\ pc[u] = "rename" /\ pc'[u] = "publish" /\ up
        /\ UNCHANGED <<up, snapshot, triplesInserted, triplesDeleted>>
    BY Zenon, <1>0, <1>5 DEF Rename, Goto, TypeOK
  <2>2. \A v \in Thread : pc[v] # "publish"
    BY Zenon, <1>0, <2>1, OthersAreIdle
  <2>3. Visible = Restored /\ Visible' = Visible
    BY Zenon, <1>1, <2>1, <2>2 DEF FileInv, QueriesSeeFile
  <2>4. Restored' = NamedOnly(DeltaOf(triplesDeleted, triplesInserted))
    <3>1. MapsOnDisk'
      BY Zenon, <2>1 DEF FileInv, WrittenBeforePublished
    <3> QED  BY <1>1, <2>1, <3>1, SameNamed DEF MapsOnDisk, OnDisk
  <2>5. CASE triplesInserted = {} /\ triplesDeleted = {}
    <3>1. Restored' = Store!Nothing
      BY Zenon, <2>4, <2>5 DEF DeltaOf, NamedOnly, Named, Store!Nothing
    <3> QED  BY Zenon, <2>3, <3>1 DEF Store!CommitClear, Visible
  <2>6. CASE NamedOnDisk \subseteq triplesInserted \union triplesDeleted
    <3> DEFINE delete == Named \intersect triplesDeleted
               insert == Named \intersect triplesInserted
    <3>1. \A t \in Named : t \notin insert \union delete => Restored[t] = "none"
      BY Zenon, <1>1, <2>6 DEF NamedOnDisk, OnDisk, DeltaOf, NamedOnly, Named
    <3>2. Restored' = Store!Applied(Restored, delete, insert)
      BY Zenon, <2>4, <3>1 DEF DeltaOf, NamedOnly, Named, Store!Applied
    <3>3. delete \in SUBSET Named /\ insert \in SUBSET Named
      BY Zenon
    <3> HIDE DEF delete, insert
    <3>4. \E del, ins \in SUBSET Named : Restored' = Store!Applied(Restored, del, ins)
      BY Zenon, <3>2, <3>3
    <3> QED  BY Zenon, <2>3, <3>4 DEF Store!Commit, Visible
  <2>7. InProgress(u) = {}
    BY Zenon, <2>1 DEF InProgress, Modifies
  <2> QED  BY Zenon, <2>1, <2>5, <2>6, <2>7 DEF FileInv, NothingLost
<1>6. ASSUME NEW u \in Thread, UpdateSnapshot(u)
      PROVE  Store!Publish
  BY Zenon, <1>0, <1>1, <1>6, OthersAreIdle DEF UpdateSnapshot, Goto, TypeOK, FileInv, QueriesSeeFile,
       Store!Publish, Visible, OnDisk
<1>7. CASE Crash
  BY Zenon, <1>1, <1>7 DEF Crash, Store!Publish, Store!Next, Visible, OnDisk
<1>8. CASE Restart
  BY Zenon, <1>0, <1>1, <1>8 DEF Restart, DownIsEmpty, FileInv, QueriesSeeFile, OnDisk
<1> QED
  BY Zenon, <1>2, <1>3, <1>4, <1>5, <1>6, <1>7, <1>8, NormalCases DEF Store!Next

(* Persistent updates are atomic and durable: the detailed specification of *)
(* DeltaTriplesManager implements UpdateStore, for any number of threads,   *)
(* triples and permutations, as long as no update is cancelled and no write *)
(* fails, for the triples without blank nodes, whatever happens to others.  *)
THEOREM ImplementsUpdateStore ==
  ASSUME Persists
  PROVE  Spec => AtomicAndDurable
<1>1. Init => Store!Init
  BY Zenon, MappedInit
<1>2. /\ HandleInv /\ HandleInv' /\ WholeInv /\ WholeInv' /\ FileInv /\ FileInv'
      /\ [Next]_managerVars
      => [Store!Next]_<<Restored, Visible>>
  BY Zenon, MappedStep
<1> QED
  BY <1>1, <1>2, HandleInvariantWithoutFailures, WholeInvariant, FileInvariant, PTL
     DEF Spec, AtomicAndDurable, Store!Spec, Visible

(* A restart of a server with persistent updates puts into the snapshot     *)
(* exactly what the file holds: triples without blank nodes as they were,   *)
(* the others under new blank nodes that keep them apart, and no triple     *)
(* more.  No update is cancelled and no write fails.                        *)
THEOREM RestartsRestore ==
  ASSUME Persists
  PROVE  Spec => RestartRestores
<1> DEFINE Goal == ~up /\ up' => \E ids \in Injection(BlankOnDisk, LocalBlank) :
                                   \A p \in Permutation : Restores(ids, snapshot'.located[p])
<1>1. HandleInv /\ FileInv /\ [Next]_managerVars => [Goal]_managerVars
  <2> SUFFICES ASSUME HandleInv, FileInv, Next, ~up, up'
               PROVE  \E ids \in NewIds : \A p \in Permutation : Restores(ids, snapshot'.located[p])
    BY Zenon DEF managerVars, NewIds
  <2>1. Restart
    BY Zenon, NormalCases DEF StartUpdate, StartClear, LockFree, EraseFromInverse, LocateAndAdd,
         RegisterHandles, Return, OpenTemp, SerializeIds, Rename,
         UpdateSnapshot, Modifies, Goto, Crash
  <2>2. TypeOK /\ DownIsEmpty /\ FileIsSound
    BY Zenon DEF HandleInv, FileInv
  <2>3. PICK ids \in NewIds :
          /\ triplesInserted' = DeserializeIds(ids, disk.inserted) \ DeserializeIds(ids, disk.deleted)
          /\ triplesDeleted' = DeserializeIds(ids, disk.deleted)
    BY Zenon, <2>1, <2>2, RestartReads
  <2> DEFINE ins == DeserializeIds(ids, disk.inserted)
             del == DeserializeIds(ids, disk.deleted)
  <2>4. /\ disk.inserted \in SUBSET Triple /\ disk.deleted \in SUBSET Triple
        /\ disk.inserted \intersect disk.deleted = {}
    BY Zenon, <2>2 DEF TypeOK, FileIsSound
  <2>5. /\ \A t \in Named : (t \in ins <=> t \in disk.inserted) /\ (t \in del <=> t \in disk.deleted)
        /\ \A t \in DOMAIN ids : /\ ids[t] \in ins <=> t \in disk.inserted
                                 /\ ids[t] \in del <=> t \in disk.deleted
        /\ \A t \in Blank \ {ids[s] : s \in DOMAIN ids} : t \notin ins /\ t \notin del
    BY <2>4, Deserialized
  <2>6. \A t \in DOMAIN ids : t \in Triple /\ ids[t] \in Triple
    BY Zenon, <2>4, NewIdsAreFresh, ManagerAssumption DEF BlankOnDisk
  <2>7. Named \subseteq Triple /\ Blank \subseteq Triple
    BY Zenon, ManagerAssumption DEF Named, Blank
  <2> HIDE DEF ins, del
  <2>8. Restores(ids, DeltaOf(del, ins \ del))
    <3>1. \A t \in Named : DeltaOf(del, ins \ del)[t] = OnDisk[t]
      BY Zenon, <2>4, <2>5, <2>7 DEF DeltaOf, OnDisk
    <3>2. \A t \in DOMAIN ids : DeltaOf(del, ins \ del)[ids[t]] = OnDisk[t]
      BY Zenon, <2>4, <2>5, <2>6 DEF DeltaOf, OnDisk
    <3>3. \A t \in Blank \ {ids[s] : s \in DOMAIN ids} : DeltaOf(del, ins \ del)[t] = "none"
      BY Zenon, <2>5, <2>7 DEF DeltaOf
    <3> QED  BY Zenon, <3>1, <3>2, <3>3 DEF Restores
  <2>9. \A p \in Permutation : snapshot'.located[p] = DeltaOf(del, ins \ del)
    <3>1. snapshot'.located = located'
      BY Zenon, <2>1 DEF Restart, SnapshotOf
    <3>2. triplesInserted' = ins \ del /\ triplesDeleted' = del
      BY Zenon, <2>3 DEF ins, del
    <3> QED  BY Zenon, <2>1, <2>2, <3>1, <3>2, RestartReads, ExactlyIsDeltaOf
  <2> QED  BY Zenon, <2>8, <2>9
<1> QED
  BY <1>1, HandleInvariantWithoutFailures, FileInvariant, PTL DEF Spec, RestartRestores
-----------------------------------------------------------------------------

Snapshots == [index : Nat, located : [Permutation -> [Triple -> Kind]],
              augmented : [Permutation -> SUBSET Triple]]

(* The snapshots that somebody can still use.                              *)
InUse == {snapshot} \union UNION {running[q] : q \in Query}

(* The strengthening of CachedResultsAreCurrent: an index is never used    *)
(* twice while a snapshot or a cached result with it is left, since all of *)
(* them are below nextSnapshotIndex.                                       *)
CacheInv ==
  /\ running \in [Query -> SUBSET Snapshots]
  /\ cache \subseteq [scan : Permutation, index : Nat, rows : [Triple -> Kind]]
  /\ \A s \in InUse : s.index < nextSnapshotIndex
  /\ \A s, t \in InUse : s.index = t.index => s.located = t.located
  /\ \A e \in cache :
       /\ e.index < nextSnapshotIndex
       /\ \A s \in InUse : s.index = e.index => e.rows = s.located[e.scan]
  /\ ~up => cache = {} /\ running = [q \in Query |-> {}]

(* The strengthening of PlannedOnCurrentSnapshot: only the request that    *)
(* occupies the thread of the pool is inside `modify`.                     *)
PoolInv ==
  /\ stage \in [Thread -> Stage]
  /\ left \in [Thread -> 0 .. MaxChain] /\ planned \in [Thread -> Nat]
  /\ \A u, v \in Thread :
       stage[u] \in {"pool", "planned"} /\ stage[v] \in {"pool", "planned"} => u = v
  /\ \A u \in Thread : /\ pc[u] # "idle" => stage[u] = "pool"
                       /\ stage[u] # "none" => left[u] > 0
                       /\ ~up => stage[u] = "none"
  /\ PlannedOnCurrentSnapshot
-----------------------------------------------------------------------------
(* The steps of a request, seen by DeltaTriplesManager.                    *)
LEMMA RequestIsManagerStep ==
  ASSUME NEW u \in Thread, Request(u)
  PROVE  [NextOrFail]_managerVars
<1>1. CASE Arrive(u) \/ Dispatch(u) \/ Plan(u) \/ Abandon(u)
  BY Zenon, <1>1 DEF Arrive, Dispatch, Plan, Abandon
<1>2. CASE Execute(u)
  BY Zenon, <1>2 DEF Execute, NextOrFail, Next
<1>3. CASE ExecuteClear(u) \/ ReturnFromUpdate(u)
  BY Zenon, <1>3 DEF ExecuteClear, ReturnFromUpdate, NextOrFail, Next
<1>4. CASE Continue(u) \/ ContinueOrThrow(u) \/ Finish(u)
  BY Zenon, <1>4 DEF Continue, ContinueOrThrow, Finish, NextOrFail, Next, ThreadStep, Fails
<1> QED  BY Zenon, <1>1, <1>2, <1>3, <1>4 DEF Request

(* Whatever the server does is a step of DeltaTriplesManager or does not   *)
(* concern it, so the theorems of DeltaTriplesProof hold for the server.   *)
THEOREM RequestsUseTheManager == RequestsSpec => SpecWithFailures
<1>1. RequestsInit => Init
  BY Zenon DEF RequestsInit, Init
<1>2. [RequestsNext]_vars => [NextOrFail]_managerVars
  <2> SUFFICES ASSUME [RequestsNext]_vars  PROVE [NextOrFail]_managerVars
    OBVIOUS
  <2>1. CASE UNCHANGED vars
    BY Zenon, <2>1 DEF vars
  <2>2. ASSUME NEW q \in Query, QueryStep(q)  PROVE [NextOrFail]_managerVars
    BY Zenon, <2>2 DEF QueryStep, BeginQuery, EndQuery, Scan
  <2>3. CASE CrashAll \/ RestartAll
    BY Zenon, <2>3 DEF CrashAll, RestartAll, NextOrFail, Next, Environment
  <2> QED  BY Zenon, <2>1, <2>2, <2>3, RequestIsManagerStep DEF RequestsNext
<1> QED  BY <1>1, <1>2, PTL DEF RequestsSpec, SpecWithFailures

-----------------------------------------------------------------------------
(* A step that brings no snapshot and no new result keeps CacheInv.        *)
LEMMA NothingNew ==
  ASSUME CacheInv, UNCHANGED <<snapshot, nextSnapshotIndex, up>>,
         cache' \in {cache, {}},
         running' \in [Query -> SUBSET Snapshots],
         \A q \in Query : running'[q] \subseteq running[q] \union {snapshot},
         ~up => running' = running
  PROVE  CacheInv'
<1>1. InUse' \subseteq InUse
  BY DEF InUse
<1>2. cache' \subseteq cache
  OBVIOUS
<1> QED  BY Zenon, <1>1, <1>2 DEF CacheInv

LEMMA CacheStep ==
  ASSUME TypeOK, CacheInv, [RequestsNext]_vars
  PROVE  CacheInv'
<1> USE DEF fileVars, threadVars, deltaVars
<1>0. /\ snapshot \in Snapshots /\ nextSnapshotIndex \in Nat
      /\ snapshot \in InUse
  BY Zenon DEF TypeOK, Snapshots, InUse
<1>q. ASSUME UNCHANGED <<snapshot, nextSnapshotIndex, up, running>>, cache' \in {cache, {}}
      PROVE  CacheInv'
  BY Zenon, <1>q, NothingNew DEF CacheInv
<1>1. CASE UNCHANGED vars
  BY Zenon, <1>1, <1>q DEF vars, managerVars
<1>2. ASSUME NEW u \in Thread, Request(u), ~Finish(u)
      PROVE  CacheInv'
  <2>1. CASE Arrive(u) \/ Dispatch(u) \/ Plan(u) \/ Abandon(u)
    BY Zenon, <2>1, <1>q DEF Arrive, Dispatch, Plan, Abandon, managerVars
  <2>2. CASE Execute(u) \/ ExecuteClear(u) \/ ReturnFromUpdate(u)
    BY Zenon, <2>2, <1>q DEF Execute, ExecuteClear, ReturnFromUpdate, StartUpdate, StartClear, Return
  <2>3. CASE Continue(u)
    BY Zenon, <2>3, <1>q DEF Continue, EraseFromInverse, RegisterHandles, OpenTemp, SerializeIds, Rename
  <2>4. CASE ContinueOrThrow(u)
    BY Zenon, <2>4, <1>q DEF ContinueOrThrow, LocateAndAdd, Cancel, WriteFails
  <2> QED  BY Zenon, <1>2, <2>1, <2>2, <2>3, <2>4 DEF Request
<1>3. ASSUME NEW u \in Thread, Finish(u)
      PROVE  CacheInv'
  <2>1. /\ snapshot' = SnapshotOf(nextSnapshotIndex, located, augmented)
        /\ nextSnapshotIndex' = nextSnapshotIndex + 1
        /\ UNCHANGED <<running, cache, up>>
    BY Zenon, <1>3 DEF Finish, UpdateSnapshot
  <2>2. snapshot'.index = nextSnapshotIndex
    BY Zenon, <2>1 DEF SnapshotOf
  <2>3. \A s \in InUse' : s = snapshot' \/ (s \in InUse /\ s.index \in Nat)
    <3>1. \A s \in InUse : s \in Snapshots
      BY <1>0 DEF CacheInv, InUse
    <3>2. \A s \in InUse : s.index \in Nat
      BY Zenon, <3>1 DEF Snapshots
    <3> QED  BY Zenon, <2>1, <3>2 DEF InUse
  <2>4. \A s \in InUse' : s.index < nextSnapshotIndex'
    BY <2>1, <2>2, <2>3, <1>0 DEF CacheInv
  <2>5. \A s, t \in InUse' : s.index = t.index => s.located = t.located
    BY <2>2, <2>3, <1>0 DEF CacheInv
  <2>6. ASSUME NEW e \in cache
        PROVE  /\ e.index < nextSnapshotIndex'
               /\ \A s \in InUse' : s.index = e.index => e.rows = s.located[e.scan]
    BY <2>1, <2>2, <2>3, <1>0 DEF CacheInv
  <2> QED  BY Zenon, <2>1, <2>4, <2>5, <2>6 DEF CacheInv
<1>4. ASSUME NEW q \in Query, BeginQuery(q) \/ EndQuery(q)
      PROVE  CacheInv'
  <2>1. /\ UNCHANGED <<snapshot, nextSnapshotIndex, up, cache>>
        /\ running' \in {[running EXCEPT ![q] = {snapshot}], [running EXCEPT ![q] = {}]}
        /\ ~up => running' = [running EXCEPT ![q] = {}]
    BY Zenon, <1>4 DEF BeginQuery, EndQuery, managerVars
  <2>2. running' \in [Query -> SUBSET Snapshots]
    BY <2>1, <1>0 DEF CacheInv
  <2>3. \A r \in Query : running'[r] \subseteq running[r] \union {snapshot}
    BY Zenon, <2>1 DEF CacheInv
  <2>4. ~up => running' = running
    BY Zenon, <2>1 DEF CacheInv
  <2> QED  BY Zenon, <2>1, <2>2, <2>3, <2>4, NothingNew
<1>5. ASSUME NEW q \in Query, NEW p \in Permutation, Scan(q, p)
      PROVE  CacheInv'
  <2>1. PICK s \in running[q] :
          cache' = cache \union {[scan |-> p, index |-> s.index, rows |-> s.located[p]]}
    BY Zenon, <1>5 DEF Scan
  <2>2. UNCHANGED <<snapshot, nextSnapshotIndex, up, running>>
    BY Zenon, <1>5 DEF Scan, managerVars
  <2>3. InUse' = InUse /\ s \in InUse /\ s \in Snapshots /\ up
    BY Zenon, <2>2, <2>1 DEF InUse, CacheInv
  <2> DEFINE new == [scan |-> p, index |-> s.index, rows |-> s.located[p]]
  <2>4. new \in [scan : Permutation, index : Nat, rows : [Triple -> Kind]]
    BY Zenon, <2>3 DEF Snapshots
  <2>5. new.index < nextSnapshotIndex
    BY Zenon, <2>3 DEF CacheInv
  <2>6. \A t \in InUse : t.index = new.index => new.rows = t.located[new.scan]
    BY Zenon, <2>3 DEF CacheInv
  <2> HIDE DEF new
  <2>7. cache' = cache \union {new}
    BY Zenon, <2>1 DEF new
  <2>8. \A e \in cache' : /\ e.index < nextSnapshotIndex
                          /\ \A t \in InUse : t.index = e.index => e.rows = t.located[e.scan]
    BY Zenon, <2>5, <2>6, <2>7 DEF CacheInv
  <2> QED  BY Zenon, <2>2, <2>3, <2>4, <2>7, <2>8 DEF CacheInv
<1>6. CASE CrashAll
  BY <1>6 DEF CrashAll, Crash, SnapshotOf, InUse, CacheInv
<1>7. CASE RestartAll
  <2>1. /\ ~up /\ snapshot'.index = 0 /\ UNCHANGED <<nextSnapshotIndex, cache, running>>
    BY Zenon, <1>7 DEF RestartAll, Restart, SnapshotOf
  <2>2. cache' = {} /\ running' = [q \in Query |-> {}]
    BY Zenon, <2>1 DEF CacheInv
  <2>3. InUse' = {snapshot'}
    BY Zenon, <2>2 DEF InUse
  <2>4. 0 < nextSnapshotIndex'
    BY <1>0, <2>1 DEF CacheInv, Snapshots
  <2> QED  BY Zenon, <2>1, <2>2, <2>3, <2>4 DEF CacheInv
<1> QED  BY Zenon, <1>1, <1>2, <1>3, <1>4, <1>5, <1>6, <1>7 DEF RequestsNext, QueryStep
-----------------------------------------------------------------------------
Modifying == {"delete", "insert", "done"}

(* A step in the middle of `modify`, or of a query.                        *)
LEMMA StagesStay ==
  ASSUME PoolInv, UNCHANGED <<requestVars, snapshot, up>>,
         \A v \in Thread : /\ pc'[v] # "idle" => pc[v] # "idle"
                           /\ pc'[v] \in Modifying => pc[v] \in Modifying
  PROVE  PoolInv'
  BY Zenon DEF PoolInv, PlannedOnCurrentSnapshot, Modifying, requestVars

(* A request ends.  If it published a snapshot, it was the one in the pool *)
(* and no other request was planned on the snapshot before.                *)
LEMMA RequestEnds ==
  ASSUME PoolInv, NEW u \in Thread, Drop(u), UNCHANGED <<planned, up>>,
         pc \in [Thread -> PC], pc' = [pc EXCEPT ![u] = "idle"],
         snapshot' = snapshot \/ stage[u] = "pool"
  PROVE  PoolInv'
<1>1. /\ stage' \in [Thread -> Stage] /\ left' \in [Thread -> 0 .. MaxChain]
      /\ stage'[u] = "none" /\ pc'[u] = "idle"
      /\ \A v \in Thread \ {u} : stage'[v] = stage[v] /\ left'[v] = left[v] /\ pc'[v] = pc[v]
  BY RequestAssumption DEF PoolInv, Drop, Stage
<1>2. PlannedOnCurrentSnapshot'
  BY <1>1 DEF PoolInv, PlannedOnCurrentSnapshot
<1> QED  BY Zenon, <1>1, <1>2 DEF PoolInv

LEMMA PoolStep ==
  ASSUME TypeOK, DownIsEmpty, PoolInv, [RequestsNext]_vars
  PROVE  PoolInv'
<1> USE RequestAssumption DEF fileVars, threadVars, deltaVars, requestVars
<1>0. /\ pc \in [Thread -> PC] /\ snapshot.index \in Nat
      /\ stage \in [Thread -> Stage]
      /\ left \in [Thread -> 0 .. MaxChain] /\ planned \in [Thread -> Nat]
  BY Zenon DEF TypeOK, PoolInv
<1>1. CASE UNCHANGED vars
  BY Zenon, <1>1, StagesStay DEF vars, managerVars
<1>2. ASSUME NEW u \in Thread, Arrive(u)  PROVE PoolInv'
  BY <1>0, <1>2 DEF Arrive, managerVars, Stage, PoolInv, PlannedOnCurrentSnapshot
<1>3. ASSUME NEW u \in Thread, Dispatch(u) \/ Plan(u)  PROVE PoolInv'
  BY <1>0, <1>3 DEF Dispatch, Plan, managerVars, Stage, PoolInv, PlannedOnCurrentSnapshot
<1>4. ASSUME NEW u \in Thread, Execute(u) \/ ExecuteClear(u)  PROVE PoolInv'
  <2>1. /\ stage[u] \in {"pool", "planned"} /\ stage' \in [Thread -> Stage] /\ stage'[u] = "pool"
        /\ \A v \in Thread : v # u => pc'[v] = pc[v] /\ stage'[v] = stage[v]
        /\ stage[u] = "planned" \/ pc'[u] = "write"
        /\ up /\ UNCHANGED <<up, left, planned, snapshot>>
    <3>1. CASE Execute(u)
      BY Zenon, <1>0, <3>1 DEF Execute, StartUpdate, LockFree, Stage
    <3>2. CASE ExecuteClear(u)
      BY Zenon, <1>0, <3>2 DEF ExecuteClear, StartClear, LockFree
    <3> QED  BY Zenon, <1>4, <3>1, <3>2
  <2> QED  BY <1>0, <2>1 DEF Stage, PoolInv, PlannedOnCurrentSnapshot
<1>5. ASSUME NEW u \in Thread, ReturnFromUpdate(u) \/ Continue(u)  PROVE PoolInv'
  <2>1. UNCHANGED <<requestVars, snapshot, up>>
    BY Zenon, <1>5 DEF ReturnFromUpdate, Return, Continue, EraseFromInverse, RegisterHandles,
       OpenTemp, SerializeIds, Rename
  <2>2. \A v \in Thread : /\ pc'[v] # "idle" => pc[v] # "idle"
                          /\ pc'[v] \in Modifying => pc[v] \in Modifying
    BY Zenon, <1>5, <1>0 DEF ReturnFromUpdate, Return, Continue, EraseFromInverse, RegisterHandles,
       OpenTemp, SerializeIds, Rename, Goto, Modifies, Modifying
  <2> HIDE DEF Modifying
  <2> QED  BY Zenon, <2>1, <2>2, StagesStay
<1>6. ASSUME NEW u \in Thread, ContinueOrThrow(u)  PROVE PoolInv'
  BY Zenon, <1>0, <1>6, RequestEnds, StagesStay DEF ContinueOrThrow, LocateAndAdd, Cancel, WriteFails,
       Throw
<1>7. ASSUME NEW u \in Thread, Finish(u)  PROVE PoolInv'
  <2>1. /\ pc[u] = "publish" /\ pc' = [pc EXCEPT ![u] = "idle"] /\ UNCHANGED <<planned, up>>
    BY Zenon, <1>7 DEF Finish, UpdateSnapshot, Goto
  <2>2. stage[u] = "pool"
    BY Zenon, <2>1 DEF PoolInv
  <2>3. CASE left[u] = 1
    BY Zenon, <1>7, <2>1, <2>2, <2>3, <1>0, RequestEnds DEF Finish
  <2>4. CASE left[u] # 1
    <3>1. UNCHANGED stage /\ left' = [left EXCEPT ![u] = left[u] - 1] /\ left[u] > 1
      BY <1>7, <2>2, <2>4, <1>0 DEF Finish, PoolInv
    <3>2. /\ left' \in [Thread -> 0 .. MaxChain] /\ left'[u] > 0 /\ pc'[u] = "idle"
          /\ \A v \in Thread \ {u} : left'[v] = left[v] /\ pc'[v] = pc[v]
      BY <3>1, <2>1, <1>0
    <3> QED  BY <3>1, <3>2, <2>1, <2>2 DEF PoolInv, PlannedOnCurrentSnapshot
  <2> QED  BY Zenon, <2>3, <2>4
<1>8. ASSUME NEW u \in Thread, Abandon(u)  PROVE PoolInv'
  BY Zenon, <1>0, <1>8, RequestEnds DEF Abandon, managerVars
<1>9. ASSUME NEW q \in Query, QueryStep(q)  PROVE PoolInv'
  BY Zenon, <1>9, StagesStay DEF QueryStep, BeginQuery, EndQuery, Scan, managerVars
<1>10. CASE CrashAll
  BY <1>10 DEF CrashAll, Crash, PoolInv, PlannedOnCurrentSnapshot, Stage
<1>11. CASE RestartAll
  BY Zenon, <1>11 DEF RestartAll, Restart, PoolInv, DownIsEmpty, PlannedOnCurrentSnapshot
<1> QED
  BY Zenon, <1>1, <1>2, <1>3, <1>4, <1>5, <1>6, <1>7, <1>8, <1>9, <1>10, <1>11 DEF RequestsNext, Request

-----------------------------------------------------------------------------
LEMMA RequestsInitInv ==
  ASSUME RequestsInit
  PROVE  CacheInv /\ PoolInv
<1> USE RequestAssumption DEF RequestsInit, ManagerInit, ThreadInit
<1>1. CacheInv
  <2>1. running = [q \in Query |-> {}] /\ cache = {}
    OBVIOUS
  <2>2. InUse = {snapshot}
    BY Zenon, <2>1 DEF InUse
  <2>3. snapshot.index < nextSnapshotIndex
    BY DEF SnapshotOf
  <2> QED BY Zenon, <2>1, <2>2, <2>3 DEF CacheInv
<1>2. PoolInv
  BY DEF PoolInv, PlannedOnCurrentSnapshot, Stage
<1> QED  BY Zenon, <1>1, <1>2

(* CacheInv and PoolInv are inductive, given that HandleInv holds.         *)
THEOREM RequestsInvariant == RequestsSpec => [](HandleInv /\ CacheInv /\ PoolInv)
<1>1. RequestsSpec => []HandleInv
  BY RequestsUseTheManager, HandleInvariant, PTL
<1>2. HandleInv => TypeOK /\ DownIsEmpty
  BY Zenon DEF HandleInv
<1>3. HandleInv /\ CacheInv /\ PoolInv /\ [RequestsNext]_vars => CacheInv' /\ PoolInv'
  BY Zenon, <1>2, CacheStep, PoolStep
<1> QED  BY <1>1, <1>3, RequestsInitInv, PTL DEF RequestsSpec

(* The variables of the requests, the queries and the cache keep their     *)
(* types.                                                                  *)
THEOREM RequestsTypeCorrect == RequestsSpec => []RequestsTypeOK
<1>1. CacheInv /\ PoolInv => RequestsTypeOK
  BY DEF CacheInv, PoolInv, RequestsTypeOK, Snapshots
<1> QED  BY <1>1, RequestsInvariant, PTL

(* A query never gets a cached result of another snapshot, although older  *)
(* queries go on to fill the cache after an update has cleared it.         *)
THEOREM CacheIsNeverStale == RequestsSpec => []CachedResultsAreCurrent
<1>1. CacheInv => CachedResultsAreCurrent
  BY Zenon DEF CacheInv, CachedResultsAreCurrent, Cached, InUse
<1> QED  BY <1>1, RequestsInvariant, PTL

(* Every update of a chain is planned and evaluated on the result of all   *)
(* preceding updates.                                                      *)
THEOREM UpdatesSeeTheirPredecessors == RequestsSpec => []PlannedOnCurrentSnapshot
<1>1. PoolInv => PlannedOnCurrentSnapshot
  BY Zenon DEF PoolInv
<1> QED  BY <1>1, RequestsInvariant, PTL
=============================================================================
