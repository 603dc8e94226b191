-------------------------- MODULE DeltaTriplesManager --------------------------
(***************************************************************************)
(* DeltaTriplesManager: threads that modify the DeltaTriples one after the *)
(* other, the file the result is written to, the snapshot that queries     *)
(* use, and a process that may crash and start again.                      *)
(***************************************************************************)
EXTENDS DeltaTriples, FiniteSets, Functions

CONSTANTS
  Thread,          \* the threads that call `modify`
  None,            \* no thread
  Updatable,       \* the triples that updates insert and delete
  IndexBlank,      \* the triples with a blank node of the index
  LocalBlank,      \* the triples with a blank node that the process has made;
                   \* bound: there are as many as LocalBlank has elements
  Persists,        \* whether a file for the updates is set (--persist-updates)
  MaxSnapshots     \* bound: the number of snapshots of one process

ASSUME ManagerAssumption ==
  /\ None \notin Thread
  /\ Updatable \subseteq Triple
  /\ IndexBlank \subseteq Triple /\ LocalBlank \subseteq Triple
  /\ IndexBlank \intersect LocalBlank = {}
  /\ Persists \in BOOLEAN

VARIABLES
  up,                 \* whether the process runs
  lock,               \* the holder of the write lock of deltaTriples_
  pc,                 \* where a thread is in `modify`
  todo,               \* the triples of the current insertTriples or deleteTriples
  toInsert,           \* the triples to insert once the deletion is done
  next,               \* the permutation that is next in locateAndAddTriples
  snapshot,           \* currentLocatedTriplesSnapshot_
  nextSnapshotIndex,  \* nextSnapshotIndex_
  disk, temp          \* the file with the updates and the file with suffix .tmp

managerVars == <<deltaVars, up, lock, pc, todo, toInsert, next, snapshot,
                 nextSnapshotIndex, disk, temp>>

threadVars == <<lock, pc, todo, toInsert, next>>
fileVars == <<disk, temp>>

PC == {"idle", "delete", "insert", "done", "write", "writing", "rename", "publish"}

Blank == IndexBlank \union LocalBlank
Named == Triple \ Blank

(* An absent file is read like one with two empty ranges.                  *)
EmptyFile == [complete |-> TRUE, deleted |-> {}, inserted |-> {}]

SnapshotOf(index, lts, keys) == [index |-> index, located |-> lts, augmented |-> keys]

ThreadInit ==
  /\ lock = None
  /\ pc = [u \in Thread |-> "idle"]
  /\ todo = [u \in Thread |-> {}] /\ toInsert = [u \in Thread |-> {}]
  /\ next = [u \in Thread |-> 0]

ManagerInit ==
  /\ DeltaInit /\ ThreadInit
  /\ up = TRUE
  /\ snapshot = SnapshotOf(0, located, augmented) /\ nextSnapshotIndex = 1
  /\ disk = EmptyFile /\ temp = EmptyFile

-----------------------------------------------------------------------------
(* `modify`: a thread locks the DeltaTriples and runs its function.        *)
LockFree(u) == up /\ lock = None /\ pc[u] = "idle" /\ nextSnapshotIndex < MaxSnapshots

(* Bound: the process that reads the file finds a blank node for every     *)
(* triple that needs one.                                                  *)
BlanksFit(triples) ==
  Cardinality(Blank \intersect (triplesInserted \union triplesDeleted \union triples))
    <= Cardinality(LocalBlank)

(* ExecuteUpdate::executeUpdate: the triples to delete and to insert are   *)
(* known; a triple that is in both is only inserted.                       *)
StartUpdate(u, delete, insert) ==
  /\ LockFree(u) /\ BlanksFit(delete \union insert)
  /\ lock' = u
  /\ pc' = [pc EXCEPT ![u] = "delete"]
  /\ todo' = [todo EXCEPT ![u] = delete \ insert]
  /\ toInsert' = [toInsert EXCEPT ![u] = insert]
  /\ next' = [next EXCEPT ![u] = 0]
  /\ UNCHANGED <<deltaVars, up, snapshot, nextSnapshotIndex, fileVars>>

(* DeltaTriples::clear under the lock (the command clear-delta-triples).   *)
StartClear(u) ==
  /\ LockFree(u)
  /\ lock' = u
  /\ pc' = [pc EXCEPT ![u] = "write"]
  /\ Clear
  /\ UNCHANGED <<todo, toInsert, next, up, snapshot, nextSnapshotIndex, fileVars>>

Modifies(u) == up /\ pc[u] \in {"delete", "insert"}

EraseFromInverse(u) ==
  /\ Modifies(u) /\ next[u] = 0
  /\ EraseInverse(NotYetIn(todo[u], pc[u]), pc[u])
  /\ todo' = [todo EXCEPT ![u] = NotYetIn(todo[u], pc[u])]
  /\ next' = [next EXCEPT ![u] = 1]
  /\ UNCHANGED <<lock, pc, toInsert, up, snapshot, nextSnapshotIndex, fileVars>>

(* An exception leaves `modify`: the lock is released, nothing is written  *)
(* and the snapshot stays.                                                 *)
Throw(u) ==
  /\ lock' = None
  /\ pc' = [pc EXCEPT ![u] = "idle"]
  /\ todo' = [todo EXCEPT ![u] = {}] /\ toInsert' = [toInsert EXCEPT ![u] = {}]
  /\ next' = [next EXCEPT ![u] = 0]

LocateAndAdd(u) ==
  /\ Modifies(u) /\ next[u] \in Permutation
  /\ AddTo(next[u], todo[u], pc[u])
  /\ IF AddFails(located[next[u]], todo[u]) THEN Throw(u)
     ELSE next' = [next EXCEPT ![u] = next[u] + 1] /\ UNCHANGED <<lock, pc, todo, toInsert>>
  /\ UNCHANGED <<up, snapshot, nextSnapshotIndex, fileVars>>

(* throwIfCancelled, before and after the triples are added to a           *)
(* permutation.                                                            *)
Cancel(u) ==
  /\ Modifies(u) /\ next[u] > 0
  /\ Throw(u)
  /\ UNCHANGED <<deltaVars, up, snapshot, nextSnapshotIndex, fileVars>>

RegisterHandles(u) ==
  /\ Modifies(u) /\ next[u] = NumPermutations + 1
  /\ Register(todo[u], pc[u])
  /\ pc' = [pc EXCEPT ![u] = IF pc[u] = "delete" THEN "insert" ELSE "done"]
  /\ todo' = [todo EXCEPT ![u] = IF pc[u] = "delete" THEN toInsert[u] ELSE {}]
  /\ toInsert' = [toInsert EXCEPT ![u] = {}]
  /\ next' = [next EXCEPT ![u] = 0]
  /\ UNCHANGED <<lock, up, snapshot, nextSnapshotIndex, fileVars>>

(* The function has done what remains (see UpdateRequests) and returns.    *)
Return(u) ==
  /\ up /\ pc[u] = "done"
  /\ pc' = [pc EXCEPT ![u] = "write"]
  /\ UNCHANGED <<deltaVars, lock, todo, toInsert, next, up, snapshot,
                 nextSnapshotIndex, fileVars>>

-----------------------------------------------------------------------------
(* writeToDisk: the temporary file is written and closed, then renamed.    *)
Goto(u, from, to) == up /\ pc[u] = from /\ pc' = [pc EXCEPT ![u] = to]

WriteInPlace(u) ==
  /\ Goto(u, "write", IF Persists THEN "writing" ELSE "publish")
  /\ disk' = IF Persists THEN [EmptyFile EXCEPT !.complete = FALSE] ELSE disk
  /\ UNCHANGED <<deltaVars, lock, todo, toInsert, next, up, snapshot,
                 nextSnapshotIndex, temp>>

OpenTemp(u) ==
  /\ Goto(u, "write", IF Persists THEN "writing" ELSE "publish")
  /\ temp' = IF Persists THEN [EmptyFile EXCEPT !.complete = FALSE] ELSE temp
  /\ UNCHANGED <<deltaVars, lock, todo, toInsert, next, up, snapshot,
                 nextSnapshotIndex, disk>>

SerializeIds(u) ==
  /\ Goto(u, "writing", "rename")
  /\ temp' = [complete |-> TRUE, deleted |-> triplesDeleted, inserted |-> triplesInserted]
  /\ UNCHANGED <<deltaVars, lock, todo, toInsert, next, up, snapshot,
                 nextSnapshotIndex, disk>>

Rename(u) ==
  /\ Goto(u, "rename", "publish")
  /\ disk' = temp /\ temp' = EmptyFile
  /\ UNCHANGED <<deltaVars, lock, todo, toInsert, next, up, snapshot, nextSnapshotIndex>>

WriteFails(u) ==
  /\ up /\ pc[u] \in {"writing", "rename"}
  /\ Throw(u)
  /\ UNCHANGED <<deltaVars, up, snapshot, nextSnapshotIndex, fileVars>>

(* updateSnapshot, and the end of `modify`.                                *)
PublishSameIndex(u) ==
  /\ Goto(u, "publish", "idle")
  /\ snapshot' = SnapshotOf(snapshot.index, located, augmented)
  /\ lock' = None
  /\ UNCHANGED <<deltaVars, nextSnapshotIndex, todo, toInsert, next, up, fileVars>>

UpdateSnapshot(u) ==
  /\ Goto(u, "publish", "idle")
  /\ snapshot' = SnapshotOf(nextSnapshotIndex, located, augmented)
  /\ nextSnapshotIndex' = nextSnapshotIndex + 1
  /\ lock' = None
  /\ UNCHANGED <<deltaVars, todo, toInsert, next, up, fileVars>>

ThreadStep(u) ==
  \/ EraseFromInverse(u) \/ LocateAndAdd(u) \/ RegisterHandles(u)
  \/ OpenTemp(u) \/ SerializeIds(u) \/ Rename(u) \/ UpdateSnapshot(u)

Fails(u) == Cancel(u) \/ WriteFails(u)

-----------------------------------------------------------------------------
(* The process ends at any moment; the files stay.                         *)
Crash ==
  /\ up /\ up' = FALSE
  /\ located' = [p \in Permutation |-> NoTriples(Triple)]
  /\ augmented' = [p \in Permutation |-> {}]
  /\ triplesInserted' = {} /\ triplesDeleted' = {}
  /\ lock' = None
  /\ pc' = [u \in Thread |-> "idle"]
  /\ todo' = [u \in Thread |-> {}] /\ toInsert' = [u \in Thread |-> {}]
  /\ next' = [u \in Thread |-> 0]
  /\ snapshot' = SnapshotOf(0, located', augmented') /\ nextSnapshotIndex' = 1
  /\ UNCHANGED fileVars

BlankOnDisk == Blank \intersect (disk.deleted \union disk.inserted)

SharedIds == [BlankOnDisk -> LocalBlank]

(* deserializeIds gives every blank node a new id of this process, whether *)
(* it belongs to the index or was made by the process that wrote the file. *)
(* Different blank nodes get different ids, so different triples stay      *)
(* different; every other id is kept.                                      *)
NewIds == Injection(BlankOnDisk, LocalBlank)

DeserializeIds(ids, triples) == {IF t \in Blank THEN ids[t] ELSE t : t \in triples}

(* readFromDisk, seen by permutation p: the second range is inserted, then *)
(* the first one is deleted.                                               *)
ReadFromDisk(ids, p) ==
  LET empty == [located |-> located[p], inserted |-> {}, deleted |-> {}]
  IN  Modified(Modified(empty, DeserializeIds(ids, disk.inserted), "insert"),
               DeserializeIds(ids, disk.deleted), "delete")

(* The index is loaded, the file is read, and the server begins to accept  *)
(* requests.  readHeader fails on a file that is not complete.             *)
Restart ==
  /\ ~up /\ up' = TRUE
  /\ disk.complete
  /\ IF Persists
     THEN \E ids \in NewIds :
            /\ located' = [p \in Permutation |-> ReadFromDisk(ids, p).located]
            /\ augmented' = [p \in Permutation |-> Keys(located'[p])]
            /\ triplesInserted' = ReadFromDisk(ids, 1).inserted
            /\ triplesDeleted' = ReadFromDisk(ids, 1).deleted
     ELSE UNCHANGED deltaVars
  /\ snapshot' = SnapshotOf(0, located', augmented')
  /\ UNCHANGED <<threadVars, nextSnapshotIndex, fileVars>>

Environment == Crash \/ Restart

Init == ManagerInit

Next ==
  \/ \E u \in Thread :
       \/ \E delete, insert \in SUBSET Updatable : StartUpdate(u, delete, insert)
       \/ StartClear(u) \/ ThreadStep(u) \/ Return(u)
  \/ Environment

(* No update is cancelled and writing to the disk succeeds.                *)
Spec == Init /\ [][Next]_managerVars

(* Updates may also be cancelled, and writing may fail.                    *)
NextOrFail == Next \/ \E u \in Thread : Fails(u)

SpecWithFailures == Init /\ [][NextOrFail]_managerVars

-----------------------------------------------------------------------------
(* The types of the variables.                                             *)
TypeOK ==
  /\ located \in [Permutation -> [Triple -> Kind]]
  /\ augmented \in [Permutation -> SUBSET Triple]
  /\ triplesInserted \in SUBSET Triple /\ triplesDeleted \in SUBSET Triple
  /\ up \in BOOLEAN
  /\ lock \in Thread \union {None}
  /\ pc \in [Thread -> PC]
  /\ todo \in [Thread -> SUBSET Triple] /\ toInsert \in [Thread -> SUBSET Triple]
  /\ next \in [Thread -> 0 .. NumPermutations + 1]
  /\ snapshot \in [index : Nat, located : [Permutation -> [Triple -> Kind]],
                   augmented : [Permutation -> SUBSET Triple]]
  /\ nextSnapshotIndex \in Nat
  /\ {disk, temp} \subseteq [complete : BOOLEAN, deleted : SUBSET Triple,
                             inserted : SUBSET Triple]

(* "Any triple can be at most in one of the sets" (DeltaTriples.h), in the *)
(* middle of a modification and after cancelled ones too.                  *)
AtMostOneMap == triplesInserted \intersect triplesDeleted = {}

(* The handles that the two maps store point to located triples: every     *)
(* triple in a map is located in all permutations with the kind of the     *)
(* map, also while a modification is under way and after it was cancelled  *)
(* half-way.  eraseTripleInAllPermutations relies on it.                   *)
HandlesAreValid ==
  \A p \in Permutation :
    /\ \A t \in triplesInserted : located[p][t] = "insert"
    /\ \A t \in triplesDeleted : located[p][t] = "delete"

(* At most one thread is inside `modify`, and it holds the lock.           *)
OneModification == \A u \in Thread : pc[u] # "idle" => lock = u

(* "PRECONDITION: The locatedTriples must not already exist"               *)
(* (LocatedTriplesPerBlock::add): the check in `add` never fails.          *)
AddedTriplesAreNew ==
  \A u \in Thread : Modifies(u) /\ next[u] \in Permutation =>
    ~AddFails(located[next[u]], todo[u])

(* "getCurrentSnapshot will either return the snapshot before or after a   *)
(* modification, but never one of an ongoing modification"                 *)
(* (DeltaTriplesManager::modify): all permutations of a snapshot hold the  *)
(* same triples, and their metadata accounts for these.                    *)
SnapshotIsWhole ==
  \A p \in Permutation :
    /\ snapshot.located[p] = snapshot.located[1]
    /\ snapshot.augmented[p] = Keys(snapshot.located[p])

DeltaOf(deleted, inserted) ==
  [t \in Triple |-> IF t \in inserted THEN "insert"
                    ELSE IF t \in deleted THEN "delete" ELSE "none"]

OnDisk == DeltaOf(disk.deleted, disk.inserted)

(* "Read the delta triples from disk to restore them after a restart"      *)
(* (DeltaTriples::readFromDisk): in every permutation, the triples without *)
(* blank nodes are inserted and deleted just as the file says, every other *)
(* triple of the file is so under blank nodes that no two of them share,   *)
(* and there is nothing else.                                              *)
Restores(ids, delta) ==
  /\ \A t \in Named : delta[t] = OnDisk[t]
  /\ \A t \in DOMAIN ids : delta[ids[t]] = OnDisk[t]
  /\ \A t \in Blank \ {ids[s] : s \in DOMAIN ids} : delta[t] = "none"

RestartRestores ==
  [][~up /\ up' => \E ids \in Injection(BlankOnDisk, LocalBlank) : \A p \in Permutation :
        Restores(ids, snapshot'.located[p])]_managerVars

(* The same quotation, for the triples with a blank node of the index: the *)
(* index has them under their old id, so restoring means that this id is   *)
(* inserted or deleted again.  The code does not do it.                    *)
IndexBlankRestored ==
  [][~up /\ up' => \A p \in Permutation, t \in IndexBlank :
        snapshot'.located[p][t] = OnDisk[t]]_managerVars

(* The updates of a server with persistent updates are atomic and durable: *)
(* what `modify`, writeToDisk and readFromDisk do implements UpdateStore   *)
(* for the triples without blank nodes, which keep their identity when the *)
(* process starts again.  A snapshot with permutations that differ is not  *)
(* a state of it, nor is a file that cannot be read.                       *)
NamedOnly(delta) == [t \in Named |-> delta[t]]

Restored == IF disk.complete THEN NamedOnly(OnDisk) ELSE None

Store == INSTANCE UpdateStore WITH
  Triple <- Named,
  durable <- Restored,
  visible <- IF ~up THEN Restored
             ELSE IF SnapshotIsWhole THEN NamedOnly(snapshot.located[1]) ELSE None

AtomicAndDurable == Store!Spec
=============================================================================
