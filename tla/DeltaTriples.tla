----------------------------- MODULE DeltaTriples -----------------------------
(***************************************************************************)
(* DeltaTriples: the triples that were inserted and deleted since the      *)
(* index was built, and their locations in every permutation.              *)
(***************************************************************************)
EXTENDS LocatedTriples

CONSTANTS
  Triple,           \* the triples, as numbers in the order of IdTriple
  NumPermutations   \* Permutation::ALL.size()

ASSUME DeltaTriplesAssumption ==
  Triple \subseteq Nat /\ NumPermutations \in Nat \ {0}

Permutation == 1 .. NumPermutations

VARIABLES
  located,           \* locatedTriples_, per permutation
  augmented,         \* the triples that the augmented metadata accounts for
  triplesInserted,   \* the keys of triplesInserted_
  triplesDeleted     \* the keys of triplesDeleted_

deltaVars == <<located, augmented, triplesInserted, triplesDeleted>>

DeltaInit ==
  /\ located = [p \in Permutation |-> NoTriples(Triple)]
  /\ augmented = [p \in Permutation |-> {}]
  /\ triplesInserted = {} /\ triplesDeleted = {}

ClearLocatedOnly ==
  /\ located' = [p \in Permutation |-> NoTriples(Triple)]
  /\ augmented' = [p \in Permutation |-> {}]
  /\ UNCHANGED <<triplesInserted, triplesDeleted>>

Clear ==
  /\ located' = [p \in Permutation |-> NoTriples(Triple)]
  /\ augmented' = [p \in Permutation |-> {}]
  /\ triplesInserted' = {} /\ triplesDeleted' = {}

-----------------------------------------------------------------------------
(* modifyTriplesImpl, up to the first point where it can be cancelled: it  *)
(* takes the triples that the other map holds out of this map and, with    *)
(* their handles, out of all permutations.                                 *)
EraseInverse(triples, kind) ==
  /\ located' = [p \in Permutation |->
       Erase(located[p], triples \intersect
                         (IF kind = "insert" THEN triplesDeleted ELSE triplesInserted))]
  /\ augmented' = [p \in Permutation |-> Keys(located'[p])]
  /\ triplesDeleted'  = IF kind = "insert" THEN triplesDeleted \ triples
                                           ELSE triplesDeleted
  /\ triplesInserted' = IF kind = "insert" THEN triplesInserted
                                           ELSE triplesInserted \ triples

AllOf(triples, kind) == triples

(* The triples that are left once those the target map holds are ignored.  *)
NotYetIn(triples, kind) ==
  triples \ (IF kind = "insert" THEN triplesInserted ELSE triplesDeleted)

AddWithoutMetadata(p, triples, kind) ==
  /\ located' = [located EXCEPT ![p] = Add(located[p], triples, kind)]
  /\ UNCHANGED <<augmented, triplesInserted, triplesDeleted>>

(* One round of the loop of locateAndAddTriples.                           *)
AddTo(p, triples, kind) ==
  /\ located' = [located EXCEPT ![p] = Add(located[p], triples, kind)]
  /\ augmented' = IF AddFails(located[p], triples) THEN augmented
                  ELSE [augmented EXCEPT ![p] = Keys(located'[p])]
  /\ UNCHANGED <<triplesInserted, triplesDeleted>>

(* The handles of all permutations are there and enter the target map.     *)
Register(triples, kind) ==
  /\ triplesInserted' = IF kind = "insert" THEN triplesInserted \union triples
                                           ELSE triplesInserted
  /\ triplesDeleted'  = IF kind = "insert" THEN triplesDeleted
                                           ELSE triplesDeleted \union triples
  /\ UNCHANGED <<located, augmented>>

-----------------------------------------------------------------------------
(* A call of insertTriples or deleteTriples that nobody disturbs, on a     *)
(* state given as a record.                                                *)
Modified(d, triples, kind) ==
  LET target  == IF kind = "insert" THEN d.inserted ELSE d.deleted
      inverse == IF kind = "insert" THEN d.deleted ELSE d.inserted
      new     == triples \ target
      rest    == inverse \ new
  IN  [located  |-> Add(Erase(d.located, new \intersect inverse), new, kind),
       inserted |-> IF kind = "insert" THEN target \union new ELSE rest,
       deleted  |-> IF kind = "insert" THEN rest ELSE target \union new]
=============================================================================
