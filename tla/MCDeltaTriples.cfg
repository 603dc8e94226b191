CONSTANTS
  Thread = {u1, u2}
  u1 = u1
  u2 = u2
  None = None
  Triple = {1, 2, 3, 4}
  Updatable = {1, 2, 3}
  IndexBlank = {2}
  LocalBlank = {3, 4}
  NumPermutations = 3
  Persists = TRUE
  MaxSnapshots = 3
SPECIFICATION Spec
INVARIANTS AddedTriplesAreNew SnapshotIsWhole
PROPERTIES RestartRestores AtomicAndDurable
