CONSTANTS
  Thread = {u1, u2}
  u1 = u1
  u2 = u2
  None = None
  Query = {q1, q2}
  q1 = q1
  q2 = q2
  Triple = {1}
  Updatable = {1}
  IndexBlank = {}
  LocalBlank = {}
  NumPermutations = 1
  Persists = TRUE
  MaxSnapshots = 3
  MaxChain = 2
SPECIFICATION RequestsSpec
INVARIANTS HandlesAreValid CachedResultsAreCurrent PlannedOnCurrentSnapshot
SYMMETRY Symmetric
