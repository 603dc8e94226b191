SPECIFICATION FairSpec
CONSTANTS
  p1 = p1
  p2 = p2
  c = c
  Producer = {p1, p2}
  Thread = {p1, p2, c}
  Consumer = c
  NoThread = NoThread
  NoValue = NoValue
  NumValues = 3
  Value = {0, 1, 2}
  MaxSize = 1
INVARIANTS YieldedInOrder NoLostWakeup
PROPERTIES EverythingEnds ImplementsSequential
