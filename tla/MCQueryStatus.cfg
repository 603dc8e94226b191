SPECIFICATION FairSpec
CONSTANTS
  Query = {q1, q2}
  Session = {s1}
  Distributor = {d1, d2, d3}
  QueryIds = {i1}
  MaxUpdates = 2
  None = None
INVARIANTS OneSenderPerDistributor RunningIsFound ReceivedInOrder ClosesOnlyAtTheEnd
PROPERTIES SessionsEnd HubForgets
CHECK_DEADLOCK FALSE
