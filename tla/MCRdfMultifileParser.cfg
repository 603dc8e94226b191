SPECIFICATION FairSpec
CONSTANTS
  w1 = w1
  w2 = w2
  feeder = feeder
  main = main
  Worker = {w1, w2}
  Caller = {feeder, main}
  Feeder = feeder
  Main = main
  MaxTasks = 1
  MaxBatches = 1
  NumFiles = 3
  NumBatches = 2
CHECK_DEADLOCK FALSE
INVARIANTS FilesInOrder
PROPERTY UsedUpParserIsDestroyed
