SPECIFICATION FairSpec
CONSTANTS
  w1 = w1
  w2 = w2
  feeder = feeder
  main = main
  Worker = {w1, w2}
  Caller = {feeder, main}
  Feeder = feeder
  Main = main
  MaxTasks = 1
  MaxTriples = 1
  NumBatches = 3
CHECK_DEADLOCK FALSE
INVARIANTS EndMeansEverything FirstErrorReported
PROPERTY UsedUpParserIsDestroyed
