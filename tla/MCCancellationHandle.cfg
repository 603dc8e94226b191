SPECIFICATION FairSpec
CONSTANT Client = {c1, c2}
INVARIANTS CancelTakesEffect
PROPERTIES CancelSticky WatchDogEnds CallsReturn
CHECK_DEADLOCK FALSE
