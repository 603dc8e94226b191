\* lazy_join
CONSTANTS
    FetchBlocks = 1
    MaxBlocks = 3
    MaxRows = 3
    MaxRun = 5
    MaxId = 2
    Kinds <- AllKinds
SPECIFICATION Spec
INVARIANT JoinIsCorrect
INVARIANT LongRunsAreStreamed
PROPERTY OnlyNeededBlocks
