CONSTANTS
  Triple = {1, 2, 3, 4, 5}
  GraphOf <- MCGraphOf
  MaxGraphs = 2
  NoGraphInfo = NoGraphInfo
SPECIFICATION Spec
INVARIANTS ScanIsCorrect BordersAreSound GraphInfoIsComplete
