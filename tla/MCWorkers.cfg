SPECIFICATION FairSpec
CONSTANTS
  w1 = w1
  w2 = w2
  NoOne = NoOne
  Workers <- MCWorkers
  MaxIterations = 2
  CommandCap = 1
INVARIANTS WorkersTypeOK HilNeverContended StopBoundsActions
PROPERTIES OthersEnd
CHECK_DEADLOCK FALSE
