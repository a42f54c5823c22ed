SPECIFICATION Spec
CONSTANTS
  w1 = w1
  w2 = w2
  NoOne = NoOne
  Workers <- MCWorkers
  MaxIterations = 2
  CommandCap = 1
INVARIANT SensitiveApproved
CHECK_DEADLOCK FALSE
