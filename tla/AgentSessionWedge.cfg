\* Is every checkpoint answered, Stop or not?
SPECIFICATION FairSpec
CONSTANTS
  MaxRuns = 1
  MaxTickets = 1
PROPERTIES
  EveryAskAnswered
