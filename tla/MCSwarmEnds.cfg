\* Does every run end by itself?
SPECIFICATION FairSpec
CONSTANTS
  TaskIds <- Ids
  Plans <- ShortPlans
  MaxWorkers = 2
  EnableReconciliation = TRUE
PROPERTIES
  RunEnds
