\* Every plan shape, three permits, reconciliation on.
SPECIFICATION FairSpec
CONSTANTS
  TaskIds <- Ids
  Plans <- AllPlans
  MaxWorkers = 3
  EnableReconciliation = TRUE
INVARIANTS
  TypeOK
  PermitReady
  OutputsKept
PROPERTIES
  SpawnedOnce
  VerdictsStand
  ImplementsBoard
  StopEndsRun
  HealthyRunEnds
