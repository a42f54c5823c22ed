\* Two runs, single or swarm, and two checkpoints.
SPECIFICATION FairSpec
CONSTANTS
  MaxRuns = 2
  MaxTickets = 2
INVARIANTS
  TypeOK
  FilledWithConsent
  NothingLost
PROPERTIES
  AnsweredUnlessStopped
  StopEndsRuns
