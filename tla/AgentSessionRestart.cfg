\* Does a stopped run stop at its next iteration?
SPECIFICATION Spec
CONSTANTS
  MaxRuns = 2
  MaxTickets = 1
PROPERTIES
  StopAtNextIteration
