\* Two live runs, two files, three requests.
SPECIFICATION FairSpec
CONSTANTS
  a1 = a1
  a2 = a2
  p1 = p1
  p2 = p2
  NoAgent = NoAgent
  Agents <- MCAgents
  Paths <- MCPaths
  MaxRequests = 3
INVARIANTS
  TypeOK
  WaitingIsAnswerable
  OneReadPerAllow
PROPERTIES
  RequestsResolve
