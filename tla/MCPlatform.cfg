\* Two connections that may claim one role; a child and the window; a small bus.
SPECIFICATION FairSpec
CONSTANTS
  c1 = c1
  c2 = c2
  p1 = p1
  p2 = p2
  q1 = q1
  q2 = q2
  NoConn = NoConn
  Conns <- MCConns
  Names <- MCNames
  Sendable <- MCPayloads
  Speech <- MCPayloads
  Children <- MCChildren
  Ids <- MCIds
  Requests <- MCRequests
  Parts <- MCParts
  DropFirst = TRUE
  WireCap = 1
  TxCap = 1
  EventCap = 2
  InboxCap = 1
  UiCap = 1
  MaxCrashes = 2
  MaxExits = 3
INVARIANTS
  TypeOK
  SandboxConfined
  ListedIsServed
  WaitingIsPending
PROPERTIES
  EverythingResolves
CHECK_DEADLOCK FALSE
