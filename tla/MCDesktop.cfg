\* Two instances on one vault, three tabs and downloads together, two swarms, two
\* re-index threads; each part on its own.
SPECIFICATION Spec
CONSTANTS
  i1 = i1
  i2 = i2
  a1 = a1
  a2 = a2
  b1 = b1
  t1 = t1
  s1 = s1
  s2 = s2
  x1 = x1
  x2 = x2
  f1 = f1
  f2 = f2
  f3 = f3
  Nobody = Nobody
  NoToken = NoToken
  NoSwarm = NoSwarm
  NoRun = NoRun
  NoFile = NoFile
  Instances <- MCInstances
  Keys <- MCKeys
  SlotOf <- MCSlotOf
  Tokens = {t1}
  MaxStores = 2
  Urls <- MCUrls
  Home = "home"
  NoUrl = "none"
  MaxTabs = 3
  MaxDownloads = 2
  MaxOpened = 3
  MaxReports = 2
  Swarms <- MCSwarms
  Roles <- MCRoles
  Plans <- MCPlans
  Verdicts <- MCVerdicts
  MaxUpdates = 2
  Reindexes <- MCReindexes
  Inodes <- MCInodes
  Parts = {"vault", "window", "cards", "profile"}
INVARIANTS
  TypeOK
  DisclosureAudited
  ShownIsTrue
  CacheIsWhole
  RowsReadable
PROPERTIES
  BindsItsSlot
  HandlesAreTickets
CHECK_DEADLOCK FALSE
