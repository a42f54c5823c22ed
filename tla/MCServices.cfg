\* Small calls of every kind, each part on its own.
SPECIFICATION FairSpec
CONSTANTS
  r1 = r1
  r2 = r2
  d1 = d1
  d2 = d2
  h1 = h1
  NoRun = NoRun
  Requests <- MCRequests
  Mixes <- MCMixes
  MaxRetries = 1
  Accounts = {alice, bob}
  NoAccount = NoAccount
  Limit = 2
  LastMonth = 1
  Runs <- MCRuns
  MaxPlan = 2
  MaxWorkers = 1
  MaxTasks = 2
  MaxFields = 2
  MaxPolls = 2
  Fetches <- MCFetches
  Urls <- MCUrls
  OriginOf <- MCOriginOf
  Trackers <- MCTrackers
  MaxRedirects = 2
  Parts = {"cloud", "demo", "tasks", "fetch"}
INVARIANTS
  TypeOK
  SensitiveStaysLocal
  CopyNotAhead
  NoResumeWithoutYes
  RefusalFinal
  HopsConfined
PROPERTIES
  CallsEnd
CHECK_DEADLOCK FALSE
