SPECIFICATION WikiFairSpec
CONSTANTS
  Convs = {1, 2}
  Turns = {1, 2, 3}
  ConvOf <- MCConvOf
  Role <- MCRole
  UpdateJobs = {1, 2}
  ClearJobs = {3}
  Edits = {4}
  Removals = {5}
  Rebuilds = {2}
  Nobody = 0
  MaxSource = 4
  KeepRecent = 1
  UpdateEvery = 1
  WikiAttempts = 2
  Pools = {2}
  WikiFaults = {"model", "index", "vdel", "query", "expire", "crash"}
  MaxAsked = 2
  MaxWikiFaults = 1
CHECK_DEADLOCK FALSE
INVARIANT WikiTypeOK
 
INVARIANT ListedIsDeleted
PROPERTY ArticleGrows
PROPERTY LocksAreFreed
