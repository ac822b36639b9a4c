\* No fault: a clear beside an update of the same conversation.
SPECIFICATION WikiSpec
CONSTANTS
  Convs = {1}
  Turns = {1}
  ConvOf <- MCConvOf
  Role <- MCRole
  UpdateJobs = {1}
  ClearJobs = {2}
  Edits = {}
  Removals = {}
  Rebuilds = {}
  Nobody = 0
  MaxSource = 4
  KeepRecent = 1
  UpdateEvery = 1
  WikiAttempts = 2
  MaxAsked = 2
  Pools = {3}
  WikiFaults = {}
  MaxWikiFaults = 0
CHECK_DEADLOCK FALSE
INVARIANT ClearLeavesNoArticle
