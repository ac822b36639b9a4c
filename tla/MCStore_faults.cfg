\* Lines cut short by crashes, and rewrites that fail: the index keeps one dimension, the lock is given back.
SPECIFICATION FairSpec
CONSTANTS
  i1 = i1
  i2 = i2
  v1 = v1
  v1x = v1x
  v2 = v2
  p1 = p1
  pAll = pAll
  Absent = Absent
  NoVec = NoVec
  NoTtl = NoTtl
  NoLine = NoLine
  Free = Free
  Ids <- MCIds
  Vecs <- MCTwoDims
  IdPrefixes <- MCOnePrefix
  DimOf <- MCDimOf
  Rounded <- MCRounded
  IdsWith <- MCIdsWith
  CutOf <- MCTornCutOf
  Keys = {}
  Vals = {}
  Ttls = {}
  Faults = {"tear", "rewrite"}
  Clients = {c1}
  WalModes = {TRUE, FALSE}
  WalFloor = 1
  Second = 1
  MaxLines = 2
  MaxCrashes = 2
  MaxTime = 0
  MaxPriors = 1
INVARIANT DimsConsistent
PROPERTY LockReleased
\* A log on which replay throws keeps the process down for good.
CHECK_DEADLOCK FALSE
