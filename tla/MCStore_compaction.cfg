\* A clock of two ticks a second and a compaction limit of one or two lines: expiry, cleanup, compaction, restart.
SPECIFICATION Spec
CONSTANTS
  i1 = i1
  i2 = i2
  v1 = v1
  v1x = v1x
  v2 = v2
  p1 = p1
  pAll = pAll
  Absent = Absent
  NoVec = NoVec
  NoTtl = NoTtl
  NoLine = NoLine
  Free = Free
  Ids <- MCOneId
  Vecs <- MCOneVec
  IdPrefixes <- MCOnePrefix
  DimOf <- MCDimOf
  Rounded <- MCRounded
  IdsWith <- MCIdsWith
  CutOf <- MCCutOf
  Keys = {k}
  Vals = {s1}
  Ttls = {0, 2}
  Faults = {}
  Clients = {c1}
  WalModes = {TRUE}
  WalFloor = 1
  Second = 2
  MaxLines = 2
  MaxCrashes = 1
  MaxTime = 5
  MaxPriors = 1
SYMMETRY MCSymmetry
INVARIANT LogIsMemory
INVARIANT ReplayWorkBounded
