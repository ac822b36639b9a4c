\* VECTOR_WAL=1, process and host crashes, rewrites and directory syncs that fail, vectors that lose decimals in the log; no torn lines.
SPECIFICATION Spec
CONSTANTS
  i1 = i1
  i2 = i2
  v1 = v1
  v1x = v1x
  v2 = v2
  p1 = p1
  pAll = pAll
  Absent = Absent
  NoVec = NoVec
  NoTtl = NoTtl
  NoLine = NoLine
  Free = Free
  Ids <- MCIds
  Vecs <- MCRoundVecs
  IdPrefixes <- MCIdPrefixes
  DimOf <- MCDimOf
  Rounded <- MCRounded
  IdsWith <- MCIdsWith
  CutOf <- MCCutOf
  Keys = {k}
  Vals = {s1}
  Ttls = {1}
  Faults = {"rewrite", "dirsync"}
  Clients = {c1, c2}
  WalModes = {TRUE}
  WalFloor = 2
  Second = 1
  MaxLines = 2
  MaxCrashes = 1
  MaxTime = 0
  MaxPriors = 1
SYMMETRY MCSymmetry
INVARIANT LogIsMemory
 
INVARIANT ReplayRebuilds
PROPERTY WriteAhead
PROPERTY ImplementsDurableMap
