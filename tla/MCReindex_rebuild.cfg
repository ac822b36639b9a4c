SPECIFICATION ReindexFairSpec
CONSTANTS
  d1 = d1
  d2 = d2
  ta = ta
  tb = tb
  tg = tg
  p1 = p1
  p2 = p2
  m1 = m1
  m2 = m2
  m3 = m3
  None = None
  Docs = {d1}
  Artifacts = {}
  Slots = {1, 2}
  Texts = {ta, tb}
  Garbled = tg
  Len <- MCLen
  Models = {m1, m2, m3}
  FirstModel = m1
  Dim <- MCDim
  Workers = {p1}
  Faults = {"refused", "embed"}
  Asked = {"index"}
  MaxRequests = 2
  MaxFaults = 1
  MaxAttempts = 1
  ReindexMode = "auto"
  AdminModes = {"always"}
  Rank <- MCRank
  FetchSize = 1
  BatchSize = 2
  StoreFaults = {"late", "stats", "clear", "fingerprint"}
  MaxOutages = 1
CHECK_DEADLOCK FALSE
 
INVARIANT RebuildIsComplete
INVARIANT SwitchIsNoticed
PROPERTY EmptyStoreRefills

