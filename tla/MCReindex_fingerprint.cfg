SPECIFICATION ReindexSpec
CONSTANTS
  d1 = d1
  d2 = d2
  ta = ta
  tb = tb
  tg = tg
  p1 = p1
  p2 = p2
  m1 = m1
  m2 = m2
  m3 = m3
  None = None
  Docs = {d1, d2}
  Artifacts = {d1}
  Slots = {1}
  Texts = {ta}
  Garbled = tg
  Len <- MCLen
  Models = {m1, m2}
  FirstModel = m1
  Dim <- MCDim
  Workers = {p1}
  Faults = {}
  Asked = {"index"}
  MaxRequests = 2
  MaxFaults = 0
  MaxAttempts = 1
  ReindexMode = "auto"
  AdminModes = {"always"}
  Rank <- MCRank
  FetchSize = 1
  BatchSize = 2
  StoreFaults = {}
  MaxOutages = 1
CHECK_DEADLOCK FALSE
INVARIANT ModelsNeverMixed
