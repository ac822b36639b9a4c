SPECIFICATION DocFairSpec
CONSTANTS
  d1 = d1
  d2 = d2
  ta = ta
  tb = tb
  tg = tg
  p1 = p1
  p2 = p2
  None = None
  Docs = {d1}
  Artifacts = {d1}
  Slots = {1, 2}
  Texts = {ta, tb}
  Garbled = tg
  Len <- MCLen
  m1 = m1
  Models = {m1}
  FirstModel = m1
  Dim <- MCDim
  Workers = {p1, p2}
  Faults = {"refused", "late", "text", "crash"}
  Asked = {"index", "delete", "collection", "cleanup", "reingest", "expire"}
  MaxRequests = 2
  MaxFaults = 2
  MaxAttempts = 2
CHECK_DEADLOCK FALSE
INVARIANT DocTypeOK
 
 
PROPERTY ExpiredGoes
