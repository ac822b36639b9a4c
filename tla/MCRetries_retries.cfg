\* Keyed requests: no step takes long, and one request may fail.  Compactions: one job and the sweep, one fault, one deletion by a request.
SPECIFICATION RetriesSpec
CONSTANTS
  r1 = r1
  r2 = r2
  o1 = o1
  o2 = o2
  p = p
  pOther = pOther
  None = None
  KeyReused = KeyReused
  InProgress = InProgress
  Requests <- MCMixed
  PayloadOf <- MCPayloadOf
  Ttl = 4
  Skew = 1
  MaxRun = 1
  Latency = 1
  Failing = {o1}
  MaxTime = 6
  Notes = {1, 2}
  Jobs = {11}
  Deleting = {11}
  Wide = {11}
  Sweep = 21
  Seed = 1
  MaxAttempts = 2
  MaxForgets = 1
  MaxFaults = 1
SYMMETRY MCSymmetry
\* A request ends; jobs end, and the sweep has passed.
CHECK_DEADLOCK FALSE
CONSTRAINT FirstSummaries
INVARIANT NothingLost
INVARIANT OnePayloadPerKey
 
 
 
