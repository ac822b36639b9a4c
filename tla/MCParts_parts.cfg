\* Two gateways.  Jobs: statements that fail in either way, gateways that die.
\* Meter: measurements and billings over one and a half months, one fault.
\* Index: two dimensions, a zero vector, two tables.
\* Client: three batches, two at a time, the last one not full.
\* Lifecycle: all orders of four thresholds; two items followed with one of them.
SPECIFICATION PartsSpec
CONSTANTS
  Jobs = {j1, j2}
  Gateways = {g1, g2}
  Requested = {j1}
  Shared = {j1}
  MaxPending = 1
  Clearable = {j2}
  MaxAttempts = 2
  BatchSize = 1
  Faults = {"unexecuted", "unheard", "crash"}
  MaxFaults = 1
  MeterGateways = {g1}
  Meters <- MCMeters
  Sizes = {0, 2}
  MonthLength = 2
  MaxClock = 3
  MaxRequests = 2
  MeterFaults = {"query", "request", "crash"}
  MaxMeterFaults = 1
  CommandCount = 5
  PerBatch = 2
  Lanes = {lane1, lane2}
  MaxBreaks = 1
  Items = {1, 2}
  MaxValue = 3
  Policies <- MCPolicies
  RunPolicies <- MCRunPolicies
  MaxDeletes = 1
  GroupSize = 2
  MaxUpdates = 1
  i1 = i1
  i2 = i2
  i3 = i3
  v1 = v1
  v2 = v2
  z1 = z1
  w1 = w1
  w2 = w2
  p1 = p1
  pAll = pAll
  Absent = Absent
  NoVec = NoVec
  NoTtl = NoTtl
  Keys = {}
  Vals = {}
  Ttls = {}
  Ids <- MCIds
  Vecs <- MCVecs
  IdPrefixes <- MCIdPrefixes
  IdsWith <- MCIdsWith
  DimOf <- MCDimOf
  Rounded <- MCRounded
  CutOf <- MCCutOf
  Tables = 2
  Signatures = {0, 1}
  SigOf <- MCSigOf
  Score <- MCScore
  ZeroVecs = {z1}
  MaxAsked = 3
\* All jobs end, time is bounded.
CHECK_DEADLOCK FALSE
INVARIANT OneRunner
INVARIANT RunsBounded
INVARIANT BucketsHoldVectors
INVARIANT SearchIsExactInBuckets
INVARIANT SecondsBilledOnce
INVARIANT ChangesAreMetered
INVARIANT RepliesMatch
INVARIANT TiersNeverTurnBack
INVARIANT DeletedWereLow
INVARIANT BudgetKept
PROPERTY EndIsFinal
PROPERTY MonthsClose
PROPERTY JobsEnd
