SPECIFICATION CompactionSpec
CONSTANTS
  Notes = {1, 2}
  Jobs = {11}
  Deleting = {11}
  Wide = {11}
  Sweep = 21
  Seed = 1
  MaxAttempts = 2
  MaxForgets = 0
  MaxFaults = 1
\* Jobs end, and the sweep has passed.
CHECK_DEADLOCK FALSE
INVARIANT KeepsItsSummary
