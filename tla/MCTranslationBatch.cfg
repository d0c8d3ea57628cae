CONSTANTS
  b0 = b0
  b1 = b1
  c1 = c1
  c2 = c2
  Calls = {c1, c2}
  Batches = {b0, b1}
  Earlier = b0
  Size <- MCSize
  MaxConcurrent = 1
  MaxJobs = 2
  None = None
  MaxStops = 1
SPECIFICATION Spec
INVARIANTS
  ClosedTotalsAreTrue
  NoOrphanAllowance
PROPERTIES
  ProgressIsKept
  CancelEnds
CHECK_DEADLOCK FALSE
