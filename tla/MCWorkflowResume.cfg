SPECIFICATION Spec
CONSTANTS
  Nodes <- MCChainNodes
  Edges <- MCChainEdges
  Runs = {r1}
  Stores <- MCDurable
  MaxCrashes = 1
INVARIANTS
  ResumeRunsTheRest
CHECK_DEADLOCK FALSE
