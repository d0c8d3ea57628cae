SPECIFICATION Spec
CONSTANTS
  Nodes <- MCNodes
  Edges <- MCEdges
  Runs = {r1, r2}
  Stores <- MCStores
  MaxCrashes = 1
INVARIANTS
  NodesFollowDependencies
  CompletedMeansAllRan
PROPERTIES
  EveryExecutionEnds
CHECK_DEADLOCK FALSE
