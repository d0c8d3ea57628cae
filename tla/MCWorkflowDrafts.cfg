SPECIFICATION Spec
CONSTANTS
  Clients = {c1, c2, c3}
  Graphs = {g1, g2}
  Supported = {g1}
  None = None
  MaxVersion = 3
SYMMETRY MCSymmetry
PROPERTIES
  ActsOnCapturedGraph
CHECK_DEADLOCK FALSE
