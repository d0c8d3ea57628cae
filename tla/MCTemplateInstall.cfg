SPECIFICATION Spec
CONSTANTS
  Calls = {c1, c2}
  Ops = {o1, o2}
  None = None
  MaxEdits = 2
SYMMETRY MCSymmetry
PROPERTIES
  ImplementsAtomicInstall
CHECK_DEADLOCK FALSE
