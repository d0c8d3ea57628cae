SPECIFICATION Spec
CONSTANTS
  Pages = {p1}
  Ops = {o1, o2, o3}
  NoOp = NoOp
  Callers = {c1, c2}
  MaxEdits = 1
SYMMETRY MCSymmetry
INVARIANTS
  AnswersAreTrue
  StuckOnlyByCrashOrEdit
PROPERTIES
  ImplementsCheckedChanges
CHECK_DEADLOCK FALSE
