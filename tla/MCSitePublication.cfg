SPECIFICATION Spec
CONSTANTS
  Calls = {c1, c2}
  Configurations = {k1, k2}
  Texts = {x1, x2}
  None = None
  MaxRevision = 1
  MaxGeneration = 3
SYMMETRY MCSymmetry
INVARIANTS
  OneOwnerPerGeneration
  OnlyApprovedGoesLive
PROPERTIES
  ApprovedInForce
