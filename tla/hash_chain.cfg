SPECIFICATION Spec
SYMMETRY Symmetry
CONSTANTS
  Ids = {1, 2, 3}
  Contents = {c1, c2}
  NotADigest = NotADigest
  MaxTime = 2
  MaxEdits = 1
INVARIANTS
  TypeOK
  ChainVerifies
PROPERTIES
  EditIsDetected
  NothingHeals
