SPECIFICATION Spec
CONSTANTS
  m1 = m1
  m2 = m2
  Module <- MCModule
SYMMETRY MCSymmetry
INVARIANTS
  SourceHasResult
