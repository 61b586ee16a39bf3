SPECIFICATION MCSpec
CONSTANTS
  p1 = p1
  p2 = p2
  p3 = p3
  p4 = p4
  m1 = m1
  m2 = m2
  m3 = m3
  Std = Std
  None = None
  Package <- MCPackage
  Level <- MCLevel
  FirstID = 7
  Module <- MCModule
INVARIANTS
  SliceExact
  ImportedByExact
  EntriesExact
  VulnsTraced
  OneNodePerModule
  RequiredByExact
  ModulesTraced
