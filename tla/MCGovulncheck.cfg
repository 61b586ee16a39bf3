SPECIFICATION FairSpec
CONSTANTS
  m1 = m1
  m2 = m2
  Module <- MCModule
INVARIANTS
  ReportExact
  BuildJoined
  NoSelfCancel
PROPERTIES
  EarlyAnswer
