SPECIFICATION MCSpec
CONSTANTS
  f1 = f1
  f2 = f2
  f3 = f3
  f4 = f4
  s1 = s1
  s2 = s2
  g1 = g1
  g2 = g2
  None = None
  Func <- MCFunc
  Symbol <- MCSymbol
  Group <- MCGroup
INVARIANTS
  SitesExact
  SinksExact
  StacksReal
  EveryEntryFound
  ShortestFound
  CalledExact
