SPECIFICATION MCSpec
CONSTANTS
  a = a
  b = b
  other = other
  Module <- MCModule
  Wanted <- MCWanted
  Publications = 2
  Version <- MCVersion
  Zero <- MCZero
  RangeLists <- MCRangeLists
  SemverOf <- MCSemverOf
  Tag <- MCTag
  None = None
INVARIANTS
  AsFreshAsReported
  OnlyPublicPaths
  ListedHasEntries
  AffectsExact
  FixHelps
  ReleasesExact
