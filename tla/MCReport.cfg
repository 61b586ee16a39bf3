SPECIFICATION MCSpec
CONSTANTS
  topPkgs <- MCTopPkgs
  Rank <- MCRank
  Std = "stdlib"
  Versions <- MCVersions
  Affected <- MCAffected
  FoundLists <- MCFoundLists
INVARIANTS
  SectionsExact
  FindingsShown
  
  ReplayAgrees
