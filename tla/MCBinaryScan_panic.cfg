SPECIFICATION MCBinarySpec
CONSTANTS
  None = None
  Path <- MCPath
  Provides <- MCProvides
  Std <- S
  Version <- MCVersion
  Database <- MCAllDatabase
  OS <- MCOS
  Symbol <- MCSymbol
  PathLen <- MCPathLen
  Segment <- MCSegment
  SegPrefix <- MCSegPrefix
  Dotless <- MCDotless
  FixedIn <- MCFixedIn
INVARIANT
  NoPanic
