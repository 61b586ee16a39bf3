SPECIFICATION MCSpec
CONSTANTS
  Base = 4
  Programs <- MCPrograms
  Files <- MCFiles
  FileOff <- MCFileOff
  Headers <- MCHeaders
  Lines = {1, 2, 3, 5}
  OtherFile = "other"
  Binaries <- MCBinaries
  AddressSpace = 256
INVARIANTS
  LinesExact
  FirstPCFound
  SymbolsExact
