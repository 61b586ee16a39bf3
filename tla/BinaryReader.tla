---------------------------- MODULE BinaryReader ----------------------------
(***************************************************************************)
(* What a scan reads from a binary: ExtractPackagesAndSymbols              *)
(* (additions_scan.go of src/internal/vulncheck/internal/buildinfo), the   *)
(* executable formats (buildinfo.go, additions_buildinfo.go) and the       *)
(* inline trees (../gosym/additions.go).                                   *)
(*                                                                         *)
(* A binary is [format, GoVersion, tab, symbols, regions].  tab says where *)
(* the table of functions is.  symbols[name] is [Value, SectionNumber].    *)
(* regions are its Progs, sections or segments, [Name, Addr, Size], in     *)
(* words; the inline trees begin at the symbol that FuncSymName names.  A  *)
(* GoVersion is [devel, minor], where minor is None if the version is not  *)
(* one that GoTagToSemver can read.                                        *)
(*                                                                         *)
(* PCLNTab returns the offset of the text in the file where NewLineTable   *)
(* expects its address (additions_buildinfo.go:60-64); header.PC is either *)
(* of the two, as a scan uses the names of functions and not their pcs.    *)
(***************************************************************************)
EXTENDS LineLookup

CONSTANTS
  Binaries,       \* the binaries
  AddressSpace    \* 2^64 in Go

VARIABLES
  bin,             \* input: the binary
  st,              \* the next step of ExtractPackagesAndSymbols
  err,             \* what it returned, "nil" if there was no error
  region,          \* value, base and r of SymbolInfo: [value, base, r]
  next,            \* the function whose turn it is
  packageSymbols   \* pairs of a package and a symbol

extraction == <<bin, st, err, region, next, packageSymbols>>
readerVars == <<allVars, extraction>>

ReaderInit ==
  /\ LookupInit
  /\ bin \in Binaries
  /\ st \in {"BuildInfo", "asked"} /\ err = "nil"
  /\ region = <<>> /\ next = 1 /\ packageSymbols = {}

Fail(what) ==
  /\ st' = "done" /\ err' = what
  /\ UNCHANGED <<region, next, packageSymbols>>

Continue(to) == st' = to /\ UNCHANGED <<err, next, packageSymbols>>

-----------------------------------------------------------------------------
FuncSymName ==
  CASE bin.GoVersion.minor \in {18, 19} -> "go.func.*"
    [] bin.GoVersion.minor = 20 -> "go:func.*"
    [] bin.GoVersion.minor = None /\ bin.GoVersion.devel -> "go:func.*"
    [] OTHER -> ""

\* buildinfo.Read knows all formats of executables that openExe knows, and
\* XCOFF.
BuildInfo ==
  /\ Linked /\ st = "BuildInfo"
  /\ UNCHANGED <<allVars, bin>>
  /\ IF FuncSymName = "" THEN Fail("unsupported Go version")
     ELSE Continue("openExe") /\ UNCHANGED region

openExe ==
  /\ st = "openExe"
  /\ UNCHANGED <<allVars, bin>>
  /\ IF bin.format = "xcoff" THEN Fail("unrecognized format")
     ELSE Continue("SymbolInfo") /\ UNCHANGED region

progContaining(addr) ==
  {i \in DOMAIN bin.regions :
     addr >= bin.regions[i].Addr /\ addr < bin.regions[i].Addr + bin.regions[i].Size}

segmentContaining(addr) ==
  {i \in DOMAIN bin.regions :
     LET s == bin.regions[i]
     IN  /\ s.Addr <= addr /\ addr <= (s.Addr + s.Size - 1) % AddressSpace
         /\ s.Name # "__PAGEZERO"}

\* The value of a symbol of a PE binary is an offset in its section.
elfRegion(s)   == progContaining(s.Value)
peRegion(s)    == {s.SectionNumber}
machoRegion(s) == segmentContaining(s.Value)

SymbolInfo ==
  /\ st = "SymbolInfo"
  /\ UNCHANGED <<allVars, bin>>
  /\ IF FuncSymName \notin DOMAIN bin.symbols THEN Fail("no symbol")
     ELSE LET s  == bin.symbols[FuncSymName]
              in == CASE bin.format = "elf" -> elfRegion(s) [] bin.format = "pe" -> peRegion(s)
                      [] OTHER -> machoRegion(s)
              r  == FirstOf(in)
          IN  IF in = {} THEN Fail("no region")
              ELSE /\ region' = [value |-> s.Value, r |-> r,
                                 base |-> IF bin.format = "pe" THEN 0 ELSE bin.regions[r].Addr]
                   /\ Continue("PCLNTab")

\* What PCLNTab returns: "table", "other" bytes or "nil".  The search knows
\* tables by the first two magics and at every 16th byte only; if it finds
\* none, it is the section that is returned.
elfPCLNTab ==
  CASE bin.tab \in {".gopclntab", ".data.rel.ro.gopclntab"} -> "table"
    [] bin.tab = ".data.rel.ro, at its start" -> "table"
    [] bin.tab = ".data.rel.ro, aligned" ->
         IF parsed \in {ver12, ver116} THEN "table" ELSE "other"
    [] bin.tab = ".data.rel.ro, not aligned" -> "other"
    [] OTHER -> "nil"

pePCLNTab ==
  IF \A n \in {"runtime.pclntab", "runtime.epclntab"} :
       n \in DOMAIN bin.symbols /\ bin.symbols[n].Value # 0
  THEN "table" ELSE "nil"

machoPCLNTab == IF bin.tab = "__gopclntab" THEN "table" ELSE "nil"

PCLNTab ==
  CASE bin.format = "elf" -> elfPCLNTab [] bin.format = "pe" -> pePCLNTab [] OTHER -> machoPCLNTab

FindTable ==
  /\ st = "PCLNTab"
  /\ UNCHANGED <<allVars, bin>>
  /\ IF PCLNTab = "nil" THEN Fail("unable to load the PCLN table")
     ELSE Continue("NewTable") /\ UNCHANGED region

\* NewTable of what was found.  There are no functions if it is no table.
ParseFound ==
  /\ st = "NewTable" /\ Funcs = <<>>
  /\ IF PCLNTab = "table" THEN parsePclnTab \/ (fileMap # <<>> /\ NewTable)
     ELSE version = 0 /\ version' = ver11 /\ UNCHANGED <<file, Funcs>>
  /\ UNCHANGED <<fileMap, lookup, extraction>>

MapFound == st = "NewTable" /\ initFileMap /\ UNCHANGED extraction

Parsed ==
  /\ st = "NewTable" /\ (Funcs # <<>> \/ version = ver11)
  /\ Continue("functions") /\ UNCHANGED <<allVars, bin, region>>

-----------------------------------------------------------------------------
\* Words of a call, and the one that is its name.
size == IF version >= ver120 THEN 4 ELSE 5
NameOff == IF version >= ver120 THEN 2 ELSE 4

\* Bug: the calls of Go 1.20 are taken for those before.
InlineTreeBefore120(f) ==
  LET at(k) == f.inlineTreeOffset + 5 * (k - 1) + 4
  IN  IF f.inlineTreeCount = 0 \/ f.inlineTreeOffset = None THEN <<>>
      ELSE [k \in 1 .. f.inlineTreeCount |->
              IF at(k) \in DOMAIN table.inlineTrees /\ table.inlineTrees[at(k)] # 0
              THEN table.funcnametab[table.inlineTrees[at(k)]] ELSE table.funcnametab[1]]

\* The names of the calls of f.  In the region they begin at value - base, in
\* tables of Go 1.18 and later; FuncSymName lets no older ones through.
InlineTree(f) ==
  LET at(k) == f.inlineTreeOffset + size * (k - 1) + NameOff
  IN  IF f.inlineTreeCount = 0 \/ f.inlineTreeOffset = None THEN <<>>
      ELSE [k \in 1 .. f.inlineTreeCount |-> table.funcnametab[table.inlineTrees[at(k)]]]

Readable(f) ==
  \/ f.inlineTreeCount = 0 \/ f.inlineTreeOffset = None
  \/ region.value - region.base + f.inlineTreeOffset + size * f.inlineTreeCount
        <= bin.regions[region.r].Size

\* A turn of the loop over the functions.  The names of inlined calls come
\* without a version.
ExtractFunc ==
  /\ st = "functions" /\ next <= Len(Funcs)
  /\ UNCHANGED <<allVars, bin>>
  /\ LET f    == Funcs[next]
         tree == InlineTree(f)
     IN  IF ~Readable(f) THEN Fail("InlineTree")
         ELSE /\ packageSymbols' = packageSymbols \cup {parseName(mangled(f.Name), version)}
                   \cup {parseName(mangled(tree[k]), 0) : k \in DOMAIN tree}
              /\ next' = next + 1 /\ UNCHANGED <<st, err, region>>

Extracted ==
  /\ st = "functions" /\ next > Len(Funcs)
  /\ Continue("done") /\ UNCHANGED <<allVars, bin, region>>

\* The table of a binary that is not scanned is asked for files and lines.
Asked == st = "asked" /\ LookupNext /\ UNCHANGED extraction

Built == LinkTable /\ UNCHANGED <<fileMap, lookup, extraction>>

Done == st = "done" /\ UNCHANGED readerVars

ReaderNext ==
  \/ Built \/ BuildInfo \/ openExe \/ SymbolInfo \/ FindTable
  \/ ParseFound \/ MapFound \/ Parsed \/ ExtractFunc \/ Extracted
  \/ Asked \/ Done

ReaderSpec == ReaderInit /\ [][ReaderNext]_readerVars

-----------------------------------------------------------------------------
Compiled == ToSet(funcnametab)
Declared == {o \in Compiled : "text" \notin DOMAIN o}

\* The database names functions and methods so; it cannot name closures or
\* what is generic.
Nameable(o) == o.inst = <<>> /\ Len(o.base) = 1
symbolOf(o) == <<o.pkg, IF o.recv = <<>> THEN o.base ELSE o.recv \o <<".">> \o o.base>>

Outlined(o) == \E i \in DOMAIN prog : prog[i].Name = o

\* "unfortunate" (symtab_test.go:80): up to Go 1.19 their names look like
\* those that the compiler makes up.
startsWithGo(o) == IsPrefix(<<"go", ".">>, o.pkg)

(***************************************************************************)
(* What is read without an error is what was compiled: each function and   *)
(* method that the database can name is there under its name, also where   *)
(* it was only inlined, and no package and no such name that was not       *)
(* compiled.  It does not hold where the search of .data.rel.ro returns    *)
(* other bytes, which give no symbols at all.                              *)
(***************************************************************************)
SymbolsExact ==
  st = "done" /\ err = "nil" /\ PCLNTab = "table" =>
    /\ \A o \in Declared :
         Nameable(o) /\ (startsWithGo(o) => Outlined(o) /\ version = ver120)
           => symbolOf(o) \in packageSymbols
    /\ \A s \in packageSymbols : s[1] # <<>> =>
         \E o \in Declared : o.pkg = s[1] /\ (Nameable(o) => s = symbolOf(o))
=============================================================================
