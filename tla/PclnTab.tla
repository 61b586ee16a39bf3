------------------------------ MODULE PclnTab ------------------------------
(***************************************************************************)
(* The table of functions, files and lines in a Go binary: LineTable and   *)
(* Table (src/internal/vulncheck/internal/gosym/pclntab.go, symtab.go and  *)
(* additions.go), for the formats from Go 1.2 on.                          *)
(*                                                                         *)
(* The linker's side is defined here too, as what the reader must undo.  A *)
(* program is a sequence of functions [Name, code, pad, files, tree]:      *)
(* code has for each instruction [file, line, inl], where file is an index *)
(* into files (a compilation unit's list of files) and inl the call in     *)
(* tree the instruction is inlined from, -1 for none; pad is the padding   *)
(* after it.  An instruction is as long as the pc quantum.  A call in tree *)
(* is the Name of what was inlined.  Names are those of SymbolName before  *)
(* they are mangled.                                                       *)
(*                                                                         *)
(* Numbers are kept in words of 32 bits, and pctab in bytes; a byte of a   *)
(* varint holds a number below Base and not below 128, and a byte of Base  *)
(* or more is continued.  Names are found by number and not by the offset  *)
(* of their text.  Offsets begin at 0, the indices of sequences at 1.      *)
(***************************************************************************)
EXTENDS SymbolName

CONSTANTS
  Base,       \* 128 in Go
  Programs,   \* the programs
  Files,      \* all files, in the order of filetab
  FileOff,    \* FileOff[f]: the offset of the name of f in filetab
  Headers     \* headers of the table, [magic, zeros, quantum, ptrsize, PC]

ASSUME BaseAssumption == Base \in Nat /\ Base > 1
ASSUME FilesAssumption ==
  /\ IsInjective(Files) /\ DOMAIN FileOff = ToSet(Files)
  /\ \A f, g \in ToSet(Files) : FileOff[f] \in Nat /\ (FileOff[f] = FileOff[g] => f = g)

None == -1         \* ^uint32(0) as an offset, and what is not there

VARIABLES
  prog,     \* input: the program
  header,   \* input: the header; PC is the address where the text begins
  table,    \* the table, with the inline trees; <<>> before linking
  version,  \* the field of LineTable, 0 before parsing
  Funcs     \* Table.Funcs

file == <<prog, header, table>>
vars == <<file, version, Funcs>>

-----------------------------------------------------------------------------
(* Linking.                                                                *)

magicOf == [v \in ver12 .. ver120 |->
  CASE v = ver12 -> "go12" [] v = ver116 -> "go116" [] v = ver118 -> "go118" [] OTHER -> "go120"]
linkVersion == CHOOSE v \in ver12 .. ver120 : magicOf[v] = header.magic

zigzag(d) == IF d >= 0 THEN 2 * d ELSE -2 * d - 1

varint[n \in Nat] ==
  IF n < Base THEN <<n>> ELSE <<Base + (n % Base)>> \o varint[n \div Base]

\* A table of the values of all instructions, as deltas of values and pcs.
Encode(vals) ==
  LET ends == SetToSortSeq({i \in DOMAIN vals : i = Len(vals) \/ vals[i + 1] # vals[i]}, <)
      val(k)  == IF k = 0 THEN -1 ELSE vals[ends[k]]
      from(k) == IF k = 0 THEN 0 ELSE ends[k]
  IN  FlattenSeq([k \in DOMAIN ends |->
        varint[zigzag(val(k) - val(k - 1))] \o varint[from(k) - from(k - 1)]]) \o <<0>>

\* Which file an instruction is in: an index into the files of the unit, or
\* before Go 1.16 into filetab.
fileNumber(f, c) ==
  IF linkVersion = ver12 THEN CHOOSE n \in DOMAIN Files : Files[n] = f.files[c.file + 1]
  ELSE c.file

\* A function without a compilation unit has no files and no tables.
noUnit(f) == f.files = <<>>

Tables(f) ==
  IF noUnit(f) THEN << <<>>, <<>>, <<>> >>
  ELSE << Encode([i \in DOMAIN f.code |-> fileNumber(f, f.code[i])]),
          Encode([i \in DOMAIN f.code |-> f.code[i].line]),
          IF f.tree = <<>> THEN <<>> ELSE Encode([i \in DOMAIN f.code |-> f.code[i].inl]) >>

AllTables == FlattenSeq([i \in DOMAIN prog |-> Tables(prog[i])])

\* The offset of table k of function i; offset 0 is no table.
tableOff(i, k) ==
  IF Tables(prog[i])[k] = <<>> THEN 0
  ELSE 1 + FoldLeft(LAMBDA n, t : n + Len(t), 0, SubSeq(AllTables, 1, 3 * (i - 1) + k - 1))

\* The trees of all functions, one after the other: where that of i begins,
\* and how long a call is in it.  Names are numbered first those of the
\* functions, then those of the calls.
calls(i)  == FoldLeft(LAMBDA n, f : n + Len(f.tree), 0, SubSeq(prog, 1, i - 1))
callWords == IF linkVersion = ver120 THEN 4 ELSE 5

funcnametab ==
  [i \in DOMAIN prog |-> prog[i].Name] \o FlattenSeq([i \in DOMAIN prog |-> prog[i].tree])

callName(n) == Len(prog) + n

inlineTrees ==
  FlattenSeq([n \in 1 .. calls(Len(prog) + 1) |->
    IF linkVersion = ver120 THEN <<0, callName(n), 0, 0>> ELSE <<0, 0, 0, callName(n), 0>>])

cuOff(i) == FoldLeft(LAMBDA n, f : n + Len(f.files), 0, SubSeq(prog, 1, i - 1))

quantum == header.quantum

\* In functab and _func, pcs are offsets from Go 1.18 on.
pcEntry(i) ==
  FoldLeft(LAMBDA n, f : n + quantum * (Len(f.code) + f.pad), 0, SubSeq(prog, 1, i - 1))
    + IF linkVersion >= ver118 THEN 0 ELSE header.PC

\* Function i: an _func, with its three pcdata and four funcdata, if any.
funcWords(i) ==
  LET f          == prog[i]
      pointer(p) == IF linkVersion >= ver118 \/ header.ptrsize = 4 THEN <<p>> ELSE <<p, 0>>
      absent     == IF linkVersion >= ver118 THEN None ELSE 0
  IN  pointer(pcEntry(i))
        \o <<i, 0, 0, 0, tableOff(i, 1), tableOff(i, 2), IF noUnit(f) THEN 0 ELSE 3>>
        \o (IF linkVersion = ver12 THEN <<>> ELSE <<IF noUnit(f) THEN None ELSE cuOff(i)>>)
        \o (IF linkVersion = ver120 THEN <<0>> ELSE <<>>)
        \o <<IF noUnit(f) THEN 0 ELSE 4>>
        \o (IF noUnit(f) THEN <<>>
            ELSE <<0, 0, tableOff(i, 3)>> \o pointer(absent) \o pointer(absent) \o pointer(absent)
                   \o pointer(IF f.tree = <<>> THEN absent ELSE callWords * calls(i)))

\* The files of all units; those without an instruction have no offset.
cutab ==
  FlattenSeq([i \in DOMAIN prog |-> [n \in DOMAIN prog[i].files |->
    IF \E c \in ToSet(prog[i].code) : c.file = n - 1 THEN FileOff[prog[i].files[n]] ELSE None]])

\* What comes after pctab begins with zeros.
Link ==
  [functab  |-> [i \in 1 .. Len(prog) + 1 |-> pcEntry(i)],
   funcdata |-> [i \in DOMAIN prog |-> funcWords(i)],
   pctab    |-> <<0>> \o FlattenSeq(AllTables) \o <<0, 0, 0>>,
   funcnametab |-> funcnametab,
   inlineTrees |-> inlineTrees,
   cutab    |-> cutab]

Magic == \E v \in ver12 .. ver120 : magicOf[v] = header.magic

Init ==
  /\ prog \in Programs /\ header \in Headers
  /\ table = <<>> /\ version = 0 /\ Funcs = <<>>

\* The table of a binary is there before anything reads it.
Linked == table # <<>> \/ ~Magic

LinkTable ==
  /\ ~Linked
  /\ table' = Link
  /\ UNCHANGED <<prog, header, version, Funcs>>

-----------------------------------------------------------------------------
(* Parsing.                                                                *)

\* The version that parsePclnTab finds.
parsed ==
  IF header.zeros /\ header.quantum \in {1, 2, 4} /\ header.ptrsize \in {4, 8} /\ Magic
  THEN linkVersion ELSE ver11

isGo12 == version >= ver12
Count  == Len(table.functab) - 1

\* funcTab.pc
pc(i) == table.functab[i] + IF version >= ver118 THEN header.PC ELSE 0

\* Words before field 1 of an _func.
size0 == IF version >= ver118 THEN 1 ELSE header.ptrsize \div 4
fieldOffset(n) == size0 + n - 1
word(i, n)     == table.funcdata[i][n + 1]
field(i, n)    == word(i, fieldOffset(n))

nameOff(i)  == field(i, 1)
pcfile(i)   == field(i, 5)
pcln(i)     == field(i, 6)
npcdata(i)  == field(i, 7)
cuOffset(i) == field(i, 8)
entryPC(i)  == word(i, 0) + IF version >= ver118 THEN header.PC ELSE 0

numFuncFields == IF version < ver116 THEN 9 ELSE IF version < ver120 THEN 10 ELSE 11

nfuncdata(i) == field(i, numFuncFields - 1)

funcdataOffset(i, n) ==
  IF n >= nfuncdata(i) THEN None
  ELSE word(i, fieldOffset(numFuncFields) + npcdata(i) +
                 IF version >= ver118 THEN n ELSE n * (header.ptrsize \div 4))

pcdataOffset(i, n) ==
  IF n >= npcdata(i) THEN None ELSE word(i, fieldOffset(numFuncFields) + n)

\* readvarint[p]: the number that begins at byte p, and where the next is.
readvarint ==
  LET b == table.pctab
      read[p \in DOMAIN b] ==
        IF b[p] < Base THEN [v |-> b[p], next |-> p + 1]
        ELSE [v |-> b[p] - Base + Base * read[p + 1].v, next |-> read[p + 1].next]
  IN  read

\* Bug: ^ taken for the sign.
deltaNegated(u) == IF u % 2 = 1 THEN -(u \div 2) ELSE u \div 2

delta(u) == IF u % 2 = 1 THEN -(u \div 2) - 1 ELSE u \div 2

\* A state of a walk over a table; the walk has ended if it is not ok.
step(s, first) ==
  LET u == readvarint[s.p]
      d == readvarint[u.next]
  IN  IF u.v = 0 /\ ~first THEN [s EXCEPT !.ok = FALSE]
      ELSE [p |-> d.next, pc |-> s.pc + d.v * quantum, val |-> s.val + delta(u.v), ok |-> TRUE]

\* The steps that are ok of the walk over the table at off.
walk(off, entry) ==
  LET state[n \in 0 .. Len(table.pctab)] ==
        IF n = 0 THEN [p |-> off + 1, pc |-> entry, val |-> -1, ok |-> TRUE]
        ELSE IF state[n - 1].ok THEN step(state[n - 1], state[n - 1].pc = entry)
        ELSE state[n - 1]
      length == CHOOSE n \in 0 .. Len(table.pctab) :
                  ~state[n + 1].ok /\ \A m \in 0 .. n : state[m].ok
  IN  [n \in 1 .. length |-> state[n]]

FirstOf(S) == CHOOSE i \in S : \A j \in S : i <= j

pcvalue(off, entry, targetpc) ==
  LET t     == walk(off, entry)
      after == {n \in DOMAIN t : targetpc < t[n].pc}
  IN  IF after = {} THEN -1 ELSE t[FirstOf(after)].val

maxInlineTreeIndexValue(i) ==
  IF npcdata(i) <= 2 THEN -1
  ELSE LET t    == walk(pcdataOffset(i, 2), 0)
           vals == {-1} \cup {t[n].val : n \in DOMAIN t}
       IN  CHOOSE x \in vals : \A y \in vals : y <= x

\* 0 if there is none.
findFunc(x) ==
  IF x < pc(1) \/ x >= pc(Count + 1) THEN 0
  ELSE CHOOSE i \in 1 .. Count : pc(i) <= x /\ x < pc(i + 1)

\* The first question about the table parses it.
parsePclnTab ==
  /\ Linked /\ version = 0
  /\ version' = parsed
  /\ UNCHANGED <<file, Funcs>>

\* NewTable without a symbol table, which no binary since Go 1.3 has: the
\* functions are those of go12Funcs.
NewTable ==
  /\ version # 0 /\ isGo12 /\ Funcs = <<>>
  /\ Funcs' = [i \in 1 .. Count |->
       [Entry |-> pc(i), End |-> pc(i + 1), Name |-> table.funcnametab[nameOff(i)],
        inlineTreeOffset |-> funcdataOffset(i, 3),
        inlineTreeCount |-> 1 + maxInlineTreeIndexValue(i)]]
  /\ UNCHANGED <<file, version>>
=============================================================================
