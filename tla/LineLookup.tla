----------------------------- MODULE LineLookup -----------------------------
(***************************************************************************)
(* The questions to a Table: PCToLine and LineToPC                         *)
(* (src/internal/vulncheck/internal/gosym/symtab.go), answered by          *)
(* go12PCToLine, go12PCToFile and go12LineToPC (pclntab.go).               *)
(***************************************************************************)
EXTENDS PclnTab

CONSTANTS
  Lines,       \* the lines that are asked about
  OtherFile    \* a file that is not in the table

VARIABLES
  fileMap,   \* the field of LineTable, <<>> for nil
  question,  \* what was asked last, <<>> for nothing
  answer     \* and answered: [file, line, fn] or [pc, fn, err]

lookup  == <<question, answer>>
allVars == <<vars, fileMap, lookup>>

LookupInit == Init /\ fileMap = <<>> /\ question = <<>> /\ answer = <<>>

\* PCToFunc, 0 for nil.
PCToFunc(x) ==
  LET I == {i \in DOMAIN Funcs : Funcs[i].Entry <= x /\ x < Funcs[i].End}
  IN  IF I = {} THEN 0 ELSE CHOOSE i \in I : TRUE

start(i) == header.PC + FoldLeft(LAMBDA n, f : n + quantum * (Len(f.code) + f.pad), 0,
                                 SubSeq(prog, 1, i - 1))

\* Addresses of the text and one on either side.
Addresses == start(1) - 1 .. start(Len(prog) + 1)

-----------------------------------------------------------------------------
go12PCToLine(x) ==
  LET f == findFunc(x)
  IN  IF f = 0 THEN -1 ELSE pcvalue(pcln(f), entryPC(f), x)

nameAt(off) == CHOOSE f \in ToSet(Files) : FileOff[f] = off

\* The table of a function without a unit is read from offset 0, where there
\* is none: what comes out may lie outside of filetab and cutab, where the code
\* recovers from a panic.
go12PCToFile(x) ==
  LET f   == findFunc(x)
      fno == pcvalue(pcfile(f), entryPC(f), x)
      at  == cuOffset(f) + fno + 1
  IN  IF f = 0 THEN None
      ELSE IF version = ver12 THEN IF fno \in DOMAIN Files THEN Files[fno] ELSE None
      ELSE IF fno < 0 \/ at \notin DOMAIN table.cutab \/ table.cutab[at] = None THEN None
      ELSE nameAt(table.cutab[at])

\* The number of a file before Go 1.16, and then its offset.
newFileMap ==
  [f \in ToSet(Files) |-> IF version = ver12 THEN CHOOSE n \in DOMAIN Files : Files[n] = f
                          ELSE FileOff[f]]

\* NewTable calls go12MapFiles before it collects the functions.
initFileMap ==
  /\ version # 0 /\ isGo12 /\ fileMap = <<>>
  /\ fileMap' = newFileMap
  /\ UNCHANGED <<vars, lookup>>

-----------------------------------------------------------------------------
\* Bug: a line that goes on into the file is not seen.
hitStarting(fs, ls, lp) == IF fs <= ls THEN ls ELSE 0

\* A range of the line from ls to lp, and one of the file from fs.
hit(fs, ls, lp) == IF fs <= ls THEN ls ELSE IF fs < lp THEN fs ELSE 0

\* Where the range of pcs after step n of a walk begins.
end(t, n, entry) == IF n = 0 THEN entry ELSE t[n].pc

\* The places in the table of lines where the walk over it stops: used[n] when
\* range n of the file table is done.  It goes on where it stopped before.
stops(fp, fl, entry, wanted) ==
  LET reached(n) == {m \in 0 .. Len(fl) :
                       m = Len(fl) \/ end(fl, m, entry) >= end(fp, n, entry)}
      used[n \in 0 .. Len(fp)] ==
        IF n = 0 THEN 0
        ELSE IF n \notin wanted THEN used[n - 1]
        ELSE FirstOf({m \in reached(n) : m >= used[n - 1]})
  IN  used

\* The hits of a range of the file with a range of the line, in their order.
hitsOf(fp, fl, entry, used, line) ==
  LET at(n, m) == hit(end(fp, n - 1, entry), end(fl, m - 1, entry), end(fl, m, entry))
  IN  FlattenSeq([n \in DOMAIN fp |->
        SelectSeq([m \in DOMAIN fl |->
                     IF used[n - 1] < m /\ m <= used[n] /\ fl[m].val = line THEN at(n, m) ELSE 0],
                  LAMBDA x : x # 0)])

firstOr0(pcs) == IF pcs = <<>> THEN 0 ELSE pcs[1]

\* The ranges of a table of files that are those of the file.
inFile(i, fp, entry, filenum) ==
  LET index(n) == IF version = ver12 THEN fp[n].val
                  ELSE table.cutab[cuOffset(i) + fp[n].val + 1]
  IN  {n \in DOMAIN fp : index(n) = filenum /\ end(fp, n - 1, entry) < end(fp, n, entry)}

findIn(i, fp, fl, entry, filenum, line) ==
  firstOr0(hitsOf(fp, fl, entry, stops(fp, fl, entry, inFile(i, fp, entry, filenum)), line))

\* The first pc of function i in the file and on the line, 0 for none.
findFileLine(i, entry, filenum, line) ==
  IF pcfile(i) = 0 \/ pcln(i) = 0 THEN 0
  ELSE findIn(i, walk(pcfile(i), entry), walk(pcln(i), entry), entry, filenum, line)

\* Functions without a compilation unit are passed over.
go12LineToPC(f, line) ==
  IF f \notin DOMAIN fileMap THEN 0
  ELSE firstOr0(SelectSeq([i \in 1 .. Count |->
                             IF version >= ver116 /\ cuOffset(i) = None THEN 0
                             ELSE findFileLine(i, entryPC(i), fileMap[f], line)],
                          LAMBDA x : x # 0))

Ready == Funcs # <<>> /\ fileMap # <<>>

PCToLine(x) ==
  /\ Ready /\ question = <<>>
  /\ question' = <<"PCToLine", x>>
  /\ answer' = IF PCToFunc(x) = 0 THEN [file |-> None, line |-> 0, fn |-> 0]
               ELSE [file |-> go12PCToFile(x), line |-> go12PCToLine(x), fn |-> PCToFunc(x)]
  /\ UNCHANGED <<vars, fileMap>>

found(f, x) ==
  IF f \notin DOMAIN fileMap THEN [pc |-> 0, fn |-> 0, err |-> "UnknownFile"]
  ELSE IF x = 0 THEN [pc |-> 0, fn |-> 0, err |-> "UnknownLine"]
  ELSE [pc |-> x, fn |-> PCToFunc(x), err |-> "nil"]

LineToPC(f, line) ==
  /\ Ready /\ question = <<>>
  /\ question' = <<"LineToPC", f, line>>
  /\ answer' = found(f, go12LineToPC(f, line))
  /\ UNCHANGED <<vars, fileMap>>

Parse ==
  /\ LinkTable \/ parsePclnTab \/ (fileMap # <<>> /\ NewTable)
  /\ UNCHANGED <<fileMap, lookup>>

\* An answer was given, or the table is not one of Go 1.2.
Answered ==
  /\ question # <<>> \/ version = ver11
  /\ UNCHANGED allVars

LookupNext ==
  \/ Parse
  \/ initFileMap
  \/ \E x \in Addresses : PCToLine(x)
  \/ \E f \in ToSet(Files) \cup {OtherFile}, line \in Lines : LineToPC(f, line)
  \/ Answered

LookupSpec == LookupInit /\ [][LookupNext]_allVars

-----------------------------------------------------------------------------
(* The same from the program.                                              *)

\* Instruction k of function i is at x.
At(i, k, x) == x >= start(i) + quantum * (k - 1) /\ x < start(i) + quantum * k

fileOf(i, k) == prog[i].files[prog[i].code[k].file + 1]
Codes(i)     == IF prog[i].files = <<>> THEN {} ELSE DOMAIN prog[i].code

(***************************************************************************)
(* Every pc of an instruction has the file, the line and the function that *)
(* were compiled there, in each of the formats; one of the padding has a   *)
(* function only, and one outside of the text nothing.  A function without *)
(* a unit has no lines: what is read for it at offset 0 is those of others *)
(* and only the function is right.                                         *)
(***************************************************************************)
LinesExact ==
  question # <<>> /\ question[1] = "PCToLine" =>
    LET x == question[2]
        i == answer.fn
    IN  /\ i = 0 => \A j \in DOMAIN prog : x < start(j) \/ x >= start(j + 1)
        /\ i # 0 => start(i) <= x /\ x < start(i + 1)
        /\ i # 0 /\ ~noUnit(prog[i]) =>
                    IF \E k \in Codes(i) : At(i, k, x)
                    THEN \E k \in Codes(i) : At(i, k, x) /\ answer.file = fileOf(i, k)
                                             /\ answer.line = prog[i].code[k].line
                    ELSE answer.file = None

(***************************************************************************)
(* "LineToPC looks up the first program counter on the given line in the   *)
(* named file" (symtab.go:571): it is an instruction of that line of the   *)
(* file, no earlier one is, and if none is found there is none.            *)
(***************************************************************************)
FirstPCFound ==
  question # <<>> /\ question[1] = "LineToPC" =>
    LET On == {<<i, k>> \in UNION {{<<j, c>> : c \in Codes(j)} : j \in DOMAIN prog} :
                 fileOf(i, k) = question[2] /\ prog[i].code[k].line = question[3]}
        addr(c) == start(c[1]) + quantum * (c[2] - 1)
    IN  /\ answer.err # "nil" <=> On = {}
        /\ On # {} => /\ \E c \in On : answer.pc = addr(c) /\ answer.fn = c[1]
                      /\ \A c \in On : answer.pc <= addr(c)
=============================================================================
