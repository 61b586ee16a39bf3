--------------------------- MODULE MCBinaryReader ---------------------------
(***************************************************************************)
(* Tables that are asked for lines have every function of up to three      *)
(* instructions in two files and on three lines, before one without a      *)
(* compilation unit, long enough for what is read at offset 0 to have an   *)
(* effect, and one with an inlined call.  Tables that are scanned          *)
(* have two functions with inlined calls of any two declarations.          *)
(***************************************************************************)
EXTENDS BinaryReader

I(f, l, n) == [file |-> f, line |-> l, inl |-> n]
Fn(name, code, pad, files, tree) ==
  [Name |-> name, code |-> code, pad |-> pad, files |-> files, tree |-> tree]

O(pkg, ptr, recv, inst, base) ==
  [pkg |-> pkg, ptr |-> ptr, recv |-> recv, inst |-> inst, base |-> base]
Site == <<"a", ".", "b", "/", "c", ".", "d">>
Uber == <<"go", ".", "x", "/", "c">>
Inst == <<"[", ".", ".", ".", "]">>
Main == O(<<"main">>, FALSE, <<>>, <<>>, <<"main">>)
Declarations ==
  {O(p, FALSE, <<>>, <<>>, <<"F">>) : p \in {<<"main">>, Site, Uber}}
    \cup {O(Site, q, <<"T">>, i, <<"M">>) : q \in BOOLEAN, i \in {<<>>, Inst}}
    \cup {O(Site, FALSE, <<>>, Inst, <<"G">>), O(Site, FALSE, <<>>, <<>>, <<"F", ".", "func1">>)}
Generated(s) == [text |-> <<"type", s, ".", "eq", ".", "a", "/", "b", ".", "T">>]

Instr == {I(f, l, -1) : f \in {0, 1}, l \in {1, 2, 3}}
NoUnit == Fn(Main, <<I(0, 0, -1), I(0, 0, -1), I(0, 0, -1)>>, 1, <<>>, <<>>)
Second == Fn(Main, <<I(0, 2, -1), I(1, 5, 0), I(0, 3, -1)>>, 0, <<"b", "a">>, <<Main>>)
LinePrograms ==
  {<<Fn(Main, c, 1, <<"a", "b">>, <<>>), NoUnit, Second>> : c \in UNION {[1 .. n -> Instr] : n \in 1 .. 3}}

Caller(o, tree) ==
  Fn(o, [n \in 1 .. Len(tree) + 1 |-> I(0, n, n - 2)], 0, <<"a">>, tree)
NamePrograms ==
  {<<Caller(o, <<c>>), NoUnit, Caller(Main, <<d, Main>>)>> : o, c, d \in Declarations}
WithGenerated(s) == <<Caller(Main, <<>>), Caller(Generated(s), <<>>)>>
MCPrograms == LinePrograms \cup NamePrograms \cup {WithGenerated(s) : s \in {".", ":"}}

MCFiles   == <<"a", "b">>
MCFileOff == [f \in {"a", "b"} |-> IF f = "a" THEN 0 ELSE 7]
H(m, z, q, p) == [magic |-> m, zeros |-> z, quantum |-> q, ptrsize |-> p, PC |-> 8]
MCHeaders ==
  {H(m, TRUE, 1, p) : m \in {"go12", "go116", "go118", "go120"}, p \in {4, 8}}
    \cup {H("go118", TRUE, 4, 8), H("go120", FALSE, 1, 8), H("go120", TRUE, 3, 8),
          H("none", TRUE, 1, 8)}

GoVersions == {[devel |-> d, minor |-> n] : d \in BOOLEAN, n \in {None, 17, 18, 19, 20, 21}}
Sym(v, s) == [Value |-> v, SectionNumber |-> s]
Region(n, a, s) == [Name |-> n, Addr |-> a, Size |-> s]
Symbols(trees, begin) ==
  [n \in {"go.func.*", "go:func.*", "runtime.pclntab", "runtime.epclntab"} |->
     CASE n = "runtime.pclntab" -> Sym(begin, 2) [] n = "runtime.epclntab" -> Sym(30, 2)
       [] OTHER -> trees]
Binary(format, v, tab, symbols, regions) ==
  [format |-> format, GoVersion |-> v, tab |-> tab, symbols |-> symbols, regions |-> regions]
Load  == <<Region("text", 0, 8), Region("rodata", 8, 40)>>
Short == <<Region("text", 0, 8), Region("rodata", 8, 5)>>
Page  == <<Region("__PAGEZERO", 0, 0), Region("__TEXT", 8, 40)>>
ElfTabs ==
  {".gopclntab", ".data.rel.ro.gopclntab", ".data.rel.ro, at its start",
   ".data.rel.ro, aligned", ".data.rel.ro, not aligned", "none"}
Usual(v) == Binary("elf", v, ".gopclntab", Symbols(Sym(8, 0), 5), Load)
MCBinaries ==
  {Usual(v) : v \in GoVersions}
    \cup {Binary("elf", v, t, s, r) :
            v \in {[devel |-> FALSE, minor |-> n] : n \in {18, 20}}, t \in ElfTabs,
            s \in {<<>>, Symbols(Sym(8, 0), 5), Symbols(Sym(60, 0), 5)}, r \in {Load, Short}}
    \cup {Binary(f, [devel |-> FALSE, minor |-> 20], t, s, Page) :
            f \in {"pe", "macho", "xcoff"}, t \in {"__gopclntab", "none"},
            s \in {<<>>, Symbols(Sym(8, 2), 5), Symbols(Sym(8, 2), 0)}}

\* A table has the format of its Go version.  The binaries of all shapes are
\* those of few programs.
Few == {p \in NamePrograms : \E c \in Declarations :
          p = <<Caller(Main, <<c>>), NoUnit, Caller(Main, <<c, Main>>)>>}
MCInit ==
  /\ header \in MCHeaders
  /\ \/ st = "asked" /\ prog \in LinePrograms /\ bin = Usual([devel |-> TRUE, minor |-> 17])
     \/ /\ st = "BuildInfo"
        /\ header.quantum = 1 /\ header.zeros /\ header.ptrsize = 8
        /\ \/ bin \in MCBinaries /\ prog \in Few
           \/ bin \in {Usual([devel |-> FALSE, minor |-> n]) : n \in {19, 20}} /\ prog \in NamePrograms
           \/ /\ bin \in {Usual([devel |-> FALSE, minor |-> n]) : n \in {19, 20}}
              /\ prog = WithGenerated(IF bin.GoVersion.minor = 20 THEN ":" ELSE ".")
        /\ header.magic = CASE bin.GoVersion.minor = 17 -> "go116"
                            [] bin.GoVersion.minor \in {18, 19} -> "go118" [] OTHER -> "go120"
  /\ ReaderInit
MCSpec == MCInit /\ [][ReaderNext]_readerVars
=============================================================================
