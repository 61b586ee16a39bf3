----------------------------- MODULE SymbolName -----------------------------
(***************************************************************************)
(* The names of symbols: Sym (symtab.go of                                 *)
(* src/internal/vulncheck/internal/gosym) and parseName (additions_scan.go *)
(* of .../buildinfo).                                                      *)
(*                                                                         *)
(* A name is a sequence of its punctuation and of what is between; "%2e",  *)
(* a dot that the linker escaped, is one element.  The empty string is     *)
(* <<>>.                                                                   *)
(***************************************************************************)
EXTENDS Integers, Sequences, SequencesExt

\* Versions of the table of functions.
ver11  == 1
ver12  == 2
ver116 == 3
ver118 == 4
ver120 == 5

\* The first and the last place of a token after place n, and 0 if none is.
FirstAfter(name, n, t) == SelectInSubSeq(name, n + 1, Len(name), LAMBDA e : e = t)
LastAfter(name, n, t) ==
  LET p == SelectLastInSeq(name, LAMBDA e : e = t) IN IF p > n THEN p ELSE 0

nameWithoutInst(name) ==
  LET start == FirstAfter(name, 0, "[")
      end   == LastAfter(name, 0, "]")
  IN  IF start = 0 \/ end = 0 THEN name
      ELSE SubSeq(name, 1, start - 1) \o SubSeq(name, end + 1, Len(name))

\* Names that the compiler made up, which since Go 1.20 cannot be taken for
\* those of packages.
compilerGenerated(n, goVersion) ==
  \/ goVersion >= ver120 /\ (IsPrefix(<<"go", ":">>, n) \/ IsPrefix(<<"type", ":">>, n))
  \/ goVersion <= ver118 /\ (IsPrefix(<<"go", ".">>, n) \/ IsPrefix(<<"type", ".">>, n))

PackageName(name, goVersion) ==
  LET n   == nameWithoutInst(name)
      dot == FirstAfter(n, LastAfter(n, 0, "/"), ".")
  IN  IF compilerGenerated(n, goVersion) \/ dot = 0 THEN <<>> ELSE SubSeq(n, 1, dot - 1)

ReceiverName(name) ==
  LET n       == nameWithoutInst(name)
      pathend == LastAfter(n, 0, "/")
      l       == FirstAfter(n, pathend, ".")
  IN  IF l = LastAfter(n, pathend, ".") THEN <<>>
      ELSE SubSeq(name, l + 1, LastAfter(name, pathend, ".") - 1)

BaseName(name) ==
  LET n     == nameWithoutInst(name)
      i     == LastAfter(n, 0, ".")
      brack == FirstAfter(name, 0, "[")
      dot   == IF i # 0 /\ name # n /\ i > brack THEN LastAfter(name, 0, ".") ELSE i
  IN  SubSeq(name, dot + 1, Len(name))

\* strings.Trim, of parentheses and stars.
trim(r) ==
  LET kept == {i \in DOMAIN r : r[i] \notin {"(", "*", ")"}}
  IN  IF kept = {} THEN <<>>
      ELSE SubSeq(r, CHOOSE i \in kept : \A j \in kept : i <= j,
                     CHOOSE i \in kept : \A j \in kept : j <= i)

unescaped(path) == [i \in DOMAIN path |-> IF path[i] = "%2e" THEN "." ELSE path[i]]

\* The package and the symbol.
parseName(name, goVersion) ==
  LET r == ReceiverName(name)
      t == IF IsPrefix(<<"(", "*">>, r) THEN trim(r) ELSE r
  IN  << unescaped(PackageName(name, goVersion)),
         IF r = <<>> THEN BaseName(name) ELSE t \o <<".">> \o BaseName(name) >>

-----------------------------------------------------------------------------
(* The linker's names of what is declared: [pkg, ptr, recv, inst, base],   *)
(* where inst are the type arguments of the receiver or of the function    *)
(* and base names a closure together with the function it is in.  What the *)
(* compiler makes up is [text].                                            *)

mangled(o) ==
  IF "text" \in DOMAIN o THEN o.text
  ELSE LET slash == LastAfter(o.pkg, 0, "/")
           pkg   == [i \in DOMAIN o.pkg |-> IF i > slash /\ o.pkg[i] = "." THEN "%2e" ELSE o.pkg[i]]
           recv  == IF o.recv = <<>> THEN <<>>
                    ELSE IF o.ptr THEN <<"(", "*">> \o o.recv \o o.inst \o <<")", ".">>
                    ELSE o.recv \o o.inst \o <<".">>
       IN  pkg \o <<".">> \o recv \o o.base \o IF o.recv = <<>> THEN o.inst ELSE <<>>
=============================================================================
