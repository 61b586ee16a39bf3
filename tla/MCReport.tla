------------------------------ MODULE MCReport ------------------------------
(***************************************************************************)
(* One list holds one finding with any stack of up to five frames, the     *)
(* others hold up to three findings of two entries, each of which affects  *)
(* two modules: one before the standard library in the order of paths and  *)
(* one after it.  At most the second has a stack of three frames.          *)
(***************************************************************************)
EXTENDS Report

F(p, f, a) == [Package |-> p, Function |-> f, anonymous |-> a]
MCTopPkgs == {"main", "main/v"}
MCRank ==
  [p \in {"main/v", "a", "a/v", "a/w", "stdlib", "net", "os", "z", "z/z"} |->
     CASE p = "a" -> 1 [] p = "a/v" -> 2 [] p = "a/w" -> 3 [] p = "main/v" -> 4
       [] p = "net" -> 5 [] p = "os" -> 6 [] p = "stdlib" -> 7 [] p = "z" -> 8
       [] OTHER -> 9]
MCVersions == [m \in {"a", "stdlib", "z"} |-> 1]

Pkg(os, arch) == [GOOS |-> os, GOARCH |-> arch]
In(m, fixes, pkgs) == [Module |-> m, fixes |-> fixes, Packages |-> pkgs]
MCAffected ==
  << {In("a", {2, 3}, {Pkg({"windows"}, {}), Pkg({}, {})}),
      In("stdlib", {2}, {Pkg({}, {})})},
     {In("stdlib", {}, {Pkg({}, {"arm"})}), In("z", {2}, {Pkg({"linux"}, {"arm", "amd64"})})} >>

Top    == {F("main", "main", FALSE), F("main", "main", TRUE), F("main", "init", TRUE)}
Vul    == {F("a/v", "V", FALSE), F("a/v", "V", TRUE), F("a/v", "W", FALSE)}
Middle == Top \cup Vul \cup {F("x", "X", FALSE), F("x", "X", TRUE)}
Stacks == {<<F("main", "main", FALSE)>> \o s \o <<f>> :
             s \in UNION {[1 .. n -> Middle] : n \in 0 .. 3}, f \in Vul}

Finding(id, m, p, sym, stack) ==
  [OSV |-> [ID |-> id, Affected |-> {a \in MCAffected[id] : a.Module = m}],
   ModPath |-> m, PkgPath |-> p, Symbol |-> sym, stack |-> stack]
Places == {<<1, "a", "a/v">>, <<1, "a", "a/w">>, <<1, "stdlib", "net">>,
           <<1, "stdlib", "os">>, <<2, "stdlib", "net">>, <<2, "z", "z/z">>}
Short(p)  == <<F("main", "main", FALSE), F(p, "V", FALSE)>>
Longer(p) == <<F("main", "main", FALSE), F("x", "X", FALSE), F(p, "W", FALSE)>>
Few  == {Finding(c[1], c[2], c[3], "V", s) : c \in Places, s \in {<<>>}}
          \cup {Finding(c[1], c[2], c[3], "V", Short(c[3])) : c \in Places}
Many == Few \cup {Finding(c[1], c[2], c[3], "W", Longer(c[3])) : c \in Places}
TopFinding == Finding(1, "a", "main/v", "V", Short("main/v"))

MCFoundLists ==
  {<<>>, <<TopFinding>>} \cup {<<Finding(1, "a", "a/v", "V", s)>> : s \in Stacks}
    \cup {<<a, b>> : a, b \in Many}
    \cup {<<a, b, c>> : a, c \in Few, b \in Many}

\* A binary has no stacks.  Long stacks are only scanned from source, shown
\* compactly and as text; three findings compactly as text or else as JSON.
MCInit ==
  /\ Init
  /\ ~source => \A i \in DOMAIN found : found[i].stack = <<>>
  /\ Len(found) = 1 /\ Len(found[1].stack) > 3 => source /\ ~verbose /\ ~json
  /\ Len(found) = 3 => (json <=> verbose)
MCSpec == MCInit /\ [][Next]_vars
=============================================================================
