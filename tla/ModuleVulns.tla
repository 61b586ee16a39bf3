---------------------------- MODULE ModuleVulns ----------------------------
(***************************************************************************)
(* Which vulnerabilities are looked for in a program: the entries of the   *)
(* database fetched for the modules of the build (FetchVulnerabilities,    *)
(* fetch.go), cut down to what affects them (filter), and the answers to   *)
(* vulnsForPackage and vulnsForSymbol (vulncheck.go, all in                *)
(* src/internal/vulncheck).                                                *)
(*                                                                         *)
(* A path is a sequence of segments.  The ranges of versions of an entry   *)
(* are the set of versions in them, and GOARCH is left out: it is treated  *)
(* like GOOS.  An entry is [withdrawn, affected], an affected module       *)
(* [module, versions, packages] and a package in it [path, GOOS, symbols]; *)
(* the database indexes an entry under every module it affects.            *)
(***************************************************************************)
EXTENDS Naturals, Sequences, FiniteSets, SequencesExt

CONSTANTS
  Path,        \* the module paths
  Provides,    \* Provides[p]: the import paths of the packages of module p
  Std,         \* the path of stdlibModule
  Version,
  None,        \* the version "", no replacement, the GOOS ""
  Database,    \* the databases, sets of entries
  OS, Symbol,
  PathLen,     \* the length of a module path, as text
  Segment,
  SegPrefix,   \* pairs of segments, the first a proper prefix of the second
  Dotless      \* the segments without a dot

ASSUME NoneAssumption == None \notin Version \cup OS

VARIABLES
  mods,     \* input: the modules of the build, [Path, Version, Replace]
  db,       \* input: the entries of the database
  os,       \* input: Config.GOOS
  phase,    \* "fetch", "filter" or "ready"
  todo,     \* modules not fetched yet; they come out of a Go map
  mv        \* moduleVulnerabilities, a sequence of [Module, Vulns]

input == <<mods, db, os>>
vars  == <<input, phase, todo, mv>>

Replacement == {None} \cup [Path : Path, Version : Version \cup {None}]
Module == [Path : Path, Version : Version \cup {None}, Replace : Replacement]

replaced(m)   == m.Replace # None
modVersion(m) == IF replaced(m) THEN m.Replace.Version ELSE m.Version
modPath(m)    == IF replaced(m) THEN m.Replace.Path ELSE m.Path

\* What the database holds.
Package        == [path : Seq(Segment), GOOS : SUBSET OS, symbols : SUBSET Symbol]
AffectedModule == [module : Path, versions : SUBSET Version, packages : SUBSET Package]

\* An entry has an identifier of its own.
ASSUME DatabaseAssumption ==
  \A D \in Database :
    /\ \A e \in D :
         e \in [id : {e.id}, withdrawn : BOOLEAN, affected : SUBSET AffectedModule]
    /\ \A d, e \in D : d.id = e.id => d = e

\* A build has one module per path, the standard library among them.
Build(S) ==
  /\ \A m, n \in S : m.Path = n.Path => m = n
  /\ \E m \in S : m.Path = Std /\ ~replaced(m)
  /\ \A m, n \in S : replaced(m) /\ m # n => m.Replace.Path # n.Path

Init ==
  /\ mods \in {S \in SUBSET Module : Build(S)}
  /\ db \in Database
  /\ os \in OS \cup {None}
  /\ phase = "fetch" /\ todo = mods /\ mv = <<>>

-----------------------------------------------------------------------------
\* Client.ByModule
ByModule(p) == {e \in db : \E a \in e.affected : a.module = p}

\* A turn of the loop of FetchVulnerabilities.
Fetch(m) ==
  LET vulns == ByModule(modPath(m))
  IN  /\ phase = "fetch" /\ m \in todo
      /\ todo' = todo \ {m}
      /\ mv' = IF vulns = {} THEN mv ELSE Append(mv, [Module |-> m, Vulns |-> vulns])
      /\ UNCHANGED <<input, phase>>

Fetched ==
  /\ phase = "fetch" /\ todo = {}
  /\ phase' = "filter"
  /\ UNCHANGED <<input, todo, mv>>

matchesPlatform(p) == os = None \/ p.GOOS = {} \/ os \in p.GOOS

\* What is left of v.Affected for module m.
filteredAffected(v, m) ==
  {[a EXCEPT !.packages = {p \in @ : matchesPlatform(p)}] :
     a \in {b \in v.affected :
              /\ b.module = m.Path
              /\ modVersion(m) # None /\ modVersion(m) \in b.versions
              /\ b.packages = {} \/ \E p \in b.packages : matchesPlatform(p)}}

filteredVulns(mod) ==
  {[v EXCEPT !.affected = filteredAffected(v, mod.Module)] :
     v \in {e \in mod.Vulns : ~e.withdrawn /\ filteredAffected(e, mod.Module) # {}}}

\* filter; a module without vulnerabilities left stays.
Filter ==
  /\ phase = "filter"
  /\ mv' = [i \in DOMAIN mv |->
              [Module |-> mv[i].Module, Vulns |-> filteredVulns(mv[i])]]
  /\ phase' = "ready"
  /\ UNCHANGED <<input, todo>>

Ready == phase = "ready" /\ UNCHANGED vars

Next == (\E m \in Module : Fetch(m)) \/ Fetched \/ Filter \/ Ready

Spec == Init /\ [][Next]_vars

-----------------------------------------------------------------------------
(* The questions.                                                          *)

isStdPackage(p) == Head(p) \in Dotless

\* strings.HasPrefix(p, q), which knows nothing of segments.
HasPrefix(p, q) ==
  LET k == Len(q)
  IN  /\ k <= Len(p) /\ SubSeq(p, 1, k - 1) = Front(q)
      /\ p[k] = Last(q) \/ <<Last(q), p[k]>> \in SegPrefix

\* The packages of a module are under its path, those of the standard library
\* have no dot in theirs.
ASSUME PathAssumption ==
  /\ Path \subseteq Seq(Segment) \ {<<>>} /\ Std \in Path
  /\ PathLen \in [Path -> Nat]
  /\ Provides \in [Path -> SUBSET (Seq(Segment) \ {<<>>})]
  /\ \A q \in Path : \A p \in Provides[q] :
       IF q = Std THEN isStdPackage(p) ELSE IsPrefix(q, p)

\* Bug: the first module that matches.
moreSpecificFirst(best, i, p) ==
  IF best = 0 /\ (HasPrefix(p, mv[i].Module.Path) \/ mv[i].Module.Path = Std)
  THEN i ELSE best

\* A turn of the loop of vulnsForPackage: the i-th module, or the best one
\* before it; 0 is nil.
moreSpecific(best, i, p) ==
  IF isStdPackage(p) /\ mv[i].Module.Path = Std THEN i
  ELSE IF /\ HasPrefix(p, mv[i].Module.Path)
          /\ best = 0 \/ PathLen[mv[best].Module.Path] < PathLen[mv[i].Module.Path]
       THEN i ELSE best

mostSpecificMod(p) ==
  LET best[i \in 0 .. Len(mv)] ==
        IF i = 0 THEN 0 ELSE moreSpecific(best[i - 1], i, p)
  IN  best[Len(mv)]

\* The import path under the path of the replacement.
replacedPath(mod, p) ==
  IF replaced(mod.Module)
  THEN mod.Module.Replace.Path \o SubSeq(p, Len(mod.Module.Path) + 1, Len(p)) ELSE p

vulnsForPackage(p) ==
  LET i == mostSpecificMod(p)
  IN  IF i = 0 THEN {}
      ELSE {v \in mv[i].Vulns : \E a \in v.affected : \E k \in a.packages :
                                  k.path = replacedPath(mv[i], p)}

vulnsForSymbol(p, symbol) ==
  {v \in vulnsForPackage(p) : \E a \in v.affected : \E k \in a.packages :
     k.path = p /\ (k.symbols = {} \/ symbol \in k.symbols)}

-----------------------------------------------------------------------------
(* What the answers are to be, from the build and the database.            *)

\* Package p of module m, known to the database as q under the path mp, is
\* affected by e, as far as the parts of e that Sel selects are concerned.
Affects(e, m, q, mp, Sel(_)) ==
  /\ ~e.withdrawn
  /\ modVersion(m) # None
  /\ \E a \in e.affected :
       /\ a.module = mp /\ modVersion(m) \in a.versions
       /\ \E k \in a.packages : k.path = q /\ matchesPlatform(k) /\ Sel(k)

\* The path of m is the longest one with entries that p is under.  A path that
\* is a prefix of p as text counts as well, as it does in the code; and so
\* does the standard library, for all packages without a dot.
Under(p, q) == HasPrefix(p, q) \/ (q = Std /\ isStdPackage(p))
MostSpecific(m, p) ==
  /\ ByModule(modPath(m)) # {}
  /\ \A n \in mods \ {m} : ByModule(modPath(n)) # {} /\ Under(p, n.Path) =>
       n.Path # Std /\ PathLen[n.Path] < PathLen[m.Path]

SamePath(m) == modPath(m) = m.Path

(***************************************************************************)
(* "vulnsForPackage returns the vulnerabilities for the module which is    *)
(* the most specific prefix of importPath" (vulncheck.go:402): whatever    *)
(* the order of the modules, a package of a module that is replaced, if at *)
(* all, by a version of itself has the entries that list it for a version  *)
(* and a platform in use, and no others.                                   *)
(***************************************************************************)
PackageExact ==
  phase = "ready" =>
    \A m \in mods : \A p \in Provides[m.Path] :
      SamePath(m) /\ MostSpecific(m, p) =>
        {v.id : v \in vulnsForPackage(p)} =
          {e.id : e \in {d \in db : Affects(d, m, p, m.Path, LAMBDA k : TRUE)}}

-----------------------------------------------------------------------------
(* The inductive invariant.                                                *)

\* What is known of m: the entries that list it, cut down by filter.
VulnsOf(m) ==
  LET vulns == ByModule(modPath(m))
  IN  IF phase = "ready" THEN filteredVulns([Module |-> m, Vulns |-> vulns]) ELSE vulns

\* mv has the modules that were asked about and have entries, and no others.
FetchInv ==
  /\ mods \in SUBSET Module /\ Build(mods)
  /\ db \in Database
  /\ phase \in {"fetch", "filter", "ready"}
  /\ todo \in SUBSET mods /\ (phase # "fetch" => todo = {})
  /\ LET known == {m \in mods \ todo : ByModule(modPath(m)) # {}}
     IN  /\ mv \in Seq({[Module |-> m, Vulns |-> VulnsOf(m)] : m \in known})
         /\ \A m \in known : \E i \in DOMAIN mv : mv[i].Module = m
=============================================================================
