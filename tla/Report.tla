------------------------------- MODULE Report -------------------------------
(***************************************************************************)
(* From the vulnerabilities of a scan to what the user is shown:           *)
(* createSourceResult and createBinaryResult, merge and sortResult         *)
(* (src/internal/scan/source.go, binary.go, util.go), the handler for text *)
(* with its template (text.go, template.go, template/output.tmpl), the     *)
(* handler for JSON and HandleJSON, which feeds a JSON stream to another   *)
(* handler (src/internal/govulncheck), and the exit status (run.go).       *)
(*                                                                         *)
(* A Vuln of result.Vulns is [OSV, ModPath, PkgPath, Symbol, stack]; stack *)
(* is what uniqueCallStack returned, <<>> for nil.  Its OSV is the copy of *)
(* the entry that filter made for the module: it has the affected modules  *)
(* [Module, fixes, Packages] of that module only, where a package is       *)
(* [GOOS, GOARCH].  Versions are numbers, 0 is "".  Writes do not fail     *)
(* here: ScanCmd is about those.                                           *)
(***************************************************************************)
EXTENDS CallSummary, SequencesExt

CONSTANTS
  Rank,        \* Rank[p]: where a path is in the order of strings
  Std,         \* internal.GoStdModulePath
  Versions,    \* Versions[m]: moduleVersionMap(vr.Modules)
  Affected,    \* Affected[id]: the affected modules of an entry
  FoundLists   \* the lists result.Vulns may be

ASSUME RankAssumption ==
  \A p, q \in DOMAIN Rank : Rank[p] \in Nat /\ (Rank[p] = Rank[q] => p = q)
ASSUME IDAssumption == DOMAIN Affected \subseteq Nat

\* filter keeps no entry for a module without a version, and a call stack leads
\* from the packages that are scanned to the package of the symbol.
ASSUME FoundAssumption ==
  \A list \in FoundLists :
    /\ list \in Seq(ToSet(list))
    /\ \A vv \in ToSet(list) :
         /\ vv.OSV.ID \in DOMAIN Affected
         /\ vv.ModPath \in DOMAIN Rank /\ Versions[vv.ModPath] # 0
         /\ vv.PkgPath \in DOMAIN Rank
         /\ IsStack(vv.stack)
         /\ vv.stack # <<>> => /\ vv.stack[1].Package \in topPkgs
                               /\ vv.stack[Len(vv.stack)].Package = vv.PkgPath

VARIABLES
  found,     \* input: result.Vulns
  source,    \* input: analysis of source, or else of a binary
  verbose,   \* input: cfg.verbose
  json,      \* input: cfg.json
  cut,       \* input: messages of the JSON stream that reach its reader
  pc,        \* the statement of doGovulncheck, or of the reader
  vulns,     \* what runSource or runBinary builds
  next,      \* index of the loop that is running
  out,       \* what was written to w
  handler,   \* the textHandler: [source, verbose, vulns]
  exit,      \* "running", "nil" or "ErrVulnerabilitiesFound"
  shown      \* what the reader of a JSON stream writes

input == <<found, source, verbose, json, cut>>
vars  == <<input, pc, vulns, next, out, handler, exit, shown>>

NoHandler == [source |-> FALSE, verbose |-> FALSE, vulns |-> <<>>]

Init ==
  /\ found \in FoundLists
  /\ source \in BOOLEAN /\ verbose \in BOOLEAN /\ json \in BOOLEAN
  /\ cut \in IF json THEN 1 .. Len(found) + 2 ELSE {0}
  /\ pc = "config" /\ vulns = <<>> /\ next = 1
  /\ out = <<>> /\ handler = NoHandler /\ exit = "running" /\ shown = <<>>

-----------------------------------------------------------------------------
(* The result.                                                             *)

latestFixed(as) == lowest(UNION {a.fixes : a \in as})

\* The Vuln that stands for one element of result.Vulns.
callStacks(vv) ==
  IF ~source THEN << [Symbol |-> vv.Symbol, Frames |-> <<>>, Summary |-> NoSummary] >>
  ELSE IF vv.stack = <<>> THEN <<>>
  ELSE << [Symbol |-> vv.Symbol, Frames |-> vv.stack,
           Summary |-> summarizeCallStack(vv.stack)] >>

Single(vv) ==
  [OSV |-> vv.OSV,
   Modules |-> << [Path |-> vv.ModPath, FoundVersion |-> Versions[vv.ModPath],
                   FixedVersion |-> latestFixed(vv.OSV.Affected),
                   Packages |-> << [Path |-> vv.PkgPath, CallStacks |-> callStacks(vv)] >>] >>]

\* The concatenation of F(x) for the elements x of s.
Concat(s, F(_)) == FlattenSeq([i \in DOMAIN s |-> F(s[i])])

\* The elements of s of which T holds.
Select(s, T(_)) == Concat(s, LAMBDA x : IF T(x) THEN <<x>> ELSE <<>>)

\* The elements of S, each once, in the order R.
Sorted(S, R(_, _)) ==
  CHOOSE s \in [1 .. Cardinality(S) -> S] :
    \A i, j \in DOMAIN s : i < j => R(s[i], s[j])

Paths(s) == Sorted({s[i].Path : i \in DOMAIN s}, LAMBDA p, q : Rank[p] < Rank[q])
OfPath(s, path) == Select(s, LAMBDA x : x.Path = path)

mergePackages(ps) ==
  LET paths == Paths(ps)
  IN  [i \in DOMAIN paths |->
         [Path |-> paths[i],
          CallStacks |-> Concat(OfPath(ps, paths[i]), LAMBDA p : p.CallStacks)]]

\* The versions are those of the first module; validateModuleVersions panics
\* if they differ.
mergeModules(ms) ==
  LET paths == Paths(ms)
      of(i) == OfPath(ms, paths[i])
  IN  [i \in DOMAIN paths |->
         [Path |-> paths[i],
          FoundVersion |-> of(i)[1].FoundVersion, FixedVersion |-> of(i)[1].FixedVersion,
          Packages |-> mergePackages(Concat(of(i), LAMBDA m : m.Packages))]]

validateModuleVersions(ms) ==
  \A i, j \in DOMAIN ms : ms[i].Path = ms[j].Path =>
    ms[i].FoundVersion = ms[j].FoundVersion /\ ms[i].FixedVersion = ms[j].FixedVersion

OfID(vs, id) == Select(vs, LAMBDA v : v.OSV.ID = id)
ModulesOf(vs, id) == Concat(OfID(vs, id), LAMBDA v : v.Modules)

\* merge and sortResult: one Vuln per identifier, the latest first, which
\* keeps the last of the copies of the entry.
merge(vs) ==
  LET ids == Sorted({vs[i].OSV.ID : i \in DOMAIN vs}, LAMBDA a, b : a > b)
  IN  [i \in DOMAIN ids |->
         [OSV |-> Last(OfID(vs, ids[i])).OSV,
          Modules |-> mergeModules(ModulesOf(vs, ids[i]))]]

\* Bug: a call stack counts only if it has frames.
IsCalledFrames(v) ==
  \E i \in DOMAIN v.Modules : \E j \in DOMAIN v.Modules[i].Packages :
    \E s \in ToSet(v.Modules[i].Packages[j].CallStacks) : s.Frames # <<>>

IsCalled(v) ==
  \E i \in DOMAIN v.Modules : \E j \in DOMAIN v.Modules[i].Packages :
    v.Modules[i].Packages[j].CallStacks # <<>>

-----------------------------------------------------------------------------
(* createTmplResult                                                        *)

\* platforms: a GOOS, a GOARCH or a pair of the two.
platforms(mod, e) ==
  UNION {UNION {IF p.GOARCH = {} THEN {<<os>> : os \in p.GOOS}
                ELSE IF p.GOOS = {} THEN {<<arch>> : arch \in p.GOARCH}
                ELSE p.GOOS \X p.GOARCH : p \in a.Packages}
           : a \in {b \in e.Affected : b.Module = mod}}

moduleVersionString(path, v) == IF v = 0 THEN <<>> ELSE <<path, v>>

createTmplModule(m, path, osv, stacks) ==
  [IsStd |-> m.Path = Std, Module |-> path,
   Found |-> moduleVersionString(path, m.FoundVersion),
   Fixed |-> moduleVersionString(path, m.FixedVersion),
   Platforms |-> platforms(m.Path, osv), Stacks |-> stacks]

\* A block per package: its summaries, sorted and without duplicates, or its
\* stacks in full.
blocks(p, v, s) ==
  IF ~s \/ p.CallStacks = <<>> THEN <<>>
  ELSE IF v THEN << [stacks |-> p.CallStacks] >>
  ELSE << [summaries |-> {p.CallStacks[i].Summary : i \in DOMAIN p.CallStacks}] >>

Exercised(m) == Select(m.Packages, LAMBDA p : p.CallStacks # <<>>)

\* The entries of the standard library are one per package.
stdModules(m, osv, v, s, tms) ==
  LET ps   == IF s THEN Exercised(m) ELSE m.Packages
      tm(p) == createTmplModule(m, p.Path, osv, blocks(p, v, s))
  IN  IF ps = <<>> /\ tms = <<>> THEN << tm(m.Packages[1]) >>
      ELSE [i \in DOMAIN ps |-> tm(ps[i])]

\* Bug: only the first exercised package of a module is shown.
rowsFirst(m, osv, v, s, tms) ==
  IF m.Path = Std THEN stdModules(m, osv, v, s, tms)
  ELSE << createTmplModule(m, m.Path, osv,
            IF ~s \/ Exercised(m) = <<>> THEN <<>> ELSE blocks(Exercised(m)[1], v, s)) >>

\* What m adds to the list of modules, which is tms so far.
rows(m, osv, v, s, tms) ==
  IF m.Path = Std THEN stdModules(m, osv, v, s, tms)
  ELSE << createTmplModule(m, m.Path, osv,
            Concat(Exercised(m), LAMBDA p : blocks(p, v, s))) >>

tmplModules(vuln, v, s) ==
  LET tms[i \in 0 .. Len(vuln.Modules)] ==
        IF i = 0 THEN <<>>
        ELSE tms[i - 1] \o rows(vuln.Modules[i], vuln.OSV, v, s, tms[i - 1])
  IN  tms[Len(vuln.Modules)]

createTmplVulnInfo(vuln, v, s) ==
  [ID |-> vuln.OSV.ID, Affected |-> ~s \/ IsCalled(vuln),
   Modules |-> tmplModules(vuln, v, s)]

\* The modules of the affected vulnerabilities.
Listed(infos) == UNION {ToSet(infos[i].Modules) :
                          i \in {j \in DOMAIN infos : infos[j].Affected}}

\* What the template makes of it: the first sentence, the section of the
\* affected and the informational section, which shows one module each.
Text(vs, v, s) ==
  LET infos == [i \in DOMAIN vs |-> createTmplVulnInfo(vs[i], v, s)]
  IN  [AffectedCount |-> Cardinality({i \in DOMAIN infos : infos[i].Affected}),
       AffectedModules |-> Cardinality({m.Module : m \in {n \in Listed(infos) : ~n.IsStd}}),
       StdlibAffected |-> \E m \in Listed(infos) : m.IsStd,
       affected |-> Select(infos, LAMBDA i : i.Affected),
       informational |-> Concat(infos, LAMBDA i :
         IF i.Affected THEN <<>> ELSE << [ID |-> i.ID, Module |-> i.Modules[1]] >>)]

-----------------------------------------------------------------------------
(* The handlers.  Each returns what it writes, and a textHandler also      *)
(* changes.                                                                *)

Config     == [kind |-> "config", source |-> source, verbose |-> verbose]
Progress   == [kind |-> "progress"]
Vulnerability(v) == [kind |-> "vulnerability", vuln |-> v]

written(msg) == IF msg.kind = "vulnerability" THEN <<>> ELSE <<msg>>

\* Bug: the mode of the Config is not kept.
gatheredCompact(h, msg) ==
  CASE msg.kind = "config" -> [h EXCEPT !.source = msg.source]
    [] msg.kind = "vulnerability" -> [h EXCEPT !.vulns = Append(@, msg.vuln)]
    [] OTHER -> h

gathered(h, msg) ==
  CASE msg.kind = "config" -> [h EXCEPT !.source = msg.source, !.verbose = msg.verbose]
    [] msg.kind = "vulnerability" -> [h EXCEPT !.vulns = Append(@, msg.vuln)]
    [] OTHER -> h

flushed(h) == [kind |-> "report", text |-> Text(h.vulns, h.verbose, h.source)]

Send(msg) ==
  /\ out' = out \o IF json THEN <<msg>> ELSE written(msg)
  /\ handler' = IF json THEN handler ELSE gathered(handler, msg)

-----------------------------------------------------------------------------
(* doGovulncheck                                                           *)

SendConfig ==
  /\ pc = "config"
  /\ Send(Config) /\ pc' = "progress"
  /\ UNCHANGED <<input, vulns, next, exit, shown>>

SendProgress ==
  /\ pc = "progress"
  /\ Send(Progress) /\ pc' = "create"
  /\ UNCHANGED <<input, vulns, next, exit, shown>>

\* A turn of the loop over vr.Vulns.
Create ==
  /\ pc = "create" /\ next <= Len(found)
  /\ vulns' = Append(vulns, Single(found[next]))
  /\ next' = next + 1
  /\ UNCHANGED <<input, pc, out, handler, exit, shown>>

Merge ==
  /\ pc = "create" /\ next > Len(found)
  /\ \A i \in DOMAIN vulns : validateModuleVersions(ModulesOf(vulns, vulns[i].OSV.ID))
  /\ vulns' = merge(vulns)
  /\ pc' = "queue" /\ next' = 1
  /\ UNCHANGED <<input, out, handler, exit, shown>>

Queue ==
  /\ pc = "queue" /\ next <= Len(vulns)
  /\ Send(Vulnerability(vulns[next]))
  /\ next' = next + 1
  /\ UNCHANGED <<input, pc, vulns, exit, shown>>

\* Flush, and the exit status.
Flush ==
  /\ pc = "queue" /\ next > Len(vulns)
  /\ out' = IF json THEN out ELSE Append(out, flushed(handler))
  /\ handler' = [handler EXCEPT !.vulns = <<>>]
  /\ exit' = IF \E i \in DOMAIN vulns : IsCalled(vulns[i])
             THEN "ErrVulnerabilitiesFound" ELSE "nil"
  /\ next' = 1
  /\ pc' = IF json THEN "read" ELSE "done"
  /\ UNCHANGED <<input, vulns, shown>>

-----------------------------------------------------------------------------
(* HandleJSON with a textHandler, then Flush.  The stream may end early,   *)
(* but not before its first message: Flush needs the Config.               *)

Decode ==
  /\ pc = "read" /\ next <= Len(out) /\ next <= cut
  /\ shown' = shown \o written(out[next])
  /\ handler' = gathered(handler, out[next])
  /\ next' = next + 1
  /\ UNCHANGED <<input, pc, vulns, out, exit>>

FlushRead ==
  /\ pc = "read" /\ (next > Len(out) \/ next > cut)
  /\ shown' = Append(shown, flushed(handler))
  /\ pc' = "done"
  /\ UNCHANGED <<input, vulns, next, out, handler, exit>>

Done == pc = "done" /\ UNCHANGED vars

Next ==
  \/ SendConfig \/ SendProgress \/ Create \/ Merge \/ Queue \/ Flush
  \/ Decode \/ FlushRead
  \/ Done

Spec == Init /\ [][Next]_vars

-----------------------------------------------------------------------------
IsAffecting(vv) == ~source \/ vv.stack # <<>>
Findings        == ToSet(found)
IDsOf(S)        == {vv.OSV.ID : vv \in S}
AffectingIDs    == IDsOf({vv \in Findings : IsAffecting(vv)})

DoneText == pc = "done" /\ ~json
text     == Last(out).text

\* The name under which the module of a finding is shown.
shownAs(vv) == IF vv.ModPath = Std THEN vv.PkgPath ELSE vv.ModPath

Descending(s) == \A i, j \in DOMAIN s : i < j => s[i].ID > s[j].ID

(***************************************************************************)
(* The text and the exit status agree with each other and with the scan:   *)
(* an entry is in one of the two sections, once; it is among the affected  *)
(* exactly if one of its symbols is called (or it was found in a binary);  *)
(* and "No vulnerabilities found" is printed exactly if the exit status is *)
(* that of success.  Three different tests of the result decide the three. *)
(***************************************************************************)
SectionsExact ==
  DoneText =>
    /\ (text.AffectedCount = 0) <=> (exit = "nil")
    /\ {e.ID : e \in ToSet(text.affected)} = AffectingIDs
    /\ {e.ID : e \in ToSet(text.informational)} = IDsOf(Findings) \ AffectingIDs
    /\ Descending(text.affected) /\ Descending(text.informational)

\* The fix of a finding.
fixOf(vv) == latestFixed(vv.OSV.Affected)

\* What is shown in the blocks of a module for one finding: nothing for those
\* of a binary, which have no call stack.
ShownIn(blks, vv) ==
  CASE ~source -> blks = <<>>
    [] source /\ verbose -> \E i \in DOMAIN blks : \E cs \in ToSet(blks[i].stacks) :
                    cs.Symbol = vv.Symbol /\ cs.Frames = vv.stack
    [] OTHER -> \E i \in DOMAIN blks : summarizeCallStack(vv.stack) \in blks[i].summaries

\* The vulnerability v of the result has the finding in its module and
\* package, with the two versions and, if it affects the user, its symbol and
\* call stack.  Those of a binary have a symbol only.
Carried(v, vv) ==
  /\ v.OSV.ID = vv.OSV.ID
  /\ \E m \in ToSet(v.Modules) : \E p \in ToSet(m.Packages) :
       /\ m.Path = vv.ModPath /\ p.Path = vv.PkgPath
       /\ m.FoundVersion = Versions[vv.ModPath] /\ m.FixedVersion = fixOf(vv)
       /\ IsAffecting(vv) => \E cs \in ToSet(p.CallStacks) :
            cs.Symbol = vv.Symbol /\ cs.Frames = IF source THEN vv.stack ELSE <<>>

\* The affected section shows the finding under its module, or its package of
\* the standard library.
ShownInText(vv) ==
  \E e \in ToSet(text.affected) : \E m \in ToSet(e.Modules) :
    /\ e.ID = vv.OSV.ID /\ m.Module = shownAs(vv)
    /\ m.Found = <<shownAs(vv), Versions[vv.ModPath]>>
    /\ m.Fixed = moduleVersionString(shownAs(vv), fixOf(vv))
    /\ ShownIn(m.Stacks, vv)

(***************************************************************************)
(* Merging loses no finding and mixes up no two.  In text each one that    *)
(* affects the user is shown with the version of the build, its own fix    *)
(* and its call stack, and a module that is shown has a finding of that    *)
(* entry.  As JSON each one, affecting or not, is in a message, with its   *)
(* symbol also if it comes from a binary.                                  *)
(***************************************************************************)
FindingsShown ==
  pc = "done" =>
    IF json
    THEN \A vv \in Findings : \E i \in DOMAIN out :
           out[i].kind = "vulnerability" /\ Carried(out[i].vuln, vv)
    ELSE /\ \A vv \in Findings : IsAffecting(vv) => ShownInText(vv)
         /\ \A e \in ToSet(text.affected) : \A m \in ToSet(e.Modules) :
              \E vv \in Findings : e.ID = vv.OSV.ID /\ m.Module = shownAs(vv)

(***************************************************************************)
(* The summary of a stack names functions of the stack, or the creators of *)
(* its anonymous ones, in the order of the calls: first the one of the     *)
(* user's own packages that is deepest, last the one by which the          *)
(* vulnerable package is entered, and with two of them the one calls the   *)
(* other.  A package that is scanned itself is given no summary.           *)
(***************************************************************************)
SummariesTrue ==
  \A i \in DOMAIN vulns : \A m \in ToSet(vulns[i].Modules) :
    \A p \in ToSet(m.Packages) : \A cs \in ToSet(p.CallStacks) :
      IF cs.Frames = <<>> \/ p.Path \in topPkgs THEN cs.Summary = NoSummary
      ELSE TrueOf(cs.Summary, cs.Frames)

(***************************************************************************)
(* A reader of the JSON stream shows what the text handler would have      *)
(* shown; of a stream that ends early, a part of it.                       *)
(***************************************************************************)
ReplayAgrees ==
  pc = "done" /\ json =>
    LET all  == Text(vulns, verbose, source)
        part == Last(shown).text
    IN  /\ cut >= Len(out) => shown = <<Config, Progress, [kind |-> "report", text |-> all]>>
        /\ ToSet(part.affected) \subseteq ToSet(all.affected)
        /\ ToSet(part.informational) \subseteq ToSet(all.informational)

-----------------------------------------------------------------------------
(* What a comment says and the code does not do.                           *)

(***************************************************************************)
(* "The invariant is that the summary will always mention at most three    *)
(* functions and never mention an anonymous function" (source.go:261).     *)
(***************************************************************************)
NoAnonymous ==
  \A i \in DOMAIN vulns : \A m \in ToSet(vulns[i].Modules) :
    \A p \in ToSet(m.Packages) : \A cs \in ToSet(p.CallStacks) :
      /\ Len(cs.Summary.funcs) <= 3
      /\ \A f \in ToSet(cs.Summary.funcs) : ~f.anonymous

-----------------------------------------------------------------------------
(* The inductive invariant: what was built, written and gathered up to the *)
(* statement that is next.                                                 *)

Singles(n) == [i \in 1 .. n |-> Single(found[i])]
Merged     == merge(Singles(Len(found)))

\* The first messages, and what the handler for text makes of them.
Stream(k)   == <<Config, Progress>> \o [i \in 1 .. k |-> Vulnerability(vulns[i])]
Gathered(k) == [source |-> source, verbose |-> verbose, vulns |-> SubSeq(vulns, 1, k)]
Counted     == IF next <= 3 THEN 0 ELSE next - 3

Creating ==
  pc \in {"config", "progress", "create"} =>
    /\ next \in 1 .. Len(found) + 1 /\ (pc # "create" => next = 1)
    /\ vulns = Singles(next - 1) /\ exit = "running" /\ shown = <<>>
    /\ out = CASE pc = "config" -> <<>> [] pc = "progress" -> <<Config>>
               [] OTHER -> <<Config, Progress>>
    /\ handler = IF json \/ pc = "config" THEN NoHandler
                 ELSE [source |-> source, verbose |-> verbose, vulns |-> <<>>]

Queueing ==
  pc = "queue" =>
    /\ next \in 1 .. Len(vulns) + 1 /\ exit = "running" /\ shown = <<>>
    /\ out = Stream(IF json THEN next - 1 ELSE 0)
    /\ handler = IF json THEN NoHandler ELSE Gathered(next - 1)

Reading ==
  pc = "read" =>
    /\ json /\ next \in 1 .. Len(out) + 1
    /\ shown = SubSeq(<<Config, Progress>>, 1, IF next <= 3 THEN next - 1 ELSE 2)
    /\ handler = IF next = 1 THEN NoHandler ELSE Gathered(Counted)

Ending ==
  /\ pc \in {"queue", "read", "done"} => vulns = Merged
  /\ pc \in {"read", "done"} =>
       /\ exit \in {"nil", "ErrVulnerabilitiesFound"}
       /\ exit = "nil" <=> \A i \in DOMAIN vulns : ~IsCalled(vulns[i])
       /\ json => out = Stream(Len(vulns))
  /\ pc = "done" =>
       IF ~json THEN out = Stream(0) \o << flushed(Gathered(Len(vulns))) >>
       ELSE \E k \in 0 .. Len(vulns) : \E j \in 0 .. 2 :
              /\ shown = SubSeq(<<Config, Progress>>, 1, j) \o << flushed(Gathered(k)) >>
              /\ cut >= Len(out) => k = Len(vulns) /\ j = 2

ReportInv ==
  /\ found \in FoundLists /\ source \in BOOLEAN /\ verbose \in BOOLEAN /\ json \in BOOLEAN
  /\ cut \in Nat /\ (json => cut > 0)
  /\ pc \in {"config", "progress", "create", "queue", "read", "done"}
  /\ Creating /\ Queueing /\ Reading /\ Ending

\* Past the validation, the findings of an entry in a module have one fix.
Validated ==
  pc \in {"queue", "read", "done"} =>
    \A u, v \in Findings :
      u.OSV.ID = v.OSV.ID /\ u.ModPath = v.ModPath => fixOf(u) = fixOf(v)
=============================================================================
