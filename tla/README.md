# Verification of govulncheck

TLA+ models of `golang.org/x/vuln` (the program `govulncheck` and the packages
below `src/internal`), the TLC runs that check them on small instances, and
TLAPS proofs of the most important properties for every instance.

## 1. The system

`govulncheck` reads a Go program, as source or as an executable, asks a
vulnerability database about its modules, and reports which vulnerabilities the
program imports and which it calls.

| part | source (below `src/internal`) | state | operations |
|---|---|---|---|
| Command life cycle | `scan/scan.go`, `scan/flags.go` | `Cmd`: streams, `done`, `err`, one goroutine | `Command`, `Start`, `Wait`, `Run`, deferred closing |
| Scan driver | `scan/run.go`, `scan/source.go`, `scan/binary.go` | none of its own; output handler | `doGovulncheck`, `runSource`, `runBinary` |
| Source analysis | `vulncheck/source.go`, `utils.go`, `entries.go` | derived context, wait group, `cg`, `buildErr` | `Source`, the builder goroutine |
| Import slice | `vulncheck/source.go:142-234` | `analyzed`, `result.Imports`, `result.Vulns`, the counter `pkgID` | `vulnPkgModSlice`, `vulnImportSlice` |
| Require slice | `vulncheck/source.go:236-362` | `result.Requires`, `modID` | `vulnModuleSlice`, `moduleNodeID` |
| Call slice | `vulncheck/source.go:364-550` | `result.Calls`, `funID`, `CallSink` | `vulnCallGraphSlice`, `callGraphSlice`, `vulnCallGraph` |
| Witnesses | `vulncheck/witness.go`, `scan/source.go:80-135,478-497` | one search per vulnerability | `CallStacks`, `uniqueCallStack` |
| Vulnerability selection | `vulncheck/vulncheck.go`, `fetch.go` | none | `filter`, `vulnsForPackage`, `vulnsForSymbol` |
| Version ranges | `vulncheck/semver.go`, `semver/semver.go`, `scan/stdlib.go` | the events, sorted in place | `affectsSemver`, `latestFixed`, `GoTagToSemver`, `semverToGoTag` |
| Binary analysis | `vulncheck/binary.go` | none | `Binary`, `findPackageModule` |
| Binary readers | `vulncheck/internal/buildinfo`, `vulncheck/internal/gosym` | `LineTable` (parsed once, file map), `Table` | `ExtractPackagesAndSymbols`, `PCToLine`, `LineToPC`, `InlineTree`, names of symbols |
| Database client | `client/*.go` | HTTP server or directory | `LastModifiedTime`, `ByModule`, `Index` |
| Results | `scan/source.go`, `scan/binary.go`, `scan/util.go`, `scan/result.go` | none | `createSourceResult`, `summarizeCallStack`, `merge`, `sortResult`, `IsCalled` |
| Output | `govulncheck/*.go`, `scan/text.go`, `scan/template.go` | text: gathered vulnerabilities and the mode | `Config`, `Progress`, `Vulnerability`, `Flush`, `createTmplResult`, `HandleJSON` |

Interaction: an embedding program (or `main`) makes a `Cmd` and calls `Start`
and `Wait`; `Start` launches a goroutine that runs `doGovulncheck` and then
closes the streams and the channel `done`. `doGovulncheck` asks the database
when it was modified, writes the `Config` message, runs `Source` or `Binary`,
and hands the result to the output handler. `Source` launches a second goroutine
that builds the call graph while the first one asks the database about each
module; the two meet at `wg.Wait`, unless nothing vulnerable is imported.

Hard to test: the interleavings of caller, scan, builder and pipe reader; a
cancellation at any point; a panic in the goroutine of `Start`; a database that
is republished during the scan; recursion over maps, whose order differs from
run to run; the chain of slices, where a node lost in one is a vulnerability not
reported by the next; the boundaries of version ranges; several tests of one
result (exit status, sections, sentences) that must agree; and a binary format
that differs in word sizes and units from one Go version to the next.

## 2. The modules

```
EmbeddedScan ── ScanCmd ── CmdContract            (extends it; refinement, proved)
     └───────── Govulncheck                       (shares the context and Stdout with ScanCmd)
VulnDB                                            (below FetchVulnerabilities)
VersionRange ← StdVersion                         (extends it)
SourceImports ── ImportSlice → RequireSlice       (the second reads what the first leaves)
SourceCalls   ── CallSlice   → Witness            (likewise)
SymbolName ← PclnTab ← LineLookup ← BinaryReader  (each extends the one before)
ModuleVulns ← BinaryScan                          (extends it)
CallSummary ← Report                              (extends it)
```

`EmbeddedScan` extends `ScanCmd`, instantiates `Govulncheck` with the context of
the command and takes their steps jointly. `SourceImports` extends `ImportSlice` and
instantiates `RequireSlice` with the nodes, entries and Vulns of the first as
the input of the second; `SourceCalls` does the same with `CallSlice` and
`Witness`. So the input of a second stage is always a state that the first
reaches, and the properties of the composition speak of the program and not of
the data handed over: `CalledExact`, for instance, relates the call graph to
the witnesses. `BinaryScan` extends `ModuleVulns`, and `StdVersion` extends
`VersionRange`: their steps come around those of the module below. `VulnDB` and
`StdVersion` are checked in one run (`MCDatabase`), but as they share no state a
behaviour of it is one of either, while the other rests.

| module | variables and the code's state | actions and the code |
|---|---|---|
| `ScanCmd` | `Args`, `Stdout`, `Stderr`, `err`: the fields; `done`: the channel; `routine`: the program counter of the goroutine of `Start`; `pipe`, `reader`: an `io.Pipe` given as `Stdout` | `Start`, `StartRefused`, `Run`, `Wait`, `WaitReturns`; the goroutine is `ScanCancelled`, `ParseFlags`, `Write`, `ScanReturns`, then the deferred calls `CloseStdout`, `CloseStderr`, `CloseDone`, and `Crash` if the scan panicked |
| `CmdContract` | `phase`, `result`, `answer` | what the comments of `Start`, `Wait` and `Run` promise |
| `Govulncheck` | `pc`: where the scan is; `ctx`: the context `Source` derives; `builder`, `cg`, `buildErr`: the other goroutine; `out`, `buffer`: the output | one action per step of `doGovulncheck` and `Source` that other goroutines can tell apart, with `...Fails` actions for the error paths; `BuildSSA` and `BuildStep` are the builder with its three looks at the context |
| `EmbeddedScan` | all of the two above | `ScanStep` is a step of `Govulncheck` that waits while the pipe is full; `ReturnStep` hands `ret` to `Cmd` |
| `ImportSlice` | `analyzed`, `Packages`, `Entries`, `Vulns`, `pkgID` as in the code; `caller`, `cur`, `rest`, `onSlice`: the activation records of the recursion | `VisitTop`/`RevisitTop`, `VisitImport`/`RevisitImport`: a call that does or does not find its package in the map; `ReturnNil`, `ReturnNode` |
| `RequireSlice` | `modNodeIDs`, `Modules`, `modPred`, `Entries`, `modID` as in the code | one step per call of `moduleNodeID` (`AddPackage`, `AddPred`, `AddEntry`), then `StoreRequiredBy`, `UpdateVulns` |
| `CallSlice` | `bcg`, `fcg`: the two slices; `visited`, `toVisit`: the current search; `Functions`, `Entries`, `CallSites`, `CallSink`: the result | one step per visited node in each of the three searches, one between two searches |
| `Witness` | `queue`, `seen`, `stacks` of each goroutine, `found`: the shared map, `witness`: the stack a report shows | `Search`: one turn of the loop of `callStacks`; `Store`: the end of a goroutine; `Keep`: the selection |
| `SourceImports` | all of the two above, and `module` | `ImportStep`, `Load` (the modules of the packages, chosen when they are first looked at), `RequireStep` |
| `SourceCalls` | all of `CallSlice` and `Witness` | `SliceStep`, `Launch` (the goroutines of `CallStacks`), `WitnessStep` |
| `VersionRange` | `ranges`: the list, whose events are sorted in place; `given`: as it was; `r`, `k`: the two loops; `affected`, `semverRangePresent` as in the code | a step per range (`NoneContains`, `OtherType`, `NoEvents`, `EnterRange`, `Contained`, `NotContained`), per insertion of the sort (`Insert`) and per event of the walk (`Walk`) |
| `StdVersion` | `gover`: the Go version of the build | `Filter`: the entries of a version that is not available are left out; the conversions are operators |
| `CallSummary` | none | `summarizeCallStack` with its two halves, as operators on a stack |
| `Report` | `found`: `result.Vulns`; `vulns`: what is built of them; `out`, `handler`: the output and the `textHandler`; `shown`: what a reader of JSON writes; `exit` | `SendConfig`, `SendProgress`, `Create` per Vuln, `Merge` (with sorting and validation), `Queue` per vulnerability, `Flush` with the status; `Decode`, `FlushRead`: `HandleJSON`. The template is the operator `Text` |
| `SymbolName` | none | `PackageName`, `ReceiverName`, `BaseName`, `parseName`, on names as sequences of tokens; `mangled` is the linker's side |
| `PclnTab` | `prog`, `header`, `table`: the binary; `version`, `Funcs`: what is parsed | `LinkTable` writes the table like the linker; `parsePclnTab`, `NewTable`; varints, walks and word offsets are operators |
| `LineLookup` | `fileMap`, `question`, `answer` | `initFileMap`, `PCToLine`, `LineToPC` |
| `BinaryReader` | `bin`: the executable; `region`, `packageSymbols` | the steps of `ExtractPackagesAndSymbols`: `BuildInfo`, `openExe`, `SymbolInfo`, `FindTable`, `ParseFound`, `ExtractFunc` per function, each with its error |
| `VulnDB` | the files of the database and the answers of `ByModule` | `ReadLastModified`, `ReadIndex`, `ReadFile`, `ReadFails`; `Publish`, `WriteFile`, `WriteIndex` are the publisher, which is not in the repository |
| `ModuleVulns` | `mv`: `moduleVulnerabilities` | `Fetch` per module, `Filter`; `vulnsForPackage` and `vulnsForSymbol` are operators |
| `BinaryScan` | `Vulns`, `result` | `AddVulns` per package, `Merge` |

Abstractions that a reader should know:

* `ImportSlice`: a vulnerable package has one or more Vulns; they are one
  record, as they share the `ImportSink`. Identifiers are real numbers, because
  the search counts them.
* `CallSlice`: the recursive searches are worklists in any order. The nodes of
  the result are named by their function, so the order in which `funID` is
  counted is left out. Every vulnerable symbol has its Vuln.
* `Witness`: a caller has one call site per function, and the callers of a
  function are tried in any order where the code sorts them. The preference
  between several stacks of one symbol is left open.
* `RequireSlice`: the go command's rules for replacements are assumptions on the
  input (`Loaded`); without modules only the standard library has one.
* `ModuleVulns`, `BinaryScan`: paths are sequences of segments, and the length
  of a path and the textual prefixes of a segment are constants, since the code
  compares both;
  a range of versions is the set of versions in it; `GOARCH` is left out
  because it is treated like `GOOS`; repeated Vulns of a binary count once. The
  build information lists dependencies only: the packages of the main module are in
  the binary, but under no module that is known, and get the nameless one.
* `Govulncheck`: the modules stand for their vulnerabilities; which symbols are
  called is an input here and the subject of `SourceCalls`.
* `VersionRange`: a version is its rank in the order of `semver.Compare`, 0 for
  what is no version; `Zero` stands for the text "0", which has no rank and before
  which there is no version; it is not v0.0.0. `SemverAssumption` ties the ranks that `StdVersion`
  uses to versions. Sorting is by insertion, as `sort.SliceStable` sorts short lists.
* `StdVersion`: the tags are those of Go 1. `ReleasesExact` asks about the tags that
  releases had up to Go 1.20, so not about go1.21.0 and the like.
* `Report`: a Vuln brings its call stack, which is the subject of `SourceCalls`;
  texts are records of what they say; writes do not fail (that is in `ScanCmd`).
* `CallSummary`: a name is a name before its first `$`, and whether there is one.
* `EmbeddedScan`: a write that waits while the reader of the pipe leaves may count as
  written in the model; in the code it fails. This adds behaviours and takes none.
* `PclnTab`: words of 32 bits, and bytes in `pctab` only; a byte of a varint holds
  a digit below `Base`, 4 in the run and 128 in Go, so that small numbers take two
  bytes; an instruction is one quantum long; names are numbered. `cutab` is a
  list, and has no offset for a file without an instruction. The linker's
  side is modelled from what the reader expects and is external.
* `BinaryReader`: where a table is in an executable is one of the places the code
  looks in. The version of the table is that of the Go version. The text offset that
  `PCLNTab` derives is an offset into the file and is compared with addresses in the
  code; nothing that is asked here depends on it. Inline trees of tables before Go
  1.18 (`additions.go:64`) are left out, since only later binaries are read.
* `ScanCmd`: Stdin and Dir are left out; the flags are only parsed or not.

Operators whose comment begins with "Bug:" are variants of the definition after
them. They are used nowhere; put in the place of that definition, each breaks a
property, which shows that the property depends on the code.

The inductive invariants are at the end of the modules they are about, below the
properties; the theorems are in `Govulncheck_proof`, `EmbeddedScan_proof` (with
`ScanCmd`), `VulnDB_proof`, `SourceImports_proof` (with `ImportSlice` and
`RequireSlice`), `SourceCalls_proof` (with `CallSlice` and `Witness`),
`VersionRange_proof` (with `StdVersion`), `BinaryScan_proof` (with `ModuleVulns`)
and `Report_proof` (with `CallSummary`).

## 3. The runs

`tlc -config <cfg> <module>` in this directory repeats a run.

| run | cfg | shows | bounds |
|---|---|---|---|
| `govulncheck` | `MCGovulncheck` | no false all-clear and, in text mode, the right status; the call graph is read after the builder let go of it; the scan never cancels its own build; a scan that needs no call graph does not wait for one | two modules: one vulnerable and one not, a failure between two look-ups or two messages |
| `govulncheck_nil` | `MCGovulncheck_nil` | *violation*: `Source` returns neither result nor error (section 6) | |
| `govulncheck_json` | `MCGovulncheck_json` | *violation*: with `-json` the status is not a successful one (section 6) | |
| `embedded_scan` | `MCEmbeddedScan` | streams are closed exactly when they are the caller's; nothing is written after that; waiters and the reader of a pipe are released however the scan ends, and no wait among caller, scan, builder and pipe is for ever; `CmdContract` is implemented; what `Wait` returns agrees with what was printed | one module; two goroutines, the owner, which may wait itself, and another: two simultaneous waits, of which one may come before the start; every invocation of one scan, and every scan with the streams that matter to it; four writes, the most a scan makes |
| `database` | `MCDatabase` | a scan is at least as fresh as the time it reports; private module paths stay private; a listed module has entries; a version is affected exactly if a range says so, in whatever order its events are; the fix that is reported helps; Go releases keep their place and their tag | two modules of three wanted; two publications, so that one falls between any two reads; ten versions and the text "0", with a pseudo-version below v0.0.0, the stages of one Go release and those of go1 itself; three events in one range, the least with two introductions around a fix, or two ranges |
| `source_imports` | `MCSourceImports` | the package slice holds what leads to a vulnerable package, importers, entries and chains are complete; one node per module, who requires whom is exact, and chains lead to an entry | all acyclic graphs over four packages: two paths of different length between two packages, and shared imports, fit in; the modules on top of slices of three: two can require each other, or one be replaced |
| `source_calls` | `MCSourceCalls` | exactly the calls between an entry point and a vulnerable function are kept; stacks are real, each entry has one, one of them is a shortest; a vulnerability counts as called exactly if it is | every call graph over three functions, with recursion, and two symbols for them; searches where the slice keeps everything, with at most four calls; four functions with one sink and one entry: the least in which another order of the queue finds a detour |
| `reports` | `MCReport` | text, exit status and findings agree; no finding is lost by merging, nor its version, fix, stack or symbol; summaries are true of their stacks; a JSON stream shows the same, a cut one a part | every stack of up to five frames: two anonymous functions at either end and one between fit in; up to three findings of two entries, each affecting two modules, one of them the standard library |
| `reports_anonymous` | `MCReport_anonymous` | *violation*: a summary mentions an anonymous function (section 6) | |
| `binary_symbols` | `MCBinaryReader` | files, lines and first addresses are those that were compiled; what can be named by the database is found also where it was inlined, and nothing that was not compiled | three instructions in two files and on three lines, with padding, an inlined call and a function without a compilation unit; functions, methods, generics, closures and packages with dots; all table versions with both pointer sizes; all executables in their shapes with few programs |
| `binary_scan` | `MCBinaryScan` | a package is judged by its most specific module and gets exactly its entries; the report has exactly the vulnerable symbols under modules of the build, or under none for packages that belong to none of them | a module, one nested in it and the standard library, two versions; one entry, since entries do not depend on each other, with up to two affected modules; two packages in a binary, built by one Go version |
| `binary_scan_panic` | `MCBinaryScan_panic` | *violation*: nested modules make `merge` panic (section 6) | |

Deadlock is checked except where the program may stop by itself: a `Cmd` that
nobody starts. `MCDatabase` lets the database rest. The other modules
have an explicit step (`Terminated`, `Done`, `Ended` and the like) in their final
states, so that a state in
which the code is stuck is reported; `UpdateVulns` of `RequireSlice`, for
instance, is only enabled if every module it dereferences exists.

### Fairness

* `EmbeddedScan`: weak fairness of the goroutine of `Start`, of the builder, of the
  reader of a pipe while it stays, and of a `Wait` whose channel is closed. The
  Go scheduler runs every goroutine that can run. Nothing makes the embedding
  program start, wait, cancel or leave.
* `Govulncheck`: weak fairness of the scan only. `EarlyAnswer` has to hold even
  if the build takes for ever. That the build itself never blocks a waiter is
  part of `Answered` in `EmbeddedScan`, where the builder is fair too.

All other modules are checked for safety: they are sequential, or, like the
searches of `Witness` and the reads of `VulnDB`, have results that are stated for
the state in which they are complete, and a state from which it is not
reached is a deadlock that the runs report.

## 4. The proofs

`tlapm <module>` checks the proofs of each module whose name ends in `_proof`. Each
theorem below is `Spec => []P`, or a refinement, for every value of the constants
that the named assumptions allow; where `P` is a property of a run, the run checks
it on the instance of section 3. Each rests on an inductive invariant, which was
model-checked with the constants of the run before it was proved: it holds at first
(`...Init`), every step keeps it (one lemma per action), and it implies the
properties.

**Scan driver** (`Govulncheck_proof`; `ScanInv`). `ReportCorrect`: a scan that ends
without an error has printed what it should, and without `-json` its status is right. `JoinCorrect`:
the slice starts from a finished build. `CancelCorrect`: `Source` never cancels a
build that it needs. They hold for any set of modules, any interleaving with the
builder and any failures and cancellations. None of the three is inductive, as they
speak of the last states only. `ScanInv` follows the data there: what was fetched is
what has entries among the modules asked (`Fetching`), what is written, gathered in
the text handler or still to be handed over is together what was found, and only one
of the two places is in use (`Reporting`). `Building` is the protocol of the two
goroutines: the derived context is not cancelled before `Source` has what it needs,
and the builder is done exactly when it has left a call graph or an error.
Assumption: no module is called like a message (`MessageAssumption`).

**Command** (`EmbeddedScan_proof`; `CmdInv`). For any number of callers and of writes,
and any way the scan may end, including a panic: `StreamsCorrect`,
`WritesBeforeClose`; `WaitCorrect`, a `Wait` returns what the scan returned unless
it panicked; `ContractImplemented`, `ScanCmd` implements `CmdContract` under the
mapping `phase`, `result`, `answer`. `CmdInv` adds to the types that channel,
goroutine, outcome and `err` move together (`Phases`) and which streams are closed
at each deferred call (`Closes`). Assumptions: the owner is a caller, the inputs are
those the model knows.

**Embedding** (`EmbeddedScan_proof`; `EmbeddedInv`). `ComponentsImplemented`: every
behaviour of the composition is a behaviour of `ScanCmd` and one of `Govulncheck`;
so their invariants hold of it. `AnswerCorrect`: what `Wait` returns agrees with
what was printed, without `-json` also in its status. It needs one fact that neither has
alone, `Coupled`: a command
that succeeded or found something hands on what its scan returned. Assumption: the
outcomes of a command are the ways `doGovulncheck` can end (`EndAssumption`).

**Database** (`VulnDB_proof`; `DBInv`). `FreshnessCorrect`, `PrivacyCorrect`,
`EntriesCorrect`, for any modules and any number of publications that fall between
the reads. The core is `Published`: files are written before the index and the time of
modification that announce them; so what a publication changed is in the files, but
for what the current one has still to write, and the time that a scan has read does
not cover that (`Asked`).

**Import slice** (`SourceImports_proof`; `SliceInv`, `ResultInv`). For any set of
packages, any import graph without a cycle, any vulnerable and top level packages:
`SliceCorrect`, a package whose call has returned has a node exactly if it leads to
a vulnerable package; `ExpandedOnce`, it is never expanded again and keeps its node;
`ImportedByCorrect`, `EntriesCorrect`, `TracesCorrect` for what is in the result.

`SliceExact` is not inductive: it says nothing of the calls in progress, whose
packages are marked with the nil that also means "not on the slice". `SliceInv` adds
that the calls in progress form a stack that goes down in the import graph
(`Stack`), that each has collected the nodes of the imports it is done with
(`InProgress`), that a finished package is on the slice for the reason the code has
for it (`Settled`), and that nothing else is (`Sound`). Since the graph has no
cycle, an import that is visited is either finished or the call just made, never a
caller further down: this is where reading nil would go wrong. The half "leads to a
vulnerable package implies on the slice" follows because the packages that are on
the slice or not finished are a closed set. `ResultInv` adds that map and nodes name
each other (`Nodes`), which of the top level packages the loop is done with
(`Loop`), and what has been put into `Entries` and `Vulns` up to then (`Results`).
Assumptions: `LevelAssumption` (heights are natural numbers, i.e. imports have no
cycle, which the Go compiler guarantees), `FirstIDAssumption`, `ControlAssumption`.

**Require slice** (`SourceImports_proof`; `RequireInv`). `ImportsImplemented`: the
two stages together do to the packages what `ImportSlice` does, so its theorems hold
of `SourceSpec` too, and the second stage starts from what is proved there.
`NodesCorrect`, `RequiredByCorrect`, `ModulesCorrect`. `OneNodePerModule` speaks of
nodes and the map at all times, and needs that identifiers grow (`ModNodes`); the
other two are about the end, and `RequireInv` says of each loop what it has done so
far: which packages have their module and which importers have been looked at
(`Handled`, `Looked`), that `modPred` is the image of the importers looked at under
the modules, without loops at a module (`Relation`), and what is in the results
(`ModResults`). That `modPred` leaves out the module itself is what makes
`ModulesTraced` more than the image of `VulnsTraced`: a chain of packages may stay
in a module for several steps.

**Call slice and witnesses** (`SourceCalls_proof`; `SliceInv` of `CallSlice`,
`SearchInv`). For any call graph, with recursion, any entry points and vulnerable
symbols, and any order of the worklists and interleaving of the searches:
`SitesCorrect`, `SinksCorrect` about the slice; `SliceImplemented`, as above;
`StacksCorrect`, `EntriesCorrect`, `ShortestCorrect` about the stacks; and
`CalledCorrect`, which joins the two: a vulnerability counts as called exactly if
the program reaches a function of one of its symbols, none of which is an entry
point.

`SliceInv` is the invariant of the worklists: what is collected is exactly the calls
of the functions visited, everything to visit is reachable, and what is closed in
the end is therefore all of it. `SearchInv` has for each symbol: chains in the queue
and stacks are ways down the slice whose tail is expanded (`Chains`); everything the
search has come to leads to the sink, and no caller of what was expanded is left out
(`Ways`); the queue has chains of two lengths at most, the shorter ones first, and
every way as short as the first was come to by one not longer (`Breadth`); so an
entry gets a stack than which no way is shorter when it is first come to
(`EntryStacks`). For `CalledExact`: the shortest of all stacks of a group goes
through no other sink of the group, since that one would have a shorter stack; so it
is kept. `FuncAssumption`, the functions are finite, is used for the paths:
reachability is stated with closed sets, paths are functions on `1 .. n`, and a step
along one is made by the lemmas `Climb`, `Upwards`, `Downwards` and `Least`, which
say in terms of sets, by counting, that a set of numbers that has the first and with
each the next has all.

**Version ranges** (`VersionRange_proof`; `RangeInv`, `StdInv`). For any versions,
any number of ranges and any order of their events: `AffectsCorrect`, the walk over
the sorted events finds a version to be affected exactly if a range contains it,
provided that each event is an introduction or a fix and that no two events of a
range are in one place;
`FixCorrect`, the fix that is shown is later and not affected itself. `StdCorrect`
says the same of Go releases, and `ReleasesCorrect` that a release is affected
exactly if it was released between an introduction and its fix, and is shown under
the tag it was built from. `RangeInv` has that sorting loses no event (`Permuted`),
that the current range is in order up to `k` while it is sorted and that `affected`
is what the first events say while it is walked (`Looking`), and what the ranges
before it said (`Passed`). That one insertion keeps the order is `InsertionOrders`,
one turn of the walk is `Turn`; `Greatest`, a finite set of numbers has a greatest,
gives the latest fix; `TagsInOrder` and `SameOrder` say that the order of releases
is that of semantic versions. Assumptions: a version is a positive rank
(`VersionAssumption`); ranges are lists of events (`RangesAssumption`); ranks agree
with the order of `semver.Compare` (`SemverAssumption`); a tag has one of the forms that
the code distinguishes, and
the version of a tag has a rank (`TagAssumption`).

**Selection and binary scan** (`BinaryScan_proof`; `FetchInv`, `BinaryInv`).
`FetchCorrect`: whatever the order of the look-ups, what is known of the modules is
what the database has for them, cut down by `filter`. `PackagesCorrect`: a package
has exactly the entries that affect it; `SymbolsReported`, `ModulesReported`: a
report on a binary names exactly the vulnerable symbols, under modules of the build
with the version that is linked, and under the nameless module exactly those of
packages that no module of the build contains. They hold for any modules, nested in any way, any
database, any packages and symbols. `FetchInv` has that each module known is in the
list; `BinaryInv` adds that the Vulns are those of the packages the loop is done
with, and the result is merged from all of them. What makes `PackageExact` hard is
the loop of `vulnsForPackage`, which keeps the best module so far: it is a
recursive function over the indices of the list, and `LoopOfModules` shows first
that such a function exists and then what each turn does. That the best so far is
none or has the package under its path (`ChosenUnder`), and that it is the most
specific module once that was looked at (`Chosen`), is carried from turn to turn by
`Upwards`, which counts instead of using induction. Assumptions: a module's packages
are under its path, those of the standard library have no dot in theirs
(`PathAssumption`); entries are told apart by their identifiers and are of their type
(`DatabaseAssumption`, `FixedInAssumption`); "no version" is not a version
(`NoneAssumption`).

**Report** (`Report_proof`; `ReportInv`). For any list of findings, any entries,
modules and packages, any call stacks, text or JSON in either mode, and a stream
that is cut anywhere: `SectionsCorrect`, `FindingsCorrect`, `SummariesCorrect`,
`ReplayCorrect`. `ReportInv` says at each statement what was built, written and
gathered: the vulnerabilities of the findings looked at (`Creating`), the messages
and the state of the handler while they are queued (`Queueing`) and while a stream is
read back (`Reading`), and that in the end they are merged from all findings and the
exit status tells whether one is called (`Ending`); `ReplayAgrees` follows, as the
reader has gathered a beginning of the same list. The other three rest on what
merging does (`VulnsMerged`, `ModulesMerged`, `PackagesMerged`): each entry, module
and package comes once and in order, everything in the result is that of a finding,
stack and version included (`Justified`), and every finding is somewhere in it
(`VulnsCover`). `FindingsCorrect` needs in addition that what was merged passed the
validation of versions, which is why all copies agree on the fix (`MergeValidates`,
`Validated`), that a merged call stack is the one of its finding (`StackIs`), and that
a message has all of it (`MessagesCarry`). `RowsAre` and `RowsShown` say which rows the
template makes of a
vulnerability, which needs the rows so far, since the one for a package of the
standard library that nothing calls depends on them. `SummaryIs` gives the summary
of any stack whose first frame is in a scanned package and whose last is in the
vulnerable one: the functions at its ends are never anonymous, only the one between
them may be (section 6).
Assumptions: the order of paths is total and identifiers are ordered
(`RankAssumption`, `IDAssumption`); each finding has a module with a version, which
`filter` sees to, and its stack leads from a scanned package to the one of the symbol
(`FoundAssumption`); `StacksCorrect` of `SourceCalls` is where stacks come from.

**Loops** (in `Report_proof`, the first ones also in `BinaryScan_proof`). Induction
over data is out of the prover's reach, as its theorems take an operator as a
parameter, which no backend can instantiate. Counting takes its place: a set of numbers
up to `n` that has 0, and with each `i < n` also
`i + 1`, has them all, since otherwise a finite set would be mapped into a smaller one
(`Climb`, `Upwards`, `Least`). From this `Iterates` has that a loop over indices has
its values; `FlattenUpTo`, `Flattened` and `FlattenedInOrder` what concatenating a
list of lists gives, for the recursion that `FlattenSeq` of the community modules is
made of; and `Listable` that any finite set can be listed in a total order.

### Only model-checked

* Liveness and deadlock freedom: `EarlyAnswer`, `Answered`, `ReaderEnds`, and that no
  step of the sequential modules is stuck. `ENABLED` and
  fairness are out of the prover's reach.
* `LinesExact`, `FirstPCFound` and `SymbolsExact`, about the binary readers. That a
  table is read back as it was linked is about several recursions at once (numbers
  by their digits, tables by their runs, both on the linker's and on the reader's
  side), and the parts of a name about searches in lists of tokens. The lemmas on
  loops are for recursion over the indices of a list; one on the digits of any number
  and the folds that add up sizes would need more of the same kind. The proofs have
  not been made.
* That the mappings of the inputs agree between components that no module composes:
  that the findings of `SourceCalls` satisfy the assumption of `Report`, for
  instance, is read off their definitions.

## 5. Not modelled

* Layout, wording and line breaks of the text output, and the texts of
  `scan/errors.go`; the counts of packages and modules in the progress message
  (`depPkgsAndMods`).
* The positions of frames, and their correction for `init` functions
  (`updateInitPositions`).
* SSA construction, CHA and VTA: `golang.org/x/tools`. Loading of packages: the go
  command.
* Symbol tables of before Go 1.3 (`walksymtab` and the objects of `gosym/symtab.go`):
  `NewTable` is only called without one. `ReadData` and `DataStart` of
  `buildinfo/buildinfo.go`, which nothing calls. `debug/buildinfo`.
* `ImportChains` in `witness.go`, `ByID` and `ListIDs` in the clients: no scan calls them.
* The order of preference between stacks of one symbol (`stackLess`): it decides
  which one is shown and not whether one is.
* Two scans in one process, which share `pkgID`, `modID`, `funID` and `stdlibModule`
  without a lock: two whole scans are out of TLC's reach.
* Declarations of documents (`osv`, `govulncheck/result.go`), URLs, test support.

## 6. Findings

With a run that shows them:

1. `vulncheck/source.go:107` returns `nil, err` where `err` is the fetch's nil
   and not `buildErr`: a cancelled build gives neither a result nor an error, and the
   caller dereferences nil (`govulncheck_nil`).
2. `vulncheck/binary.go:133` and `vulncheck/vulncheck.go:414` choose the module of a
   package differently; with nested modules the merged versions disagree and
   `validateModuleVersions` panics (`binary_scan_panic`).
3. `scan/run.go:66` returns `ErrVulnerabilitiesFound` with `-json` too, and `main`
   exits with its code; `cmd/govulncheck/doc.go:54` and `:65` say that the exit is
   successful then (`govulncheck_json`). `ReportExact` and `AnswerExact` say nothing
   of the status with `-json`.
4. `scan/source.go:261` says that a summary never mentions an anonymous function; the
   frame after the top segment is named as it is (`source.go:274`), also if it is one
   (`reports_anonymous`). `SummariesTrue` asks for names at the ends of a summary only.

Seen while modelling; the models follow the code, no run is kept for them:

* `vulncheck/vulncheck.go:337` filters the entries of a module replaced by another
  path by the path of the module, after they were fetched by that of the
  replacement: none is left. `vulncheck_test.go:289` expects the entry, but calls
  `vulnsForPackage` without `filter`. `SamePath` in `PackageExact` leaves these out.
* `scan/util.go:33` keeps one copy of an entry per identifier, and `filter` has cut
  each copy down to one module: the platforms of the others are not shown
  (`template.go:245`). `FindingsShown` does not ask for platforms.
* A vulnerable package that is scanned itself gets an empty summary
  (`scan/source.go:252`).
* `scan/template.go:151`: a package of the standard library without stacks is shown
  only if no module came before it in the list.
* `scan/text.go:36`: a `Flush` without a `Config` dereferences nil, and a JSON stream
  that is cut between two messages looks complete to its reader.
* `buildinfo/additions_buildinfo.go:85`: the search in `.data.rel.ro` knows the magics of Go
  1.2 and 1.16 only, while 1.18 and later are supported: no functions and no
  error. `SymbolsExact` asks for `PCLNTab = "table"`.
* `buildinfo/additions_scan.go:97`: the names of inlined calls are parsed without a
  version; both tests of `PackageName` are then those for old versions, and a
  package whose path begins with `go.` has no symbols where it was only inlined.
  Before Go 1.20 it never has any (`startsWithGo`).
* `gosym/symtab.go:117` compares with `>` where the bracket and the dot are in one
  place: the base name of a method of a generic type with a value receiver is
  wrong. The database has no names of generics.
* `gosym/pclntab.go:586,603`: for a function without a compilation unit, an offset of 0
  is read as a table, and another function's file and line may come out;
  `go12LineToPC` leaves such functions out (`pclntab.go:646`), and so does
  `LinesExact`.
* `gosym/additions.go:170` takes offset 0 for a table, the reader elsewhere for none;
  `additions_buildinfo.go:193` subtracts 1 from the end of an empty segment at 0.

* `scan/flags.go:48` slices an empty `Args` and panics; `scan/scan.go:22` says that
  `Path` is used. (In `ScanCmd`: `ParseFlags` with `Args = "empty"`.)
* `scan/flags.go:38` prints the usage to the process's standard error;
  `scan/scan.go:41` says that `Stderr` is used. (The variable `usage`.)
* `scan/scan.go:120`: the deferred close releases a waiter while a panic unwinds,
  and `Wait` can return nil in the moment before the crash. This is why
  `CmdContract` has `AnswerInCrash`.
* A vulnerable function that is an entry point itself and on no call to another
  one has no `CallSink` (`vulncheck/source.go:381`), although it is reachable
  (`vulncheck.go:153`); one that has a `CallSink` but no caller has no stack
  (`witness.go:201`) and does not count as called. Hence the
  premise of `CalledExact` and `e # CallSink[s]` in `EveryEntryFound`.
* `vulncheck/source.go:352`: the node of a replacement keeps `ID` 0, against the
  comment on `ModNode.ID`; `source.go:283`: a top level package without a module adds
  the entry 0, which is no node.
* `vulncheck/vulncheck.go:414` compares paths as text, so a package of `x.org/bc` is
  taken for one of `x.org/b`; for packages without a dot in their path the answer
  depends on the order of a map (`vulncheck.go:411`). `MostSpecific` excludes both.

## 7. Plan

The invariants and action properties of the runs are proved, but for those of the
binary readers. What is left:

1. `LinesExact` and `FirstPCFound`: varints by their digits and tables by their
   runs, with `FlattenUpTo` and `Iterates` of `Report_proof`.
2. `SymbolsExact`, which rests on them and on the parts of a name.
3. A module that composes `SourceCalls` with `Report`, so that the assumption on
   stacks becomes a theorem.
