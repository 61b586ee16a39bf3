---------------------------- MODULE Govulncheck ----------------------------
(***************************************************************************)
(* One scan: doGovulncheck (src/internal/scan/run.go) with runSource,      *)
(* vulncheck.Source and the goroutine it launches to build the call graph, *)
(* or with runBinary and vulncheck.Binary.  The modules of the program     *)
(* stand for their vulnerabilities as well: the database has entries for   *)
(* some of them, the program imports the vulnerable packages of some of    *)
(* these, and calls the vulnerable symbols of some of those.               *)
(*                                                                         *)
(* The scan and the builder are two processes; they share cg, buildErr and *)
(* the context ctx that Source derives from the caller's.                  *)
(***************************************************************************)
CONSTANT Module   \* the modules of the program under analysis

\* The first messages of a report are told from vulnerabilities.
ASSUME MessageAssumption == {"config", "progress"} \cap Module = {}

VARIABLES
  json,         \* input: the -json flag
  analysis,     \* input: "source" or "binary"
  ImportsOnly,  \* input: Config.ImportsOnly
  remote,       \* input: the database is read over HTTP, with the context
  entries,      \* input: modules the database has entries for
  imported,     \* input: those whose vulnerable packages are in the program
  called,       \* input: those whose vulnerable symbols are called
  cancelled,    \* the caller's context is cancelled
  pc,           \* where the scan is
  asked,        \* modules FetchVulnerabilities has looked up
  mv,           \* those it found entries for
  ctx,          \* the derived context: "none", "live" or "cancelled"
  builder,      \* where the goroutine is; "none" if not launched
  cg,           \* the call graph is built
  buildErr,     \* the builder saw a cancelled context
  result,       \* what Source or Binary returned: "none", "nil" or "result"
  vulns,        \* vulnerabilities still to be handed to the output
  affecting,    \* those of them that are called
  out,          \* messages written to the output
  buffer,       \* vulnerabilities the text handler gathers
  ret           \* what doGovulncheck returned

input  == <<json, analysis, ImportsOnly, remote, entries, imported, called>>
source == <<asked, mv, ctx>>
build  == <<builder, cg, buildErr>>
report == <<vulns, affecting, out, buffer>>
vars   == <<input, cancelled, pc, source, build, result, report, ret>>

Init ==
  /\ json \in BOOLEAN /\ ImportsOnly \in BOOLEAN /\ remote \in BOOLEAN
  /\ analysis \in {"source", "binary"}
  /\ entries \in SUBSET Module
  /\ imported \in SUBSET entries
  /\ called \in SUBSET imported
  /\ cancelled = FALSE
  /\ pc = "client"
  /\ asked = {} /\ mv = {} /\ ctx = "none"
  /\ builder = "none" /\ cg = FALSE /\ buildErr = FALSE
  /\ result = "none"
  /\ vulns = {} /\ affecting = {} /\ out = {} /\ buffer = {}
  /\ ret = "none"

Cancelled == cancelled \/ ctx = "cancelled"   \* ctx.Err() # nil in Source
Returned  == ret # "none"

\* The caller cancels its context, which cancels the derived one.
Cancel ==
  /\ ~cancelled
  /\ cancelled' = TRUE
  /\ UNCHANGED <<input, pc, source, build, result, report, ret>>

-----------------------------------------------------------------------------
(* doGovulncheck before the analysis.                                      *)

Goto(from, to) == pc = from /\ pc' = to

\* An error at one of the steps that can fail is returned at once.
Fail(steps) ==
  /\ pc \in steps
  /\ pc' = "end" /\ ret' = "failed"
  /\ UNCHANGED <<input, cancelled, asked, mv, build, result, report>>

\* NewClient, and GOVERSION and LastModifiedTime whose errors are ignored.
NewClient ==
  /\ Goto("client", "config")
  /\ UNCHANGED <<input, cancelled, source, build, result, report, ret>>

WriteConfig ==
  /\ Goto("config", "load")
  /\ out' = out \cup {"config"}
  /\ UNCHANGED <<input, cancelled, source, build, result, vulns, affecting,
                 buffer, ret>>

\* loadPackages, which does not get the context, or the opening of the file.
Load ==
  /\ Goto("load", "progress")
  /\ UNCHANGED <<input, cancelled, source, build, result, report, ret>>

\* The text handler ignores a failed write of the progress message.
WriteProgress ==
  /\ Goto("progress", "setup")
  /\ \/ out' = out \cup {"progress"}
     \/ ~json /\ UNCHANGED out
  /\ UNCHANGED <<input, cancelled, source, build, result, vulns, affecting,
                 buffer, ret>>

EarlyFailure ==
  /\ Fail({"client", "config", "load", "setup"} \cup
          (IF json THEN {"progress"} ELSE {}))
  /\ UNCHANGED ctx

-----------------------------------------------------------------------------
(* vulncheck.Source and vulncheck.Binary.                                  *)

\* Source: the FileSets agree and GOVERSION is known; the context is derived
\* and the builder launched.  Binary: the executable could be read.
Setup ==
  /\ Goto("setup", "fetch")
  /\ IF analysis = "source"
     THEN /\ ctx' = "live"
          /\ builder' = IF ImportsOnly THEN "none" ELSE "ssa"
     ELSE UNCHANGED <<ctx, builder>>
  /\ UNCHANGED <<input, cancelled, asked, mv, cg, buildErr, result, report, ret>>

\* client.ByModule for the next module; an HTTP request fails when the
\* context is cancelled, and any request may.
FetchModule ==
  /\ pc = "fetch" /\ ~(remote /\ Cancelled)
  /\ \E m \in Module \ asked :
       /\ asked' = asked \cup {m}
       /\ mv' = IF m \in entries THEN mv \cup {m} ELSE mv
  /\ UNCHANGED <<input, cancelled, pc, ctx, build, result, report, ret>>

\* Leaving Source runs the deferred cancel.
LeaveSource == ctx' = IF analysis = "source" THEN "cancelled" ELSE ctx

\* Bug: a module that cannot be looked up is skipped.
FetchSkips ==
  /\ pc = "fetch"
  /\ \E m \in Module \ asked : asked' = asked \cup {m}
  /\ UNCHANGED <<input, cancelled, pc, mv, ctx, build, result, report, ret>>

FetchFails ==
  /\ asked # Module
  /\ Fail({"fetch"})
  /\ LeaveSource

\* Bug: the derived context is made for the fetch alone.
FetchedCancels ==
  /\ asked = Module
  /\ Goto("fetch", IF analysis = "source" THEN "slice" ELSE "binary")
  /\ LeaveSource
  /\ UNCHANGED <<input, cancelled, asked, mv, build, result, report, ret>>

Fetched ==
  /\ asked = Module
  /\ Goto("fetch", IF analysis = "source" THEN "slice" ELSE "binary")
  /\ UNCHANGED <<input, cancelled, source, build, result, report, ret>>

\* Source or Binary returns a result with these vulnerabilities.
ReturnResult(found, calledOnes) ==
  /\ pc' = "emit"
  /\ result' = "result"
  /\ vulns' = found
  /\ affecting' = calledOnes
  /\ UNCHANGED <<input, cancelled, asked, mv, build, out, buffer, ret>>

\* The symbols of a binary count as called, createBinaryResult gives each a
\* call stack.
BinaryResult ==
  /\ pc = "binary"
  /\ ReturnResult(imported \cap mv, imported \cap mv)
  /\ LeaveSource

\* Bug: the build is waited for before every return.
EarlyReturnJoins ==
  /\ pc = "slice" /\ builder \in {"none", "done"}
  /\ ImportsOnly \/ imported \cap mv = {}
  /\ ReturnResult(imported \cap mv, {})
  /\ LeaveSource

\* vulnPkgModSlice found no vulnerable package, or nothing else is wanted.
EarlyReturn ==
  /\ pc = "slice"
  /\ ImportsOnly \/ imported \cap mv = {}
  /\ ReturnResult(imported \cap mv, {})
  /\ LeaveSource

\* Bug: the build is not waited for.
JoinEarly ==
  /\ pc = "slice"
  /\ ~ImportsOnly /\ imported \cap mv # {}
  /\ pc' = "joined"
  /\ UNCHANGED <<input, cancelled, source, build, result, report, ret>>

\* wg.Wait returns.
Join ==
  /\ pc = "slice"
  /\ ~ImportsOnly /\ imported \cap mv # {}
  /\ builder = "done"
  /\ pc' = "joined"
  /\ UNCHANGED <<input, cancelled, source, build, result, report, ret>>

\* buildErr is not nil, but the error returned is the one of the fetch: nil.
BuildFailed ==
  /\ buildErr
  /\ Goto("joined", "convert")
  /\ result' = "nil"
  /\ LeaveSource
  /\ UNCHANGED <<input, cancelled, asked, mv, build, report, ret>>

\* createSourceResult dereferences the result.
ConvertNil ==
  /\ Goto("convert", "end")
  /\ ret' = "panic"
  /\ UNCHANGED <<input, cancelled, source, build, result, report>>

SourceResult ==
  /\ pc = "joined" /\ ~buildErr
  /\ ReturnResult(imported \cap mv, called \cap mv)
  /\ LeaveSource

-----------------------------------------------------------------------------
(* doGovulncheck after the analysis.                                       *)

\* The JSON handler writes a vulnerability, the text handler gathers it.
EmitVuln ==
  /\ pc = "emit"
  /\ \E v \in vulns :
       /\ vulns' = vulns \ {v}
       /\ IF json THEN out' = out \cup {v} /\ UNCHANGED buffer
                  ELSE buffer' = buffer \cup {v} /\ UNCHANGED out
  /\ UNCHANGED <<input, cancelled, pc, source, build, result, affecting, ret>>

EmitFails ==
  /\ json /\ vulns # {}
  /\ Fail({"emit"})
  /\ UNCHANGED ctx

FlushFails ==
  /\ ~json /\ vulns = {}
  /\ Fail({"emit"})
  /\ UNCHANGED ctx

\* Flush, then the exit status from what is called.
Finish ==
  /\ vulns = {}
  /\ Goto("emit", "end")
  /\ out' = out \cup buffer
  /\ buffer' = {}
  /\ ret' = IF affecting # {} THEN "vulns" ELSE "nil"
  /\ UNCHANGED <<input, cancelled, source, build, result, vulns, affecting>>

-----------------------------------------------------------------------------
(* The goroutine that builds the call graph.                               *)

\* buildSSA and entryPoints do not look at the context.
BuildSSA ==
  /\ builder = "ssa"
  /\ builder' = "check1"
  /\ UNCHANGED <<input, cancelled, pc, source, cg, buildErr, result, report, ret>>

\* Bug: the builder returns on cancellation without wg.Done.
BuildStepNoDone ==
  \E s \in {<<"check1", "check2">>, <<"check2", "check3">>, <<"check3", "done">>} :
    /\ builder = s[1]
    /\ IF Cancelled THEN buildErr' = TRUE /\ UNCHANGED <<builder, cg>>
                    ELSE /\ builder' = s[2]
                         /\ cg' = (s[2] = "done")
                         /\ UNCHANGED buildErr
    /\ UNCHANGED <<input, cancelled, pc, source, result, report, ret>>

\* callGraph looks at it three times, before each of its phases.
BuildStep ==
  \E s \in {<<"check1", "check2">>, <<"check2", "check3">>, <<"check3", "done">>} :
    /\ builder = s[1]
    /\ IF Cancelled THEN buildErr' = TRUE /\ builder' = "done" /\ UNCHANGED cg
                    ELSE /\ builder' = s[2]
                         /\ cg' = (s[2] = "done")
                         /\ UNCHANGED buildErr
    /\ UNCHANGED <<input, cancelled, pc, source, result, report, ret>>

Scan ==
  \/ NewClient \/ WriteConfig \/ Load \/ WriteProgress \/ EarlyFailure
  \/ Setup \/ FetchModule \/ FetchFails \/ Fetched
  \/ BinaryResult \/ EarlyReturn \/ Join \/ BuildFailed \/ ConvertNil
  \/ SourceResult \/ EmitVuln \/ EmitFails \/ FlushFails \/ Finish
Builder == BuildSSA \/ BuildStep

Terminated ==
  /\ Returned /\ builder \in {"none", "done"} /\ cancelled
  /\ UNCHANGED vars

Next == Scan \/ Builder \/ Cancel \/ Terminated

Spec == Init /\ [][Next]_vars

\* The Go scheduler runs the scan; the build may take arbitrarily long.
FairSpec == Spec /\ WF_vars(Scan)

-----------------------------------------------------------------------------
\* The vulnerabilities that make the exit status unsuccessful.
Affecting == CASE analysis = "binary" -> imported
               [] analysis = "source" /\ ImportsOnly -> {}
               [] OTHER -> called

(***************************************************************************)
(* No false all-clear, and no false alarm: a scan that ends without an     *)
(* error has printed every vulnerability whose package the program has and *)
(* no other, and in text mode its status tells whether one of them is      *)
(* called, whatever was cancelled or failed on the way.  What the status   *)
(* is with -json is the subject of JSONExitsWithZero.                      *)
(***************************************************************************)
ReportExact ==
  ret \in {"nil", "vulns"} =>
    /\ out \cap Module = imported
    /\ ~json => (ret = "vulns" <=> Affecting # {})

(***************************************************************************)
(* The call graph slice starts only from a call graph that is complete and *)
(* that its builder has let go of ("guards entries, cg, and buildErr").    *)
(***************************************************************************)
BuildJoined == pc = "joined" => builder = "done" /\ (buildErr \/ cg)

(***************************************************************************)
(* Source never cancels the build that it still needs: while it runs, a    *)
(* build that failed was cancelled by the caller, and only then can the    *)
(* scan crash for want of a result.                                        *)
(***************************************************************************)
NoSelfCancel ==
  (pc \in {"fetch", "slice", "joined", "convert"} /\ buildErr) \/ ret = "panic"
    => cancelled

(***************************************************************************)
(* "If the vulns set is empty, return without waiting for SSA construction *)
(* or callgraph to finish" (source.go:65): without vulnerable packages the *)
(* scan ends even if the build never does.                                 *)
(***************************************************************************)
EarlyAnswer == (imported = {} \/ ImportsOnly \/ analysis = "binary") ~> Returned

-----------------------------------------------------------------------------
(* What a comment says and the code does not do.                           *)

(***************************************************************************)
(* "Source detects vulnerabilities in packages.  The result will contain"  *)
(* (source.go:22): a Source that returns without an error has a result.    *)
(***************************************************************************)
SourceHasResult == result # "nil"

(***************************************************************************)
(* The command "also exits successfully if -json flag is provided,         *)
(* regardless of the number of detected vulnerabilities"                   *)
(* (cmd/govulncheck/doc.go:54): with -json doGovulncheck does not return   *)
(* ErrVulnerabilitiesFound, which main turns into exit code 3.             *)
(***************************************************************************)
JSONExitsWithZero == json => ret # "vulns"

-----------------------------------------------------------------------------
(* The inductive invariant.                                                *)

Before == {"client", "config", "load", "progress", "setup"}

TypeOK ==
  /\ json \in BOOLEAN /\ ImportsOnly \in BOOLEAN /\ cancelled \in BOOLEAN
  /\ analysis \in {"source", "binary"}
  /\ entries \subseteq Module /\ imported \subseteq entries /\ called \subseteq imported
  /\ pc \in Before \cup {"fetch", "slice", "joined", "convert", "binary", "emit", "end"}
  /\ ctx \in {"none", "live", "cancelled"}
  /\ builder \in {"none", "ssa", "check1", "check2", "check3", "done"}
  /\ cg \in BOOLEAN /\ buildErr \in BOOLEAN
  /\ out \subseteq Module \cup {"config", "progress"}
  /\ ret \in {"none", "nil", "vulns", "failed", "panic"}

\* Which steps belong to which analysis, and when it is over.
Steps ==
  /\ pc \in {"slice", "joined", "convert"} => analysis = "source"
  /\ pc \in {"joined", "convert"} => ~ImportsOnly
  /\ pc = "binary" => analysis = "binary"
  /\ ret # "none" <=> pc = "end"

\* The entries that were found are those of the modules looked up, all of
\* them once the fetch is over.
Fetching ==
  /\ asked \subseteq Module /\ mv = asked \cap entries
  /\ pc \in {"slice", "joined", "convert", "binary"} => asked = Module

\* Source keeps its context alive while it needs the build, which is the only
\* one to write the call graph and the error.
Building ==
  /\ pc \in Before => ctx = "none" /\ builder = "none"
  /\ pc \in {"fetch", "slice", "joined"} => ctx # "cancelled"
  /\ pc \in {"joined", "convert"} => builder = "done"
  /\ builder = "done" <=> buildErr \/ cg
  /\ NoSelfCancel
  /\ pc = "convert" => buildErr

\* What is written, gathered or still to be handed over is what was found.
Reporting ==
  /\ pc \notin {"emit", "end"} => out \cap Module = {} /\ buffer = {}
  /\ pc = "emit" =>
       /\ vulns \cup buffer \cup (out \cap Module) = imported
       /\ IF json THEN buffer = {} ELSE out \cap Module = {}
       /\ affecting = Affecting
  /\ ReportExact

ScanInv == TypeOK /\ Steps /\ Fetching /\ Building /\ Reporting
=============================================================================
