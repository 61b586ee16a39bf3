---------------------------- MODULE EmbeddedScan ----------------------------
(***************************************************************************)
(* The whole program: the scan.Cmd of module ScanCmd, whose goroutine runs *)
(* doGovulncheck (module Govulncheck).  The two share the context and the  *)
(* standard output: a scan whose write waits for the reader of a pipe      *)
(* stands still, and what doGovulncheck returns is what c.scan() returns.  *)
(***************************************************************************)
EXTENDS ScanCmd

CONSTANT Module

\* What Govulncheck assumes, and how doGovulncheck can end.
ASSUME MessageAssumption == {"config", "progress"} \cap Module = {}
ASSUME EndAssumption == Outcome = {"nil", "failed", "vulns", "panic"}

VARIABLES
  json, analysis, ImportsOnly, remote, entries, imported, called, pc, asked,
  mv, ctx, builder, cg, buildErr, vr, vulns, affecting, out, buffer,
  ret          \* those of Govulncheck; the context is that of ScanCmd

G == INSTANCE Govulncheck WITH result <- vr

\* All but cancelled, and the output of the scan.
cmdVars  == <<fields, cmd, output, wait>>
scanVars == <<json, analysis, ImportsOnly, remote, entries, imported, called,
              pc, asked, mv, ctx, builder, cg, buildErr, vr, vulns,
              affecting, out, buffer, ret>>
programVars == <<cmdVars, scanVars, cancelled>>

ProgramInit == Init /\ G!Init

\* The embedding program, and the parts of the goroutine around the scan.
Embedder ==
  /\ \/ Start \/ StartRefused \/ Run
     \/ \E c \in Caller : Wait(c) \/ WaitReturns(c)
  /\ UNCHANGED scanVars
ReaderStep == Reader /\ UNCHANGED scanVars
LeaveStep  == ReaderLeaves /\ UNCHANGED scanVars
Around ==
  /\ \/ ScanCancelled \/ ParseFlags
     \/ CloseStdout \/ CloseStderr \/ CloseDone \/ Crash
  /\ UNCHANGED scanVars
CancelStep == Cancel /\ G!Cancel

\* Flush in text mode writes even if there is nothing to report.
Writes == out' # out \/ (G!Finish /\ ~json)

\* A step of doGovulncheck, which waits for its last write to be read.  If
\* the reader leaves instead, the write that waits fails in the code; here it
\* may also count as written, which only adds behaviours: a reader can leave
\* just after the last byte.
ScanStep ==
  /\ routine = "scan" /\ pipe = "empty" /\ G!Scan
  /\ IF Writes THEN Write ELSE UNCHANGED <<cmdVars, cancelled>>

\* doGovulncheck has returned or panicked.
ReturnStep ==
  /\ ret # "none" /\ ScanReturns /\ outcome' = ret
  /\ UNCHANGED scanVars

BuildStep ==
  /\ Alive /\ G!Builder
  /\ UNCHANGED <<cmdVars, cancelled>>

ProgramNext ==
  \/ Embedder \/ ReaderStep \/ LeaveStep \/ Around \/ CancelStep
  \/ ScanStep \/ ReturnStep \/ BuildStep

ProgramSpec == ProgramInit /\ [][ProgramNext]_programVars

Answer == \E c \in Caller : WaitReturns(c) /\ UNCHANGED scanVars

(***************************************************************************)
(* The Go scheduler keeps running the goroutines that can run; nothing     *)
(* makes the embedding program start the command, wait, cancel or leave,   *)
(* but a reader that stays keeps reading.                                  *)
(***************************************************************************)
ProgramFairness ==
  /\ WF_programVars(Around) /\ WF_programVars(ScanStep \/ ReturnStep) /\ WF_programVars(BuildStep)
  /\ WF_programVars(ReaderStep) /\ WF_programVars(Answer)

-----------------------------------------------------------------------------
(***************************************************************************)
(* Who is told that the command succeeded, or that it found                *)
(* vulnerabilities, has a complete report, and in text mode is told the    *)
(* right one of the two, whatever was cancelled on the way.  The exception *)
(* is a scan that panicked, whose process is about to crash.               *)
(***************************************************************************)
AnswerExact ==
  \A c \in Caller : wait[c] \in {"nil", "vulns"} /\ outcome # "panic" =>
    /\ out \cap Module = imported
    /\ ~json => (wait[c] = "vulns" <=> G!Affecting # {})

-----------------------------------------------------------------------------
(* The inductive invariant.                                                *)

\* A command that succeeded or found something returned what its scan did.
Coupled == outcome \in {"nil", "vulns"} => ret = outcome

EmbeddedInv == CmdInv /\ G!ScanInv /\ Coupled
=============================================================================
