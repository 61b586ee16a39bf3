------------------------------ MODULE ScanCmd ------------------------------
(***************************************************************************)
(* The life of a scan.Cmd (src/internal/scan/scan.go): Start, Wait and Run *)
(* as called by the goroutines of an embedding program, the goroutine that *)
(* Start launches with its deferred calls, and the reader of a pipe given  *)
(* as the standard output.  The scan itself, from doGovulncheck on, is     *)
(* reduced to some writes to Stdout and an outcome.                        *)
(*                                                                         *)
(* Like exec.Cmd, a Cmd is started by one goroutine (Owner) and may be     *)
(* waited for by any.                                                      *)
(***************************************************************************)
EXTENDS Naturals

CONSTANTS
  Caller,      \* goroutines of the embedding program
  Owner,       \* the one that calls Start or Run
  ArgsCase,    \* values of Args: "empty", "bad" (flags.Parse or the pattern
               \* check fails after printing the usage) or "ok"
  Outcome,     \* what doGovulncheck can end with: "nil", "failed", "vulns"
               \* (ErrVulnerabilitiesFound) or "panic"
  MaxWrites    \* bound: writes of one scan

ASSUME OwnerAssumption == Owner \in Caller
ASSUME ArgsAssumption == ArgsCase \subseteq {"empty", "bad", "ok"}
ASSUME OutcomeAssumption == Outcome \subseteq {"nil", "failed", "vulns", "panic"}
ASSUME MaxWritesAssumption == MaxWrites \in Nat

\* A stream: unset, of the process, or made by the embedding program.
OS     == {"osStdout", "osStderr"}
Own    == {"pipe", "buffer"}
Stream == {"unset"} \cup OS \cup Own

Error == {"nil", "failed", "vulns"}   \* values of the field err

VARIABLES
  Args, Stdout, Stderr,  \* fields the embedding program sets
  cancelled,   \* the context given to Command is cancelled
  done,        \* the channel: "nil", "open" or "closed"
  err,         \* the field err
  routine,     \* where the goroutine of Start is, "none" before Start
  outcome,     \* how c.scan() ended, "none" before
  closes,      \* closes[s]: number of calls of s.Close()
  written,     \* number of writes of the scan to Stdout
  usage,       \* streams the usage message was written to
  pipe,        \* the pipe: "empty" or "full" (a write waits for the reader)
  reader,      \* reader of the pipe: "reading", "gone" or "eof"
  wait         \* wait[c]: "none", "waiting", "stuck" or what c's call returned

fields == <<Args, Stdout, Stderr>>
cmd    == <<done, err, routine, outcome>>
output == <<closes, written, usage, pipe, reader>>
vars   == <<fields, cancelled, cmd, output, wait>>

Alive   == routine # "crashed"

Init ==
  /\ Args \in ArgsCase
  /\ Stdout \in Stream
  /\ Stderr \in Stream
  /\ cancelled = FALSE
  /\ done = "nil"
  /\ err = "nil"
  /\ routine = "none"
  /\ outcome = "none"
  /\ closes = [s \in Stream |-> 0]
  /\ written = 0
  /\ usage = {}
  /\ pipe = "empty"
  /\ reader = "reading"
  /\ wait = [c \in Caller |-> "none"]

-----------------------------------------------------------------------------
(* The embedding program.                                                  *)

\* The streams that are unset become those of the process, and the goroutine
\* is launched.
Go(newCloses) ==
  /\ Stdout' = IF Stdout = "unset" THEN "osStdout" ELSE Stdout
  /\ Stderr' = IF Stderr = "unset" THEN "osStderr" ELSE Stderr
  /\ done' = "open"
  /\ routine' = "entry"
  /\ closes' = newCloses
  /\ UNCHANGED <<Args, cancelled, err, outcome, written, usage, pipe,
                 reader>>

\* Bug: the streams are closed when the command starts (Close without defer).
LaunchClosing == done = "nil" /\ Go([closes EXCEPT ![Stdout] = 1])

\* Start that succeeds.
Launch == done = "nil" /\ Go(closes)

Start == Alive /\ wait[Owner] = "none" /\ Launch /\ UNCHANGED wait

\* Start, or Run, that fails: "vuln: already started".
StartRefused ==
  /\ Alive /\ done # "nil" /\ wait[Owner] = "none"
  /\ wait' = [wait EXCEPT ![Owner] = "refused"]
  /\ UNCHANGED <<fields, cancelled, cmd, output>>

Run ==
  /\ Alive /\ wait[Owner] = "none"
  /\ Launch
  /\ wait' = [wait EXCEPT ![Owner] = "waiting"]

\* Wait evaluates c.done; a receive from the nil channel blocks for ever.
Wait(c) ==
  /\ Alive /\ wait[c] = "none"
  /\ wait' = [wait EXCEPT ![c] = IF done = "nil" THEN "stuck" ELSE "waiting"]
  /\ UNCHANGED <<fields, cancelled, cmd, output>>

\* Bug: Wait does not wait.
WaitReturnsEarly(c) ==
  /\ Alive /\ wait[c] = "waiting"
  /\ wait' = [wait EXCEPT ![c] = err]
  /\ UNCHANGED <<fields, cancelled, cmd, output>>

\* The receive from c.done returns and Wait reads c.err.
WaitReturns(c) ==
  /\ Alive /\ wait[c] = "waiting" /\ done = "closed"
  /\ wait' = [wait EXCEPT ![c] = err]
  /\ UNCHANGED <<fields, cancelled, cmd, output>>

Cancel ==
  /\ Alive /\ ~cancelled
  /\ cancelled' = TRUE
  /\ UNCHANGED <<fields, cmd, output, wait>>

-----------------------------------------------------------------------------
(* The goroutine of Start.                                                 *)

\* Bug: the deferred call that closes the streams is missing.
ScanEndsNoClose(out) ==
  /\ outcome' = out
  /\ err' = IF out = "panic" THEN err ELSE out
  /\ routine' = "closeDone"

\* c.scan() ends: its error is stored, unless it panicked, and the deferred
\* calls begin.
ScanEnds(out) ==
  /\ outcome' = out
  /\ err' = IF out = "panic" THEN err ELSE out
  /\ routine' = "closeStdout"

ScanCancelled ==
  /\ routine = "entry" /\ cancelled
  /\ ScanEnds("failed")
  /\ UNCHANGED <<fields, cancelled, done, output, wait>>

\* parseFlags: it slices Args[1:], and its FlagSet prints the usage message
\* to the standard error of the process.
ParseFlags ==
  /\ routine = "entry" /\ ~cancelled
  /\ \/ Args = "empty" /\ ScanEnds("panic") /\ UNCHANGED usage
     \/ Args = "bad" /\ ScanEnds("failed") /\ usage' = {"osStderr"}
     \/ Args = "ok" /\ routine' = "scan" /\ UNCHANGED <<err, outcome, usage>>
  /\ UNCHANGED <<fields, cancelled, done, closes, written, pipe, reader,
                 wait>>

\* doGovulncheck writes to Stdout; a write to the pipe returns when it has
\* been read.
Write ==
  /\ routine = "scan" /\ pipe = "empty" /\ written < MaxWrites
  /\ Stdout = "pipe" => reader = "reading"
  /\ written' = written + 1
  /\ pipe' = IF Stdout = "pipe" THEN "full" ELSE pipe
  /\ UNCHANGED <<fields, cancelled, cmd, closes, usage, reader, wait>>

\* The scan ends; after a write that failed, as a rule with that error.
ScanReturns ==
  /\ routine = "scan" /\ pipe = "empty"
  /\ \E out \in Outcome : ScanEnds(out)
  /\ UNCHANGED <<fields, cancelled, done, output, wait>>

\* Bug: the comparison with os.Stdout is inverted.
CloseStdoutOS ==
  /\ routine = "closeStdout"
  /\ closes' = IF Stdout = "osStdout" THEN [closes EXCEPT ![Stdout] = @ + 1]
                                      ELSE closes
  /\ routine' = "closeStderr"
  /\ UNCHANGED <<fields, cancelled, done, err, outcome, written, usage, pipe,
                 reader, wait>>

\* The deferred calls, last one first.
CloseStdout ==
  /\ routine = "closeStdout"
  /\ closes' = IF Stdout # "osStdout" THEN [closes EXCEPT ![Stdout] = @ + 1]
                                      ELSE closes
  /\ routine' = "closeStderr"
  /\ UNCHANGED <<fields, cancelled, done, err, outcome, written, usage, pipe,
                 reader, wait>>

CloseStderr ==
  /\ routine = "closeStderr"
  /\ closes' = IF Stderr # "osStderr" THEN [closes EXCEPT ![Stderr] = @ + 1]
                                      ELSE closes
  /\ routine' = "closeDone"
  /\ UNCHANGED <<fields, cancelled, done, err, outcome, written, usage, pipe,
                 reader, wait>>

\* Bug: the channel is closed only after a scan without an error.
CloseDoneNoError ==
  /\ routine = "closeDone"
  /\ done' = IF outcome = "failed" THEN done ELSE "closed"
  /\ routine' = IF outcome = "panic" THEN "panicking" ELSE "over"
  /\ UNCHANGED <<fields, cancelled, err, outcome, output, wait>>

\* close(c.done); a panic goes on after the deferred calls.
CloseDone ==
  /\ routine = "closeDone"
  /\ done' = "closed"
  /\ routine' = IF outcome = "panic" THEN "panicking" ELSE "over"
  /\ UNCHANGED <<fields, cancelled, err, outcome, output, wait>>

\* The panic that nothing recovers ends the process.
Crash ==
  /\ routine = "panicking"
  /\ routine' = "crashed"
  /\ UNCHANGED <<fields, cancelled, done, err, outcome, output, wait>>

-----------------------------------------------------------------------------
(* The reader of the pipe, a goroutine of the embedding program.           *)

Read ==
  /\ Alive /\ reader = "reading" /\ pipe = "full"
  /\ pipe' = "empty"
  /\ UNCHANGED <<fields, cancelled, cmd, closes, written, usage, reader,
                 wait>>

ReadEOF ==
  /\ Alive /\ reader = "reading" /\ pipe = "empty" /\ closes["pipe"] > 0
  /\ reader' = "eof"
  /\ UNCHANGED <<fields, cancelled, cmd, closes, written, usage, pipe, wait>>

\* It may also close its end, which ends a pending write with an error.
ReaderLeaves ==
  /\ Alive /\ reader = "reading"
  /\ reader' = "gone"
  /\ pipe' = "empty"
  /\ UNCHANGED <<fields, cancelled, cmd, closes, written, usage, wait>>

Routine ==
  \/ ScanCancelled \/ ParseFlags \/ Write \/ ScanReturns
  \/ CloseStdout \/ CloseStderr \/ CloseDone \/ Crash
Reader == Read \/ ReadEOF

Next ==
  \/ Start \/ StartRefused \/ Run \/ Cancel
  \/ \E c \in Caller : Wait(c) \/ WaitReturns(c)
  \/ Routine \/ Reader \/ ReaderLeaves

Spec == Init /\ [][Next]_vars

-----------------------------------------------------------------------------
(***************************************************************************)
(* The variables stay in their types.                                      *)
(***************************************************************************)
TypeOK ==
  /\ Args \in ArgsCase /\ Stdout \in Stream /\ Stderr \in Stream
  /\ cancelled \in BOOLEAN
  /\ done \in {"nil", "open", "closed"}
  /\ err \in Error
  /\ routine \in {"none", "entry", "scan", "closeStdout", "closeStderr",
                  "closeDone", "panicking", "over", "crashed"}
  /\ outcome \in Outcome \cup Error \cup {"none", "panic"}
  /\ closes \in [Stream -> 0 .. 2]
  /\ written \in 0 .. MaxWrites
  /\ usage \in SUBSET Stream
  /\ pipe \in {"empty", "full"}
  /\ reader \in {"reading", "gone", "eof"}
  /\ wait \in [Caller -> Error \cup {"none", "waiting", "stuck", "refused"}]

(***************************************************************************)
(* What Wait and Run return is what the scan ended with: err is written    *)
(* before the channel is closed, and by nobody else, so no caller reads an *)
(* err that the scan has still to write.  A scan that panicked writes      *)
(* none: a Wait that returns before the process crashes returns nil.       *)
(***************************************************************************)
WaitFaithful ==
  \A c \in Caller : wait[c] \in Error => outcome \in {wait[c], "panic"}

(***************************************************************************)
(* When a Wait or Run has returned, the streams the embedding program made *)
(* are closed, so that their readers have seen or will see the end ("Wait  *)
(* releases any resources associated with the Cmd").  A stream of the      *)
(* process stays open, unless it was given for the other one: each field   *)
(* is compared with its own default only.                                  *)
(***************************************************************************)
StreamsReleased ==
  /\ \A c \in Caller : wait[c] \in Error =>
       \A s \in {Stdout, Stderr} \cap Own : closes[s] > 0
  /\ closes["osStdout"] > 0 => Stderr = "osStdout"
  /\ closes["osStderr"] > 0 => Stdout = "osStderr"

(***************************************************************************)
(* The scan never writes to a stream that was closed.                      *)
(***************************************************************************)
NoWriteAfterClose == [][written' # written => closes[Stdout] = 0]_vars

(***************************************************************************)
(* A caller that waits for a started command is answered, however the scan *)
(* ends, provided the reader of the pipe reads on or leaves; or the scan   *)
(* panicked, and the panic is not swallowed: it crashes the process.  No   *)
(* wait for the builder, the pipe or the context lasts for ever.           *)
(***************************************************************************)
Answered ==
  \A c \in Caller :
    wait[c] = "waiting" ~> IF outcome = "panic" THEN routine = "crashed"
                                                ELSE wait[c] \in Error

(***************************************************************************)
(* The reader of a pipe given as Stdout sees its end, however the scan     *)
(* ends, unless it leaves or the process crashes.                          *)
(***************************************************************************)
ReaderEnds ==
  (Stdout = "pipe" /\ done = "open") ~> (reader # "reading" \/ routine = "crashed")

\* The state of the contract.  A Cmd that panicked has crashed, even while its
\* process lives on for a moment.
phase  == CASE routine = "none" -> "created"
            [] done = "closed" /\ outcome # "panic" -> "exited"
            [] done = "closed" /\ outcome = "panic" -> "crashed"
            [] OTHER -> "running"
result == IF done = "closed" /\ outcome # "panic" THEN err ELSE "none"
answer == [c \in Caller |-> IF wait[c] \in {"waiting", "stuck"} THEN "none"
                                                                ELSE wait[c]]

Contract == INSTANCE CmdContract WITH Outcome <- Error

(***************************************************************************)
(* A Cmd keeps the promise of CmdContract: one scan, one outcome, the same *)
(* answer to everyone that waits, and no answer before the end.            *)
(***************************************************************************)
ImplementsContract == Contract!Spec

-----------------------------------------------------------------------------
(* The inductive invariant for WaitFaithful, StreamsReleased and the       *)
(* refinement.                                                             *)

Deferred == {"closeStdout", "closeStderr", "closeDone"}
Ended    == {"panicking", "over", "crashed"}

\* The channel, the goroutine, the outcome and err go together.
Phases ==
  /\ done = "nil" <=> routine = "none"
  /\ done = "closed" <=> routine \in Ended
  /\ outcome # "none" <=> routine \in Deferred \cup Ended
  /\ outcome \in Error => err = outcome
  /\ \A c \in Caller : wait[c] \in Error => done = "closed" /\ wait[c] = err
  /\ \A c \in Caller : wait[c] \in {"waiting", "refused"} => done # "nil"

\* What the deferred calls have closed so far.
Closes ==
  /\ done # "nil" => Stdout # "unset" /\ Stderr # "unset"
  /\ closes["osStdout"] > 0 => Stderr = "osStdout"
  /\ closes["osStderr"] > 0 => Stdout = "osStderr"
  /\ routine \in {"none", "entry", "scan", "closeStdout"}
       => \A s \in Stream : closes[s] = 0
  /\ routine = "closeStderr" => \A s \in Stream : closes[s] <= 1
  /\ routine \in {"closeStderr", "closeDone"} \cup Ended /\ Stdout \in Own
       => closes[Stdout] > 0
  /\ routine \in {"closeDone"} \cup Ended /\ Stderr \in Own
       => closes[Stderr] > 0

CmdInv == TypeOK /\ Phases /\ Closes

=============================================================================
