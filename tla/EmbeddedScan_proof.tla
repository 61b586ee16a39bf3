------------------------ MODULE EmbeddedScan_proof ------------------------
(***************************************************************************)
(* Theorems about the command, for any callers and writes, and about the   *)
(* whole program, for any callers and modules: each of its two components  *)
(* runs by its own specification, so that what is proved of them holds in  *)
(* the program, and a caller that is told of success has a complete report.*)
(***************************************************************************)
EXTENDS EmbeddedScan, TLAPS

-----------------------------------------------------------------------------
(* The command.                                                            *)

LEMMA InitInv == Init => CmdInv
<1> SUFFICES ASSUME Init PROVE CmdInv
  OBVIOUS
<1> USE DEF Init
<1>1. TypeOK
  <2>1. closes \in [Stream -> 0 .. 2]
    OBVIOUS
  <2>2. wait \in [Caller -> Error \cup {"none", "waiting", "stuck", "refused"}]
    OBVIOUS
  <2>3. written \in 0 .. MaxWrites
    BY MaxWritesAssumption
  <2> QED BY <2>1, <2>2, <2>3 DEF TypeOK, Error
<1>2. Phases
  BY DEF Phases, Deferred, Ended, Error
<1>3. Closes
  BY DEF Closes, Stream, OS, Own, Ended
<1> QED BY <1>1, <1>2, <1>3 DEF CmdInv

\* The step of the goroutine that ends the scan, shared by three actions.
LEMMA ScanEndsInv ==
  ASSUME CmdInv, routine \in {"entry", "scan"},
         NEW o \in Outcome \cup {"failed", "panic"}, ScanEnds(o),
         usage' \in {usage, {"osStderr"}},
         UNCHANGED <<fields, cancelled, done, closes, written, pipe, reader, wait>>
  PROVE  CmdInv'
<1>1. o \in Error \cup {"panic"}
  BY OutcomeAssumption DEF Error
<1>2. TypeOK'
  BY <1>1 DEF CmdInv, TypeOK, ScanEnds, fields, Error, Stream, OS
<1>3. Phases'
  BY <1>1 DEF CmdInv, Phases, ScanEnds, Error, Deferred, Ended
<1>4. Closes'
  BY DEF CmdInv, Closes, ScanEnds, fields, Ended
<1> QED BY <1>2, <1>3, <1>4 DEF CmdInv

LEMMA StepInv == CmdInv /\ [Next]_vars => CmdInv'
<1> SUFFICES ASSUME CmdInv, [Next]_vars PROVE CmdInv'
  OBVIOUS
<1> USE DEF CmdInv
<1>1. ASSUME Launch, \/ UNCHANGED wait
                     \/ wait' = [wait EXCEPT ![Owner] = "waiting"]
      PROVE  CmdInv'
  <2>1. TypeOK'
    BY <1>1, OwnerAssumption DEF TypeOK, Launch, Go, Stream, OS
  <2>2. Phases'
    BY <1>1 DEF TypeOK, Phases, Launch, Go, Error, Deferred, Ended
  <2>3. Closes'
    BY <1>1 DEF TypeOK, Phases, Closes, Launch, Go, Stream, Own, Ended
  <2> QED BY <2>1, <2>2, <2>3
<1>2. CASE Start
  BY <1>1, <1>2 DEF Start
<1>3. CASE Run
  BY <1>1, <1>3 DEF Run
<1>4. CASE StartRefused
  BY <1>4, OwnerAssumption DEF StartRefused, TypeOK, Phases, Closes, fields,
     cmd, output, Error
<1>5. ASSUME NEW c \in Caller, Wait(c) PROVE CmdInv'
  BY <1>5 DEF Wait, TypeOK, Phases, Closes, fields, cmd, output, Error
<1>6. ASSUME NEW c \in Caller, WaitReturns(c) PROVE CmdInv'
  BY <1>6 DEF WaitReturns, TypeOK, Phases, Closes, fields, cmd, output, Error
<1>7. CASE Cancel
  BY <1>7 DEF Cancel, TypeOK, Phases, Closes, fields, cmd, output
<1>8. CASE ScanCancelled
  BY <1>8, ScanEndsInv DEF ScanCancelled, output
<1>9. CASE ParseFlags
  <2>1. CASE Args = "ok" /\ routine' = "scan" /\ UNCHANGED <<err, outcome, usage>>
    BY <1>9, <2>1 DEF ParseFlags, TypeOK, Phases, Closes, fields, Deferred, Ended
  <2>2. CASE ScanEnds("panic") /\ UNCHANGED usage
    BY <1>9, <2>2, ScanEndsInv DEF ParseFlags
  <2>3. CASE ScanEnds("failed") /\ usage' = {"osStderr"}
    BY <1>9, <2>3, ScanEndsInv DEF ParseFlags
  <2> QED BY <1>9, <2>1, <2>2, <2>3 DEF ParseFlags
<1>10. CASE Write
  BY <1>10, MaxWritesAssumption
     DEF Write, TypeOK, Phases, Closes, fields, cmd
<1>11. CASE ScanReturns
  BY <1>11, ScanEndsInv DEF ScanReturns, output
<1>12. CASE CloseStdout
  <2>1. TypeOK'
    BY <1>12 DEF CloseStdout, TypeOK, Closes, fields
  <2>2. Phases'
    BY <1>12 DEF CloseStdout, Phases, Deferred, Ended
  <2>3. Closes'
    BY <1>12 DEF CloseStdout, TypeOK, Closes, fields, Stream, OS, Own, Ended
  <2> QED BY <2>1, <2>2, <2>3
<1>13. CASE CloseStderr
  <2>1. TypeOK'
    BY <1>13 DEF CloseStderr, TypeOK, Closes, fields
  <2>2. Phases'
    BY <1>13 DEF CloseStderr, Phases, Deferred, Ended
  <2>3. Closes'
    BY <1>13 DEF CloseStderr, TypeOK, Closes, fields, Stream, OS, Own, Ended
  <2> QED BY <2>1, <2>2, <2>3
<1>14. CASE CloseDone
  BY <1>14 DEF CloseDone, TypeOK, Phases, Closes, fields, output, Deferred, Ended
<1>15. CASE Crash
  BY <1>15 DEF Crash, TypeOK, Phases, Closes, fields, output, Deferred, Ended
<1>16. CASE Reader \/ ReaderLeaves
  BY <1>16 DEF Reader, Read, ReadEOF, ReaderLeaves, TypeOK, Phases, Closes,
     fields, cmd
<1>17. CASE UNCHANGED vars
  BY <1>17 DEF vars, TypeOK, Phases, Closes, fields, cmd, output
<1> QED BY <1>2, <1>3, <1>4, <1>5, <1>6, <1>7, <1>8, <1>9, <1>10, <1>11, <1>12,
           <1>13, <1>14, <1>15, <1>16, <1>17 DEF Next, Routine

LEMMA CmdInvCorrect == Spec => []CmdInv
BY InitInv, StepInv, PTL DEF Spec

(***************************************************************************)
(* The fields, the channel, the pipe and the callers keep their types,     *)
(* however many goroutines call Start, Wait and Run.                       *)
(***************************************************************************)
THEOREM CmdTypeCorrect == Spec => []TypeOK
<1>1. CmdInv => TypeOK
  BY DEF CmdInv
<1> QED BY <1>1, CmdInvCorrect, PTL

(***************************************************************************)
(* When Wait or Run has returned, the streams of the embedding program are *)
(* closed, also after a scan that panicked.                                *)
(***************************************************************************)
THEOREM StreamsCorrect == Spec => []StreamsReleased
<1>1. CmdInv => StreamsReleased
  BY DEF CmdInv, TypeOK, Phases, Closes, StreamsReleased, Stream, Own, Ended
<1> QED BY <1>1, CmdInvCorrect, PTL

(***************************************************************************)
(* The scan never writes to its Stdout once that has been closed.          *)
(***************************************************************************)
THEOREM WritesBeforeClose == Spec => NoWriteAfterClose
<1>1. CmdInv /\ [Next]_vars => [written' # written => closes[Stdout] = 0]_vars
  <2> SUFFICES ASSUME CmdInv, Next, written' # written
               PROVE  closes[Stdout] = 0
    BY DEF vars, output
  <2>1. Write
    BY DEF Next, Start, Run, Launch, Go, StartRefused, Cancel, Wait, WaitReturns,
           Routine, ScanCancelled, ParseFlags, ScanReturns, CloseStdout,
           CloseStderr, CloseDone, Crash, Reader, Read, ReadEOF, ReaderLeaves,
           output
  <2> QED BY <2>1 DEF CmdInv, TypeOK, Closes, Write
<1> QED BY <1>1, CmdInvCorrect, PTL DEF Spec, NoWriteAfterClose

(***************************************************************************)
(* Wait and Run return what the scan ended with, unless it panicked.       *)
(***************************************************************************)
THEOREM WaitCorrect == Spec => []WaitFaithful
<1>1. CmdInv => WaitFaithful
  BY OutcomeAssumption
     DEF CmdInv, TypeOK, Phases, WaitFaithful, Error, Ended
<1> QED BY <1>1, CmdInvCorrect, PTL

-----------------------------------------------------------------------------
(* ScanCmd implements CmdContract.                                         *)

LEMMA ContractInit == Init => Contract!Init
<1> SUFFICES ASSUME Init PROVE Contract!Init
  OBVIOUS
<1> USE DEF Init
<1>1. phase = "created" /\ result = "none"
  BY DEF phase, result
<1>2. answer = [c \in Caller |-> "none"]
  BY DEF answer
<1> QED BY <1>1, <1>2 DEF Contract!Init

\* The steps that the contract does not see.
LEMMA Unseen ==
  ASSUME routine # "none", routine' # "none", done' = done, wait' = wait,
         done = "closed" => err' = err /\ outcome' = outcome
  PROVE  UNCHANGED Contract!vars
<1>1. UNCHANGED phase
  BY DEF phase
<1>2. UNCHANGED result
  BY DEF result
<1>3. UNCHANGED answer
  BY DEF answer
<1> QED BY <1>1, <1>2, <1>3 DEF Contract!vars

LEMMA ContractStep ==
  ASSUME CmdInv, [Next]_vars
  PROVE  [Contract!Next]_(Contract!vars)
<1> USE DEF CmdInv
<1>1. ASSUME Launch, UNCHANGED answer PROVE Contract!Next
  <2>1. phase = "created" /\ phase' = "running"
    BY <1>1 DEF Launch, Go, Phases, phase
  <2>2. UNCHANGED result
    BY <1>1 DEF Launch, Go, result
  <2> QED BY <1>1, <2>1, <2>2 DEF Contract!Start, Contract!Next
<1>2. CASE Start
  <2>1. Launch /\ UNCHANGED answer
    BY <1>2 DEF Start, answer
  <2> QED BY <1>1, <2>1
<1>3. CASE Run
  <2>1. UNCHANGED answer
    BY <1>3 DEF Run, TypeOK, answer
  <2> QED BY <1>1, <1>3, <2>1 DEF Run
<1>4. CASE StartRefused
  <2>1. phase # "created" /\ UNCHANGED <<phase, result>>
    BY <1>4 DEF StartRefused, cmd, Phases, phase, result
  <2>2. answer[Owner] = "none" /\ answer' = [answer EXCEPT ![Owner] = "refused"]
    BY <1>4, OwnerAssumption DEF StartRefused, TypeOK, answer
  <2> QED BY <2>1, <2>2, OwnerAssumption DEF Contract!Refuse, Contract!Next
<1>5. ASSUME NEW c \in Caller, Wait(c) PROVE UNCHANGED Contract!vars
  <2>1. UNCHANGED <<phase, result>>
    BY <1>5 DEF Wait, cmd, phase, result
  <2>2. UNCHANGED answer
    BY <1>5 DEF Wait, TypeOK, answer
  <2> QED BY <2>1, <2>2 DEF Contract!vars
<1>6. ASSUME NEW c \in Caller, WaitReturns(c)
      PROVE  Contract!Answer(c) \/ Contract!AnswerInCrash(c)
  <2>1. UNCHANGED <<phase, result>>
    BY <1>6 DEF WaitReturns, cmd, phase, result
  <2>2. /\ answer[c] = "none" /\ answer' = [answer EXCEPT ![c] = err]
        /\ err \in Error
    BY <1>6 DEF WaitReturns, TypeOK, Error, answer
  <2>3. CASE outcome = "panic"
    <3>1. phase = "crashed"
      BY <1>6, <2>3 DEF WaitReturns, Phases, phase
    <3> QED BY <2>1, <2>2, <3>1 DEF Contract!AnswerInCrash
  <2>4. CASE outcome # "panic"
    <3>1. phase = "exited" /\ result = err
      BY <1>6, <2>4 DEF WaitReturns, Phases, phase, result
    <3> QED BY <2>1, <2>2, <3>1 DEF Contract!Answer
  <2> QED BY <2>3, <2>4
<1>7. CASE CloseDone
  <2>1. phase = "running" /\ UNCHANGED answer
    BY <1>7 DEF CloseDone, Phases, Ended, phase, answer
  <2>2. CASE outcome = "panic"
    <3>1. phase' = "crashed" /\ UNCHANGED result
      BY <1>7, <2>2 DEF CloseDone, Phases, Ended, phase, result
    <3> QED BY <2>1, <3>1 DEF Contract!Crash, Contract!Next
  <2>3. CASE outcome # "panic"
    <3>1. phase' = "exited" /\ result' \in Error
      BY <1>7, <2>3 DEF CloseDone, TypeOK, phase, result
    <3> QED BY <2>1, <3>1 DEF Contract!Finish, Contract!Next
  <2> QED BY <2>2, <2>3
<1>8. CASE ScanCancelled \/ ParseFlags \/ Write \/ ScanReturns
  <2>1. /\ routine \in {"entry", "scan"} /\ routine' # "none"
        /\ done' = done /\ wait' = wait
    BY <1>8 DEF ScanCancelled, ParseFlags, Write, ScanReturns, ScanEnds, cmd
  <2>2. done # "closed"
    BY <2>1 DEF Phases, Ended
  <2> QED BY <2>1, <2>2, Unseen
<1>9. CASE CloseStdout \/ CloseStderr
  <2>1. /\ routine # "none" /\ routine' # "none"
        /\ UNCHANGED <<done, wait, err, outcome>>
    BY <1>9 DEF CloseStdout, CloseStderr
  <2> QED BY <2>1, Unseen
<1>10. CASE Crash
  <2>1. routine # "none" /\ routine' # "none" /\ UNCHANGED <<done, wait, err, outcome>>
    BY <1>10 DEF Crash
  <2> QED BY <2>1, Unseen
<1>11. CASE Cancel \/ Reader \/ ReaderLeaves \/ UNCHANGED vars
  <2>1. UNCHANGED <<done, err, routine, outcome, wait>>
    BY <1>11 DEF Cancel, Reader, Read, ReadEOF, ReaderLeaves, vars, cmd
  <2> QED BY <2>1 DEF phase, result, answer, Contract!vars
<1> QED
  BY <1>2, <1>3, <1>4, <1>5, <1>6, <1>7, <1>8, <1>9, <1>10, <1>11
  DEF Next, Routine, Contract!Next

(***************************************************************************)
(* Start, Wait and Run keep the promise of CmdContract: the command runs   *)
(* once and ends once, and whoever waits gets the outcome, the same for    *)
(* everyone, after the end; or the process crashes.                        *)
(***************************************************************************)
THEOREM ContractImplemented == Spec => ImplementsContract
<1>1. Init => Contract!Init
  BY ContractInit
<1>2. CmdInv /\ [Next]_vars => [Contract!Next]_(Contract!vars)
  BY ContractStep
<1> QED
  BY <1>1, <1>2, CmdInvCorrect, PTL DEF Spec, ImplementsContract, Contract!Spec

-----------------------------------------------------------------------------
(* The command and the scan together.                                      *)

\* The theorems about the scan.
GP == INSTANCE Govulncheck_proof WITH result <- vr

\* Every step of the program is a step of the Cmd or none, and of the scan.
LEMMA ComponentStep ==
  ASSUME [ProgramNext]_programVars
  PROVE  [Next]_vars /\ [G!Next]_(G!vars)
<1> USE DEF cmdVars, scanVars, fields, cmd, output
<1>1. UNCHANGED <<cmdVars, cancelled>> => UNCHANGED vars
  BY DEF vars, fields, cmd, output
<1>2. UNCHANGED <<scanVars, cancelled>> => UNCHANGED G!vars
  BY DEF G!vars, G!input, G!source, G!build, G!report
<1>3. CASE Embedder \/ ReaderStep \/ LeaveStep \/ Around
  <2>1. Next
    BY <1>3 DEF Embedder, ReaderStep, LeaveStep, Around, Next, Routine
  <2>2. UNCHANGED cancelled
    BY <1>3 DEF Embedder, ReaderStep, LeaveStep, Around, Start, Launch, Go,
       StartRefused, Run, Wait, WaitReturns, Reader, Read, ReadEOF,
       ReaderLeaves, ScanCancelled, ParseFlags, CloseStdout,
       CloseStderr, CloseDone, Crash
  <2>3. UNCHANGED scanVars
    BY <1>3 DEF Embedder, ReaderStep, LeaveStep, Around
  <2> QED BY <1>2, <2>1, <2>2, <2>3
<1>4. CASE CancelStep
  BY <1>4 DEF CancelStep, Next, G!Next
<1>5. CASE ScanStep
  BY <1>1, <1>5 DEF ScanStep, Next, Routine, G!Next
<1>6. CASE ReturnStep
  <2>1. Next /\ UNCHANGED cancelled
    BY <1>6 DEF ReturnStep, ScanReturns, Next, Routine
  <2> QED BY <1>2, <1>6, <2>1 DEF ReturnStep
<1>7. CASE BuildStep
  BY <1>1, <1>7 DEF BuildStep, G!Next
<1>8. CASE UNCHANGED programVars
  BY <1>1, <1>2, <1>8 DEF programVars
<1> QED BY <1>3, <1>4, <1>5, <1>6, <1>7, <1>8 DEF ProgramNext

(***************************************************************************)
(* The program implements each of its components: what is proved of every  *)
(* Cmd and of every scan holds of those of the program.                    *)
(***************************************************************************)
THEOREM ComponentsImplemented == ProgramSpec => Spec /\ G!Spec
<1>1. ProgramInit => Init /\ G!Init
  BY DEF ProgramInit
<1>2. [ProgramNext]_programVars => [Next]_vars /\ [G!Next]_(G!vars)
  BY ComponentStep
<1> QED BY <1>1, <1>2, PTL DEF ProgramSpec, Spec, G!Spec

\* The same definitions, under the names of the scan and of its theorems.
LEMMA SameScan == (G!ScanInv <=> GP!ScanInv) /\ ([G!Next]_(G!vars) <=> [GP!Next]_(GP!vars))
BY DEF G!input, GP!input, G!source, GP!source, G!build, GP!build, G!report,
   GP!report, G!vars, GP!vars, G!Cancelled, GP!Cancelled, G!Cancel,
   GP!Cancel, G!Goto, GP!Goto, G!Fail, GP!Fail, G!NewClient, GP!NewClient,
   G!WriteConfig, GP!WriteConfig, G!Load, GP!Load, G!WriteProgress,
   GP!WriteProgress, G!EarlyFailure, GP!EarlyFailure, G!Setup, GP!Setup,
   G!FetchModule, GP!FetchModule, G!LeaveSource, GP!LeaveSource,
   G!FetchFails, GP!FetchFails, G!Fetched, GP!Fetched, G!ReturnResult,
   GP!ReturnResult, G!BinaryResult, GP!BinaryResult, G!EarlyReturn,
   GP!EarlyReturn, G!Join, GP!Join, G!BuildFailed, GP!BuildFailed,
   G!ConvertNil, GP!ConvertNil, G!SourceResult, GP!SourceResult,
   G!EmitVuln, GP!EmitVuln, G!EmitFails, GP!EmitFails, G!FlushFails,
   GP!FlushFails, G!Finish, GP!Finish, G!BuildSSA, GP!BuildSSA,
   G!BuildStep, GP!BuildStep, G!Scan, GP!Scan, G!Builder, GP!Builder,
   G!Terminated, GP!Terminated, G!Next, GP!Next, G!Affecting,
   GP!Affecting, G!ReportExact, GP!ReportExact, G!NoSelfCancel,
   GP!NoSelfCancel, G!Before, GP!Before, G!TypeOK, GP!TypeOK, G!Steps,
   GP!Steps, G!Fetching, GP!Fetching, G!Building, GP!Building,
   G!Reporting, GP!Reporting, G!ScanInv, GP!ScanInv

LEMMA ProgramInitInv == ProgramInit => EmbeddedInv
<1> SUFFICES ASSUME ProgramInit PROVE EmbeddedInv
  OBVIOUS
<1>1. CmdInv
  BY InitInv DEF ProgramInit
<1>2. GP!ScanInv
  BY GP!InitInv, MessageAssumption DEF ProgramInit, G!Init, GP!Init
<1>3. Coupled
  BY DEF ProgramInit, Init, Coupled
<1> QED BY <1>1, <1>2, <1>3, SameScan DEF EmbeddedInv

\* The outcome of the Cmd changes only at the end of its scan, from "none".
LEMMA CoupledStep ==
  ASSUME EmbeddedInv, [ProgramNext]_programVars
  PROVE  Coupled'
<1> USE DEF Coupled, scanVars
<1>1. CASE Embedder \/ ReaderStep \/ LeaveStep \/ CancelStep \/ UNCHANGED programVars
  <2>1. UNCHANGED outcome
    BY <1>1 DEF Embedder, ReaderStep, LeaveStep, CancelStep, programVars, cmdVars, Start,
       Launch, Go, StartRefused, Run, Wait, WaitReturns, Reader,
       Read, ReadEOF, ReaderLeaves, Cancel, cmd
  <2>2. UNCHANGED ret
    BY <1>1 DEF Embedder, ReaderStep, LeaveStep, CancelStep, programVars, G!Cancel
  <2> QED BY <2>1, <2>2 DEF EmbeddedInv
<1>2. CASE Around
  <2>1. outcome' = outcome \/ outcome' \in {"failed", "panic"}
    BY <1>2 DEF Around, ScanCancelled, ParseFlags, ScanEnds, CloseStdout,
       CloseStderr, CloseDone, Crash
  <2> QED BY <1>2, <2>1 DEF Around, EmbeddedInv
<1>3. CASE ScanStep
  <2>1. outcome = "none"
    BY <1>3 DEF ScanStep, EmbeddedInv, CmdInv, Phases, Deferred, Ended
  <2>2. UNCHANGED outcome
    BY <1>3 DEF ScanStep, Write, cmd, cmdVars
  <2> QED BY <2>1, <2>2
<1>4. CASE ReturnStep
  BY <1>4 DEF ReturnStep
<1>5. CASE BuildStep
  BY <1>5 DEF BuildStep, G!Builder, G!BuildSSA, G!BuildStep, cmdVars, cmd, EmbeddedInv
<1> QED BY <1>1, <1>2, <1>3, <1>4, <1>5 DEF ProgramNext

LEMMA ProgramStepInv == EmbeddedInv /\ [ProgramNext]_programVars => EmbeddedInv'
<1> SUFFICES ASSUME EmbeddedInv, [ProgramNext]_programVars PROVE EmbeddedInv'
  OBVIOUS
<1>1. [Next]_vars /\ [G!Next]_(G!vars)
  BY ComponentStep
<1>2. CmdInv'
  BY <1>1, StepInv DEF EmbeddedInv
<1>3. GP!ScanInv'
  <2>1. GP!ScanInv /\ [GP!Next]_(GP!vars)
    BY <1>1, SameScan DEF EmbeddedInv
  <2> QED BY <2>1, GP!StepInv, MessageAssumption
<1>4. (G!ScanInv <=> GP!ScanInv)'
  BY SameScan, PTL
<1> QED BY <1>2, <1>3, <1>4, CoupledStep DEF EmbeddedInv

LEMMA EmbeddedInvCorrect == ProgramSpec => []EmbeddedInv
BY ProgramInitInv, ProgramStepInv, PTL DEF ProgramSpec

(***************************************************************************)
(* A caller that is told of success, or of vulnerabilities, has a complete *)
(* report, and in text mode is told the right one of the two, for any      *)
(* number of callers, writes and modules, unless the scan panicked.        *)
(***************************************************************************)
THEOREM AnswerCorrect == ProgramSpec => []AnswerExact
<1>1. EmbeddedInv => AnswerExact
  <2> SUFFICES ASSUME EmbeddedInv, NEW c \in Caller,
                      wait[c] \in {"nil", "vulns"}, outcome # "panic"
               PROVE  /\ out \cap Module = imported
                      /\ ~json => (wait[c] = "vulns" <=> G!Affecting # {})
    BY DEF AnswerExact
  <2>1. err = wait[c] /\ outcome # "none"
    BY DEF EmbeddedInv, CmdInv, Phases, Error, Ended
  <2>2. outcome = wait[c]
    BY <2>1, EndAssumption DEF EmbeddedInv, CmdInv, TypeOK, Phases, Error
  <2>3. ret = wait[c]
    BY <2>2 DEF EmbeddedInv, Coupled
  <2> QED BY <2>3 DEF EmbeddedInv, G!ScanInv, G!Reporting, G!ReportExact
<1> QED BY <1>1, EmbeddedInvCorrect, PTL
=============================================================================
