---------------------------- MODULE CmdContract ----------------------------
(***************************************************************************)
(* What scan.Cmd promises to the program that embeds govulncheck, after    *)
(* the comments of Start, Wait and Run in src/internal/scan/scan.go: the   *)
(* command is started at most once, the scan ends with one outcome, and    *)
(* every Wait returns that outcome, after the end of the scan.  A program  *)
(* whose scan panics crashes; in the moment before, a Wait may still       *)
(* return, with anything.                                                  *)
(***************************************************************************)
CONSTANTS
  Caller,   \* the goroutines of the embedding program
  Outcome   \* what a scan can return

VARIABLES
  phase,    \* "created", "running", "exited" or "crashed"
  result,   \* the outcome of the scan, "none" before it
  answer    \* answer[c]: what a call of c returned, "none" before it

vars == <<phase, result, answer>>

Init ==
  /\ phase = "created"
  /\ result = "none"
  /\ answer = [c \in Caller |-> "none"]

\* The first Start, or the first half of the first Run.
Start ==
  /\ phase = "created"
  /\ phase' = "running"
  /\ UNCHANGED <<result, answer>>

\* A later Start or Run is refused.
Refuse(c) ==
  /\ phase # "created" /\ answer[c] = "none"
  /\ answer' = [answer EXCEPT ![c] = "refused"]
  /\ UNCHANGED <<phase, result>>

Finish ==
  /\ phase = "running"
  /\ phase' = "exited"
  /\ result' \in Outcome
  /\ UNCHANGED answer

Answer(c) ==
  /\ phase = "exited" /\ answer[c] = "none"
  /\ answer' = [answer EXCEPT ![c] = result]
  /\ UNCHANGED <<phase, result>>

Crash ==
  /\ phase = "running"
  /\ phase' = "crashed"
  /\ UNCHANGED <<result, answer>>

AnswerInCrash(c) ==
  /\ phase = "crashed" /\ answer[c] = "none"
  /\ \E out \in Outcome : answer' = [answer EXCEPT ![c] = out]
  /\ UNCHANGED <<phase, result>>

Next ==
  \/ Start \/ Finish \/ Crash
  \/ \E c \in Caller : Refuse(c) \/ Answer(c) \/ AnswerInCrash(c)

Spec == Init /\ [][Next]_vars
=============================================================================
