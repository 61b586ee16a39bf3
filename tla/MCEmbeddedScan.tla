-------------------------- MODULE MCEmbeddedScan --------------------------
(***************************************************************************)
(* One goroutine that starts the command and may wait, one that waits, and *)
(* a program of one module.  Every invocation, with any two streams, of a  *)
(* scan that would find a vulnerability; and every scan, with the streams  *)
(* that make a difference to it.  ImportsOnly and the database over HTTP   *)
(* are left to the run of Govulncheck.                                     *)
(***************************************************************************)
EXTENDS EmbeddedScan

CONSTANTS owner, w1, m1

MCCaller  == {owner, w1}
MCModule  == {m1}
MCArgs    == {"empty", "bad", "ok"}
MCOutcome == {"nil", "failed", "vulns", "panic"}

Invocations == ~json /\ analysis = "binary" /\ called = Module
Scans == Args = "ok" /\ Stderr = "unset" /\ Stdout \in {"unset", "pipe"}

MCInit ==
  /\ ProgramInit
  /\ ~ImportsOnly /\ ~remote
  /\ Invocations \/ Scans

MCSpec == MCInit /\ [][ProgramNext]_programVars
MCFairSpec == MCSpec /\ ProgramFairness
=============================================================================
