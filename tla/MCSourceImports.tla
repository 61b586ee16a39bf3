-------------------------- MODULE MCSourceImports --------------------------
(***************************************************************************)
(* Four packages, every import graph without a cycle over them (up to the  *)
(* names of the packages), every set of vulnerable packages and every set  *)
(* of top level packages.  Programs whose slice is the first three go on   *)
(* to the requires slice, with three modules besides the standard library  *)
(* (two can require each other through their packages) and up to one       *)
(* replacement.                                                            *)
(***************************************************************************)
EXTENDS SourceImports, TLC

CONSTANTS p1, p2, p3, p4, m1, m2, m3

MCPackage == {p1, p2, p3, p4}

\* An acyclic graph can always be numbered such that imports go down.
MCLevel == p1 :> 1 @@ p2 :> 2 @@ p3 :> 3 @@ p4 :> 4

MCModule == {m1, m2, m3, Std}

Three ==
  /\ {p \in Package : OnSlice(p)} = {p1, p2, p3}
  /\ p4 \notin vulnerable \cup tops /\ imports[p4] = {}

\* Up to the names of the modules: a new one is the first that is not in use.
\* The requires slice does not look at p4.
Mods ==
  {mods \in [Package -> MCModule \cup {None}] :
     /\ mods[p4] = Std
     /\ mods[p1] \notin {m2, m3}
     /\ mods[p2] = m2 => mods[p1] = m1
     /\ mods[p2] # m3
     /\ mods[p3] = m2 => m1 \in {mods[p1], mods[p2]}
     /\ mods[p3] = m3 => m2 = mods[p2]}

NoReplace == [m \in MCModule |-> None]
Repls == {NoReplace} \cup
         {[NoReplace EXCEPT ![m] = r] : m, r \in {m1, m2, m3}}

MCNext ==
  \/ ImportStep \/ RequireStep \/ Ended
  \/ Done /\ ~Three /\ UNCHANGED allVars
  \/ Three /\ \E mods \in Mods, repl \in Repls : Load(mods, repl)
MCSpec == SourceInit /\ [][MCNext]_allVars
=============================================================================
