--------------------------- MODULE MCSourceCalls ---------------------------
(***************************************************************************)
(* The slice is taken of every call graph over three functions, recursive  *)
(* functions included, with every set of entry points, and two symbols, so *)
(* that two functions can share one.  The searches go on where the slice   *)
(* leaves nothing out, with at most four calls: a second way, a detour     *)
(* over the other vulnerable symbol and a cycle fit in.  Four functions    *)
(* with four calls, which a search that is not breadth first needs to      *)
(* prefer a detour, have one vulnerable function and one entry point; the  *)
(* entries of a search do not depend on each other.                        *)
(***************************************************************************)
EXTENDS SourceCalls, FiniteSets, FiniteSetsExt

CONSTANTS f1, f2, f3, f4, s1, s2, g1, g2

MCFunc   == {f1, f2, f3, f4}
MCSymbol == {s1, s2}
MCGroup  == {g1, g2}

\* Up to the names of the functions and symbols.
Labels == {<<s1, None, None>>, <<s1, s1, None>>, <<s1, s2, None>>,
           <<s1, s1, s1>>, <<s1, s1, s2>>}
Three ==
  /\ calls \in SUBSET ({f1, f2, f3} \X {f1, f2, f3})
  /\ sources \in SUBSET {f1, f2, f3}
  /\ \E l \in Labels :
       symbolOf = [f \in Func |-> CASE f = f1 -> l[1] [] f = f2 -> l[2]
                                    [] f = f3 -> l[3] [] OTHER -> None]
Four ==
  /\ calls \in UNION {kSubset(n, (Func \ {f1}) \X (Func \ {f4})) : n \in 1 .. 4}
  /\ sources = {f4}
  /\ symbolOf = [f \in Func |-> IF f = f1 THEN s1 ELSE None]

MCInit == (Three \/ Four) /\ SourceInit

WholeGraph == CallSites = calls /\ Entries = sources /\ Cardinality(calls) <= 4

MCNext ==
  \/ SliceStep \/ WitnessStep \/ Finished
  \/ WholeGraph /\ \E g \in Group : Launch([s \in Symbol |-> IF s = s1 THEN g1 ELSE g])
  \/ phase = "done" /\ ~WholeGraph /\ UNCHANGED allVars
MCSpec == MCInit /\ [][MCNext]_allVars
=============================================================================
