------------------------- MODULE SourceCalls_proof -------------------------
(***************************************************************************)
(* Theorems about what a source scan finds to be called, for any call      *)
(* graph, entry points, symbols and groups: the call graph slice is exact, *)
(* and so are the searches for call stacks on top of it.                   *)
(***************************************************************************)
EXTENDS SourceCalls, FiniteSetTheorems, SequenceTheorems, TLAPS

-----------------------------------------------------------------------------
(* Reaching and leading to.                                                *)

LEMMA LeadsBack ==
  ASSUME calls \in SUBSET (Func \X Func)
  PROVE  /\ \A f \in sinks : LeadsToVuln(f)
         /\ \A e \in calls : LeadsToVuln(e[2]) => LeadsToVuln(e[1])
<1>1. \A f \in sinks : LeadsToVuln(f)
  BY DEF LeadsToVuln
<1>2. ASSUME NEW e \in calls, LeadsToVuln(e[2]) PROVE LeadsToVuln(e[1])
  BY <1>2 DEF LeadsToVuln, BackClosed
<1> QED BY <1>1, <1>2

LEMMA ReachedOn ==
  ASSUME calls \in SUBSET (Func \X Func)
  PROVE  /\ \A f \in sources : Reached(f)
         /\ \A e \in calls : Reached(e[1]) => Reached(e[2])
<1>1. \A f \in sources : Reached(f)
  BY DEF Reached
<1>2. ASSUME NEW e \in calls, Reached(e[1]) PROVE Reached(e[2])
  BY <1>2 DEF Reached, ForwClosed
<1> QED BY <1>1, <1>2

\* They depend on the input only.
LEMMA InputKept ==
  ASSUME UNCHANGED input
  PROVE  /\ sinks' = sinks
         /\ \A f : LeadsToVuln(f)' <=> LeadsToVuln(f)
         /\ \A f : Reached(f)' <=> Reached(f)
         /\ Relevant' = Relevant
<1>1. calls' = calls /\ sources' = sources /\ symbolOf' = symbolOf
  BY DEF input
<1>2. sinks' = sinks
  BY <1>1 DEF sinks
<1>3. \A f : (LeadsToVuln(f)' <=> LeadsToVuln(f)) /\ (Reached(f)' <=> Reached(f))
  BY <1>1, <1>2 DEF LeadsToVuln, Reached, BackClosed, ForwClosed
<1>4. Relevant' = Relevant
  BY <1>1, <1>3 DEF Relevant
<1> QED BY <1>2, <1>3, <1>4

-----------------------------------------------------------------------------
(* What a search that is over has found.                                   *)

\* Whatever leads to a vulnerable function was visited: what was is closed.
LEMMA BackwardOver ==
  ASSUME TypeOK, Backward, phase = "backward", toVisit \subseteq visited
  PROVE  bcg = {e \in calls : LeadsToVuln(e[2])}
<1>1. visited \in SUBSET Func /\ visited = toVisit /\ calls \in SUBSET (Func \X Func)
  BY DEF TypeOK
<1>2. /\ toVisit = sinks \cup {e[1] : e \in bcg}
      /\ bcg = {e \in calls : e[2] \in visited}
      /\ \A f \in toVisit : LeadsToVuln(f)
  BY DEF Backward
<1>3. sinks \subseteq visited /\ BackClosed(visited, calls)
  BY <1>1, <1>2 DEF BackClosed
<1>4. \A e \in calls : LeadsToVuln(e[2]) => e[2] \in visited
  BY <1>1, <1>3 DEF LeadsToVuln
<1> QED BY <1>1, <1>2, <1>4

\* Functions that make a call of the first slice, and are reached, were
\* visited: the others, with those visited, are closed.
LEMMA ForwardOver ==
  ASSUME TypeOK, Backward, Forward, phase = "forward", toVisit \subseteq visited
  PROVE  fcg = Relevant
<1>1. visited \in SUBSET Func /\ visited = toVisit /\ calls \in SUBSET (Func \X Func)
      /\ sources \in SUBSET Func
  BY DEF TypeOK
<1>2. bcg = {e \in calls : LeadsToVuln(e[2])}
  BY DEF Backward
<1>3. /\ toVisit = (sources \cap Nodes(bcg)) \cup {e[2] : e \in fcg}
      /\ fcg = {e \in bcg : e[1] \in visited}
      /\ \A f \in toVisit : Reached(f)
  BY DEF Forward, filteredSources
<1> DEFINE S == {f \in Func : (\E e \in bcg : e[1] = f) => f \in visited}
<1>4. sources \subseteq S
  BY <1>1, <1>3 DEF Nodes
<1>5. ASSUME NEW e \in calls, e[1] \in S PROVE e[2] \in S
  <2> SUFFICES ASSUME NEW d \in bcg, d[1] = e[2] PROVE e[2] \in visited
    BY <1>1
  <2>1. LeadsToVuln(e[2])
    BY <1>1, <1>2, LeadsBack
  <2>2. e \in bcg
    BY <1>2, <2>1
  <2>3. e \in fcg
    BY <1>3, <1>5, <2>2
  <2> QED BY <1>1, <1>3, <2>3
<1>6. \A f : Reached(f) => f \in S
  BY <1>4, <1>5 DEF Reached, ForwClosed
<1>7. \A e \in bcg : Reached(e[1]) <=> e[1] \in visited
  BY <1>1, <1>3, <1>6
<1> QED BY <1>2, <1>3, <1>7 DEF Relevant

\* Functions called in the second slice that lead to a vulnerable one were
\* visited.
LEMMA SitesOver ==
  ASSUME TypeOK, Backward, Forward, Sites, phase = "sites", toVisit \subseteq visited
  PROVE  CallSites = fcg
<1>1. visited \in SUBSET Func /\ visited = toVisit /\ calls \in SUBSET (Func \X Func)
      /\ sinks \in SUBSET Func
  BY DEF TypeOK, sinks
<1>2. fcg = Relevant
  BY DEF Forward
<1>3. /\ toVisit = (sinks \cap Nodes(fcg)) \cup {e[1] : e \in CallSites}
      /\ CallSites = {e \in fcg : e[2] \in visited}
  BY DEF Sites, filteredSinks
<1> DEFINE S == {f \in Func : LeadsToVuln(f) /\ ((\E d \in fcg : d[2] = f) => f \in visited)}
<1>4. sinks \subseteq S
  BY <1>1, <1>3, LeadsBack DEF Nodes
<1>5. ASSUME NEW e \in calls, e[2] \in S PROVE e[1] \in S
  <2>1. e[1] \in Func /\ LeadsToVuln(e[1])
    BY <1>1, <1>5, LeadsBack
  <2>2. ASSUME NEW d \in fcg, d[2] = e[1] PROVE e[1] \in visited
    <3>1. Reached(e[1])
      BY <1>1, <1>2, <2>2, ReachedOn DEF Relevant
    <3>2. e \in fcg
      BY <1>2, <1>5, <3>1 DEF Relevant
    <3>3. e \in CallSites
      BY <1>3, <1>5, <3>2
    <3> QED BY <1>1, <1>3, <3>3
  <2> QED BY <2>1, <2>2
<1>6. \A f : LeadsToVuln(f) => f \in S
  BY <1>4, <1>5 DEF LeadsToVuln, BackClosed
<1> QED BY <1>2, <1>3, <1>6 DEF Relevant

-----------------------------------------------------------------------------
(* The three searches keep the invariant.                                  *)

LEMMA SliceInit == Init => SliceInv
<1> SUFFICES ASSUME Init PROVE SliceInv
  OBVIOUS
<1>1. calls \in SUBSET (Func \X Func) /\ sinks \subseteq Func
  BY DEF Init, sinks
<1>2. phase = "backward" /\ visited = {} /\ toVisit = sinks /\ bcg = {} /\ fcg = {}
      /\ CallSites = {}
  BY DEF Init
<1>3. TypeOK
  BY <1>1 DEF Init, TypeOK
<1>4. Backward
  BY <1>1, <1>2, LeadsBack DEF Backward
<1>5. Forward /\ Sites
  BY <1>2 DEF Forward, Sites
<1>6. Sinks
  BY <1>2 DEF Init, Sinks, SinksOf
<1> QED BY <1>3, <1>4, <1>5, <1>6 DEF SliceInv

LEMMA BackwardStep ==
  ASSUME SliceInv, NEW n \in Func, VisitBackward(n)
  PROVE  SliceInv'
<1>1. /\ phase = "backward" /\ phase' = "backward" /\ n \in toVisit
      /\ visited' = visited \cup {n}
      /\ toVisit' = toVisit \cup {e[1] : e \in In(calls, n)}
      /\ bcg' = bcg \cup In(calls, n)
      /\ UNCHANGED <<calls, sources, symbolOf, fcg, CallSink, CallSites>>
      /\ UNCHANGED input
  BY DEF VisitBackward, Visit, input, Calls
<1>2. TypeOK /\ Backward
  BY DEF SliceInv
<1>3. /\ toVisit = sinks \cup {e[1] : e \in bcg}
      /\ bcg = {e \in calls : e[2] \in visited}
      /\ \A f \in toVisit : LeadsToVuln(f)
  BY <1>1, <1>2 DEF Backward
<1>4. /\ \A e \in In(calls, n) : e \in calls /\ e[1] \in Func /\ LeadsToVuln(e[1])
      /\ calls \in SUBSET (Func \X Func)
  BY <1>1, <1>2, <1>3, LeadsBack DEF TypeOK, In
<1>5. TypeOK'
  BY <1>1, <1>2, <1>4 DEF TypeOK
<1>6. Backward'
  <2>1. toVisit' = sinks' \cup {e[1] : e \in bcg'}
    BY <1>1, <1>3, InputKept
  <2>2. bcg' = {e \in calls' : e[2] \in visited'}
    BY <1>1, <1>3 DEF In
  <2>3. \A f \in toVisit' : LeadsToVuln(f)'
    BY <1>1, <1>3, <1>4, InputKept
  <2> QED BY <1>1, <2>1, <2>2, <2>3 DEF Backward
<1>7. Forward' /\ Sites'
  BY <1>1 DEF SliceInv, Forward, Sites
<1>8. Sinks'
  BY <1>1 DEF SliceInv, Sinks, SinksOf
<1> QED BY <1>5, <1>6, <1>7, <1>8 DEF SliceInv

LEMMA EndBackwardStep ==
  ASSUME SliceInv, EndBackward
  PROVE  SliceInv'
<1>1. /\ phase = "backward" /\ phase' = "forward" /\ toVisit \subseteq visited
      /\ visited' = {} /\ toVisit' = filteredSources
      /\ UNCHANGED <<calls, sources, symbolOf, bcg, fcg, CallSink, CallSites>>
      /\ UNCHANGED input
  BY DEF EndBackward, NewSearch, input, Calls
<1>2. TypeOK /\ Backward /\ fcg = {} /\ calls \in SUBSET (Func \X Func)
  BY <1>1 DEF SliceInv, Forward, TypeOK
<1>3. bcg = {e \in calls : LeadsToVuln(e[2])}
  BY <1>1, <1>2, BackwardOver
<1>4. filteredSources \subseteq sources /\ filteredSources' = filteredSources
  BY <1>1 DEF filteredSources
<1>5. TypeOK'
  BY <1>1, <1>2, <1>4 DEF TypeOK
<1>6. Backward'
  BY <1>1, <1>3, InputKept DEF Backward
<1>7. Forward'
  <2>1. \A f \in toVisit' : Reached(f)'
    BY <1>1, <1>2, <1>4, ReachedOn, InputKept
  <2> QED BY <1>1, <1>2, <1>4, <2>1 DEF Forward
<1>8. Sites'
  BY <1>1 DEF SliceInv, Sites
<1>9. Sinks'
  BY <1>1 DEF SliceInv, Sinks, SinksOf
<1> QED BY <1>5, <1>6, <1>7, <1>8, <1>9 DEF SliceInv

LEMMA ForwardStep ==
  ASSUME SliceInv, NEW n \in Func, VisitForward(n)
  PROVE  SliceInv'
<1>1. /\ phase = "forward" /\ phase' = "forward" /\ n \in toVisit
      /\ visited' = visited \cup {n}
      /\ toVisit' = toVisit \cup {e[2] : e \in Out(bcg, n)}
      /\ fcg' = fcg \cup Out(bcg, n)
      /\ UNCHANGED <<calls, sources, symbolOf, bcg, CallSink, CallSites>>
      /\ UNCHANGED input
  BY DEF VisitForward, Visit, input, Calls
<1>2. TypeOK /\ Backward /\ Forward
  BY DEF SliceInv
<1>3. /\ toVisit = filteredSources \cup {e[2] : e \in fcg}
      /\ fcg = {e \in bcg : e[1] \in visited}
      /\ \A f \in toVisit : Reached(f)
      /\ bcg = {e \in calls : LeadsToVuln(e[2])}
  BY <1>1, <1>2 DEF Forward, Backward
<1>4. \A e \in Out(bcg, n) : e \in calls /\ e[2] \in Func /\ Reached(e[2])
  BY <1>1, <1>2, <1>3, ReachedOn DEF TypeOK, Out
<1>5. TypeOK'
  BY <1>1, <1>2, <1>4 DEF TypeOK
<1>6. Backward'
  BY <1>1, <1>3, InputKept DEF Backward
<1>7. Forward'
  <2>1. toVisit' = filteredSources' \cup {e[2] : e \in fcg'}
    BY <1>1, <1>3 DEF filteredSources
  <2>2. fcg' = {e \in bcg' : e[1] \in visited'}
    BY <1>1, <1>3 DEF Out
  <2>3. \A f \in toVisit' : Reached(f)'
    BY <1>1, <1>3, <1>4, InputKept
  <2> QED BY <1>1, <2>1, <2>2, <2>3 DEF Forward
<1>8. Sites'
  BY <1>1 DEF SliceInv, Sites
<1>9. Sinks'
  BY <1>1 DEF SliceInv, Sinks, SinksOf
<1> QED BY <1>5, <1>6, <1>7, <1>8, <1>9 DEF SliceInv

\* Both slices stay as they are.
LEMMA SlicesKept ==
  ASSUME SliceInv, UNCHANGED <<input, bcg, fcg>>, Entries' = filteredSources,
         phase \in {"forward", "sinks", "sites"}, fcg = Relevant,
         phase' \in {"sinks", "sites", "done"}
  PROVE  Backward' /\ Forward' /\ filteredSources' = filteredSources
         /\ filteredSinks' = filteredSinks
<1>1. UNCHANGED <<calls, sources, symbolOf, bcg, fcg>>
  BY DEF input
<1>2. filteredSources' = filteredSources /\ filteredSinks' = filteredSinks
  BY <1>1 DEF filteredSources, filteredSinks, sinks
<1>3. Backward'
  BY <1>1, InputKept DEF SliceInv, Backward
<1>4. Forward'
  BY <1>1, <1>2, InputKept DEF Forward
<1> QED BY <1>2, <1>3, <1>4

LEMMA EndForwardStep ==
  ASSUME SliceInv, EndForward
  PROVE  SliceInv'
<1>1. /\ phase = "forward" /\ phase' = "sinks" /\ toVisit \subseteq visited
      /\ visited' = {} /\ toVisit' = filteredSinks /\ Entries' = filteredSources
      /\ UNCHANGED <<calls, sources, symbolOf, bcg, fcg, CallSink, CallSites>>
      /\ UNCHANGED input
  BY DEF EndForward, NewSearch, input
<1>2. TypeOK /\ Backward /\ Forward
  BY DEF SliceInv
<1>3. fcg = Relevant
  BY <1>1, <1>2, ForwardOver
<1>4. Backward' /\ Forward' /\ filteredSinks' = filteredSinks
  BY <1>1, <1>3, SlicesKept
<1>5. TypeOK'
  BY <1>1, <1>2 DEF TypeOK, filteredSinks, sinks
<1>6. Sites'
  BY <1>1 DEF SliceInv, Sites
<1>7. Sinks'
  BY <1>1, <1>4 DEF SliceInv, Sinks, SinksOf
<1> QED BY <1>4, <1>5, <1>6, <1>7 DEF SliceInv

LEMMA AddSinkStep ==
  ASSUME SliceInv, NEW n \in Func, AddSink(n)
  PROVE  SliceInv'
<1>1. /\ phase = "sinks" /\ phase' = "sinks" /\ n \in toVisit
      /\ visited' = visited \cup {n} /\ toVisit' = toVisit
      /\ CallSink' = [CallSink EXCEPT ![symbolOf[n]] = n]
      /\ UNCHANGED <<calls, sources, symbolOf, bcg, fcg, Entries, CallSites>>
      /\ UNCHANGED input
  BY DEF AddSink, addCallSink, input
<1>2. TypeOK /\ fcg = Relevant /\ Entries = filteredSources
      /\ toVisit = filteredSinks /\ SinksOf(visited)
  BY <1>1 DEF SliceInv, Forward, Sinks
<1>3. Backward' /\ Forward' /\ filteredSinks' = filteredSinks
  BY <1>1, <1>2, SlicesKept
<1>4. symbolOf[n] \in Symbol /\ None \notin Func
  BY <1>1, <1>2, NoneAssumption DEF TypeOK, filteredSinks, sinks
<1>5. TypeOK'
  BY <1>1, <1>2, <1>4 DEF TypeOK
<1>6. Sites'
  BY <1>1 DEF SliceInv, Sites
<1>7. SinksOf(visited)'
  <2> SUFFICES ASSUME NEW s \in Symbol
               PROVE  IF {f \in visited' : symbolOf[f] = s} = {} THEN CallSink'[s] = None
                      ELSE CallSink'[s] \in {f \in visited' : symbolOf[f] = s}
    BY <1>1 DEF SinksOf
  <2>1. CASE s = symbolOf[n]
    BY <1>1, <1>2, <2>1 DEF TypeOK
  <2>2. CASE s # symbolOf[n]
    <3>1. CallSink'[s] = CallSink[s]
      BY <1>1, <1>2, <2>2 DEF TypeOK
    <3>2. {f \in visited' : symbolOf[f] = s} = {f \in visited : symbolOf[f] = s}
      BY <1>1, <2>2
    <3> QED BY <1>2, <3>1, <3>2 DEF SinksOf
  <2> QED BY <2>1, <2>2
<1>8. Sinks'
  BY <1>1, <1>2, <1>3, <1>7 DEF Sinks
<1> QED BY <1>3, <1>5, <1>6, <1>8 DEF SliceInv

LEMMA EndSinksStep ==
  ASSUME SliceInv, EndSinks
  PROVE  SliceInv'
<1>1. /\ phase = "sinks" /\ phase' = "sites" /\ toVisit \subseteq visited
      /\ visited' = {} /\ toVisit' = filteredSinks
      /\ UNCHANGED <<calls, sources, symbolOf, bcg, fcg, Entries, CallSink, CallSites>>
      /\ UNCHANGED input
  BY DEF EndSinks, NewSearch, input, Calls
<1>2. TypeOK /\ fcg = Relevant /\ Entries = filteredSources /\ CallSites = {}
      /\ toVisit = filteredSinks /\ SinksOf(visited)
  BY <1>1 DEF SliceInv, Forward, Sinks, Sites
<1>3. Backward' /\ Forward' /\ filteredSinks' = filteredSinks
  BY <1>1, <1>2, SlicesKept
<1>4. visited = filteredSinks
  BY <1>1, <1>2 DEF TypeOK
<1>5. TypeOK'
  BY <1>1, <1>2 DEF TypeOK, filteredSinks, sinks
<1>6. Sites'
  BY <1>1, <1>2, <1>3 DEF Sites
<1>7. Sinks'
  BY <1>1, <1>2, <1>3, <1>4 DEF Sinks, SinksOf
<1> QED BY <1>3, <1>5, <1>6, <1>7 DEF SliceInv

LEMMA SitesStep ==
  ASSUME SliceInv, NEW n \in Func, VisitSites(n)
  PROVE  SliceInv'
<1>1. /\ phase = "sites" /\ phase' = "sites" /\ n \in toVisit
      /\ visited' = visited \cup {n}
      /\ toVisit' = toVisit \cup {e[1] : e \in In(fcg, n)}
      /\ CallSites' = CallSites \cup In(fcg, n)
      /\ UNCHANGED <<calls, sources, symbolOf, bcg, fcg, Entries, CallSink>>
      /\ UNCHANGED input
  BY DEF VisitSites, Visit, input
<1>2. TypeOK /\ fcg = Relevant /\ Entries = filteredSources /\ SinksOf(filteredSinks)
      /\ toVisit = filteredSinks \cup {e[1] : e \in CallSites}
      /\ CallSites = {e \in fcg : e[2] \in visited}
  BY <1>1 DEF SliceInv, Forward, Sinks, Sites
<1>3. Backward' /\ Forward' /\ filteredSinks' = filteredSinks
  BY <1>1, <1>2, SlicesKept
<1>4. \A e \in In(fcg, n) : e[1] \in Func
  BY <1>2 DEF In, Relevant, TypeOK
<1>5. TypeOK'
  BY <1>1, <1>2, <1>4 DEF TypeOK
<1>6. Sites'
  <2>1. toVisit' = filteredSinks' \cup {e[1] : e \in CallSites'}
    BY <1>1, <1>2, <1>3
  <2>2. CallSites' = {e \in fcg' : e[2] \in visited'}
    BY <1>1, <1>2 DEF In
  <2> QED BY <1>1, <2>1, <2>2 DEF Sites
<1>7. Sinks'
  BY <1>1, <1>2, <1>3 DEF Sinks, SinksOf
<1> QED BY <1>3, <1>5, <1>6, <1>7 DEF SliceInv

LEMMA EndSitesStep ==
  ASSUME SliceInv, EndSites
  PROVE  SliceInv'
<1>1. /\ phase = "sites" /\ phase' = "done" /\ toVisit \subseteq visited
      /\ UNCHANGED <<calls, sources, symbolOf, visited, toVisit, bcg, fcg, Entries,
                     CallSink, CallSites>>
      /\ UNCHANGED input
  BY DEF EndSites, input, search, Calls
<1>2. TypeOK /\ fcg = Relevant /\ Entries = filteredSources /\ SinksOf(filteredSinks)
  BY <1>1 DEF SliceInv, Forward, Sinks
<1>3. CallSites = fcg
  BY <1>1, SitesOver DEF SliceInv
<1>4. Backward' /\ Forward' /\ filteredSinks' = filteredSinks
  BY <1>1, <1>2, SlicesKept
<1>5. TypeOK' /\ Sites'
  BY <1>1, <1>2, <1>3 DEF TypeOK, Sites
<1>6. Sinks'
  BY <1>1, <1>2, <1>4 DEF Sinks, SinksOf
<1> QED BY <1>4, <1>5, <1>6 DEF SliceInv

LEMMA SliceKept ==
  ASSUME SliceInv, UNCHANGED vars
  PROVE  SliceInv'
<1>1. /\ UNCHANGED input
      /\ UNCHANGED <<calls, sources, symbolOf, phase, visited, toVisit, bcg, fcg,
                     Entries, CallSink, CallSites>>
  BY DEF vars, input, search, Calls
<1>2. filteredSources' = filteredSources /\ filteredSinks' = filteredSinks
  BY <1>1 DEF filteredSources, filteredSinks, sinks
<1>3. TypeOK'
  BY <1>1 DEF SliceInv, TypeOK
<1>4. Backward' /\ Forward'
  BY <1>1, <1>2, InputKept DEF SliceInv, Backward, Forward
<1>5. Sinks' /\ Sites'
  BY <1>1, <1>2 DEF SliceInv, Sinks, SinksOf, Sites
<1> QED BY <1>3, <1>4, <1>5 DEF SliceInv

LEMMA SliceStepKeeps == SliceInv /\ [Next]_vars => SliceInv'
BY BackwardStep, EndBackwardStep, ForwardStep, EndForwardStep, AddSinkStep,
   EndSinksStep, SitesStep, EndSitesStep, SliceKept DEF Next

LEMMA SliceInvCorrect == Spec => []SliceInv
BY SliceInit, SliceStepKeeps, PTL DEF Spec

-----------------------------------------------------------------------------
(***************************************************************************)
(* The result has exactly the calls on a way from an entry point to a      *)
(* vulnerable function, for any call graph, recursive functions included.  *)
(***************************************************************************)
THEOREM SitesCorrect == Spec => []SitesExact
<1>1. SliceInv => SitesExact
  BY DEF SliceInv, Forward, Sites, SitesExact
<1> QED BY <1>1, SliceInvCorrect, PTL

LEMMA SinksSlice == SliceInv => SinksExact
<1> SUFFICES ASSUME SliceInv, phase = "done", NEW s \in Symbol
             PROVE  LET reached == {f \in Nodes(Relevant) : symbolOf[f] = s}
                    IN  IF reached = {} THEN CallSink[s] = None ELSE CallSink[s] \in reached
  BY DEF SinksExact
<1>1. fcg = Relevant /\ SinksOf(filteredSinks)
  BY DEF SliceInv, Forward, Sinks
<1>2. Nodes(fcg) \subseteq Func
  BY <1>1 DEF SliceInv, TypeOK, Relevant, Nodes
<1>3. {f \in filteredSinks : symbolOf[f] = s} = {f \in Nodes(Relevant) : symbolOf[f] = s}
  BY <1>1, <1>2, NoneAssumption DEF filteredSinks, sinks
<1> QED BY <1>1, <1>3 DEF SinksOf

(***************************************************************************)
(* A symbol gets a CallSink exactly if one of its functions is in the      *)
(* slice, and the sink is one of these.                                    *)
(***************************************************************************)
THEOREM SinksCorrect == Spec => []SinksExact
BY SinksSlice, SliceInvCorrect, PTL

-----------------------------------------------------------------------------
(* Induction along a way, on sets of positions: by the pigeonhole          *)
(* principle a set of numbers up to n is not mapped into itself without    *)
(* its 1 by taking successors.                                             *)

LEMMA Climb ==
  ASSUME NEW n \in Nat, NEW T \in SUBSET (1 .. n), 1 \in T, \A i \in T : i + 1 \in T
  PROVE  FALSE
<1> DEFINE U == T \ {1}
           f == [i \in T |-> i + 1]
<1>1. IsFiniteSet(T)
  <2>1. IsFiniteSet(1 .. n)
    BY FS_Interval
  <2> QED BY <2>1, FS_Subset
<1>2. /\ IsFiniteSet(U) /\ Cardinality(U) = Cardinality(T) - 1
      /\ Cardinality(T) \in Nat /\ Cardinality(U) \in Nat
  BY <1>1, FS_RemoveElement, FS_CardinalityType
<1>3. f \in [T -> U]
  OBVIOUS
<1>4. Cardinality(U) < Cardinality(T)
  BY <1>2
<1> HIDE DEF U, f
<1>5. \E x, y \in T : x # y /\ f[x] = f[y]
  BY <1>1, <1>2, <1>3, <1>4, FS_PigeonHole
<1> QED BY <1>5 DEF f

LEMMA Upwards ==
  ASSUME NEW n \in Nat, NEW S, 1 \in S, \A i \in 1 .. n - 1 : i \in S => i + 1 \in S
  PROVE  1 .. n \subseteq S
<1> SUFFICES ASSUME NEW m \in 1 .. n, m \notin S PROVE FALSE
  OBVIOUS
<1> DEFINE T == {i \in 1 .. m : i \in S}
<1>1. m \in Nat /\ T \in SUBSET (1 .. m) /\ 1 \in T
  OBVIOUS
<1>2. ASSUME NEW i \in T PROVE i + 1 \in T
  <2>1. i \in 1 .. m /\ i # m /\ i \in S
    OBVIOUS
  <2>2. i \in 1 .. n - 1 /\ i + 1 \in 1 .. m
    BY <2>1
  <2> QED BY <2>1, <2>2
<1> HIDE DEF T
<1> QED BY <1>1, <1>2, Climb

LEMMA Downwards ==
  ASSUME NEW n \in Nat, NEW S, n \in S, \A i \in 1 .. n - 1 : i + 1 \in S => i \in S
  PROVE  1 .. n \subseteq S
<1> DEFINE R == {j \in 1 .. n : n + 1 - j \in S}
<1>1. CASE n = 0
  BY <1>1
<1>2. CASE n # 0
  <2>1. 1 \in R
    <3>1. n + 1 - 1 = n /\ 1 \in 1 .. n
      BY <1>2
    <3> QED BY <3>1
  <2>2. ASSUME NEW j \in 1 .. n - 1, j \in R PROVE j + 1 \in R
    <3>1. /\ n - j \in 1 .. n - 1 /\ n + 1 - j = (n - j) + 1
          /\ j + 1 \in 1 .. n /\ n + 1 - (j + 1) = n - j
      OBVIOUS
    <3> QED BY <2>2, <3>1
  <2>3. 1 .. n \subseteq R
    <3> HIDE DEF R
    <3> QED BY <2>1, <2>2, Upwards
  <2>4. ASSUME NEW i \in 1 .. n PROVE i \in S
    <3>1. n + 1 - i \in 1 .. n /\ n + 1 - (n + 1 - i) = i
      OBVIOUS
    <3> QED BY <2>3, <3>1
  <2> QED BY <2>4
<1> QED BY <1>1, <1>2

\* A set of positive numbers has a least one.
LEMMA Least ==
  ASSUME NEW S \in SUBSET (Nat \ {0}), S # {}
  PROVE  \E m \in S : \A k \in S : m <= k
<1> SUFFICES ASSUME \A m \in S : \E k \in S : k < m PROVE FALSE
  OBVIOUS
<1>1. PICK m \in S : TRUE
  OBVIOUS
<1> DEFINE T == {i \in 1 .. m : \A k \in S : i <= k}
<1>2. 1 \in T /\ T \in SUBSET (1 .. m) /\ m \in Nat
  OBVIOUS
<1>3. ASSUME NEW i \in T PROVE i + 1 \in T
  <2>1. i \notin S
    OBVIOUS
  <2>2. \A k \in S : i + 1 <= k
    BY <2>1
  <2> QED BY <1>1, <2>2
<1> HIDE DEF T
<1> QED BY <1>2, <1>3, Climb

-----------------------------------------------------------------------------
(* A turn of the loop of callStacks.                                       *)

\* The chain it takes, the function that this begins with, and the callers
\* that give longer chains.
First(v)   == queue[v][1]
Top(v)     == queue[v][1][1]
Callers(v) == IF Top(v) \in seen[v] THEN {}
              ELSE {g \in Func : <<g, Top(v)>> \in CallSites} \ (seen[v] \cup {Top(v)})
Up(v, g)   == <<g>> \o First(v)

\* SetToSeqs lists a finite set.
LEMMA Lists ==
  ASSUME NEW S, IsFiniteSet(S), NEW cs \in W!SetToSeqs(S)
  PROVE  /\ Cardinality(S) \in Nat /\ cs \in [1 .. Cardinality(S) -> S]
         /\ \A x \in S : \E i \in 1 .. Cardinality(S) : cs[i] = x
<1> DEFINE n == Cardinality(S)
<1>1. n \in Nat /\ IsFiniteSet(1 .. n) /\ Cardinality(1 .. n) = n
  BY FS_CardinalityType, FS_Interval
<1>2. cs \in [1 .. n -> S] /\ \A i, j \in 1 .. n : i # j => cs[i] # cs[j]
  <2>1. W!Cardinality(S) = n
    BY DEF W!Cardinality, Cardinality
  <2> QED BY <2>1 DEF W!SetToSeqs
<1>3. ASSUME NEW x \in S, \A i \in 1 .. n : cs[i] # x PROVE FALSE
  <2>1. IsFiniteSet(S \ {x}) /\ Cardinality(S \ {x}) = n - 1
    BY FS_RemoveElement
  <2>2. cs \in [1 .. n -> S \ {x}]
    BY <1>2, <1>3
  <2>3. Cardinality(S \ {x}) < Cardinality(1 .. n)
    BY <1>1, <2>1
  <2>4. \E i, j \in 1 .. n : i # j /\ cs[i] = cs[j]
    BY <1>1, <2>1, <2>2, <2>3, FS_PigeonHole
  <2> QED BY <1>2, <2>4
<1> QED BY <1>1, <1>2, <1>3

\* The queue without its first chain, with others behind.
LEMMA TailConcat ==
  ASSUME NEW S, NEW q \in Seq(S), q # <<>>, NEW new \in Seq(S), NEW qn, qn = Tail(q) \o new
  PROVE  /\ qn \in Seq(S) /\ Len(qn) = Len(q) - 1 + Len(new)
         /\ \A i \in 1 .. Len(q) - 1 : qn[i] = q[i + 1]
         /\ \A i \in 1 .. Len(new) : qn[Len(q) - 1 + i] = new[i]
<1> DEFINE t == Tail(q)
           n == Len(q)
           m == Len(new)
<1>1. /\ t \in Seq(S) /\ Len(t) = n - 1 /\ n \in Nat /\ n >= 1
      /\ \A i \in 1 .. n - 1 : t[i] = q[i + 1]
  BY HeadTailProperties, EmptySeq
<1>2. m \in Nat
  BY LenProperties
<1> HIDE DEF t
<1>3. /\ t \o new \in Seq(S) /\ Len(t \o new) = Len(t) + m
      /\ \A i \in 1 .. Len(t) + m :
           (t \o new)[i] = IF i <= Len(t) THEN t[i] ELSE new[i - Len(t)]
  BY <1>1, ConcatProperties
<1> HIDE DEF n, m
<1>4. qn = t \o new
  BY DEF t
<1>5. ASSUME NEW i \in 1 .. n - 1 PROVE qn[i] = q[i + 1]
  <2>1. i \in 1 .. Len(t) + m /\ i <= Len(t)
    BY <1>1, <1>2
  <2> QED BY <1>1, <1>3, <1>4, <2>1
<1>6. ASSUME NEW i \in 1 .. m PROVE qn[n - 1 + i] = new[i]
  <2> DEFINE j == n - 1 + i
  <2>1. j \in 1 .. Len(t) + m /\ ~(j <= Len(t)) /\ j - Len(t) = i
    BY <1>1, <1>2
  <2> HIDE DEF j
  <2>2. qn[j] = new[j - Len(t)]
    BY <1>3, <1>4, <2>1
  <2>3. qn[j] = new[i]
    BY <2>1, <2>2
  <2> QED BY <2>3 DEF j
<1>7. qn \in Seq(S) /\ Len(qn) = n - 1 + m
  BY <1>1, <1>3, <1>4
<1> QED BY <1>5, <1>6, <1>7 DEF n, m

LEMMA SearchFacts ==
  ASSUME SearchTypes, NEW v \in Symbol, W!Search(v),
         \A i \in DOMAIN queue[v] : Len(queue[v][i]) >= 1
  PROVE  /\ queue[v] # <<>> /\ First(v) \in Seq(Func) /\ Top(v) \in Func
         /\ queue' \in [Symbol -> Seq(Seq(Func))]
         /\ seen' = [seen EXCEPT ![v] = seen[v] \cup {Top(v)}]
         /\ stacks' = [stacks EXCEPT ![v] =
                         stacks[v] \cup {Up(v, g) : g \in Callers(v) \cap Entries}]
         /\ \A u \in Symbol : u # v => queue'[u] = queue[u]
         /\ Len(queue'[v]) >= Len(queue[v]) - 1
         /\ \A i \in 1 .. Len(queue[v]) - 1 : queue'[v][i] = queue[v][i + 1]
         /\ \A i \in Len(queue[v]) .. Len(queue'[v]) :
              \E g \in Callers(v) : queue'[v][i] = Up(v, g)
         /\ \A g \in Callers(v) :
              \E i \in Len(queue[v]) .. Len(queue'[v]) : queue'[v][i] = Up(v, g)
         /\ UNCHANGED <<group, found, witness>>
<1> DEFINE q == queue[v]
           c == First(v)
           h == Top(v)
<1>1. q # <<>> /\ q \in Seq(Seq(Func)) /\ Len(q) \in Nat /\ Len(q) >= 1
  BY DEF W!Search, SearchTypes
<1>2. c \in Seq(Func) /\ Len(c) >= 1 /\ h \in Func /\ Head(q) = c /\ Head(c) = h
  BY <1>1 DEF First, Top
<1>3. seen' = [seen EXCEPT ![v] = seen[v] \cup {h}]
  BY <1>2 DEF W!Search
<1>4. seen'[v] = seen[v] \cup {h}
  BY <1>3 DEF SearchTypes
<1>5. PICK new \in IF h \in seen[v] THEN {<<>>} ELSE W!Longer(c, seen'[v]) :
        /\ queue' = [queue EXCEPT ![v] = Tail(q) \o new]
        /\ stacks' = [stacks EXCEPT ![v] =
             stacks[v] \cup {n \in W!Range(new) : Head(n) \in Entries}]
  BY <1>2 DEF W!Search
<1>6. \E m \in Nat : /\ new \in [1 .. m -> Seq(Func)]
                     /\ \A i \in 1 .. m : \E g \in Callers(v) : new[i] = Up(v, g)
                     /\ \A g \in Callers(v) : \E i \in 1 .. m : new[i] = Up(v, g)
  <2>1. CASE h \in seen[v]
    BY <1>5, <2>1 DEF Callers
  <2>2. CASE h \notin seen[v]
    <3>1. Callers(v) = {g \in Func : <<g, h>> \in CallSites} \ seen'[v]
      BY <1>4, <2>2 DEF Callers
    <3>2. IsFiniteSet(Callers(v)) /\ Callers(v) \subseteq Func
      BY <3>1, FuncAssumption, FS_Subset
    <3>3. PICK cs \in W!SetToSeqs(Callers(v)) : new = [i \in DOMAIN cs |-> <<cs[i]>> \o c]
      BY <1>2, <1>5, <2>2, <3>1 DEF W!Longer
    <3> DEFINE m == Cardinality(Callers(v))
    <3>4. m \in Nat /\ cs \in [1 .. m -> Callers(v)]
          /\ \A g \in Callers(v) : \E i \in 1 .. m : cs[i] = g
      BY <3>2, Lists
    <3> HIDE DEF m
    <3>5. \A i \in 1 .. m : cs[i] \in Callers(v) /\ new[i] = Up(v, cs[i])
      BY <3>3, <3>4 DEF Up
    <3>6. \A i \in 1 .. m : new[i] \in Seq(Func)
      <4> SUFFICES ASSUME NEW i \in 1 .. m PROVE <<cs[i]>> \o c \in Seq(Func)
        BY <3>5 DEF Up
      <4>1. <<cs[i]>> \in Seq(Func)
        BY <3>2, <3>5
      <4> QED BY <1>2, <4>1, ConcatProperties
    <3>7. new \in [1 .. m -> Seq(Func)]
      BY <3>3, <3>4, <3>6
    <3>8. \A g \in Callers(v) : \E i \in 1 .. m : new[i] = Up(v, g)
      BY <3>4, <3>5
    <3>9. \A i \in 1 .. m : \E g \in Callers(v) : new[i] = Up(v, g)
      BY <3>5
    <3>10. m \in Nat
      BY <3>4
    <3> QED BY <3>7, <3>8, <3>9, <3>10
  <2> QED BY <2>1, <2>2
<1>7. PICK m \in Nat : /\ new \in [1 .. m -> Seq(Func)]
                       /\ \A i \in 1 .. m : \E g \in Callers(v) : new[i] = Up(v, g)
                       /\ \A g \in Callers(v) : \E i \in 1 .. m : new[i] = Up(v, g)
  BY <1>6
<1>8. new \in Seq(Seq(Func)) /\ Len(new) = m
  BY <1>7
<1>9. queue'[v] = Tail(q) \o new /\ \A u \in Symbol : u # v => queue'[u] = queue[u]
  BY <1>5 DEF SearchTypes
<1> HIDE DEF q, c, h
<1> DEFINE qn == queue'[v]
<1>10. /\ qn \in Seq(Seq(Func)) /\ Len(qn) = Len(q) - 1 + m
       /\ \A i \in 1 .. Len(q) - 1 : qn[i] = q[i + 1]
       /\ \A i \in 1 .. m : qn[Len(q) - 1 + i] = new[i]
  <2>1. PICK ns : ns = new
    OBVIOUS
  <2>2. q \in Seq(Seq(Func)) /\ q # <<>> /\ ns \in Seq(Seq(Func)) /\ qn = Tail(q) \o ns
    BY <1>1, <1>8, <1>9, <2>1
  <2> HIDE DEF qn
  <2>3. /\ qn \in Seq(Seq(Func)) /\ Len(qn) = Len(q) - 1 + Len(ns)
        /\ \A i \in 1 .. Len(q) - 1 : qn[i] = q[i + 1]
        /\ \A i \in 1 .. Len(ns) : qn[Len(q) - 1 + i] = ns[i]
    BY ONLY <2>2, TailConcat
  <2> QED BY <1>8, <2>1, <2>3
<1>12. Len(qn) >= Len(q) - 1
  BY <1>1, <1>10
<1>11. queue' \in [Symbol -> Seq(Seq(Func))]
  BY <1>5, <1>9, <1>10 DEF SearchTypes
<1>14. \A i \in Len(q) .. Len(qn) : \E g \in Callers(v) : qn[i] = Up(v, g)
  <2> HIDE DEF qn
  <2> SUFFICES ASSUME NEW i \in Len(q) .. Len(qn)
               PROVE  \E g \in Callers(v) : qn[i] = Up(v, g)
    OBVIOUS
  <2> DEFINE k == i - (Len(q) - 1)
  <2>1. k \in 1 .. m /\ Len(q) - 1 + k = i
    BY <1>1, <1>10
  <2> HIDE DEF k
  <2>2. qn[i] = new[k]
    BY <1>10, <2>1
  <2> QED BY <1>7, <2>1, <2>2
<1>15. \A g \in Callers(v) : \E i \in Len(q) .. Len(qn) : qn[i] = Up(v, g)
  <2> HIDE DEF qn
  <2> SUFFICES ASSUME NEW g \in Callers(v)
               PROVE  \E i \in Len(q) .. Len(qn) : qn[i] = Up(v, g)
    OBVIOUS
  <2>1. PICK k \in 1 .. m : new[k] = Up(v, g)
    BY <1>7
  <2> DEFINE i == Len(q) - 1 + k
  <2>2. i \in Len(q) .. Len(qn)
    BY <1>1, <1>10
  <2>3. qn[i] = Up(v, g)
    BY <1>10, <2>1
  <2> QED BY <2>2, <2>3
<1>16. {n \in W!Range(new) : Head(n) \in Entries} = {Up(v, g) : g \in Callers(v) \cap Entries}
  <2>1. \A g \in Callers(v) : Head(Up(v, g)) = g
    BY <1>2 DEF Up, Callers, c
  <2>2. W!Range(new) = {Up(v, g) : g \in Callers(v)}
    BY <1>7 DEF W!Range
  <2> QED BY <2>1, <2>2
<1>17. stacks' = [stacks EXCEPT ![v] = stacks[v] \cup {Up(v, g) : g \in Callers(v) \cap Entries}]
  BY <1>5, <1>16
<1>18. UNCHANGED <<group, found, witness>>
  BY DEF W!Search, W!input
<1> QED BY <1>1, <1>2, <1>3, <1>9, <1>10, <1>11, <1>12, <1>14, <1>15, <1>17, <1>18 DEF q, c, h

-----------------------------------------------------------------------------
(* The searches keep the invariant.                                        *)

\* Before CallStacks there is nothing to say of them.
LEMMA Idle == SearchTypes /\ Started /\ group = <<>> => SearchInv
<1> SUFFICES ASSUME SearchTypes, Started, group = <<>>, NEW s \in Symbol
             PROVE  Chains(s) /\ Ways(s) /\ Breadth(s) /\ EntryStacks(s) /\ Kept(s)
  BY DEF SearchInv
<1>1. queue[s] = <<>> /\ seen[s] = {} /\ stacks[s] = {} /\ witness[s] = <<"todo">> /\ found = {}
  BY DEF Started, W!Launched
<1>2. DOMAIN queue[s] = {}
  BY <1>1
<1>3. Known(s) = {}
  BY <1>1, <1>2 DEF Known
<1>4. Chains(s) /\ Ways(s) /\ EntryStacks(s) /\ Kept(s)
  BY <1>1, <1>2, <1>3 DEF Chains, Ways, EntryStacks, Kept
<1>5. Breadth(s)
  BY <1>1, <1>2 DEF Breadth
<1> QED BY <1>4, <1>5

LEMMA SearchInit == SourceInit => SearchInv
<1> SUFFICES ASSUME SourceInit PROVE SearchInv
  OBVIOUS
<1>1. /\ group = <<>> /\ found = {}
      /\ queue = [s \in Symbol |-> <<>>] /\ seen = [s \in Symbol |-> {}]
      /\ stacks = [s \in Symbol |-> {}] /\ witness = [s \in Symbol |-> <<"todo">>]
  BY DEF SourceInit, W!Init
<1>2. SearchTypes
  BY <1>1 DEF SearchTypes
<1>3. Started
  BY <1>1 DEF Started, W!Launched
<1> QED BY <1>1, <1>2, <1>3, Idle

\* The slice is taken before.
LEMMA SliceStepIdle == SearchInv /\ SliceStep => SearchInv'
<1>1. ASSUME SearchInv, SliceStep
      PROVE  (SearchTypes /\ Started /\ group = <<>>)'
  <2>1. phase # "done" /\ UNCHANGED <<group, queue, seen, stacks, found, witness>>
    BY <1>1 DEF SliceStep, witnesses, Next, VisitBackward, VisitForward, AddSink, VisitSites,
           EndBackward, EndForward, EndSinks, EndSites
  <2>2. SearchTypes /\ Started /\ group = <<>>
    BY <1>1, <2>1 DEF SearchInv, Started, W!Launched
  <2> QED BY <2>1, <2>2 DEF SearchTypes, Started, W!Launched
<1> QED BY <1>1, Idle, PTL

LEMMA LaunchStep ==
  ASSUME SliceInv, SearchInv, NEW keys \in [Symbol -> Group], Launch(keys)
  PROVE  SearchInv'
<1>1. /\ phase = "done" /\ phase' = "done" /\ group = <<>> /\ group' = keys
      /\ queue' = [s \in Symbol |-> IF CallSink[s] # None THEN << <<CallSink[s]>> >> ELSE <<>>]
      /\ UNCHANGED <<CallSink, seen, stacks, found, witness>>
  BY DEF Launch, W!Launch, W!called, vars, Calls
<1>2. SearchTypes /\ Started
  BY DEF SearchInv
<1>3. /\ found = {}
      /\ \A s \in Symbol : seen[s] = {} /\ stacks[s] = {} /\ witness[s] = <<"todo">>
                           /\ queue[s] = <<>>
  BY <1>1, <1>2 DEF Started, W!Launched
<1>4. CallSink \in [Symbol -> Func \cup {None}]
  BY DEF SliceInv, TypeOK
<1>5. SearchTypes'
  <2>1. \A s \in Symbol : queue'[s] \in Seq(Seq(Func))
    BY <1>1, <1>4
  <2>2. queue' \in [Symbol -> Seq(Seq(Func))]
    BY <1>1, <2>1
  <2> QED BY <1>1, <1>2, <2>2 DEF SearchTypes
<1>6. ASSUME NEW s \in Symbol, CallSink[s] # None
      PROVE  queue'[s] = << <<CallSink[s]>> >> /\ CallSink[s] \in Func
  BY <1>1, <1>4, <1>6
<1>7. ASSUME NEW s \in Symbol, CallSink[s] = None
      PROVE  queue'[s] = <<>>
  BY <1>1, <1>4, <1>7
<1>8. \A s \in Symbol : Known(s)' = IF CallSink[s] = None THEN {} ELSE {CallSink[s]}
  <2> SUFFICES ASSUME NEW s \in Symbol
               PROVE  Known(s)' = IF CallSink[s] = None THEN {} ELSE {CallSink[s]}
    OBVIOUS
  <2>1. seen'[s] = {}
    BY <1>1, <1>3
  <2> QED BY <1>6, <1>7, <2>1 DEF Known
<1>9. Started'
  <2>1. CASE Symbol = {}
    BY <1>1, <1>3, <2>1 DEF Started, W!Launched
  <2>2. CASE Symbol # {}
    <3>1. group' # <<>>
      BY <1>1, <2>2
    <3> QED BY <1>1, <1>8, <3>1 DEF Started, W!Launched
  <2> QED BY <2>1, <2>2
<1>10. ASSUME NEW s \in Symbol
       PROVE  (Chains(s) /\ Ways(s) /\ Breadth(s) /\ EntryStacks(s) /\ Kept(s))'
  <2>1. seen'[s] = {} /\ stacks'[s] = {} /\ witness'[s] = <<"todo">> /\ found' = {}
        /\ CallSink'[s] = CallSink[s]
    BY <1>1, <1>3
  <2>2. Ways(s)' /\ EntryStacks(s)' /\ Kept(s)'
    BY <1>8, <2>1 DEF Ways, EntryStacks, Kept
  <2>3. CASE CallSink[s] = None
    <3>1. queue'[s] = <<>> /\ DOMAIN queue'[s] = {}
      BY <1>7, <2>3
    <3>2. Chains(s)'
      BY <2>1, <3>1 DEF Chains
    <3>3. Breadth(s)'
      BY <3>1 DEF Breadth
    <3> QED BY <2>2, <3>2, <3>3
  <2>4. CASE CallSink[s] # None
    <3> DEFINE x == CallSink[s]
    <3>1. queue'[s] = << <<x>> >> /\ x \in Func
      BY <1>6, <2>4
    <3>2. /\ DOMAIN queue'[s] = {1} /\ queue'[s][1] = <<x>> /\ queue'[s] # <<>>
          /\ Len(queue'[s][1]) = 1 /\ queue'[s][1][1] = x /\ queue'[s][1] \in Seq(Func)
      BY <3>1
    <3> HIDE DEF x
    <3>3. Chain(s, queue[s][1])'
      BY <2>1, <3>2 DEF Chain, x
    <3>4. Chains(s)'
      BY <2>1, <3>2, <3>3 DEF Chains
    <3>5. \A p \in [1 .. 1 -> Func] : Way(s, 1, p)' => p[1] = x
      BY <2>1 DEF Way, x
    <3>6. Breadth(s)'
      <4> DEFINE q == queue'[s]
      <4>1. ASSUME NEW i \in DOMAIN q, NEW j \in DOMAIN q
            PROVE  Len(q[i]) <= Len(q[j]) /\ Len(q[j]) <= Len(q[1]) + 1
        <5>1. i = 1 /\ j = 1
          BY <3>2
        <5>2. Len(q[i]) = 1 /\ Len(q[j]) = 1
          BY <3>2, <5>1
        <5> QED BY ONLY <3>2, <5>2
      <4>2. ASSUME NEW n \in 1 .. Len(q[1]), NEW p \in [1 .. n -> Func], Way(s, n, p)'
            PROVE  \E i \in DOMAIN q : q[i][1] = p[1] /\ Len(q[i]) <= n
        <5>1. n = 1
          BY <3>2
        <5>2. p[1] = x
          BY <3>5, <4>2, <5>1
        <5>3. 1 \in DOMAIN q /\ q[1][1] = p[1] /\ Len(q[1]) <= n
          BY <3>2, <5>1, <5>2
        <5> QED BY <5>3
      <4> QED BY <3>2, <4>1, <4>2 DEF Breadth
    <3> QED BY <2>2, <3>4, <3>6
  <2> QED BY <2>3, <2>4
<1> QED BY <1>5, <1>9, <1>10 DEF SearchInv

\* What of a search depends on its own state only stays if that does.
LEMMA OthersKept ==
  ASSUME SearchInv, UNCHANGED vars, NEW s \in Symbol,
         queue'[s] = queue[s], seen'[s] = seen[s], stacks'[s] = stacks[s]
  PROVE  (Chains(s) /\ Ways(s) /\ Breadth(s) /\ EntryStacks(s))'
         /\ Known(s)' = Known(s)
<1>1. UNCHANGED <<calls, CallSink, CallSites, Entries>>
  BY DEF vars, input, Calls
<1>2. Known(s)' = Known(s)
  BY DEF Known
<1>3. Chains(s) /\ Ways(s) /\ Breadth(s) /\ EntryStacks(s)
  BY DEF SearchInv
<1>4. \A c : Chain(s, c)' <=> Chain(s, c)
  BY <1>1 DEF Chain
<1>5. Chains(s)'
  BY <1>1, <1>2, <1>3, <1>4 DEF Chains
<1>6. Ways(s)'
  BY <1>1, <1>2, <1>3 DEF Ways, Leads, ForwClosed, Out
<1>7. \A n, p : Way(s, n, p)' <=> Way(s, n, p)
  BY <1>1 DEF Way
<1>8. Breadth(s)'
  BY <1>3, <1>7 DEF Breadth
<1>9. EntryStacks(s)'
  BY <1>1, <1>2, <1>3, <1>7 DEF EntryStacks, Shortest
<1> QED BY <1>2, <1>5, <1>6, <1>8, <1>9

\* A chain with one call more.
LEMMA UpFacts ==
  ASSUME NEW c \in Seq(Func), NEW g \in Func
  PROVE  /\ <<g>> \o c \in Seq(Func) /\ Len(<<g>> \o c) = Len(c) + 1
         /\ (<<g>> \o c)[1] = g /\ \A i \in 1 .. Len(c) : (<<g>> \o c)[i + 1] = c[i]
         /\ \A i \in 2 .. Len(c) + 1 : i - 1 \in 1 .. Len(c) /\ (<<g>> \o c)[i] = c[i - 1]
OBVIOUS

\* What a turn for v does, in terms of what the search has come to.
LEMMA KnownGrows ==
  ASSUME SearchTypes, NEW v \in Symbol, W!Search(v), Chains(v)
  PROVE  /\ Known(v)' = Known(v) \cup Callers(v) /\ Callers(v) \subseteq Func
         /\ seen'[v] = seen[v] \cup {Top(v)} /\ Top(v) \in Known(v)
         /\ stacks'[v] = stacks[v] \cup {Up(v, g) : g \in Callers(v) \cap Entries}
         /\ First(v) = queue[v][1] /\ Chain(v, First(v)) /\ Top(v) = First(v)[1]
<1> DEFINE q  == queue[v]
           qn == queue'[v]
           c  == First(v)
           h  == Top(v)
<1>1. \A i \in DOMAIN q : Chain(v, q[i]) /\ Len(q[i]) >= 1
  BY DEF Chains, Chain
<1>2. /\ q # <<>> /\ c \in Seq(Func) /\ h \in Func
      /\ seen' = [seen EXCEPT ![v] = seen[v] \cup {h}]
      /\ stacks' = [stacks EXCEPT ![v] = stacks[v] \cup {Up(v, g) : g \in Callers(v) \cap Entries}]
      /\ queue' \in [Symbol -> Seq(Seq(Func))]
      /\ Len(qn) >= Len(q) - 1
      /\ \A i \in 1 .. Len(q) - 1 : qn[i] = q[i + 1]
      /\ \A i \in Len(q) .. Len(qn) : \E g \in Callers(v) : qn[i] = Up(v, g)
      /\ \A g \in Callers(v) : \E i \in Len(q) .. Len(qn) : qn[i] = Up(v, g)
  BY <1>1, SearchFacts
<1>3. /\ q \in Seq(Seq(Func)) /\ Len(q) \in Nat /\ Len(q) >= 1 /\ DOMAIN q = 1 .. Len(q)
      /\ qn \in Seq(Seq(Func)) /\ Len(qn) \in Nat /\ DOMAIN qn = 1 .. Len(qn)
  BY <1>2 DEF SearchTypes
<1>4. c = q[1] /\ h = q[1][1] /\ 1 \in DOMAIN q /\ Chain(v, c)
  <2>1. 1 \in DOMAIN q
    BY <1>3
  <2>2. c = q[1] /\ h = q[1][1]
    BY DEF First, Top
  <2> HIDE DEF q, c, h
  <2> QED BY <1>1, <2>1, <2>2
<1>5. seen'[v] = seen[v] \cup {h}
      /\ stacks'[v] = stacks[v] \cup {Up(v, g) : g \in Callers(v) \cap Entries}
  BY <1>2 DEF SearchTypes
<1>6. Callers(v) \subseteq Func /\ \A g \in Callers(v) : Up(v, g)[1] = g
  BY <1>2, UpFacts DEF Callers, Up
<1> DEFINE K  == {q[i][1] : i \in DOMAIN q}
           Kn == {qn[i][1] : i \in DOMAIN qn}
<1>7. h \in K
  BY <1>4
<1> HIDE DEF q, qn, c, h
<1>8. Kn \subseteq K \cup Callers(v)
  <2> SUFFICES ASSUME NEW i \in DOMAIN qn PROVE qn[i][1] \in K \cup Callers(v)
    OBVIOUS
  <2>1. CASE i <= Len(q) - 1
    <3>1. i \in 1 .. Len(q) - 1 /\ i + 1 \in DOMAIN q
      BY <1>3, <2>1
    <3> QED BY <1>2, <3>1
  <2>2. CASE ~(i <= Len(q) - 1)
    <3>1. i \in Len(q) .. Len(qn)
      BY <1>3, <2>2
    <3> QED BY <1>2, <1>6, <3>1
  <2> QED BY <2>1, <2>2
<1>9. K \subseteq Kn \cup {h}
  <2> SUFFICES ASSUME NEW i \in DOMAIN q, i # 1 PROVE q[i][1] \in Kn
    BY <1>4
  <2>1. i - 1 \in 1 .. Len(q) - 1 /\ i - 1 \in DOMAIN qn /\ (i - 1) + 1 = i
    BY <1>2, <1>3
  <2>2. qn[i - 1] = q[i]
    BY <1>2, <2>1
  <2> QED BY <2>1, <2>2
<1>10. Callers(v) \subseteq Kn
  <2> SUFFICES ASSUME NEW g \in Callers(v) PROVE g \in Kn
    OBVIOUS
  <2>1. PICK i \in Len(q) .. Len(qn) : qn[i] = Up(v, g)
    BY <1>2
  <2>2. i \in DOMAIN qn
    BY <1>3, <2>1
  <2> QED BY <1>6, <2>1, <2>2
<1>11. seen'[v] \cup Kn = (seen[v] \cup K) \cup Callers(v)
  BY <1>5, <1>7, <1>8, <1>9, <1>10
<1>12. Known(v)' = seen'[v] \cup Kn /\ Known(v) = seen[v] \cup K
  BY DEF Known, q, qn
<1>13. Known(v)' = Known(v) \cup Callers(v) /\ h \in Known(v)
  BY <1>7, <1>11, <1>12
<1> QED BY <1>4, <1>5, <1>6, <1>13 DEF q, c, h

\* The chains of a turn are chains.
LEMMA ChainsStep ==
  ASSUME SearchInv, NEW v \in Symbol, W!Search(v), UNCHANGED vars
  PROVE  Chains(v)'
<1>1. SearchTypes /\ Chains(v) /\ UNCHANGED <<CallSink, CallSites, Entries>>
  BY DEF SearchInv, vars, Calls
<1> DEFINE c == First(v)
           h == Top(v)
<1>2. /\ Known(v)' = Known(v) \cup Callers(v) /\ Callers(v) \subseteq Func
      /\ seen'[v] = seen[v] \cup {h}
      /\ stacks'[v] = stacks[v] \cup {Up(v, g) : g \in Callers(v) \cap Entries}
      /\ Chain(v, c) /\ h = c[1]
  BY <1>1, KnownGrows
<1>3. c \in Seq(Func) /\ Len(c) \in Nat /\ Len(c) >= 1 /\ c[Len(c)] = CallSink[v]
      /\ (\A i \in 1 .. Len(c) - 1 : <<c[i], c[i + 1]>> \in CallSites)
      /\ (\A i, j \in 1 .. Len(c) : c[i] = c[j] => i = j)
      /\ (\A i \in 2 .. Len(c) : c[i] \in seen[v])
  BY <1>2 DEF Chain
<1> HIDE DEF c, h
<1>4. ASSUME NEW d, Chain(v, d) PROVE Chain(v, d)'
  BY <1>1, <1>2, <1>4 DEF Chain
<1>5. ASSUME NEW g \in Callers(v), NEW d, d = Up(v, g)
      PROVE  Chain(v, d)' /\ Len(d) >= 2 /\ d[1] = g
  <2>1. g \in Func /\ g \notin seen'[v] /\ <<g, h>> \in CallSites
    BY <1>2 DEF Callers, h
  <2>2. /\ d \in Seq(Func) /\ Len(d) = Len(c) + 1 /\ d[1] = g
        /\ \A i \in 1 .. Len(c) : d[i + 1] = c[i]
        /\ \A i \in 2 .. Len(c) + 1 : i - 1 \in 1 .. Len(c) /\ d[i] = c[i - 1]
    BY <1>3, <1>5, <2>1, UpFacts DEF Up, c
  <2>3. Len(d) \in Nat /\ Len(d) >= 2 /\ DOMAIN d = 1 .. Len(d)
    BY <1>3, <2>2
  <2>4. d[Len(d)] = CallSink[v]
    <3>1. Len(c) \in 1 .. Len(c)
      BY <1>3
    <3> QED BY <1>3, <2>2, <3>1
  <2>5. ASSUME NEW i \in 1 .. Len(d) - 1 PROVE <<d[i], d[i + 1]>> \in CallSites
    <3>1. i \in 1 .. Len(c) /\ d[i + 1] = c[i]
      BY <1>3, <2>2
    <3>2. CASE i = 1
      BY <1>2, <2>1, <2>2, <3>1, <3>2
    <3>3. CASE i # 1
      <4> DEFINE k == i - 1
      <4>1. k \in 1 .. Len(c) - 1 /\ k + 1 = i /\ i \in 2 .. Len(c) + 1
        BY <1>3, <3>1, <3>3
      <4>2. d[i] = c[k]
        BY <2>2, <4>1
      <4> HIDE DEF k
      <4> QED BY <1>3, <3>1, <4>1, <4>2
    <3> QED BY <3>2, <3>3
  <2>6. ASSUME NEW i \in 2 .. Len(d) PROVE d[i] \in seen'[v]
    <3> DEFINE k == i - 1
    <3>1. k \in 1 .. Len(c) /\ d[i] = c[k]
      BY <2>2
    <3> HIDE DEF k
    <3>2. CASE k = 1
      BY <1>2, <3>1, <3>2
    <3>3. CASE k # 1
      BY <1>2, <1>3, <3>1, <3>3
    <3> QED BY <3>2, <3>3
  <2>7. ASSUME NEW i \in DOMAIN d, NEW j \in DOMAIN d, d[i] = d[j] PROVE i = j
    <3>1. CASE i = 1 /\ j = 1
      BY <3>1
    <3>2. CASE i = 1 /\ j # 1
      BY <2>1, <2>2, <2>3, <2>6, <2>7, <3>2
    <3>3. CASE i # 1 /\ j = 1
      BY <2>1, <2>2, <2>3, <2>6, <2>7, <3>3
    <3>4. CASE i # 1 /\ j # 1
      <4>1. i \in 2 .. Len(c) + 1 /\ j \in 2 .. Len(c) + 1
        BY <1>3, <2>2, <2>3, <3>4
      <4>2. i - 1 = j - 1
        BY <1>3, <2>2, <2>7, <4>1
      <4> QED BY <4>1, <4>2
    <3> QED BY <3>1, <3>2, <3>3, <3>4
  <2>8. Chain(v, d)'
    BY <1>1, <2>2, <2>3, <2>4, <2>5, <2>6, <2>7 DEF Chain
  <2> QED BY <2>2, <2>3, <2>8
<1>6. ASSUME NEW i \in DOMAIN queue'[v], NEW d, d = queue'[v][i] PROVE Chain(v, d)'
  <2>1. (\E j \in DOMAIN queue[v] : d = queue[v][j]) \/ (\E g \in Callers(v) : d = Up(v, g))
    <3>1. \A j \in DOMAIN queue[v] : Len(queue[v][j]) >= 1
      BY <1>1 DEF Chains, Chain
    <3>2. /\ queue' \in [Symbol -> Seq(Seq(Func))]
          /\ \A j \in 1 .. Len(queue[v]) - 1 : queue'[v][j] = queue[v][j + 1]
          /\ \A j \in Len(queue[v]) .. Len(queue'[v]) :
               \E g \in Callers(v) : queue'[v][j] = Up(v, g)
      BY <1>1, <3>1, SearchFacts
    <3>3. /\ Len(queue[v]) \in Nat /\ DOMAIN queue[v] = 1 .. Len(queue[v])
          /\ Len(queue'[v]) \in Nat /\ i \in 1 .. Len(queue'[v])
      BY <1>1, <3>2 DEF SearchTypes
    <3>4. CASE i <= Len(queue[v]) - 1
      <4>1. i \in 1 .. Len(queue[v]) - 1 /\ i + 1 \in DOMAIN queue[v]
        BY <3>3, <3>4
      <4> QED BY <1>6, <3>2, <4>1
    <3>5. CASE ~(i <= Len(queue[v]) - 1)
      <4>1. i \in Len(queue[v]) .. Len(queue'[v])
        BY <3>3, <3>5
      <4> QED BY <1>6, <3>2, <4>1
    <3> QED BY <3>4, <3>5
  <2>2. CASE \E j \in DOMAIN queue[v] : d = queue[v][j]
    <3>1. Chain(v, d)
      BY <1>1, <2>2 DEF Chains
    <3> QED BY <1>4, <3>1
  <2>3. CASE \E g \in Callers(v) : d = Up(v, g)
    BY <1>5, <2>3
  <2> QED BY <2>1, <2>2, <2>3
<1>7. ASSUME NEW d \in stacks'[v]
      PROVE  Chain(v, d)' /\ Len(d) >= 2 /\ d[1] \in Entries' /\ d[1] \in Known(v)'
  <2>1. CASE d \in stacks[v]
    BY <1>1, <1>2, <1>4, <2>1 DEF Chains
  <2>2. CASE d \notin stacks[v]
    <3>1. PICK g \in Callers(v) \cap Entries : d = Up(v, g)
      BY <1>2, <1>7, <2>2
    <3> QED BY <1>1, <1>2, <1>5, <3>1
  <2> QED BY <2>1, <2>2
<1>8. \A i \in DOMAIN queue'[v] : Chain(v, queue[v][i])'
  BY <1>6
<1> QED BY <1>7, <1>8 DEF Chains

\* A turn leaves out no caller, and comes to no function but on a way down.
LEMMA WaysStep ==
  ASSUME SearchInv, NEW v \in Symbol, W!Search(v), UNCHANGED vars,
         CallSites \subseteq calls, calls \in SUBSET (Func \X Func)
  PROVE  Ways(v)'
<1>1. SearchTypes /\ Chains(v) /\ Ways(v) /\ UNCHANGED <<calls, CallSink, CallSites>>
  BY DEF SearchInv, vars, Calls, input
<1> DEFINE h == Top(v)
<1>2. /\ Known(v)' = Known(v) \cup Callers(v)
      /\ seen'[v] = seen[v] \cup {h} /\ h \in Known(v)
  BY <1>1, KnownGrows
<1>3. ASSUME NEW g \in Known(v)' \ {CallSink'[v]}
      PROVE  Leads(g, CallSink[v]) /\ \E e \in CallSites : e[1] = g
  <2>1. CASE g \in Known(v)
    BY <1>1, <1>3, <2>1 DEF Ways
  <2>2. CASE g \notin Known(v)
    <3>1. g \in Func /\ <<g, h>> \in CallSites
      BY <1>2, <2>2 DEF Callers
    <3>2. <<g, h>> \in calls /\ h \in Func
      BY <3>1
    <3>3. Leads(g, CallSink[v])
      <4> SUFFICES ASSUME NEW S \in SUBSET Func, {e[2] : e \in Out(calls, g)} \subseteq S,
                          ForwClosed(S, calls)
                   PROVE  CallSink[v] \in S
        BY DEF Leads
      <4>1. h \in S
        BY <3>2 DEF Out
      <4>2. CASE h # CallSink[v]
        <5>1. Leads(h, CallSink[v])
          BY <1>1, <1>2, <4>2 DEF Ways
        <5>2. {e[2] : e \in Out(calls, h)} \subseteq S
          BY <4>1 DEF Out, ForwClosed
        <5> QED BY <5>1, <5>2 DEF Leads
      <4> QED BY <4>1, <4>2
    <3>4. \E e \in CallSites : e[1] = g
      BY <3>1
    <3> QED BY <3>3, <3>4
  <2> QED BY <2>1, <2>2
<1>4. ASSUME NEW e \in CallSites, e[2] \in seen'[v] PROVE e[1] \in Known(v)'
  <2>1. CASE e[2] \in seen[v]
    BY <1>1, <1>2, <2>1 DEF Ways
  <2>2. CASE e[2] \notin seen[v]
    <3>1. e[2] = h /\ e[1] \in Func /\ e = <<e[1], h>> /\ h \notin seen[v]
      BY <1>2, <1>4, <2>2
    <3>2. e[1] \in seen[v] \cup {h} \/ e[1] \in Callers(v)
      BY <3>1 DEF Callers
    <3> QED BY <1>2, <3>2 DEF Known
  <2> QED BY <2>1, <2>2
<1>5. \A g : Leads(g, CallSink[v])' <=> Leads(g, CallSink[v])
  BY <1>1 DEF Leads, ForwClosed, Out
<1> QED BY <1>1, <1>3, <1>4, <1>5 DEF Ways

\* A turn keeps the queue in order, and gets ahead of all longer ways.
LEMMA BreadthStep ==
  ASSUME SearchInv, NEW v \in Symbol, W!Search(v), UNCHANGED vars, Ways(v)'
  PROVE  Breadth(v)'
<1>1. SearchTypes /\ Chains(v) /\ Breadth(v) /\ UNCHANGED <<CallSink, CallSites>>
  BY DEF SearchInv, vars, Calls
<1> DEFINE q  == queue[v]
           qn == queue'[v]
           c  == First(v)
           h  == Top(v)
           l  == Len(c)
<1>2. \A i \in DOMAIN q : Chain(v, q[i]) /\ Len(q[i]) \in Nat /\ Len(q[i]) >= 1
  BY <1>1 DEF Chains, Chain
<1>3. /\ q # <<>> /\ c \in Seq(Func) /\ h \in Func
      /\ queue' \in [Symbol -> Seq(Seq(Func))]
      /\ Len(qn) >= Len(q) - 1
      /\ \A i \in 1 .. Len(q) - 1 : qn[i] = q[i + 1]
      /\ \A i \in Len(q) .. Len(qn) : \E g \in Callers(v) : qn[i] = Up(v, g)
  BY <1>1, <1>2, SearchFacts
<1>4. /\ seen'[v] = seen[v] \cup {h} /\ Callers(v) \subseteq Func
      /\ c = q[1] /\ h = q[1][1]
  BY <1>1, KnownGrows DEF Top
<1>5. /\ q \in Seq(Seq(Func)) /\ Len(q) \in Nat /\ Len(q) >= 1 /\ DOMAIN q = 1 .. Len(q)
      /\ qn \in Seq(Seq(Func)) /\ Len(qn) \in Nat /\ DOMAIN qn = 1 .. Len(qn)
  BY <1>1, <1>3 DEF SearchTypes
<1>6. /\ \A i, j \in DOMAIN q : i <= j => Len(q[i]) <= Len(q[j]) /\ Len(q[j]) <= Len(q[1]) + 1
      /\ \A n \in 1 .. Len(q[1]) : \A p \in [1 .. n -> Func] : Way(v, n, p) =>
           p[1] \in seen[v] \/ \E i \in DOMAIN q : q[i][1] = p[1] /\ Len(q[i]) <= n
  BY <1>1, <1>3 DEF Breadth
<1>7. \A g \in Callers(v) : Len(Up(v, g)) = l + 1
  BY <1>3, <1>4, UpFacts DEF Up
<1> HIDE DEF q, qn, c, h
<1>8. l \in Nat /\ l >= 1 /\ l = Len(q[1])
  <2>1. 1 \in DOMAIN q
    BY <1>5
  <2> QED BY <1>2, <1>4, <2>1
<1> HIDE DEF l
<1>9. ASSUME NEW i \in 1 .. Len(qn), i <= Len(q) - 1
      PROVE  i + 1 \in DOMAIN q /\ qn[i] = q[i + 1] /\ Len(qn[i]) \in {l, l + 1}
  <2>1. i + 1 \in DOMAIN q /\ 1 \in DOMAIN q /\ 1 <= i + 1 /\ qn[i] = q[i + 1]
    BY <1>3, <1>5, <1>9
  <2>2. Len(q[1]) <= Len(q[i + 1]) /\ Len(q[i + 1]) <= Len(q[1]) + 1
    BY <1>6, <2>1
  <2>3. Len(q[i + 1]) \in Nat
    BY <1>2, <2>1
  <2> QED BY <1>8, <2>1, <2>2, <2>3
<1>10. ASSUME NEW i \in 1 .. Len(qn), ~(i <= Len(q) - 1)
       PROVE  Len(qn[i]) = l + 1
  <2>1. i \in Len(q) .. Len(qn)
    BY <1>5, <1>10
  <2> QED BY <1>3, <1>7, <2>1
<1>11. \A i \in 1 .. Len(qn) : Len(qn[i]) \in {l, l + 1}
  BY <1>9, <1>10
<1>12. ASSUME NEW i \in 1 .. Len(qn), NEW j \in 1 .. Len(qn), i <= j
       PROVE  Len(qn[i]) <= Len(qn[j]) /\ Len(qn[j]) <= Len(qn[1]) + 1
  <2>1. 1 \in 1 .. Len(qn)
    OBVIOUS
  <2>2. Len(qn[j]) <= Len(qn[1]) + 1
    BY <1>8, <1>11, <2>1
  <2>3. CASE j <= Len(q) - 1
    <3>1. i <= Len(q) - 1 /\ i + 1 <= j + 1
      BY <1>5, <1>12, <2>3
    <3>2. Len(q[i + 1]) <= Len(q[j + 1])
      BY <1>6, <1>9, <2>3, <3>1
    <3> QED BY <1>9, <2>2, <2>3, <3>1, <3>2
  <2>4. CASE ~(j <= Len(q) - 1)
    <3>1. Len(qn[i]) <= l + 1
      BY <1>8, <1>11
    <3> QED BY <1>10, <2>2, <2>4, <3>1
  <2> QED BY <2>3, <2>4
<1>13. ASSUME qn # <<>>, NEW n \in 1 .. Len(qn[1]), NEW p \in [1 .. n -> Func], Way(v, n, p)'
       PROVE  p[1] \in seen'[v] \/ \E i \in DOMAIN qn : qn[i][1] = p[1] /\ Len(qn[i]) <= n
  <2>1. /\ \A i \in 1 .. n - 1 : <<p[i], p[i + 1]>> \in CallSites
        /\ p[n] = CallSink[v] /\ Way(v, n, p)
    BY <1>1, <1>13 DEF Way
  <2>2. 1 \in 1 .. Len(qn) /\ n <= l + 1 /\ n >= 1
    <3>1. 1 \in 1 .. Len(qn)
      BY <1>5, <1>13
    <3>2. Len(qn[1]) \in {l, l + 1}
      BY <1>11, <3>1
    <3> QED BY <1>8, <3>1, <3>2
  <2>3. CASE n <= l
    <3>1. n \in 1 .. Len(q[1])
      BY <1>8, <2>2, <2>3
    <3>2. CASE p[1] \in seen[v]
      BY <1>4, <3>2
    <3>3. CASE p[1] \notin seen[v]
      <4>1. PICK i \in DOMAIN q : q[i][1] = p[1] /\ Len(q[i]) <= n
        BY <1>6, <2>1, <3>1, <3>3
      <4>2. CASE i = 1
        BY <1>4, <4>1, <4>2
      <4>3. CASE i # 1
        <5> DEFINE k == i - 1
        <5>1. k \in 1 .. Len(q) - 1 /\ k + 1 = i /\ k \in DOMAIN qn
          BY <1>3, <1>5, <4>3
        <5> HIDE DEF k
        <5>2. qn[k] = q[i]
          BY <1>3, <5>1
        <5> QED BY <4>1, <5>1, <5>2
      <4> QED BY <4>2, <4>3
    <3> QED BY <3>2, <3>3
  <2>4. CASE ~(n <= l)
    <3>1. n = l + 1
      BY <1>8, <2>2, <2>4
    <3>2. \A i \in 1 .. Len(qn) : Len(qn[i]) = l + 1
      <4> SUFFICES ASSUME NEW i \in 1 .. Len(qn) PROVE Len(qn[i]) = l + 1
        OBVIOUS
      <4>1. Len(qn[1]) <= Len(qn[i]) /\ Len(qn[1]) >= n
        BY <1>8, <1>11, <1>12, <2>2
      <4>2. Len(qn[i]) \in {l, l + 1} /\ Len(qn[1]) \in {l, l + 1}
        BY <1>11, <2>2
      <4> QED BY <1>8, <3>1, <4>1, <4>2
    <3> DEFINE p2 == [i \in 1 .. l |-> p[i + 1]]
    <3>3. p2 \in [1 .. l -> Func] /\ p2[1] = p[2] /\ Way(v, l, p2)
      <4>1. p2 \in [1 .. l -> Func] /\ p2[1] = p[2] /\ p2[l] = p[n]
        BY <1>8, <3>1
      <4>2. ASSUME NEW i \in 1 .. l - 1 PROVE <<p2[i], p2[i + 1]>> \in CallSites
        <5>1. i + 1 \in 1 .. n - 1 /\ p2[i] = p[i + 1] /\ p2[i + 1] = p[(i + 1) + 1]
          BY <1>8, <3>1
        <5> HIDE DEF p2
        <5> QED BY <2>1, <5>1
      <4> HIDE DEF p2
      <4> QED BY <2>1, <4>1, <4>2 DEF Way
    <3> HIDE DEF p2
    <3>4. p[2] \in seen'[v]
      <4>1. l \in 1 .. Len(q[1])
        BY <1>8
      <4>2. p[2] \in seen[v] \/ \E i \in DOMAIN q : q[i][1] = p[2] /\ Len(q[i]) <= l
        BY <1>6, <3>3, <4>1
      <4>3. ASSUME NEW i \in DOMAIN q, Len(q[i]) <= l PROVE i = 1
        <5> SUFFICES ASSUME i # 1 PROVE FALSE
          OBVIOUS
        <5> DEFINE k == i - 1
        <5>1. k \in 1 .. Len(q) - 1 /\ k + 1 = i /\ k \in 1 .. Len(qn)
          BY <1>3, <1>5
        <5> HIDE DEF k
        <5>2. Len(q[i]) = l + 1
          BY <1>3, <3>2, <5>1
        <5> QED BY <1>8, <4>3, <5>2
      <4> QED BY <1>4, <4>2, <4>3
    <3>5. <<p[1], p[2]>> \in CallSites
      <4>1. 1 \in 1 .. n - 1 /\ 1 + 1 = 2
        BY <1>8, <3>1
      <4> QED BY <2>1, <4>1
    <3>6. p[1] \in Known(v)'
      BY <1>1, <3>4, <3>5 DEF Ways
    <3>7. p[1] \in seen'[v] \/ \E i \in DOMAIN qn : qn[i][1] = p[1]
      BY <3>6 DEF Known, qn
    <3>8. \A i \in DOMAIN qn : Len(qn[i]) <= n
      BY <1>5, <1>8, <3>1, <3>2
    <3> QED BY <3>7, <3>8
  <2> QED BY <2>3, <2>4
<1>14. \A i, j \in DOMAIN qn : i <= j => Len(qn[i]) <= Len(qn[j]) /\ Len(qn[j]) <= Len(qn[1]) + 1
  BY <1>5, <1>12
<1>15. \A n \in 1 .. (IF qn = <<>> THEN 0 ELSE Len(qn[1])) : \A p \in [1 .. n -> Func] :
         Way(v, n, p)' =>
           p[1] \in seen'[v] \/ \E i \in DOMAIN qn : qn[i][1] = p[1] /\ Len(qn[i]) <= n
  <2>1. CASE qn = <<>>
    BY <2>1
  <2>2. CASE qn # <<>>
    BY <1>13, <2>2
  <2> QED BY <2>1, <2>2
<1> QED BY <1>14, <1>15 DEF Breadth, qn

\* An entry that a turn comes to was not nearer to the sink.
LEMMA EntriesStep ==
  ASSUME SearchInv, NEW v \in Symbol, W!Search(v), UNCHANGED vars
  PROVE  EntryStacks(v)'
<1>1. SearchTypes /\ Chains(v) /\ Breadth(v) /\ EntryStacks(v)
      /\ UNCHANGED <<CallSink, CallSites, Entries>>
  BY DEF SearchInv, vars, Calls
<1>2. /\ Known(v)' = Known(v) \cup Callers(v) /\ Callers(v) \subseteq Func
      /\ stacks'[v] = stacks[v] \cup {Up(v, g) : g \in Callers(v) \cap Entries}
      /\ First(v) = queue[v][1] /\ Chain(v, First(v))
  BY <1>1, KnownGrows
<1>3. queue[v] # <<>>
  BY DEF W!Search
<1>4. First(v) \in Seq(Func) /\ Len(First(v)) \in Nat
  BY <1>2 DEF Chain
<1>5. \A n, p : Way(v, n, p)' <=> Way(v, n, p)
  BY <1>1 DEF Way
<1>6. \A c : Shortest(v, c)' <=> Shortest(v, c)
  BY <1>5 DEF Shortest
<1> SUFFICES ASSUME NEW g \in (Known(v)' \cap Entries) \ {CallSink[v]}
             PROVE  \E c \in stacks'[v] : c[1] = g /\ Shortest(v, c)
  BY <1>1, <1>6 DEF EntryStacks
<1>7. CASE g \in Known(v)
  BY <1>1, <1>2, <1>7 DEF EntryStacks
<1>8. CASE g \notin Known(v)
  <2>1. g \in Callers(v) /\ g \in Func /\ Up(v, g) \in stacks'[v]
    BY <1>2, <1>8
  <2>2. Up(v, g)[1] = g /\ Len(Up(v, g)) = Len(First(v)) + 1
    BY <1>4, <2>1, UpFacts DEF Up
  <2>3. ASSUME NEW n \in 1 .. Len(Up(v, g)) - 1, NEW p \in [1 .. n -> Func],
               Way(v, n, p), p[1] = g
        PROVE  FALSE
    <3>1. n \in 1 .. (IF queue[v] = <<>> THEN 0 ELSE Len(queue[v][1]))
      BY <1>2, <1>3, <1>4, <2>2
    <3>2. g \in seen[v] \/ \E i \in DOMAIN queue[v] : queue[v][i][1] = g
      BY <1>1, <2>3, <3>1 DEF Breadth
    <3> QED BY <1>8, <3>2 DEF Known
  <2>4. Shortest(v, Up(v, g))
    BY <2>2, <2>3 DEF Shortest
  <2> QED BY <2>1, <2>2, <2>4
<1> QED BY <1>7, <1>8

LEMMA SearchStep ==
  ASSUME SliceInv, SearchInv, W!Launched, UNCHANGED vars, NEW v \in Symbol, W!Search(v)
  PROVE  SearchInv'
<1>1. SearchTypes /\ Started /\ Chains(v) /\ phase = "done" /\ UNCHANGED <<phase, CallSink>>
  BY DEF SearchInv, Started, vars, Calls
<1>2. CallSites \subseteq calls /\ calls \in SUBSET (Func \X Func)
  BY <1>1 DEF SliceInv, TypeOK, Forward, Sites, Relevant
<1>3. /\ queue[v] # <<>> /\ queue' \in [Symbol -> Seq(Seq(Func))]
      /\ seen' = [seen EXCEPT ![v] = seen[v] \cup {Top(v)}] /\ Top(v) \in Func
      /\ stacks' = [stacks EXCEPT ![v] =
                      stacks[v] \cup {Up(v, g) : g \in Callers(v) \cap Entries}]
      /\ \A u \in Symbol : u # v => queue'[u] = queue[u]
      /\ First(v) \in Seq(Func)
      /\ UNCHANGED <<group, found, witness>>
  <2>1. \A i \in DOMAIN queue[v] : Len(queue[v][i]) >= 1
    BY <1>1 DEF Chains, Chain
  <2> QED BY <1>1, <2>1, SearchFacts
<1>4. Known(v)' = Known(v) \cup Callers(v) /\ Callers(v) \subseteq Func
  BY <1>1, KnownGrows
<1>5. SearchTypes'
  <2>1. {Up(v, g) : g \in Callers(v) \cap Entries} \in SUBSET Seq(Func)
    <3>1. \A g \in Callers(v) : Up(v, g) \in Seq(Func)
      BY <1>3, <1>4, UpFacts DEF Up
    <3> QED BY <3>1
  <2>2. stacks' \in [Symbol -> SUBSET Seq(Func)]
    BY <1>1, <1>3, <2>1 DEF SearchTypes
  <2>3. seen' \in [Symbol -> SUBSET Func]
    BY <1>1, <1>3 DEF SearchTypes
  <2> QED BY <1>1, <1>3, <2>2, <2>3 DEF SearchTypes
<1>6. ASSUME NEW s \in Symbol, s # v
      PROVE  /\ (Chains(s) /\ Ways(s) /\ Breadth(s) /\ EntryStacks(s))'
             /\ Known(s)' = Known(s) /\ queue'[s] = queue[s]
  <2>1. queue'[s] = queue[s] /\ seen'[s] = seen[s] /\ stacks'[s] = stacks[s]
    BY <1>1, <1>3, <1>6 DEF SearchTypes
  <2> QED BY <2>1, OthersKept
<1>7. Ways(v)'
  BY <1>2, WaysStep
<1>8. (Chains(v) /\ Breadth(v) /\ EntryStacks(v))'
  BY <1>7, ChainsStep, BreadthStep, EntriesStep
<1>9. Started'
  <2>1. \A s \in Symbol : Known(s) \subseteq Known(s)'
    BY <1>4, <1>6
  <2>2. W!Launched' <=> W!Launched
    BY <1>3 DEF W!Launched
  <2> QED BY <1>1, <2>1, <2>2 DEF Started
<1>10. \A s \in Symbol : Kept(s)'
  <2>1. v \notin found
    BY <1>3 DEF SearchInv, Kept
  <2>2. \A s \in Symbol : witness[s] = <<"todo">>
    BY <2>1 DEF SearchInv, Kept, W!Joined
  <2>3. \A s \in Symbol : s \in found => queue'[s] = <<>>
    BY <1>6, <2>1 DEF SearchInv, Kept
  <2> QED BY <1>3, <2>2, <2>3 DEF Kept, W!Launched
<1> QED BY <1>5, <1>6, <1>7, <1>8, <1>9, <1>10 DEF SearchInv

LEMMA StoreStep ==
  ASSUME SearchInv, UNCHANGED vars, NEW v \in Symbol, W!Store(v)
  PROVE  SearchInv'
<1>1. /\ W!Launched /\ queue[v] = <<>> /\ v \notin found /\ found' = found \cup {v}
      /\ UNCHANGED <<group, queue, seen, stacks, witness, phase, CallSink>>
  BY DEF W!Store, W!input, W!search, vars, Calls
<1>2. \A s \in Symbol : (Chains(s) /\ Ways(s) /\ Breadth(s) /\ EntryStacks(s))'
                        /\ Known(s)' = Known(s)
  BY <1>1, OthersKept
<1>3. SearchTypes'
  BY <1>1 DEF SearchInv, SearchTypes
<1>4. Started'
  BY <1>1, <1>2 DEF SearchInv, Started, W!Launched
<1>5. \A s \in Symbol : witness[s] = <<"todo">>
  BY <1>1 DEF SearchInv, Kept, W!Joined
<1>6. \A s \in Symbol : s \in found => queue[s] = <<>>
  BY DEF SearchInv, Kept
<1>7. \A s \in Symbol : Kept(s)'
  BY <1>1, <1>5, <1>6 DEF Kept, W!Launched
<1> QED BY <1>2, <1>3, <1>4, <1>7 DEF SearchInv

LEMMA KeepStep ==
  ASSUME SearchInv, W!Launched, UNCHANGED vars, NEW v \in Symbol, W!Keep(v)
  PROVE  SearchInv'
<1>1. /\ found = Symbol
      /\ UNCHANGED <<group, queue, seen, stacks, found, phase, CallSink>>
  BY DEF W!Keep, W!Joined, W!input, W!search, vars, Calls
<1>2. PICK c \in IF W!unique(v) = {} THEN {<<>>} ELSE W!unique(v) :
        witness' = [witness EXCEPT ![v] = c]
  BY DEF W!Keep
<1>3. \A s \in Symbol : (Chains(s) /\ Ways(s) /\ Breadth(s) /\ EntryStacks(s))'
                        /\ Known(s)' = Known(s)
  BY <1>1, OthersKept
<1>4. \A s : W!unique(s)' = W!unique(s)
  BY <1>1 DEF W!unique, W!vulnFuncs, W!called
<1>5. c \in Seq(Func)
  <2>1. W!unique(v) \subseteq stacks[v]
    BY DEF W!unique
  <2>2. stacks[v] \subseteq Seq(Func) /\ <<>> \in Seq(Func)
    BY DEF SearchInv, SearchTypes
  <2>3. c = <<>> \/ c \in W!unique(v)
    BY <1>2
  <2> QED BY <2>1, <2>2, <2>3
<1>6. SearchTypes'
  BY <1>1, <1>2, <1>5 DEF SearchInv, SearchTypes
<1>7. Started'
  BY <1>1, <1>3 DEF SearchInv, Started, W!Launched
<1>8. ASSUME NEW s \in Symbol PROVE Kept(s)'
  <2>1. queue'[s] = <<>> /\ W!Launched'
    BY <1>1 DEF SearchInv, Kept, W!Launched
  <2>2. W!Joined'
    BY <1>1 DEF W!Joined
  <2>3. witness'[s] # <<"todo">> =>
          IF W!unique(s) = {} THEN witness'[s] = <<>> ELSE witness'[s] \in W!unique(s)
    <3>1. CASE s = v
      BY <1>2, <3>1 DEF SearchInv, SearchTypes
    <3>2. CASE s # v
      <4>1. witness'[s] = witness[s]
        BY <1>2, <3>2 DEF SearchInv, SearchTypes
      <4> QED BY <4>1 DEF SearchInv, Kept
    <3> QED BY <3>1, <3>2
  <2> QED BY <1>4, <2>1, <2>2, <2>3 DEF Kept
<1> QED BY <1>3, <1>6, <1>7, <1>8 DEF SearchInv

LEMMA AllKept ==
  ASSUME SearchInv, UNCHANGED allVars
  PROVE  SearchInv'
<1>1. UNCHANGED <<vars, group, queue, seen, stacks, found, witness, phase, CallSink>>
  BY DEF allVars, witnesses, vars, Calls
<1>2. \A s \in Symbol : (Chains(s) /\ Ways(s) /\ Breadth(s) /\ EntryStacks(s))'
                        /\ Known(s)' = Known(s)
  BY <1>1, OthersKept
<1>3. SearchTypes' /\ Started'
  BY <1>1, <1>2 DEF SearchInv, SearchTypes, Started, W!Launched
<1>4. \A s : W!unique(s)' = W!unique(s)
  BY <1>1 DEF W!unique, W!vulnFuncs, W!called
<1>5. \A s \in Symbol : Kept(s)'
  BY <1>1, <1>4 DEF SearchInv, Kept, W!Launched, W!Joined
<1> QED BY <1>2, <1>3, <1>5 DEF SearchInv

LEMMA SearchStepKeeps ==
  SliceInv /\ SearchInv /\ [SourceNext]_allVars => SearchInv'
<1> SUFFICES ASSUME SliceInv, SearchInv, [SourceNext]_allVars PROVE SearchInv'
  OBVIOUS
<1>1. CASE SliceStep
  BY <1>1, SliceStepIdle
<1>2. ASSUME NEW keys \in [Symbol -> Group], Launch(keys) PROVE SearchInv'
  BY <1>2, LaunchStep
<1>3. CASE WitnessStep
  BY <1>3, SearchStep, StoreStep, KeepStep DEF WitnessStep, W!Next
<1>4. CASE UNCHANGED allVars
  BY <1>4, AllKept
<1> QED BY <1>1, <1>2, <1>3, <1>4 DEF SourceNext, Finished

(***************************************************************************)
(* The searches come after the slice and do not disturb it: what is so of  *)
(* Spec is so of the whole.                                                *)
(***************************************************************************)
THEOREM SliceImplemented == SourceSpec => Spec
<1>1. SourceInit => Init
  BY DEF SourceInit
<1>2. [SourceNext]_allVars => [Next]_vars
  BY DEF SourceNext, SliceStep, WitnessStep, Finished, Launch, allVars
<1> QED BY <1>1, <1>2, PTL DEF SourceSpec, Spec

LEMMA SearchInvCorrect == SourceSpec => [](SliceInv /\ SearchInv)
BY SearchInit, SearchStepKeeps, SliceImplemented, SliceInvCorrect, PTL DEF SourceSpec

-----------------------------------------------------------------------------
(* What the searches find.                                                 *)

\* The slice, when it is used.
LEMMA SliceOver ==
  ASSUME SliceInv, phase = "done"
  PROVE  /\ CallSites = Relevant /\ CallSites \subseteq calls
         /\ calls \in SUBSET (Func \X Func) /\ sources \in SUBSET Func
         /\ Entries \subseteq sources
         /\ \A e \in CallSites : e[1] \in sources => e[1] \in Entries
         /\ \A s \in Symbol : CallSink[s] # None =>
              CallSink[s] \in sinks /\ symbolOf[CallSink[s]] = s /\ Reached(CallSink[s])
         /\ \A s \in Symbol : (\E e \in CallSites : e[2] \in sinks /\ symbolOf[e[2]] = s) =>
              CallSink[s] # None
         /\ None \notin Func
<1>1. /\ TypeOK /\ fcg = Relevant /\ Entries = filteredSources /\ SinksOf(filteredSinks)
      /\ CallSites = fcg /\ bcg = {e \in calls : LeadsToVuln(e[2])}
  BY DEF SliceInv, Forward, Sinks, Sites, Backward
<1>2. /\ calls \in SUBSET (Func \X Func) /\ sources \in SUBSET Func
      /\ CallSites \subseteq calls /\ None \notin Func
  BY <1>1, NoneAssumption DEF TypeOK, Relevant
<1>3. \A e \in CallSites : e[1] \in sources => e[1] \in Entries
  BY <1>1 DEF Relevant, filteredSources, Nodes
<1>4. \A f \in Nodes(fcg) : Reached(f)
  BY <1>1, <1>2, ReachedOn DEF Nodes, Relevant
<1>5. ASSUME NEW s \in Symbol, CallSink[s] # None
      PROVE  CallSink[s] \in sinks /\ symbolOf[CallSink[s]] = s /\ Reached(CallSink[s])
  <2>1. CallSink[s] \in filteredSinks /\ symbolOf[CallSink[s]] = s
    BY <1>1, <1>5 DEF SinksOf
  <2> QED BY <1>4, <2>1 DEF filteredSinks
<1>6. ASSUME NEW s \in Symbol, NEW e \in CallSites, e[2] \in sinks, symbolOf[e[2]] = s
      PROVE  CallSink[s] # None
  <2>1. e[2] \in filteredSinks
    BY <1>1, <1>6 DEF filteredSinks, Nodes
  <2> QED BY <1>1, <1>2, <1>6, <2>1 DEF SinksOf, filteredSinks, sinks
<1>7. Entries \subseteq sources
  BY <1>1 DEF filteredSources
<1> QED BY <1>1, <1>2, <1>3, <1>5, <1>6, <1>7

\* Who has stacks has been searched for on the whole slice.
LEMMA StackFacts ==
  ASSUME SliceInv, SearchInv, NEW s \in Symbol, NEW c \in stacks[s]
  PROVE  /\ phase = "done" /\ CallSink[s] # None /\ CallSink[s] \in Func
         /\ c \in Seq(Func) /\ Len(c) \in Nat /\ Len(c) >= 2 /\ DOMAIN c = 1 .. Len(c)
         /\ c[Len(c)] = CallSink[s] /\ c[1] \in sources /\ c[1] \in Entries
         /\ c[1] \in Known(s) /\ c[1] # CallSink[s]
         /\ \A i \in 1 .. Len(c) - 1 : <<c[i], c[i + 1]>> \in CallSites
         /\ \A i, j \in DOMAIN c : c[i] = c[j] => i = j
<1>1. phase = "done"
  BY DEF SearchInv, Started
<1>2. Chain(s, c) /\ Len(c) >= 2 /\ c[1] \in Entries /\ c[1] \in Known(s)
  BY DEF SearchInv, Chains
<1>3. /\ c \in Seq(Func) /\ Len(c) \in Nat /\ DOMAIN c = 1 .. Len(c) /\ c[Len(c)] = CallSink[s]
      /\ \A i \in 1 .. Len(c) - 1 : <<c[i], c[i + 1]>> \in CallSites
      /\ \A i, j \in DOMAIN c : c[i] = c[j] => i = j
  BY <1>2 DEF Chain
<1>4. Len(c) \in DOMAIN c /\ 1 \in DOMAIN c /\ Len(c) # 1
  BY <1>2, <1>3
<1>5. CallSink[s] \in Func
  BY <1>3, <1>4
<1>6. c[1] # CallSink[s]
  BY <1>3, <1>4
<1>7. Entries \subseteq sources /\ None \notin Func
  BY <1>1, SliceOver
<1> QED BY <1>1, <1>2, <1>3, <1>5, <1>6, <1>7

LEMMA StacksInv == SliceInv /\ SearchInv => StacksReal
<1> SUFFICES ASSUME SliceInv, SearchInv, NEW s \in Symbol, NEW c \in stacks[s]
             PROVE  /\ IsPath(c) /\ IsInjective(c)
                    /\ c[1] \in sources /\ symbolOf[c[Len(c)]] = s
  BY DEF StacksReal
<1>1. /\ phase = "done" /\ CallSink[s] # None /\ c[Len(c)] = CallSink[s] /\ c[1] \in sources
      /\ \A i \in 1 .. Len(c) - 1 : <<c[i], c[i + 1]>> \in CallSites
      /\ \A i, j \in DOMAIN c : c[i] = c[j] => i = j
  BY StackFacts
<1>2. CallSites \subseteq calls /\ symbolOf[CallSink[s]] = s
  BY <1>1, SliceOver
<1>3. IsPath(c)
  BY <1>1, <1>2 DEF IsPath
<1>4. IsInjective(c)
  BY <1>1 DEF IsInjective
<1> QED BY <1>1, <1>2, <1>3, <1>4

(***************************************************************************)
(* Every stack is a way the program can take from an entry point to a      *)
(* function of the vulnerable symbol, without calling a function twice.    *)
(***************************************************************************)
THEOREM StacksCorrect == SourceSpec => []StacksReal
BY StacksInv, SearchInvCorrect, PTL

\* What leads to a sink leads to a vulnerable function.
LEMMA LeadsVuln ==
  ASSUME calls \in SUBSET (Func \X Func), NEW g \in Func, NEW f \in sinks, Leads(g, f)
  PROVE  LeadsToVuln(g)
<1> SUFFICES ASSUME NEW S \in SUBSET Func, sinks \subseteq S, BackClosed(S, calls), g \notin S
             PROVE  FALSE
  BY DEF LeadsToVuln
<1>1. ForwClosed(Func \ S, calls)
  BY DEF BackClosed, ForwClosed
<1>2. {e[2] : e \in Out(calls, g)} \subseteq Func \ S
  BY DEF BackClosed, Out
<1>3. f \in Func \ S
  BY <1>1, <1>2 DEF Leads
<1> QED BY <1>3

\* An entry point that leads to the sink was come to when the search is over:
\* the functions reached that were not are closed.
LEMMA EntryKnown ==
  ASSUME SliceInv, SearchInv, NEW s \in found, NEW e \in sources,
         CallSink[s] # None, e # CallSink[s], Leads(e, CallSink[s])
  PROVE  e \in Known(s) \cap Entries
<1> DEFINE x == CallSink[s]
<1>1. s \in Symbol /\ queue[s] = <<>> /\ W!Launched
  BY DEF SearchInv, SearchTypes, Kept
<1>2. /\ phase = "done" /\ x \in Known(s) /\ Ways(s)
  BY <1>1 DEF SearchInv, Started
<1>3. Known(s) = seen[s] /\ seen[s] \subseteq Func
  <2>1. DOMAIN queue[s] = {}
    BY <1>1
  <2> QED BY <1>1, <2>1 DEF Known, SearchInv, SearchTypes
<1>4. /\ CallSites = Relevant /\ CallSites \subseteq calls
      /\ calls \in SUBSET (Func \X Func) /\ sources \in SUBSET Func
      /\ \A d \in CallSites : d[1] \in sources => d[1] \in Entries
      /\ x \in sinks
  BY <1>1, <1>2, SliceOver
<1>5. \A g \in seen[s] : LeadsToVuln(g)
  <2> SUFFICES ASSUME NEW g \in seen[s] PROVE LeadsToVuln(g)
    OBVIOUS
  <2>1. CASE g = x
    BY <1>4, <2>1, LeadsBack
  <2>2. CASE g # x
    <3>1. Leads(g, x) /\ g \in Func
      BY <1>2, <1>3, <2>2 DEF Ways
    <3> HIDE DEF x
    <3> QED BY <1>4, <3>1, LeadsVuln
  <2> QED BY <2>1, <2>2
<1>6. ASSUME NEW d \in calls, Reached(d[1]), d[2] \in seen[s] PROVE d[1] \in seen[s]
  <2>1. d \in CallSites
    BY <1>4, <1>5, <1>6 DEF Relevant
  <2> QED BY <1>2, <1>3, <1>6, <2>1 DEF Ways
<1>7. e \in seen[s]
  <2> SUFFICES ASSUME e \notin seen[s] PROVE FALSE
    OBVIOUS
  <2> DEFINE S == {f \in Func : Reached(f) /\ f \notin seen[s]}
  <2>1. Reached(e) /\ e \in S
    BY <1>4, ReachedOn
  <2>2. ForwClosed(S, calls)
    <3> SUFFICES ASSUME NEW d \in calls, d[1] \in S PROVE d[2] \in S
      BY DEF ForwClosed
    <3>1. Reached(d[2]) /\ d[2] \in Func
      BY <1>4, ReachedOn
    <3> QED BY <1>6, <3>1
  <2>3. {d[2] : d \in Out(calls, e)} \subseteq S
    BY <2>1, <2>2 DEF Out, ForwClosed
  <2>4. x \in S
    BY <2>2, <2>3 DEF Leads
  <2> QED BY <1>2, <1>3, <2>4
<1>8. PICK d \in CallSites : d[1] = e
  BY <1>2, <1>3, <1>7 DEF Ways
<1> QED BY <1>3, <1>4, <1>7, <1>8

LEMMA EntriesInv == SliceInv /\ SearchInv => EveryEntryFound
<1> SUFFICES ASSUME SliceInv, SearchInv, NEW s \in found
             PROVE  {c[1] : c \in stacks[s]} =
                      {e \in sources : CallSink[s] # None /\ e # CallSink[s]
                                       /\ Leads(e, CallSink[s])}
  BY DEF EveryEntryFound
<1>1. s \in Symbol
  BY DEF SearchInv, SearchTypes
<1>2. ASSUME NEW c \in stacks[s]
      PROVE  /\ c[1] \in sources /\ CallSink[s] # None /\ c[1] # CallSink[s]
             /\ Leads(c[1], CallSink[s])
  <2>1. /\ CallSink[s] # None /\ c[1] \in sources /\ c[1] \in Known(s) /\ c[1] # CallSink[s]
    BY <1>1, StackFacts
  <2>2. Leads(c[1], CallSink[s])
    BY <1>1, <2>1 DEF SearchInv, Ways
  <2> QED BY <2>1, <2>2
<1>3. ASSUME NEW e \in sources, CallSink[s] # None, e # CallSink[s], Leads(e, CallSink[s])
      PROVE  \E c \in stacks[s] : c[1] = e
  <2>1. e \in (Known(s) \cap Entries) \ {CallSink[s]}
    BY <1>3, EntryKnown
  <2> QED BY <1>1, <2>1 DEF SearchInv, EntryStacks
<1> QED BY <1>2, <1>3

(***************************************************************************)
(* Expanding a function once is enough: each entry point that leads to the *)
(* CallSink has a stack when the search is over, and no other function     *)
(* has.                                                                    *)
(***************************************************************************)
THEOREM EntriesCorrect == SourceSpec => []EveryEntryFound
BY EntriesInv, SearchInvCorrect, PTL

\* Along a path one is reached if the first function is, leads to a vulnerable
\* function if the last one does, and the first function leads to the last.
LEMMA PathReached ==
  ASSUME calls \in SUBSET (Func \X Func), NEW n \in Nat \ {0}, NEW p \in [1 .. n -> Func],
         \A i \in 1 .. n - 1 : <<p[i], p[i + 1]>> \in calls, Reached(p[1])
  PROVE  \A i \in 1 .. n : Reached(p[i])
<1> DEFINE S == {i \in 1 .. n : Reached(p[i])}
<1>1. 1 \in S
  OBVIOUS
<1>2. ASSUME NEW i \in 1 .. n - 1, i \in S PROVE i + 1 \in S
  <2>1. <<p[i], p[i + 1]>> \in calls /\ i + 1 \in 1 .. n
    OBVIOUS
  <2>2. Reached(p[i + 1])
    BY <1>2, <2>1, ReachedOn
  <2> QED BY <2>1, <2>2
<1> HIDE DEF S
<1>3. 1 .. n \subseteq S
  BY <1>1, <1>2, Upwards
<1> QED BY <1>3 DEF S

LEMMA PathVuln ==
  ASSUME calls \in SUBSET (Func \X Func), NEW n \in Nat \ {0}, NEW p \in [1 .. n -> Func],
         \A i \in 1 .. n - 1 : <<p[i], p[i + 1]>> \in calls, LeadsToVuln(p[n])
  PROVE  \A i \in 1 .. n : LeadsToVuln(p[i])
<1> DEFINE S == {i \in 1 .. n : LeadsToVuln(p[i])}
<1>1. n \in S
  OBVIOUS
<1>2. ASSUME NEW i \in 1 .. n - 1, i + 1 \in S PROVE i \in S
  <2>1. <<p[i], p[i + 1]>> \in calls /\ i \in 1 .. n
    OBVIOUS
  <2>2. LeadsToVuln(p[i])
    BY <1>2, <2>1, LeadsBack
  <2> QED BY <2>1, <2>2
<1> HIDE DEF S
<1>3. 1 .. n \subseteq S
  BY <1>1, <1>2, Downwards
<1> QED BY <1>3 DEF S

LEMMA PathLeads ==
  ASSUME calls \in SUBSET (Func \X Func), NEW n \in Nat, n >= 2, NEW p \in [1 .. n -> Func],
         \A i \in 1 .. n - 1 : <<p[i], p[i + 1]>> \in calls
  PROVE  Leads(p[1], p[n])
<1> SUFFICES ASSUME NEW T \in SUBSET Func, {e[2] : e \in Out(calls, p[1])} \subseteq T,
                    ForwClosed(T, calls)
             PROVE  p[n] \in T
  BY DEF Leads
<1> DEFINE S == {i \in 1 .. n : i = 1 \/ p[i] \in T}
<1>1. 1 \in S
  OBVIOUS
<1>2. ASSUME NEW i \in 1 .. n - 1, i \in S PROVE i + 1 \in S
  <2>1. <<p[i], p[i + 1]>> \in calls /\ i + 1 \in 1 .. n
    OBVIOUS
  <2>2. CASE i = 1
    BY <2>1, <2>2 DEF Out
  <2>3. CASE i # 1
    BY <1>2, <2>1, <2>3 DEF ForwClosed
  <2> QED BY <2>2, <2>3
<1> HIDE DEF S
<1>3. 1 .. n \subseteq S
  BY <1>1, <1>2, Upwards
<1>4. n \in S /\ n # 1
  BY <1>3
<1> QED BY <1>4 DEF S

LEMMA ShortestInv == SliceInv /\ SearchInv => ShortestFound
<1> SUFFICES ASSUME SliceInv, SearchInv, NEW s \in found, NEW c \in stacks[s]
             PROVE  \E d \in stacks[s] :
                      /\ d[1] = c[1]
                      /\ \A n \in 1 .. Len(d) - 1 : \A p \in [1 .. n -> Func] :
                           ~(IsPath(p) /\ p[1] = c[1] /\ p[n] = CallSink[s])
  BY DEF ShortestFound
<1>1. s \in Symbol
  BY DEF SearchInv, SearchTypes
<1>2. /\ phase = "done" /\ CallSink[s] # None /\ c[1] \in sources
      /\ c[1] \in (Known(s) \cap Entries) \ {CallSink[s]}
  BY <1>1, StackFacts
<1>3. PICK d \in stacks[s] : d[1] = c[1] /\ Shortest(s, d)
  BY <1>1, <1>2 DEF SearchInv, EntryStacks
<1>4. /\ CallSites = Relevant /\ calls \in SUBSET (Func \X Func) /\ CallSink[s] \in sinks
  BY <1>1, <1>2, SliceOver
<1>5. Len(d) \in Nat
  BY <1>1, StackFacts
<1>6. ASSUME NEW n \in 1 .. Len(d) - 1, NEW p \in [1 .. n -> Func],
             IsPath(p), p[1] = c[1], p[n] = CallSink[s]
      PROVE  FALSE
  <2>1. n \in Nat \ {0} /\ Len(p) = n
    BY <1>5
  <2>2. \A i \in 1 .. n - 1 : <<p[i], p[i + 1]>> \in calls
    BY <1>6, <2>1 DEF IsPath
  <2>3. Reached(p[1]) /\ LeadsToVuln(p[n])
    BY <1>2, <1>4, <1>6, ReachedOn, LeadsBack
  <2>4. \A i \in 1 .. n : Reached(p[i])
    BY <1>4, <2>1, <2>2, <2>3, PathReached
  <2>5. \A i \in 1 .. n : LeadsToVuln(p[i])
    BY <1>4, <2>1, <2>2, <2>3, PathVuln
  <2>6. \A i \in 1 .. n - 1 : <<p[i], p[i + 1]>> \in CallSites
    BY <1>4, <2>1, <2>2, <2>4, <2>5 DEF Relevant
  <2>7. Way(s, n, p)
    BY <1>6, <2>6 DEF Way
  <2> QED BY <1>3, <1>6, <2>7 DEF Shortest
<1> QED BY <1>3, <1>6

(***************************************************************************)
(* Of the stacks of an entry one is as short as any way that the program   *)
(* can take to the sink.                                                   *)
(***************************************************************************)
THEOREM ShortestCorrect == SourceSpec => []ShortestFound
BY ShortestInv, SearchInvCorrect, PTL

\* What is reached and no entry point is called by a function reached, and
\* an entry point leads to it.
LEMMA ReachedFrom ==
  ASSUME calls \in SUBSET (Func \X Func), sources \in SUBSET Func,
         NEW f \in Func, Reached(f), f \notin sources
  PROVE  /\ \E d \in calls : Reached(d[1]) /\ d[2] = f
         /\ \E e \in sources : Leads(e, f)
<1>1. \E d \in calls : Reached(d[1]) /\ d[2] = f
  <2> SUFFICES ASSUME \A d \in calls : Reached(d[1]) => d[2] # f PROVE FALSE
    OBVIOUS
  <2> DEFINE S == {g \in Func : Reached(g) /\ g # f}
  <2>1. sources \subseteq S
    BY ReachedOn
  <2>2. ForwClosed(S, calls)
    BY ReachedOn DEF ForwClosed
  <2>3. f \in S
    BY <2>1, <2>2 DEF Reached
  <2> QED BY <2>3
<1>2. \E e \in sources : Leads(e, f)
  <2> DEFINE T == {g \in Func : g \in sources \/ \E e \in sources : Leads(e, g)}
  <2>1. ForwClosed(T, calls)
    <3> SUFFICES ASSUME NEW d \in calls, d[1] \in T PROVE d[2] \in T
      BY DEF ForwClosed
    <3>1. d[2] \in Func
      OBVIOUS
    <3>2. ASSUME d[1] \in sources PROVE Leads(d[1], d[2])
      BY DEF Leads, Out
    <3>3. ASSUME NEW e \in sources, Leads(e, d[1]) PROVE Leads(e, d[2])
      BY <3>3 DEF Leads, ForwClosed
    <3> QED BY <3>1, <3>2, <3>3
  <2>2. f \in T
    BY <2>1 DEF Reached
  <2> QED BY <2>2
<1> QED BY <1>1, <1>2

\* A stack kept ends at a function of the group, which is reached.
LEMMA WitnessReached ==
  ASSUME SliceInv, SearchInv, W!Done, NEW s \in Symbol, NEW u \in Symbol,
         group[u] = group[s], witness[u] # <<>>
  PROVE  \E f \in GroupFuncs(s) : Reached(f)
<1>1. witness[u] \in stacks[u]
  BY DEF SearchInv, Kept, W!Done, W!unique
<1>2. phase = "done" /\ CallSink[u] # None
  BY <1>1, StackFacts
<1>3. CallSink[u] \in sinks /\ symbolOf[CallSink[u]] = u /\ Reached(CallSink[u])
  BY <1>2, SliceOver
<1>4. CallSink[u] \in GroupFuncs(s)
  BY <1>3 DEF GroupFuncs
<1> QED BY <1>3, <1>4

\* The shortest stack of a group goes through no other function of it: from
\* there on another one of the group would be shorter.
LEMMA ShortestUnique ==
  ASSUME SliceInv, SearchInv, found = Symbol, NEW s \in Symbol,
         GroupFuncs(s) \cap sources = {},
         NEW u \in Symbol, group[u] = group[s], NEW c \in stacks[u],
         \A w \in Symbol : group[w] = group[s] => \A d \in stacks[w] : Len(c) <= Len(d)
  PROVE  c \in W!unique(u)
<1> SUFFICES ASSUME NEW i \in DOMAIN c, NEW w \in Symbol, CallSink[w] # None,
                    group[w] = group[u], c[i] = CallSink[w], c[i] # CallSink[u]
             PROVE  FALSE
  BY DEF W!unique, W!vulnFuncs, W!called, W!Range
<1>1. /\ phase = "done" /\ c \in Seq(Func) /\ Len(c) \in Nat /\ DOMAIN c = 1 .. Len(c)
      /\ c[Len(c)] = CallSink[u] /\ c[1] \in sources
      /\ \A j \in 1 .. Len(c) - 1 : <<c[j], c[j + 1]>> \in CallSites
  BY StackFacts
<1>2. /\ CallSites \subseteq calls /\ calls \in SUBSET (Func \X Func)
      /\ CallSink[w] \in sinks /\ symbolOf[CallSink[w]] = w
  BY <1>1, SliceOver
<1>3. CallSink[w] \notin sources
  BY <1>2 DEF GroupFuncs
<1>4. i # 1 /\ i # Len(c)
  BY <1>1, <1>3
<1>5. i \in Nat /\ i >= 2 /\ i < Len(c)
  BY <1>1, <1>4
<1> DEFINE p == [j \in 1 .. i |-> c[j]]
<1>6. p \in [1 .. i -> Func] /\ p[1] = c[1] /\ p[i] = CallSink[w] /\ Len(p) = i
  BY <1>1, <1>5
<1>7. \A j \in 1 .. i - 1 : <<p[j], p[j + 1]>> \in calls
  <2> SUFFICES ASSUME NEW j \in 1 .. i - 1 PROVE <<p[j], p[j + 1]>> \in calls
    OBVIOUS
  <2>1. j \in 1 .. Len(c) - 1 /\ p[j] = c[j] /\ p[j + 1] = c[j + 1]
    BY <1>1, <1>5
  <2> HIDE DEF p
  <2> QED BY <1>1, <1>2, <2>1
<1> HIDE DEF p
<1>8. Leads(c[1], CallSink[w])
  BY <1>2, <1>5, <1>6, <1>7, PathLeads
<1>9. \E d \in stacks[w] : d[1] = c[1]
  <2>1. c[1] \in {e \in sources : CallSink[w] # None /\ e # CallSink[w]
                                /\ Leads(e, CallSink[w])}
    BY <1>1, <1>3, <1>8
  <2>2. c[1] \in {d[1] : d \in stacks[w]}
    BY <2>1, EntriesInv DEF EveryEntryFound
  <2> QED BY <2>2
<1>10. PICK d \in stacks[w] :
         \A n \in 1 .. Len(d) - 1 : \A r \in [1 .. n -> Func] :
           ~(IsPath(r) /\ r[1] = c[1] /\ r[n] = CallSink[w])
  <2>1. PICK d0 \in stacks[w] : d0[1] = c[1]
    BY <1>9
  <2>2. \E d \in stacks[w] :
          /\ d[1] = d0[1]
          /\ \A n \in 1 .. Len(d) - 1 : \A r \in [1 .. n -> Func] :
               ~(IsPath(r) /\ r[1] = d0[1] /\ r[n] = CallSink[w])
    BY ShortestInv DEF ShortestFound
  <2>3. PICK d \in stacks[w] :
          \A n \in 1 .. Len(d) - 1 : \A r \in [1 .. n -> Func] :
            ~(IsPath(r) /\ r[1] = d0[1] /\ r[n] = CallSink[w])
    BY <2>2
  <2> QED BY <2>1, <2>3
<1>11. i \notin 1 .. Len(d) - 1
  BY <1>6, <1>7, <1>10 DEF IsPath
<1>12. Len(c) <= Len(d) /\ Len(d) \in Nat
  BY StackFacts
<1> QED BY <1>1, <1>5, <1>11, <1>12

\* A function of the group that is reached gets one of its Vulns a stack.
LEMMA ReachedWitness ==
  ASSUME SliceInv, SearchInv, W!Done, NEW s \in Symbol, GroupFuncs(s) \cap sources = {},
         NEW f \in GroupFuncs(s), Reached(f)
  PROVE  \E u \in Symbol : group[u] = group[s] /\ witness[u] # <<>>
<1>1. found = Symbol /\ phase = "done"
  BY DEF SearchInv, Started, Kept, W!Done, W!Joined
<1>2. /\ calls \in SUBSET (Func \X Func) /\ sources \in SUBSET Func
      /\ CallSites = Relevant /\ None \notin Func
  BY <1>1, SliceOver
<1>3. f \in Func /\ f \in sinks /\ f \notin sources /\ symbolOf[f] \in Symbol
      /\ group[symbolOf[f]] = group[s]
  BY DEF GroupFuncs, sinks, SliceInv, TypeOK
<1> DEFINE u == symbolOf[f]
           x == CallSink[u]
<1>4. x # None
  <2>1. PICK d \in calls : Reached(d[1]) /\ d[2] = f
    BY <1>2, <1>3, ReachedFrom
  <2>2. d \in CallSites
    BY <1>2, <1>3, <2>1, LeadsBack DEF Relevant
  <2> QED BY <1>1, <1>3, <2>1, <2>2, SliceOver
<1>5. x \in sinks /\ symbolOf[x] = u /\ Reached(x)
  BY <1>1, <1>3, <1>4, SliceOver
<1>6. x \notin sources /\ x \in Func
  BY <1>3, <1>5 DEF GroupFuncs, sinks
<1>7. PICK e \in sources : Leads(e, x)
  <2> HIDE DEF x
  <2> QED BY <1>2, <1>5, <1>6, ReachedFrom
<1>8. stacks[u] # {}
  <2>1. e \in {g \in sources : CallSink[u] # None /\ g # CallSink[u]
                             /\ Leads(g, CallSink[u])}
    BY <1>4, <1>6, <1>7
  <2>2. e \in {c[1] : c \in stacks[u]}
    BY <1>1, <1>3, <2>1, EntriesInv DEF EveryEntryFound
  <2> QED BY <2>2
<1> DEFINE Stacks == UNION {stacks[w] : w \in {v \in Symbol : group[v] = group[s]}}
           Lens   == {Len(c) : c \in Stacks}
<1>9. Lens \in SUBSET (Nat \ {0}) /\ Lens # {}
  <2>1. \A c \in Stacks : Len(c) \in Nat /\ Len(c) >= 2
    BY StackFacts
  <2>2. Stacks # {}
    BY <1>3, <1>8
  <2> HIDE DEF Stacks
  <2>3. \A k \in Lens : k \in Nat \ {0}
    BY <2>1
  <2>4. Lens # {}
    BY <2>2
  <2> QED BY <2>3, <2>4
<1>10. PICK m \in Lens : \A k \in Lens : m <= k
  <2> HIDE DEF Lens
  <2> QED BY <1>9, Least
<1>11. PICK w \in Symbol : group[w] = group[s] /\ \E c \in stacks[w] : Len(c) = m
  BY <1>10
<1>12. PICK c \in stacks[w] : Len(c) = m
  BY <1>11
<1>13. \A v \in Symbol : group[v] = group[s] => \A d \in stacks[v] : Len(c) <= Len(d)
  BY <1>10, <1>12
<1>14. c \in W!unique(w)
  BY <1>1, <1>11, <1>13, ShortestUnique
<1>15. witness[w] \in stacks[w]
  BY <1>14 DEF SearchInv, Kept, W!Done, W!unique
<1>16. Len(witness[w]) >= 2
  BY <1>15, StackFacts
<1> QED BY <1>11, <1>16

LEMMA CalledInv == SliceInv /\ SearchInv => CalledExact
BY WitnessReached, ReachedWitness DEF CalledExact

(***************************************************************************)
(* A vulnerability counts as called exactly if the program calls a         *)
(* function of one of its symbols, provided that none of them is an entry  *)
(* point: for any program and any grouping of the symbols, the selection   *)
(* of witnesses changes no verdict.                                        *)
(***************************************************************************)
THEOREM CalledCorrect == SourceSpec => []CalledExact
BY CalledInv, SearchInvCorrect, PTL
=============================================================================
