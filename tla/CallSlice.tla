----------------------------- MODULE CallSlice -----------------------------
(***************************************************************************)
(* The call graph slice of a source scan: vulnCallGraphSlice with          *)
(* callGraphSlice and vulnCallGraph (src/internal/vulncheck/source.go).    *)
(* Two searches cut the call graph down to the calls on a way from an      *)
(* entry point to a vulnerable function, and a third one turns what is     *)
(* left into result.Calls.                                                 *)
(*                                                                         *)
(* Each search is a recursive visit with a set of visited nodes.  It is    *)
(* reduced to the calls of visit still to be made, in any order; the       *)
(* graphs are sets of edges, and a graph has the nodes its edges have,     *)
(* because CreateNode is called for the ends of edges only.  A node of     *)
(* result.Calls is named by its function instead of a number.              *)
(***************************************************************************)
CONSTANTS
  Func,     \* the functions of the program
  Symbol,   \* the vulnerable symbols, all in result.Vulns
  None      \* no symbol, no node

ASSUME NoneAssumption == None \notin Func \cup Symbol

VARIABLES
  calls,      \* input: the call graph, a set of pairs <<caller, callee>>
  sources,    \* input: the entry points
  symbolOf,   \* input: the vulnerable symbol a function has; several
              \* functions can have the same one (instances of a generic)
  phase,      \* "backward", "forward", "sinks", "sites" or "done"
  visited,    \* nodes the current search has visited
  toVisit,    \* nodes it has been, or is to be, called for
  bcg, fcg,   \* the backward and the forward slice
  Functions,  \* result.Calls.Functions
  Entries,    \* result.Calls.Entries
  CallSink,   \* CallSink[s]: the field of the Vuln of symbol s
  CallSites   \* pairs <<parent, function>>, the call sites of all nodes

input  == <<calls, sources, symbolOf>>
search == <<visited, toVisit>>
Calls  == <<Functions, Entries, CallSink, CallSites>>
vars   == <<input, phase, search, bcg, fcg, Calls>>

Nodes(edges)  == {e[1] : e \in edges} \cup {e[2] : e \in edges}
In(edges, f)  == {e \in edges : e[2] = f}
Out(edges, f) == {e \in edges : e[1] = f}
sinks         == {f \in Func : symbolOf[f] # None}
filteredSources == sources \cap Nodes(bcg)
filteredSinks   == sinks \cap Nodes(fcg)

Init ==
  /\ calls \in SUBSET (Func \X Func)
  /\ sources \in SUBSET Func
  /\ symbolOf \in [Func -> Symbol \cup {None}]
  /\ phase = "backward"
  /\ visited = {} /\ toVisit = sinks
  /\ bcg = {} /\ fcg = {}
  /\ Functions = {} /\ Entries = {} /\ CallSites = {}
  /\ CallSink = [s \in Symbol |-> None]

-----------------------------------------------------------------------------
\* One visit of n, which calls visit for the nodes in next.
Visit(n, next) ==
  /\ n \in toVisit \ visited
  /\ visited' = visited \cup {n}
  /\ toVisit' = toVisit \cup next

\* The search is over; another one begins at starts.
NewSearch(starts) ==
  /\ toVisit \subseteq visited
  /\ visited' = {}
  /\ toVisit' = starts

\* callGraphSlice(sinks, false)
VisitBackward(n) ==
  /\ phase = "backward"
  /\ bcg' = bcg \cup In(calls, n)
  /\ Visit(n, {e[1] : e \in In(calls, n)})
  /\ UNCHANGED <<input, phase, fcg, Calls>>

\* Bug: entry points that no edge of the backward slice touches are kept out
\* by looking at callees only.
EndBackwardCallees ==
  /\ phase = "backward" /\ phase' = "forward"
  /\ NewSearch(sources \cap {e[2] : e \in bcg})
  /\ UNCHANGED <<input, bcg, fcg, Calls>>

EndBackward ==
  /\ phase = "backward" /\ phase' = "forward"
  /\ NewSearch(filteredSources)
  /\ UNCHANGED <<input, bcg, fcg, Calls>>

\* callGraphSlice(filteredSources, true), on the graph of the first slice.
VisitForward(n) ==
  /\ phase = "forward"
  /\ fcg' = fcg \cup Out(bcg, n)
  /\ Visit(n, {e[2] : e \in Out(bcg, n)})
  /\ UNCHANGED <<input, phase, bcg, Calls>>

\* vulnCallGraph: the nodes of the entry points come first, and the searches
\* end at the sinks that were reached.
EndForward ==
  /\ phase = "forward" /\ phase' = "sinks"
  /\ NewSearch(filteredSinks)
  /\ Functions' = filteredSources
  /\ Entries' = filteredSources
  /\ UNCHANGED <<input, bcg, fcg, CallSink, CallSites>>

\* f becomes the CallSink of its symbol, instead of another function with the
\* same symbol that came before.
addCallSink(f) == [CallSink EXCEPT ![symbolOf[f]] = f]

\* Bug: CallSink is set for the vulnerable functions of the whole program.
AddSinkUnreached(f) ==
  /\ phase = "sinks" /\ f \in sinks \ visited
  /\ visited' = visited \cup {f}
  /\ Functions' = Functions \cup {f}
  /\ CallSink' = addCallSink(f)
  /\ UNCHANGED <<input, phase, toVisit, bcg, fcg, Entries, CallSites>>

\* The node of a sink.
AddSink(f) ==
  /\ phase = "sinks" /\ f \in toVisit \ visited
  /\ visited' = visited \cup {f}
  /\ Functions' = Functions \cup {f}
  /\ CallSink' = addCallSink(f)
  /\ UNCHANGED <<input, phase, toVisit, bcg, fcg, Entries, CallSites>>

EndSinks ==
  /\ phase = "sinks" /\ phase' = "sites"
  /\ NewSearch(filteredSinks)
  /\ UNCHANGED <<input, bcg, fcg, Calls>>

\* The call sites of n, with nodes for n and its callers.
VisitSites(n) ==
  /\ phase = "sites"
  /\ CallSites' = CallSites \cup In(fcg, n)
  /\ Functions' = Functions \cup Nodes(In(fcg, n))
  /\ Visit(n, {e[1] : e \in In(fcg, n)})
  /\ UNCHANGED <<input, phase, bcg, fcg, Entries, CallSink>>

EndSites ==
  /\ phase = "sites" /\ phase' = "done"
  /\ toVisit \subseteq visited
  /\ UNCHANGED <<input, search, bcg, fcg, Calls>>

Next ==
  \/ \E n \in Func :
       VisitBackward(n) \/ VisitForward(n) \/ AddSink(n) \/ VisitSites(n)
  \/ EndBackward \/ EndForward \/ EndSinks \/ EndSites

Spec == Init /\ [][Next]_vars

-----------------------------------------------------------------------------
(* What the slice is to be, without a search.                              *)

\* S is closed under following the edges backward, or forward.
BackClosed(S, edges) == \A e \in edges : e[2] \in S => e[1] \in S
ForwClosed(S, edges) == \A e \in edges : e[1] \in S => e[2] \in S

\* f is vulnerable or calls, over any number of calls, a vulnerable function.
LeadsToVuln(f) ==
  \A S \in SUBSET Func : sinks \subseteq S /\ BackClosed(S, calls) => f \in S

\* f is an entry point or is called, over any number of calls, by one.
Reached(f) ==
  \A S \in SUBSET Func : sources \subseteq S /\ ForwClosed(S, calls) => f \in S

\* The calls on a way from an entry point to a vulnerable function.
Relevant == {e \in calls : Reached(e[1]) /\ LeadsToVuln(e[2])}

(***************************************************************************)
(* The result has exactly the calls that lie on a way from an entry point  *)
(* to a vulnerable function: those of a reached function to one that leads *)
(* to a vulnerable function.  None is lost between the three searches, and *)
(* none is left over.                                                      *)
(***************************************************************************)
SitesExact == phase = "done" => CallSites = Relevant

(***************************************************************************)
(* A symbol gets a CallSink exactly if one of its functions is called from *)
(* a reached function, or is an entry point on the way to a vulnerable     *)
(* one; and the sink is one of these functions, whichever comes last.      *)
(***************************************************************************)
SinksExact ==
  phase = "done" =>
    \A s \in Symbol :
      LET reached == {f \in Nodes(Relevant) : symbolOf[f] = s}
      IN  IF reached = {} THEN CallSink[s] = None ELSE CallSink[s] \in reached

-----------------------------------------------------------------------------
(* The inductive invariant: what each search has found so far, and what it *)
(* is sure to find in the end.                                             *)

TypeOK ==
  /\ calls \in SUBSET (Func \X Func)
  /\ sources \in SUBSET Func
  /\ symbolOf \in [Func -> Symbol \cup {None}]
  /\ phase \in {"backward", "forward", "sinks", "sites", "done"}
  /\ toVisit \in SUBSET Func /\ visited \in SUBSET toVisit
  /\ CallSink \in [Symbol -> Func \cup {None}]

\* The first slice holds the calls of the functions visited, which all lead
\* to a vulnerable one, and in the end the calls of all that do.
Backward ==
  IF phase = "backward"
  THEN /\ toVisit = sinks \cup {e[1] : e \in bcg}
       /\ bcg = {e \in calls : e[2] \in visited}
       /\ \A f \in toVisit : LeadsToVuln(f)
  ELSE bcg = {e \in calls : LeadsToVuln(e[2])}

\* The second one holds what the functions visited, which are all reached,
\* call in the first, and in the end exactly the relevant calls.
Forward ==
  CASE phase = "backward" -> fcg = {}
    [] phase = "forward"  -> /\ toVisit = filteredSources \cup {e[2] : e \in fcg}
                             /\ fcg = {e \in bcg : e[1] \in visited}
                             /\ \A f \in toVisit : Reached(f)
    [] OTHER              -> fcg = Relevant /\ Entries = filteredSources

\* The CallSinks are right for the vulnerable functions in V.
SinksOf(V) ==
  \A s \in Symbol :
    LET fs == {f \in V : symbolOf[f] = s}
    IN  IF fs = {} THEN CallSink[s] = None ELSE CallSink[s] \in fs
Sinks ==
  CASE phase \in {"backward", "forward"} -> SinksOf({})
    [] phase = "sinks"                   -> toVisit = filteredSinks /\ SinksOf(visited)
    [] OTHER                             -> SinksOf(filteredSinks)

\* The call sites are those of the functions visited, and in the end all.
Sites ==
  CASE phase = "sites" -> /\ toVisit = filteredSinks \cup {e[1] : e \in CallSites}
                          /\ CallSites = {e \in fcg : e[2] \in visited}
    [] phase = "done"  -> CallSites = fcg
    [] OTHER           -> CallSites = {}

SliceInv == TypeOK /\ Backward /\ Forward /\ Sinks /\ Sites
=============================================================================
