------------------------------ MODULE Witness ------------------------------
(***************************************************************************)
(* The call stacks shown as witnesses: CallStacks, which runs one breadth  *)
(* first search per vulnerability in a goroutine of its own                *)
(* (src/internal/vulncheck/witness.go), and createSourceResult, which      *)
(* keeps for each vulnerability a stack that does not go through another   *)
(* vulnerable symbol of the same entry and package (uniqueCallStack,       *)
(* src/internal/scan/source.go).  A vulnerability with such a stack is     *)
(* what the program calls "called": it decides the exit status.            *)
(*                                                                         *)
(* Functions stand for the nodes of result.Calls, and a function has at    *)
(* most one call site in another one, the one that callsites would pick.   *)
(***************************************************************************)
EXTENDS Naturals, SequencesExt

CONSTANTS
  Func,       \* the nodes of result.Calls
  Vuln,       \* result.Vulns
  Group,      \* pairs of an entry and a package: the keys of vulnsPerPkg
  None        \* the CallSink 0

VARIABLES
  calls,     \* input: pairs <<parent, function>>, the call sites
  entries,   \* input: result.Calls.Entries
  CallSink,  \* input: the field of each Vuln
  group,     \* input: the key of each Vuln, <<>> before CallStacks is called
  queue,     \* queue[v]: chains, each a sequence from some function to v's sink
  seen,      \* seen[v]: functions expanded
  stacks,    \* stacks[v]: chains that begin with an entry
  found,     \* Vulns whose goroutine has stored its stacks
  witness    \* witness[v]: the stack kept, <<>> for none; "todo" before

input  == <<calls, entries, CallSink, group>>
search == <<queue, seen, stacks>>
vars   == <<input, search, found, witness>>

called(v)  == CallSink[v] # None
Joined     == found = Vuln
Done       == \A v \in Vuln : witness[v] # <<"todo">>

-----------------------------------------------------------------------------
Init ==
  /\ group = <<>>
  /\ queue = [v \in Vuln |-> <<>>]
  /\ seen = [v \in Vuln |-> {}]
  /\ stacks = [v \in Vuln |-> {}]
  /\ found = {}
  /\ witness = [v \in Vuln |-> <<"todo">>]

\* CallStacks starts a goroutine for each Vuln, with a chain of one function.
Launch(keys) ==
  /\ group = <<>> /\ group' = keys
  /\ queue' = [v \in Vuln |-> IF called(v) THEN << <<CallSink[v]>> >> ELSE <<>>]
  /\ UNCHANGED <<calls, entries, CallSink, seen, stacks, found, witness>>

Launched == group # <<>>

\* The chains that go one call further up than c, to callers that were not
\* expanded.  funcLess sorts the callers; they are taken in any order here.
Longer(c, visited) ==
  {[i \in DOMAIN cs |-> <<cs[i]>> \o c] :
     cs \in SetToSeqs({g \in Func : <<g, Head(c)>> \in calls} \ visited)}

\* Bugs: the search ends at the first entry of a chain; it forgets what it
\* has expanded; the chains are taken from the other end of the list.
SearchStopsAtEntry(v) ==
  LET c == Head(queue[v])
  IN  /\ queue[v] # <<>>
      /\ seen' = [seen EXCEPT ![v] = @ \cup {Head(c)}]
      /\ \E new \in IF Head(c) \in seen[v] THEN {<<>>} ELSE Longer(c, seen'[v]) :
           /\ queue' = [queue EXCEPT ![v] = Tail(@) \o
                          SelectSeq(new, LAMBDA n : Head(n) \notin entries)]
           /\ stacks' = [stacks EXCEPT ![v] =
                           @ \cup {n \in Range(new) : Head(n) \in entries}]
      /\ UNCHANGED <<input, found, witness>>
SearchForgets(v) ==
  LET c == Head(queue[v])
  IN  /\ queue[v] # <<>> /\ Len(c) <= Cardinality(Func)
      /\ UNCHANGED seen
      /\ \E new \in Longer(c, {}) :
           /\ queue' = [queue EXCEPT ![v] = Tail(@) \o new]
           /\ stacks' = [stacks EXCEPT ![v] =
                           @ \cup {n \in Range(new) : Head(n) \in entries}]
      /\ UNCHANGED <<input, found, witness>>
SearchLastFirst(v) ==
  LET c == Last(queue[v])
  IN  /\ queue[v] # <<>>
      /\ seen' = [seen EXCEPT ![v] = @ \cup {Head(c)}]
      /\ \E new \in IF Head(c) \in seen[v] THEN {<<>>} ELSE Longer(c, seen'[v]) :
           /\ queue' = [queue EXCEPT ![v] = Front(@) \o new]
           /\ stacks' = [stacks EXCEPT ![v] =
                           @ \cup {n \in Range(new) : Head(n) \in entries}]
      /\ UNCHANGED <<input, found, witness>>

\* One turn of the loop of callStacks: the first chain of the queue.
Search(v) ==
  LET c == Head(queue[v])
  IN  /\ queue[v] # <<>>
      /\ seen' = [seen EXCEPT ![v] = @ \cup {Head(c)}]
      /\ \E new \in IF Head(c) \in seen[v] THEN {<<>>} ELSE Longer(c, seen'[v]) :
           /\ queue' = [queue EXCEPT ![v] = Tail(@) \o new]
           /\ stacks' = [stacks EXCEPT ![v] =
                           @ \cup {n \in Range(new) : Head(n) \in entries}]
      /\ UNCHANGED <<input, found, witness>>

\* The goroutine stores its stacks under the mutex and is done.
Store(v) ==
  /\ Launched /\ queue[v] = <<>> /\ v \notin found
  /\ found' = found \cup {v}
  /\ UNCHANGED <<input, search, witness>>

\* The sinks of the vulnerabilities in v's group.
vulnFuncs(v) ==
  {CallSink[u] : u \in {w \in Vuln : called(w) /\ group[w] = group[v]}}

\* Bug: a stack may not contain the vulnerable function itself either.
uniqueNone(v) == {c \in stacks[v] : Range(c) \cap vulnFuncs(v) = {}}

\* The stacks that go through no other vulnerable function of the group.
unique(v) ==
  {c \in stacks[v] : Range(c) \cap vulnFuncs(v) \subseteq {CallSink[v]}}

\* createSourceResult keeps the first one that uniqueCallStack finds, in an
\* order of preference that is left open here, or none.
Keep(v) ==
  /\ Joined /\ witness[v] = <<"todo">>
  /\ \E c \in IF unique(v) = {} THEN {<<>>} ELSE unique(v) :
       witness' = [witness EXCEPT ![v] = c]
  /\ UNCHANGED <<input, search, found>>

Next == \E v \in Vuln : Search(v) \/ Store(v) \/ Keep(v)

=============================================================================
