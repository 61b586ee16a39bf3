---------------------------- MODULE SourceCalls ----------------------------
(***************************************************************************)
(* What a source scan finds to be called: the call graph slice of          *)
(* CallSlice, and on what it leaves in result.Calls the searches for call  *)
(* stacks and the selection of Witness.  Source returns between the two    *)
(* (src/internal/vulncheck/source.go:110, src/internal/scan/source.go:46). *)
(*                                                                         *)
(* A vulnerable symbol has one Vuln; Vulns of several entries for it are   *)
(* in groups of their own.                                                 *)
(***************************************************************************)
EXTENDS CallSlice, Naturals, Sequences, FiniteSets, Functions

CONSTANT Group

\* A program has finitely many functions.
ASSUME FuncAssumption == IsFiniteSet(Func)

VARIABLES group, queue, seen, stacks, found, witness   \* those of Witness

W == INSTANCE Witness WITH
       calls <- CallSites, entries <- Entries, Vuln <- Symbol

witnesses == <<group, queue, seen, stacks, found, witness>>
allVars   == <<vars, witnesses>>

SourceInit == Init /\ W!Init

SliceStep == Next /\ UNCHANGED witnesses

Launch(keys) == phase = "done" /\ W!Launch(keys) /\ UNCHANGED vars

WitnessStep == W!Launched /\ W!Next /\ UNCHANGED vars

Finished == W!Done /\ UNCHANGED allVars

SourceNext ==
  \/ SliceStep \/ WitnessStep \/ Finished
  \/ \E keys \in [Symbol -> Group] : Launch(keys)

SourceSpec == SourceInit /\ [][SourceNext]_allVars

-----------------------------------------------------------------------------
\* f calls g, over any number of calls, one at least.
Leads(f, g) ==
  \A S \in SUBSET Func :
    {e[2] : e \in Out(calls, f)} \subseteq S /\ ForwClosed(S, calls) => g \in S

IsPath(c) == \A i \in 1 .. Len(c) - 1 : <<c[i], c[i + 1]>> \in calls

(***************************************************************************)
(* Every stack is a way the program can take, from an entry point to a     *)
(* function of the vulnerable symbol, without calling a function twice; it *)
(* holds in the presence of recursion because a caller that was expanded   *)
(* is not taken.                                                           *)
(***************************************************************************)
StacksReal ==
  \A s \in Symbol : \A c \in stacks[s] :
    /\ IsPath(c) /\ IsInjective(c)
    /\ c[1] \in sources /\ symbolOf[c[Len(c)]] = s

(***************************************************************************)
(* Expanding a function once is enough: each entry point of the program    *)
(* that leads to the CallSink has a stack, other than the sink itself,     *)
(* which is no caller of its own.                                          *)
(***************************************************************************)
EveryEntryFound ==
  \A s \in found :
    {c[1] : c \in stacks[s]} =
      {e \in sources : CallSink[s] # None /\ e # CallSink[s] /\ Leads(e, CallSink[s])}

(***************************************************************************)
(* For each entry there is a stack that no other way to the sink beats in  *)
(* length: the queue keeps the search breadth first, and the slice leaves  *)
(* no shortcut out.                                                        *)
(***************************************************************************)
ShortestFound ==
  \A s \in found : \A c \in stacks[s] :
    \E d \in stacks[s] :
      /\ d[1] = c[1]
      /\ \A n \in 1 .. Len(d) - 1 : \A p \in [1 .. n -> Func] :
           ~(IsPath(p) /\ p[1] = c[1] /\ p[n] = CallSink[s])

\* The functions of the symbols in the group of s.
GroupFuncs(s) == {f \in sinks : group[symbolOf[f]] = group[s]}

(***************************************************************************)
(* A vulnerability counts as called exactly if the program calls a         *)
(* function of one of its symbols, provided that none of them is an entry  *)
(* point: leaving out the stacks that go through another symbol of the     *)
(* group never leaves out the whole group, and neither a cut call nor a    *)
(* CallSink that another function overwrites does.                         *)
(***************************************************************************)
CalledExact ==
  W!Done => \A s \in Symbol : GroupFuncs(s) \cap sources = {} =>
    ((\E u \in Symbol : group[u] = group[s] /\ witness[u] # <<>>)
      <=> \E f \in GroupFuncs(s) : Reached(f))

-----------------------------------------------------------------------------
(* The inductive invariant of the searches; SliceInv of CallSlice says     *)
(* what they get.                                                          *)

SearchTypes ==
  /\ group = <<>> \/ group \in [Symbol -> Group]
  /\ queue \in [Symbol -> Seq(Seq(Func))]
  /\ seen \in [Symbol -> SUBSET Func]
  /\ stacks \in [Symbol -> SUBSET Seq(Func)]
  /\ found \in SUBSET Symbol
  /\ witness \in [Symbol -> Seq(Func) \cup {<<"todo">>}]

\* The functions that the search for s has come to: expanded, or queued.
Known(s) == seen[s] \cup {queue[s][i][1] : i \in DOMAIN queue[s]}

\* Nothing is found before the slice is there, and the search begins at the
\* sink.
Started ==
  IF W!Launched
  THEN phase = "done" /\ \A s \in Symbol : CallSink[s] # None => CallSink[s] \in Known(s)
  ELSE /\ found = {}
       /\ \A s \in Symbol : /\ queue[s] = <<>> /\ seen[s] = {} /\ stacks[s] = {}
                            /\ witness[s] = <<"todo">>

\* A chain goes down to the sink, and all functions but the first of it have
\* been expanded.
Chain(s, c) ==
  /\ c \in Seq(Func) /\ Len(c) >= 1 /\ c[Len(c)] = CallSink[s]
  /\ \A i \in 1 .. Len(c) - 1 : <<c[i], c[i + 1]>> \in CallSites
  /\ \A i, j \in DOMAIN c : c[i] = c[j] => i = j
  /\ \A i \in 2 .. Len(c) : c[i] \in seen[s]
Chains(s) ==
  /\ \A i \in DOMAIN queue[s] : Chain(s, queue[s][i])
  /\ \A c \in stacks[s] :
       Chain(s, c) /\ Len(c) >= 2 /\ c[1] \in Entries /\ c[1] \in Known(s)

\* What the search has come to leads to the sink, and no caller of what was
\* expanded is left out.
Ways(s) ==
  /\ \A g \in Known(s) \ {CallSink[s]} :
       Leads(g, CallSink[s]) /\ \E e \in CallSites : e[1] = g
  /\ \A e \in CallSites : e[2] \in seen[s] => e[1] \in Known(s)

\* p goes down to the sink in n - 1 calls.
Way(s, n, p) ==
  p \in [1 .. n -> Func] /\ (\A i \in 1 .. n - 1 : <<p[i], p[i + 1]>> \in CallSites)
    /\ p[n] = CallSink[s]

\* The queue has chains of two lengths at most, the shorter ones first, and
\* every way as short as its first chain was come to by one not longer.
Breadth(s) ==
  LET q == queue[s]
  IN  /\ \A i, j \in DOMAIN q : i <= j =>
           Len(q[i]) <= Len(q[j]) /\ Len(q[j]) <= Len(q[1]) + 1
      /\ \A n \in 1 .. (IF q = <<>> THEN 0 ELSE Len(q[1])) : \A p \in [1 .. n -> Func] :
           Way(s, n, p) =>
             p[1] \in seen[s] \/ \E i \in DOMAIN q : q[i][1] = p[1] /\ Len(q[i]) <= n

\* The entries come to have a stack than which no way is shorter.
Shortest(s, c) ==
  \A n \in 1 .. Len(c) - 1 : \A p \in [1 .. n -> Func] : Way(s, n, p) => p[1] # c[1]
EntryStacks(s) ==
  \A g \in (Known(s) \cap Entries) \ {CallSink[s]} :
    \E c \in stacks[s] : c[1] = g /\ Shortest(s, c)

\* What is stored is complete, and is all there when stacks are kept.
Kept(s) ==
  /\ s \in found => W!Launched /\ queue[s] = <<>>
  /\ witness[s] # <<"todo">> =>
       /\ W!Joined
       /\ IF W!unique(s) = {} THEN witness[s] = <<>> ELSE witness[s] \in W!unique(s)

SearchInv ==
  /\ SearchTypes /\ Started
  /\ \A s \in Symbol : Chains(s) /\ Ways(s) /\ Breadth(s) /\ EntryStacks(s) /\ Kept(s)
=============================================================================
