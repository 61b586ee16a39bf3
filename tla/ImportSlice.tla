---------------------------- MODULE ImportSlice ----------------------------
(***************************************************************************)
(* The package import slice of a source scan: the loop of vulnPkgModSlice  *)
(* over the top level packages and the recursive vulnImportSlice, in       *)
(* src/internal/vulncheck/source.go.                                       *)
(*                                                                         *)
(* vulnImportSlice is a depth-first search.  It is modelled call by call:  *)
(* a call starts, looks at one import after the other (in any order: the   *)
(* imports come out of a Go map), and returns a node or nil to its caller. *)
(* The calls in progress are kept as activation records indexed by the     *)
(* package they were made for; Go has no import cycles, so a package never *)
(* has two calls in progress.                                              *)
(***************************************************************************)
EXTENDS Integers

CONSTANTS
  Package,   \* the packages of the program under analysis
  Level,     \* Level[p]: height of p in the import graph, which has no cycle
  FirstID    \* value of the global counter pkgID when the scan starts

ASSUME LevelAssumption == Level \in [Package -> Nat]
ASSUME FirstIDAssumption == FirstID \in Nat

Unvisited == -1     \* no key for the package in the map analyzed
Nil       == 0      \* the nil *PkgNode; identifiers of nodes start at 1
Idle      == "idle" \* no call of vulnImportSlice in progress for a package
Main      == "main" \* the loop of vulnPkgModSlice

ASSUME ControlAssumption == Idle \notin Package /\ Main \notin Package

VARIABLES
  imports,     \* input: Package.Imports
  vulnerable,  \* input: packages for which vulnsForPackage is not empty
  tops,        \* input: the packages given to Source
  topsLeft,    \* top level packages the loop has not reached
  analyzed,    \* the map of the same name: Unvisited, Nil or a node's ID
  caller,      \* caller[p]: who waits for the call for p; Idle if no call
  cur,         \* the call that is running, or Main
  rest,        \* rest[p]: imports the running call for p has still to look at
  onSlice,     \* onSlice[p]: the slice of the same name in the call for p
  pkgID,       \* the global counter of node identifiers
  Packages,    \* result.Imports.Packages, from ID to node
  Entries,     \* result.Imports.Entries
  Vulns        \* result.Vulns, one record for the Vulns of a package

input == <<imports, vulnerable, tops>>
calls == <<caller, cur, rest, onSlice>>
graph == <<pkgID, Packages, Vulns>>
vars  == <<input, topsLeft, analyzed, calls, graph, Entries>>

PkgNode == [id : Nat, pkg : Package, importedBy : SUBSET Nat]
Vuln    == [pkg : Package, sink : Nat]

Visited(p)  == analyzed[p] # Unvisited
Active(p)   == caller[p] # Idle
Finished(p) == Visited(p) /\ ~Active(p)
OnSlice(p)  == Visited(p) /\ analyzed[p] # Nil
Done        == cur = Main /\ topsLeft = {}

-----------------------------------------------------------------------------
Init ==
  /\ imports \in {g \in [Package -> SUBSET Package] :
                    \A p \in Package : \A q \in g[p] : Level[q] < Level[p]}
  /\ vulnerable \in SUBSET Package
  /\ tops \in SUBSET Package
  /\ topsLeft = tops
  /\ analyzed = [p \in Package |-> Unvisited]
  /\ caller = [p \in Package |-> Idle]
  /\ cur = Main
  /\ rest = [p \in Package |-> {}]
  /\ onSlice = [p \in Package |-> {}]
  /\ pkgID = FirstID
  /\ Packages = [id \in {} |-> [id |-> Nil, pkg |-> Nil, importedBy |-> {}]]
  /\ Entries = {}
  /\ Vulns = {}

(***************************************************************************)
(* A call for p that was not analyzed yet: p is marked with nil, then its  *)
(* imports are looked at.                                                  *)
(***************************************************************************)
Call(p, by) ==
  /\ analyzed' = [analyzed EXCEPT ![p] = Nil]
  /\ caller' = [caller EXCEPT ![p] = by]
  /\ cur' = p
  /\ UNCHANGED <<input, graph>>

\* The loop of vulnPkgModSlice calls vulnImportSlice for a package that an
\* earlier call has not reached.
VisitTop(p) ==
  /\ cur = Main /\ p \in topsLeft /\ ~Visited(p)
  /\ Call(p, Main)
  /\ topsLeft' = topsLeft \ {p}
  /\ rest' = [rest EXCEPT ![p] = imports[p]]
  /\ onSlice' = [onSlice EXCEPT ![p] = {}]
  /\ UNCHANGED Entries

\* Bug: an entry found in the map is not recorded.
RevisitTopForgets(p) ==
  /\ cur = Main /\ p \in topsLeft /\ Visited(p)
  /\ topsLeft' = topsLeft \ {p}
  /\ UNCHANGED <<input, analyzed, calls, graph, Entries>>

\* ... and for one that was: the call returns what the map holds.
RevisitTop(p) ==
  /\ cur = Main /\ p \in topsLeft /\ Visited(p)
  /\ topsLeft' = topsLeft \ {p}
  /\ Entries' = IF analyzed[p] # Nil THEN Entries \cup {analyzed[p]} ELSE Entries
  /\ UNCHANGED <<input, analyzed, calls, graph>>

\* The call for cur recurses into an import that was not analyzed yet.
VisitImport(q) ==
  /\ cur \in Package /\ q \in rest[cur] /\ ~Visited(q)
  /\ Call(q, cur)
  /\ rest' = [rest EXCEPT ![cur] = @ \ {q}, ![q] = imports[q]]
  /\ onSlice' = [onSlice EXCEPT ![q] = {}]
  /\ UNCHANGED <<topsLeft, Entries>>

\* Bug: an import that was visited before is taken for one without a node.
RevisitImportForgets(q) ==
  /\ cur \in Package /\ q \in rest[cur] /\ Visited(q)
  /\ rest' = [rest EXCEPT ![cur] = @ \ {q}]
  /\ UNCHANGED <<input, topsLeft, analyzed, caller, cur, onSlice, graph, Entries>>

\* The call for cur finds the import in the map.
RevisitImport(q) ==
  /\ cur \in Package /\ q \in rest[cur] /\ Visited(q)
  /\ rest' = [rest EXCEPT ![cur] = @ \ {q}]
  /\ onSlice' = [onSlice EXCEPT ![cur] =
                   IF analyzed[q] # Nil THEN @ \cup {analyzed[q]} ELSE @]
  /\ UNCHANGED <<input, topsLeft, analyzed, caller, cur, graph, Entries>>

(***************************************************************************)
(* Returning from the call for p: control goes back to the caller, which   *)
(* records a node that is not nil, as one of its own imports on the slice  *)
(* or, in vulnPkgModSlice, as an entry.                                    *)
(***************************************************************************)
Return(p, node) ==
  /\ caller' = [caller EXCEPT ![p] = Idle]
  /\ cur' = caller[p]
  /\ onSlice' = IF caller[p] \in Package /\ node # Nil
                THEN [onSlice EXCEPT ![caller[p]] = @ \cup {node}] ELSE onSlice
  /\ Entries' = IF caller[p] = Main /\ node # Nil
                THEN Entries \cup {node} ELSE Entries
  /\ UNCHANGED <<input, topsLeft, rest>>

\* No import leads to a vulnerable package and cur itself is not vulnerable.
ReturnNil ==
  /\ cur \in Package /\ rest[cur] = {}
  /\ onSlice[cur] = {} /\ cur \notin vulnerable
  /\ Return(cur, Nil)
  /\ UNCHANGED <<analyzed, graph>>

\* Packages with the node n and with n as importer of the nodes in succs.
AddPkgNode(n, succs) ==
  [id \in DOMAIN Packages \cup {n.id} |->
     IF id = n.id THEN n
     ELSE IF id \in succs
          THEN [Packages[id] EXCEPT !.importedBy = @ \cup {n.id}]
          ELSE Packages[id]]

\* Bug: the counter of node identifiers does not advance.
ReturnNodeSameID ==
  LET id == pkgID + 1 IN
  /\ cur \in Package /\ rest[cur] = {}
  /\ onSlice[cur] # {} \/ cur \in vulnerable
  /\ UNCHANGED pkgID
  /\ analyzed' = [analyzed EXCEPT ![cur] = id]
  /\ Packages' = AddPkgNode([id |-> id, pkg |-> cur, importedBy |-> {}],
                            onSlice[cur])
  /\ Vulns' = IF cur \in vulnerable
              THEN Vulns \cup {[pkg |-> cur, sink |-> id]} ELSE Vulns
  /\ Return(cur, id)

\* cur is on the slice: its node is created, entered in the map and in the
\* result, made a predecessor of its imports on the slice, and the Vulns of
\* cur get it as their ImportSink.
ReturnNode ==
  LET id == pkgID + 1 IN
  /\ cur \in Package /\ rest[cur] = {}
  /\ onSlice[cur] # {} \/ cur \in vulnerable
  /\ pkgID' = id
  /\ analyzed' = [analyzed EXCEPT ![cur] = id]
  /\ Packages' = AddPkgNode([id |-> id, pkg |-> cur, importedBy |-> {}],
                            onSlice[cur])
  /\ Vulns' = IF cur \in vulnerable
              THEN Vulns \cup {[pkg |-> cur, sink |-> id]} ELSE Vulns
  /\ Return(cur, id)

Next ==
  \/ \E p \in Package : VisitTop(p) \/ RevisitTop(p)
  \/ \E q \in Package : VisitImport(q) \/ RevisitImport(q)
  \/ ReturnNil \/ ReturnNode

Spec == Init /\ [][Next]_vars

-----------------------------------------------------------------------------
(* What the slice is to be, without a search.                              *)

\* S holds the vulnerable packages and every importer of one of its members.
Closed(S) ==
  /\ vulnerable \subseteq S
  /\ \A p \in Package : imports[p] \cap S # {} => p \in S

\* p is vulnerable or imports, over any number of steps, a vulnerable
\* package: the least closed set holds it.
LeadsToVuln(p) == \A S \in SUBSET Package : Closed(S) => p \in S

\* p is a top level package or imported, over any number of steps, by one.
Loaded(p) ==
  \A S \in SUBSET Package :
    (tops \subseteq S /\ \A q \in S : imports[q] \subseteq S) => p \in S

\* Following ImportedBy from the node id leads to an entry.
LeadsToEntry(id) ==
  \A S \in SUBSET DOMAIN Packages :
    (id \in S /\ \A n \in S : Packages[n].importedBy \subseteq S)
      => S \cap Entries # {}

(***************************************************************************)
(* The variables stay in their types.                                      *)
(***************************************************************************)
TypeOK ==
  /\ imports \in [Package -> SUBSET Package]
  /\ vulnerable \in SUBSET Package
  /\ tops \in SUBSET Package
  /\ topsLeft \in SUBSET tops
  /\ analyzed \in [Package -> Nat \cup {Unvisited}]
  /\ caller \in [Package -> Package \cup {Main, Idle}]
  /\ cur \in Package \cup {Main}
  /\ rest \in [Package -> SUBSET Package]
  /\ onSlice \in [Package -> SUBSET Nat]
  /\ pkgID \in Nat /\ pkgID >= FirstID
  /\ DOMAIN Packages \subseteq FirstID + 1 .. pkgID
  /\ \A id \in DOMAIN Packages : Packages[id] \in PkgNode
  /\ Entries \in SUBSET Nat
  /\ Vulns \in SUBSET Vuln

(***************************************************************************)
(* Once the call for a package has returned, the map analyzed holds a node *)
(* for it exactly if the package leads to a vulnerable one.  The nil that  *)
(* marks a visited package is the nil that says "not on the slice"; this   *)
(* would fail if one was read for the other.                               *)
(***************************************************************************)
SliceExact == \A p \in Package : Finished(p) => (OnSlice(p) <=> LeadsToVuln(p))

(***************************************************************************)
(* A node's ImportedBy names the nodes of all the importers that are on    *)
(* the slice, and no others, whatever the order in which the packages were *)
(* visited; importers are appended when they return, long after the node   *)
(* itself was made.                                                        *)
(***************************************************************************)
ImportedByExact ==
  \A id \in DOMAIN Packages :
    Packages[id].importedBy =
      {analyzed[r] : r \in {p \in Package :
                             OnSlice(p) /\ Packages[id].pkg \in imports[p]}}

(***************************************************************************)
(* When the loop ends the entries are the top level packages that lead to  *)
(* a vulnerable one, also those that were reached first as an import of    *)
(* another top level package and are answered from the map.                *)
(***************************************************************************)
EntriesExact ==
  Done => Entries = {analyzed[p] : p \in {q \in tops : LeadsToVuln(q)}}

(***************************************************************************)
(* When the loop ends every vulnerable package that the program loads has  *)
(* its Vulns, there are no others, and from the ImportSink of each one     *)
(* ImportedBy leads back to an entry: that is the import chain a report of *)
(* the vulnerability needs.                                                *)
(***************************************************************************)
VulnsTraced ==
  Done =>
    /\ {v.pkg : v \in Vulns} = {p \in vulnerable : Loaded(p)}
    /\ \A v \in Vulns : /\ v.sink \in DOMAIN Packages
                       /\ Packages[v.sink].pkg = v.pkg
                       /\ LeadsToEntry(v.sink)

(***************************************************************************)
(* A package whose call has returned is never expanded again and keeps its *)
(* node: the search is linear, and nodes that others point to stay.        *)
(***************************************************************************)
AnalyzedOnce ==
  [][\A p \in Package :
       analyzed[p] # Unvisited /\ caller[p] = Idle
         => caller'[p] = Idle /\ analyzed'[p] = analyzed[p]]_vars

-----------------------------------------------------------------------------
(* The inductive invariant for SliceExact.                                 *)

\* Go's import graph has no cycle.
Acyclic == \A p \in Package : \A q \in imports[p] : Level[q] < Level[p]

\* The calls in progress form one stack: cur is its top, and under a call
\* for p is the call that looks at its import p.
Stack ==
  /\ IF cur = Main THEN \A p \in Package : ~Active(p) ELSE Active(cur)
  /\ \A p \in Package : caller[p] \in Package =>
       /\ Active(caller[p])
       /\ p \in imports[caller[p]] \ rest[caller[p]]
  /\ \A p \in Package : Active(p) /\ p # cur => Level[cur] < Level[p]
  /\ \A p, r \in Package :
       Active(p) /\ Active(r) /\ p # r /\ Level[r] >= Level[p] =>
         caller[p] \in Package /\ (r = caller[p] \/ Level[r] > Level[caller[p]])

\* A call in progress has marked its package, and has collected the nodes of
\* the imports it is done with.
InProgress ==
  \A p \in Package : Active(p) =>
    /\ analyzed[p] = Nil
    /\ rest[p] \subseteq imports[p]
    /\ \A q \in imports[p] \ rest[p] :
         Visited(q) /\ (Active(q) => caller[q] = p)
    /\ onSlice[p] = {analyzed[q] : q \in {r \in imports[p] \ rest[p] : OnSlice(r)}}

\* A finished package is on the slice for the reason the code has for it.
Settled ==
  \A p \in Package : Finished(p) =>
    /\ \A q \in imports[p] : Finished(q)
    /\ OnSlice(p) <=> (p \in vulnerable \/ \E q \in imports[p] : OnSlice(q))

\* Nothing is on the slice that does not lead to a vulnerable package.
Sound == \A p \in Package : OnSlice(p) => LeadsToVuln(p)

\* The conjunction is inductive and implies SliceExact.
SliceInv == TypeOK /\ Acyclic /\ Stack /\ InProgress /\ Settled /\ Sound

-----------------------------------------------------------------------------
(* What the search has put into the result so far; with SliceInv, the      *)
(* inductive invariant for the nodes, the entries and the Vulns.           *)

\* A node for each package on the slice, under the identifier in the map.
Nodes ==
  /\ \A p \in Package : OnSlice(p) =>
       analyzed[p] \in DOMAIN Packages /\ Packages[analyzed[p]].pkg = p
  /\ \A id \in DOMAIN Packages :
       OnSlice(Packages[id].pkg) /\ analyzed[Packages[id].pkg] = id

\* The loop waits for no package but one that it has taken.
Loop ==
  /\ \A p \in tops \ topsLeft : Visited(p)
  /\ \A p \in Package : Active(p) => (caller[p] = Main <=> p \in tops \ topsLeft)

\* The entries and the Vulns are those of the packages settled so far, and
\* nothing is visited that the program does not load.
Results ==
  /\ Entries = {analyzed[p] : p \in {q \in tops \ topsLeft : OnSlice(q)}}
  /\ Vulns = {[pkg |-> p, sink |-> analyzed[p]] : p \in {q \in vulnerable : OnSlice(q)}}
  /\ \A p \in Package : Visited(p) => Loaded(p)

ResultInv == SliceInv /\ Nodes /\ ImportedByExact /\ Loop /\ Results
=============================================================================
