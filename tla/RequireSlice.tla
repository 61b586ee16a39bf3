---------------------------- MODULE RequireSlice ----------------------------
(***************************************************************************)
(* The module requires slice of a source scan, an overlay of the package   *)
(* import slice: vulnModuleSlice and moduleNodeID, called at the end of    *)
(* vulnPkgModSlice in src/internal/vulncheck/source.go.                    *)
(*                                                                         *)
(* A member of Module is what modKey tells apart: a path with a version.   *)
(* Each call of moduleNodeID is a step; the maps are functions, in which 0 *)
(* stands for a missing key and is also the "node" of a package that has   *)
(* no module.                                                              *)
(***************************************************************************)
EXTENDS Naturals, Functions

CONSTANTS
  Module,
  Std,        \* stdlibModule
  None        \* no module

VARIABLES
  moduleOf,    \* input: the module of a package node, Std for a standard one
  replace,     \* input: Module.Replace
  ImportedBy,  \* input: the field of each node of result.Imports.Packages
  topPkgs,     \* input: result.Imports.Entries
  sinks,       \* input: the ImportSinks of result.Vulns
  phase,       \* "imports", "packages", "entries", "vulns" or "done"
  todo,        \* packages, or entries, the current loop has not reached
  cur,         \* the package whose predecessors are looked at, 0 for none
  preds,       \* its predecessors still to look at
  modID,       \* the global counter of node identifiers
  modNodeIDs,  \* the map of the same name
  Modules,     \* result.Requires.Modules
  pkgModule,   \* the field Module of each PkgNode
  modPred,     \* modPredRelation
  Entries,     \* result.Requires.Entries, a bag: how often an id is in it
  RequireSink  \* by ImportSink, the field of a Vuln

input == <<moduleOf, replace, ImportedBy, topPkgs, sinks>>
loop  == <<phase, todo, cur, preds>>
nodes == <<modID, modNodeIDs, Modules>>
vars  == <<input, loop, nodes, pkgModule, modPred, Entries, RequireSink>>

-----------------------------------------------------------------------------
PkgID == DOMAIN ImportedBy

(* With modules every package has one.  Without (GO111MODULE=off) only the *)
(* standard library has one, and nothing else is vulnerable.  The go       *)
(* command refuses a replacement that is in use under two paths; a module  *)
(* may be replaced by itself.                                              *)
ModuleMode == None \notin Range(moduleOf)
Loaded ==
  /\ ModuleMode \/ Range(moduleOf) \subseteq {Std, None}
  /\ \A p \in sinks : moduleOf[p] # None
  /\ \A m \in Module : replace[m] # None =>
       /\ m \in Range(moduleOf) \ {Std} /\ replace[m] # Std
       /\ replace[m] \in Range(moduleOf) => replace[m] = m
       /\ \A n \in Module : replace[n] = replace[m] => n = m

\* The import slice is not there yet.
Init ==
  /\ phase = "imports" /\ todo = {} /\ cur = 0 /\ preds = {}
  /\ modID = 0
  /\ modNodeIDs = [m \in Module |-> 0]
  /\ Modules = [id \in {} |-> None]
  /\ pkgModule = [p \in {} |-> 0]
  /\ modPred = [id \in {} |-> {}]
  /\ Entries = [id \in {} |-> 0]
  /\ RequireSink = [p \in {} |-> 0]

-----------------------------------------------------------------------------
\* vulnPkgModSlice calls vulnModuleSlice when it has the import slice; without
\* packages there are no entries either.
Begin ==
  /\ phase = "imports"
  /\ phase' = IF PkgID = {} THEN "entries" ELSE "packages"
  /\ todo' = PkgID
  /\ UNCHANGED <<input, cur, preds, nodes, pkgModule, modPred, Entries, RequireSink>>

ModNode(id, m, r) == [ID |-> id, module |-> m, Replace |-> r, RequiredBy |-> {}]

ID(m) == IF m = None THEN 0 ELSE modNodeIDs[m]

\* Bug: the replacement gets a node whether or not it has one.
moduleNodeIDAlways(p) ==
  LET m  == moduleOf[p]
      r  == IF m = None THEN None ELSE replace[m]
      id == modID + 1
  IN  IF m = None \/ ID(m) # 0 THEN UNCHANGED nodes
      ELSE IF r = None
      THEN /\ modID' = id
           /\ modNodeIDs' = [modNodeIDs EXCEPT ![m] = id]
           /\ Modules' = [i \in DOMAIN Modules \cup {id} |->
                            IF i = id THEN ModNode(id, m, 0) ELSE Modules[i]]
      ELSE /\ modID' = id + 1
           /\ modNodeIDs' = [modNodeIDs EXCEPT ![m] = id, ![r] = id + 1]
           /\ Modules' = [i \in DOMAIN Modules \cup {id, id + 1} |->
                            CASE i = id     -> ModNode(id, m, id + 1)
                              [] i = id + 1 -> ModNode(0, r, 0)
                              [] OTHER      -> Modules[i]]

\* A node for the module of p, if there is none, and one for its replacement;
\* the node of a replacement gets no ID.
moduleNodeID(p) ==
  LET m   == moduleOf[p]
      r   == replace[m]
      id  == modID + 1
      ids == [modNodeIDs EXCEPT ![m] = id]
      new == IF r # None /\ ids[r] = 0 THEN {id + 1} ELSE {}
  IN  IF m = None \/ ID(m) # 0 THEN UNCHANGED nodes
      ELSE /\ modID' = IF new = {} THEN id ELSE id + 1
           /\ modNodeIDs' = IF new = {} THEN ids ELSE [ids EXCEPT ![r] = id + 1]
           /\ Modules' = [i \in DOMAIN Modules \cup {id} \cup new |->
                CASE i = id   -> ModNode(id, m, IF r = None THEN 0 ELSE modNodeIDs'[r])
                  [] i \in new -> ModNode(0, r, 0)
                  [] OTHER    -> Modules[i]]

\* What it returns.
newID(p) == IF moduleOf[p] = None THEN 0 ELSE modNodeIDs'[moduleOf[p]]

\* A turn of the loop over the packages, in the order of their identifiers.
AddPackage(p) ==
  /\ phase = "packages" /\ cur = 0 /\ p \in todo /\ \A q \in todo : p <= q
  /\ moduleNodeID(p)
  /\ todo' = todo \ {p} /\ cur' = p /\ preds' = ImportedBy[p]
  /\ pkgModule' = [q \in DOMAIN pkgModule \cup {p} |-> IF q = p THEN newID(p) ELSE pkgModule[q]]
  /\ modPred' = [id \in DOMAIN modPred \cup {pkgModule'[p]} |->
                   IF id \in DOMAIN modPred THEN modPred[id] ELSE {}]
  /\ UNCHANGED <<input, phase, Entries, RequireSink>>

\* Bug: an edge for an import inside one module.
AddPredLoops(q) ==
  /\ cur # 0 /\ q \in preds
  /\ moduleNodeID(q)
  /\ preds' = preds \ {q}
  /\ modPred' = [modPred EXCEPT ![pkgModule[cur]] = @ \cup {newID(q)}]
  /\ UNCHANGED <<input, phase, todo, cur, pkgModule, Entries, RequireSink>>

\* An importer of cur; there is no edge inside one module.
AddPred(q) ==
  /\ cur # 0 /\ q \in preds
  /\ moduleNodeID(q)
  /\ preds' = preds \ {q}
  /\ modPred' = [modPred EXCEPT ![pkgModule[cur]] =
                   @ \cup ({newID(q)} \ {pkgModule[cur]})]
  /\ UNCHANGED <<input, phase, todo, cur, pkgModule, Entries, RequireSink>>

NextPackage ==
  /\ cur # 0 /\ preds = {}
  /\ cur' = 0
  /\ IF todo # {} THEN UNCHANGED <<phase, todo>>
     ELSE phase' = "entries" /\ todo' = topPkgs
  /\ UNCHANGED <<input, preds, nodes, pkgModule, modPred, Entries, RequireSink>>

\* Bug: an entry for each top level package.
AddEntryAgain(p) ==
  LET id == newID(p)
  IN  /\ phase = "entries" /\ p \in todo
      /\ moduleNodeID(p)
      /\ todo' = todo \ {p}
      /\ Entries' = [i \in DOMAIN Entries \cup {id} |->
                       (IF i \in DOMAIN Entries THEN Entries[i] ELSE 0)
                       + (IF i = id THEN 1 ELSE 0)]
      /\ UNCHANGED <<input, phase, cur, preds, pkgModule, modPred, RequireSink>>

\* The loop over result.Imports.Entries; seenEntries keeps doubles out.
AddEntry(p) ==
  LET id == newID(p)
  IN  /\ phase = "entries" /\ p \in todo
      /\ moduleNodeID(p)
      /\ todo' = todo \ {p}
      /\ Entries' = [i \in DOMAIN Entries \cup {id} |-> 1]
      /\ UNCHANGED <<input, phase, cur, preds, pkgModule, modPred, RequireSink>>

\* The relation is stored to the nodes, that of 0 is not.
StoreRequiredBy ==
  /\ phase = "entries" /\ todo = {}
  /\ phase' = "vulns"
  /\ Modules' = [id \in DOMAIN Modules |->
       IF id \in DOMAIN modPred
       THEN [Modules[id] EXCEPT !.RequiredBy = modPred[id]] ELSE Modules[id]]
  /\ UNCHANGED <<input, todo, cur, preds, modID, modNodeIDs, pkgModule, modPred,
                 Entries, RequireSink>>

\* Every Vuln is given its module, whose node must exist.
SinksHaveNodes == \A p \in sinks : pkgModule[p] \in DOMAIN Modules
UpdateVulns ==
  /\ phase = "vulns" /\ SinksHaveNodes
  /\ phase' = "done"
  /\ RequireSink' = [p \in sinks |-> pkgModule[p]]
  /\ UNCHANGED <<input, todo, cur, preds, nodes, pkgModule, modPred, Entries>>

Next ==
  \/ \E p \in PkgID : AddPackage(p) \/ AddPred(p) \/ AddEntry(p)
  \/ NextPackage \/ StoreRequiredBy \/ UpdateVulns

-----------------------------------------------------------------------------
(***************************************************************************)
(* A module, given by its path and version, has one node, found under the  *)
(* identifier that the map of identifiers holds, however many packages,    *)
(* importers, entries and replacements ask for it and in which order.      *)
(***************************************************************************)
OneNodePerModule ==
  /\ \A id \in DOMAIN Modules : modNodeIDs[Modules[id].module] = id
  /\ \A m \in Module : modNodeIDs[m] # 0 => Modules[modNodeIDs[m]].module = m
=============================================================================
