--------------------------- MODULE SourceImports ---------------------------
(***************************************************************************)
(* vulnPkgModSlice as a whole (src/internal/vulncheck/source.go): the      *)
(* package import slice of ImportSlice, and on top of it the module        *)
(* requires slice of RequireSlice.  The nodes of the packages, the entries *)
(* and the Vulns that the first one leaves are the input of the second.    *)
(***************************************************************************)
EXTENDS ImportSlice

CONSTANTS Module, Std, None

ASSUME ModuleAssumption == Std \in Module /\ None \notin Module

VARIABLES
  module,      \* input: the module of each package, read by RequireSlice only
  replace, phase, todo, curPkg, preds, modID, modNodeIDs, Modules,
  pkgModule, modPred, ModEntries, RequireSink     \* those of RequireSlice

R == INSTANCE RequireSlice WITH
       moduleOf   <- [id \in DOMAIN Packages |-> module[Packages[id].pkg]],
       ImportedBy <- [id \in DOMAIN Packages |-> Packages[id].importedBy],
       topPkgs    <- Entries,
       sinks      <- {v.sink : v \in Vulns},
       cur        <- curPkg,
       Entries    <- ModEntries

overlay == <<replace, phase, todo, curPkg, preds, modID, modNodeIDs, Modules,
             pkgModule, modPred, ModEntries, RequireSink>>
allVars == <<vars, module, overlay>>

\* The modules come with the packages; they are chosen when they are first
\* looked at.
SourceInit ==
  /\ Init /\ R!Init
  /\ module = <<>> /\ replace = <<>>

ImportStep == Next /\ UNCHANGED <<module, overlay>>

Load(mods, repl) ==
  /\ Done /\ module = <<>>
  /\ UNCHANGED <<vars, phase, todo, curPkg, preds, modID, modNodeIDs, Modules,
                 pkgModule, modPred, ModEntries, RequireSink>>
  /\ module' = mods /\ replace' = repl
  /\ R!Loaded'

RequireStep ==
  /\ Done /\ module # <<>>
  /\ UNCHANGED <<vars, module>>
  /\ R!Begin \/ R!Next

Ended == phase = "done" /\ UNCHANGED allVars

SourceNext ==
  \/ ImportStep \/ RequireStep \/ Ended
  \/ \E mods \in [Package -> Module \cup {None}] :
     \E repl \in [Module -> Module \cup {None}] : Load(mods, repl)

SourceSpec == SourceInit /\ [][SourceNext]_allVars

-----------------------------------------------------------------------------
(***************************************************************************)
(* A module, given by its path and version, has one node, found under the  *)
(* identifier that the map of identifiers holds, however many packages,    *)
(* importers, entries and replacements ask for it and in which order.      *)
(***************************************************************************)
OneNodePerModule == R!OneNodePerModule

(***************************************************************************)
(* RequiredBy lists exactly the other modules with a package on the slice  *)
(* that imports one of the module's, over all packages of the module, and  *)
(* no module requires itself.                                              *)
(***************************************************************************)
RequiredByExact ==
  phase = "done" =>
    \A m \in {module[p] : p \in {q \in Package : OnSlice(q)}} \ {None} :
      Modules[modNodeIDs[m]].RequiredBy =
        {R!ID(module[p]) : p \in {q \in Package :
            OnSlice(q) /\ module[q] # m /\ \E r \in imports[q] : OnSlice(r) /\ module[r] = m}}

\* Following RequiredBy from the node id leads to an entry.
LeadsToModEntry(id) ==
  \A S \in SUBSET (0 .. modID) :
    (id \in S /\ \A n \in S \ {0} : Modules[n].RequiredBy \subseteq S)
      => S \cap DOMAIN ModEntries # {}

(***************************************************************************)
(* Every vulnerable package that the program loads is reported with its    *)
(* own module, and the module leads over RequiredBy to one of a top level  *)
(* package, also where modules require each other; the modules of the      *)
(* entries are these, each once.                                           *)
(***************************************************************************)
ModulesTraced ==
  /\ phase = "vulns" => R!SinksHaveNodes
  /\ phase = "done" =>
       /\ \A p \in vulnerable : Loaded(p) =>
            \E v \in Vulns : v.pkg = p /\ Modules[RequireSink[v.sink]].module = module[p]
       /\ \A v \in Vulns : LeadsToModEntry(RequireSink[v.sink])
       /\ DOMAIN ModEntries = {R!ID(module[p]) : p \in {q \in tops : LeadsToVuln(q)}}
       /\ \A id \in DOMAIN ModEntries : ModEntries[id] = 1

-----------------------------------------------------------------------------
(* The inductive invariant of the requires slice; ResultInv of ImportSlice *)
(* says what it gets.                                                      *)

\* The modules are known before they are asked for, and they come once the
\* import slice is complete.
Inputs ==
  /\ phase \in {"imports", "packages", "entries", "vulns", "done"}
  /\ module = <<>> => phase = "imports"
  /\ module # <<>> =>
       /\ Done /\ R!Loaded
       /\ module \in [Package -> Module \cup {None}]
       /\ replace \in [Module -> Module \cup {None}]

ModNode == [ID : Nat, module : Module, Replace : Nat, RequiredBy : SUBSET Nat]

\* A module has one node or none.
ModNodes ==
  /\ modID \in Nat
  /\ modNodeIDs \in [Module -> 0 .. modID]
  /\ DOMAIN Modules \subseteq 1 .. modID
  /\ \A id \in DOMAIN Modules : Modules[id] \in ModNode
  /\ \A m \in Module : modNodeIDs[m] # 0 => modNodeIDs[m] \in DOMAIN Modules
  /\ OneNodePerModule

ModuleOf(id) == module[Packages[id].pkg]
HasModNode(id) == ModuleOf(id) = None \/ modNodeIDs[ModuleOf(id)] # 0

\* The packages and the entries that their loops have reached, and the
\* importers of a package that have been looked at.
Handled == CASE phase = "imports"  -> {}
             [] phase = "packages" -> DOMAIN Packages \ todo
             [] OTHER              -> DOMAIN Packages
HandledEntries == CASE phase \in {"imports", "packages"} -> {}
                    [] phase = "entries"                 -> Entries \ todo
                    [] OTHER                             -> Entries
Looked(id) == Packages[id].importedBy \ (IF id = curPkg THEN preds ELSE {})

Loops ==
  /\ phase = "packages" => todo \subseteq DOMAIN Packages
  /\ phase = "entries" => todo \subseteq Entries
  /\ curPkg # 0 =>
       /\ phase = "packages" /\ curPkg \in Handled
       /\ preds \subseteq Packages[curPkg].importedBy

\* Modules were asked for in time, and modPred relates those of the packages
\* to those of the importers looked at.
Relation ==
  /\ DOMAIN pkgModule = Handled
  /\ \A p \in Handled :
       /\ pkgModule[p] = R!ID(ModuleOf(p))
       /\ \A q \in {p} \cup Looked(p) : HasModNode(q)
  /\ DOMAIN modPred = {pkgModule[p] : p \in Handled}
  /\ \A id \in DOMAIN modPred :
       modPred[id] = {R!ID(ModuleOf(q)) :
         q \in UNION {Looked(p) : p \in {r \in Handled : pkgModule[r] = id}}} \ {id}

\* The results: RequiredBy, the entries and the RequireSinks.
ModResults ==
  /\ \A id \in DOMAIN Modules : Modules[id].RequiredBy =
       IF phase \in {"vulns", "done"} /\ id \in DOMAIN modPred THEN modPred[id] ELSE {}
  /\ DOMAIN ModEntries = {R!ID(ModuleOf(p)) : p \in HandledEntries}
  /\ \A id \in DOMAIN ModEntries : ModEntries[id] = 1
  /\ phase = "done" => RequireSink = [s \in {v.sink : v \in Vulns} |-> pkgModule[s]]

RequireInv == Inputs /\ ModNodes /\ Loops /\ Relation /\ ModResults
=============================================================================
