----------------------------- MODULE BinaryScan -----------------------------
(***************************************************************************)
(* The scan of a binary, from its modules and symbols to the merged        *)
(* result: Binary (src/internal/vulncheck/binary.go), createBinaryResult   *)
(* (src/internal/scan/binary.go) and merge (src/internal/scan/util.go), on *)
(* top of the vulnerabilities that ModuleVulns fetches and filters.        *)
(*                                                                         *)
(* The modules of a binary are those of its build information, sorted by   *)
(* path, and stdlibModule.  The build information lists the dependencies:  *)
(* the packages of the main module are in the binary, the module is not    *)
(* among mods.  Repeated Vulns are not counted.                            *)
(***************************************************************************)
EXTENDS ModuleVulns

CONSTANT FixedIn   \* FixedIn[V]: the version that ends the ranges V, 0 for none

ASSUME FixedInAssumption == FixedIn \in [SUBSET Version -> Nat]

VARIABLES
  packageSymbols,  \* input: the symbols of each package, {} if not in the binary
  ImportsOnly,     \* input: the field of Config
  pkgsLeft,        \* packages the loop has not reached; they come out of a map
  Vulns,           \* Result.Vulns: [OSV, Symbol, PkgPath, ModPath]
  outcome,         \* of createBinaryResult: "none" yet, "panic" or "ok"
  result           \* what it returns

binary == <<packageSymbols, ImportsOnly, pkgsLeft, Vulns, outcome, result>>
bvars  == <<vars, binary>>

ImportPath == UNION {Provides[p] : p \in Path}

BinaryInit ==
  /\ Init
  /\ packageSymbols \in [ImportPath -> SUBSET Symbol]
  /\ ImportsOnly \in BOOLEAN
  /\ pkgsLeft = {p \in ImportPath : packageSymbols[p] # {}}
  /\ Vulns = {}
  /\ outcome = "none" /\ result = [id \in {} |-> 0]

-----------------------------------------------------------------------------
\* Bug: the modules of the build instead of the standard library.
findPackageModuleAll(p) ==
  LET ms == {m.Path : m \in {n \in mods : IsPrefix(n.Path, p)}}
  IN  IF ms = {} THEN <<>> ELSE CHOOSE q \in ms : \A r \in ms : Len(q) <= Len(r)

\* The first module whose path the package is under, "" if there is none.  Of
\* two such paths one is under the other, and comes later.
findPackageModule(p) ==
  LET ms == {m.Path : m \in {n \in mods : IsPrefix(n.Path, p)}}
  IN  IF isStdPackage(p) THEN Std
      ELSE IF ms = {} THEN <<>>
      ELSE CHOOSE q \in ms : \A r \in ms : Len(q) <= Len(r)

\* addImportsOnlyVulns: the symbols an entry lists for p, or all of p.
ImportsOnlyVulns(p) ==
  UNION {[OSV : {v}, PkgPath : {p}, ModPath : {findPackageModule(p)},
          Symbol : UNION {IF k.symbols = {} THEN packageSymbols[p] ELSE k.symbols :
                            k \in {l \in UNION {a.packages : a \in v.affected} : l.path = p}}]
           : v \in vulnsForPackage(p)}

\* Bug: every symbol of a vulnerable package.
SymbolVulnsAll(p) ==
  UNION {[OSV : vulnsForPackage(p), PkgPath : {p},
          ModPath : {findPackageModule(p)}, Symbol : {s}] : s \in packageSymbols[p]}

\* addSymbolVulns
SymbolVulns(p) ==
  UNION {[OSV : vulnsForSymbol(p, s), PkgPath : {p},
          ModPath : {findPackageModule(p)}, Symbol : {s}] : s \in packageSymbols[p]}

PackageVulns(p) == IF ImportsOnly THEN ImportsOnlyVulns(p) ELSE SymbolVulns(p)

\* A turn of the loop over packageSymbols.
AddVulns(p) ==
  /\ phase = "ready" /\ p \in pkgsLeft
  /\ Vulns' = Vulns \cup PackageVulns(p)
  /\ pkgsLeft' = pkgsLeft \ {p}
  /\ UNCHANGED <<vars, packageSymbols, ImportsOnly, outcome, result>>

\* moduleVersionMap, and latestFixed.
foundVersion(path) ==
  IF \E m \in mods : m.Path = path
  THEN modVersion(CHOOSE m \in mods : m.Path = path) ELSE None
fixedVersion(v) == Max({FixedIn[a.versions] : a \in v.OSV.affected})

\* The Vulns merged into one vulnerability, module and package.
ofModule(id, path)      == {v \in Vulns : v.OSV.id = id /\ v.ModPath = path}
ofPackage(id, path, pk) == {v \in ofModule(id, path) : v.PkgPath = pk}

MergedModule(id, path) ==
  [FoundVersion |-> foundVersion(path),
   FixedVersion |-> CHOOSE f \in {fixedVersion(v) : v \in ofModule(id, path)} : TRUE,
   Packages |-> [pk \in {v.PkgPath : v \in ofModule(id, path)} |->
                   {v.Symbol : v \in ofPackage(id, path, pk)}]]

\* validateModuleVersions; all Vulns of a path have one FoundVersion.
Compatible ==
  \A v, w \in Vulns : v.OSV.id = w.OSV.id /\ v.ModPath = w.ModPath
                      => fixedVersion(v) = fixedVersion(w)

\* By identifier, module path and package path.
MergedVulns ==
  [id \in {v.OSV.id : v \in Vulns} |->
     [path \in {v.ModPath : v \in {w \in Vulns : w.OSV.id = id}} |-> MergedModule(id, path)]]

\* createBinaryResult and merge.
Merge ==
  /\ phase = "ready" /\ pkgsLeft = {} /\ outcome = "none"
  /\ outcome' = IF Compatible THEN "ok" ELSE "panic"
  /\ result' = IF Compatible THEN MergedVulns ELSE result
  /\ UNCHANGED <<vars, packageSymbols, ImportsOnly, pkgsLeft, Vulns>>

Merged == outcome # "none" /\ UNCHANGED bvars

BinaryNext ==
  \/ (\E m \in Module : Fetch(m)) /\ UNCHANGED binary
  \/ (Fetched \/ Filter) /\ UNCHANGED binary
  \/ \E p \in ImportPath : AddVulns(p)
  \/ Merge
  \/ Merged

BinarySpec == BinaryInit /\ [][BinaryNext]_bvars

-----------------------------------------------------------------------------
Reported == outcome = "ok"

\* The call stacks of a package in the result, over all modules.
Symbols(id, p) ==
  IF id \notin DOMAIN result THEN {}
  ELSE UNION {IF p \in DOMAIN result[id][q].Packages THEN result[id][q].Packages[p]
              ELSE {} : q \in DOMAIN result[id]}

\* The symbols of p that e makes vulnerable, by the database alone.
Vulnerable(e, m, p) ==
  IF ImportsOnly
  THEN {s \in Symbol : Affects(e, m, p, m.Path, LAMBDA k :
          s \in IF k.symbols = {} THEN packageSymbols[p] ELSE k.symbols)}
  ELSE {s \in packageSymbols[p] : Affects(e, m, p, m.Path, LAMBDA k :
          k.symbols = {} \/ s \in k.symbols)}

(***************************************************************************)
(* The report names, for each package in the binary, the symbols that an   *)
(* entry of the database makes vulnerable and no others: between fetching  *)
(* and merging nothing is lost and nothing is attributed to another        *)
(* package, in either mode and in whatever order the maps are walked.      *)
(***************************************************************************)
BinaryExact ==
  Reported =>
    \A m \in mods : \A p \in Provides[m.Path] : \A e \in db :
      SamePath(m) /\ MostSpecific(m, p) /\ packageSymbols[p] # {} =>
        Symbols(e.id, p) = Vulnerable(e, m, p)

(***************************************************************************)
(* A module in the report is one of the build, shown with the version that *)
(* is linked and that its packages were judged by, unless two modules of   *)
(* the build have the package under their path.  It has no name only if    *)
(* its packages are under the path of none, as those of the main module.   *)
(***************************************************************************)
ModulesInBuild ==
  Reported =>
    \A id \in DOMAIN result : \A q \in DOMAIN result[id] :
      \/ /\ q = <<>>
         /\ \A p \in DOMAIN result[id][q].Packages :
              ~isStdPackage(p) /\ \A m \in mods : ~IsPrefix(m.Path, p)
      \/ \E m \in mods :
           /\ m.Path = q /\ result[id][q].FoundVersion = modVersion(m)
           /\ \A p \in DOMAIN result[id][q].Packages :
                \/ \E n \in mods : n # m /\ Under(p, n.Path)
                \/ \E e \in db : e.id = id /\ Vulnerable(e, m, p) # {}

(***************************************************************************)
(* "modules with the same path must have same found and fixed versions"    *)
(* (util.go:51): the validation does not fail.                             *)
(***************************************************************************)
NoPanic == outcome # "panic"

-----------------------------------------------------------------------------
(* The inductive invariant.                                                *)

\* The packages in the binary.
InBinary == {p \in ImportPath : packageSymbols[p] # {}}

BinaryInv ==
  /\ FetchInv
  /\ packageSymbols \in [ImportPath -> SUBSET Symbol] /\ ImportsOnly \in BOOLEAN
  /\ pkgsLeft \in SUBSET InBinary /\ (phase # "ready" => pkgsLeft = InBinary)
  /\ Vulns = UNION {PackageVulns(p) : p \in InBinary \ pkgsLeft}
  /\ outcome \in {"none", "ok", "panic"}
  /\ outcome # "none" => phase = "ready" /\ pkgsLeft = {}
  /\ outcome = "ok" => result = MergedVulns
=============================================================================
