---------------------------- MODULE MCBinaryScan ----------------------------
(***************************************************************************)
(* The modules and paths of MCModuleVulns with one platform.  An entry has *)
(* one or two affected modules; version v1 is vulnerable and fixed in 2,   *)
(* or v1 and v2 are and there is no fix.  The binary has at most two of    *)
(* the packages, with both symbols, and was built by Go v1.  Besides, all  *)
(* the builds and entries of MCModuleVulns.                                *)
(***************************************************************************)
EXTENDS BinaryScan, MCModuleVulns

MCFixedIn == [V \in SUBSET MCVersion |-> IF V = {"v1"} THEN 2 ELSE 0]

OneOS == {a \in Affected : \A k \in a.packages : k.GOOS = {}}
MCBinaryEntry ==
  [id : {"GO-1"}, withdrawn : {FALSE},
   affected : {{a, b} : a \in OneOS, b \in OneOS}]

MCBinaryDatabase == {{e} : e \in MCBinaryEntry}
MCAllDatabase    == MCBinaryDatabase \cup MCDatabase

Binaries ==
  /\ mods \in {M \in SUBSET Unreplaced :
                 /\ Cardinality(M) <= 3 /\ Build(M)
                 /\ \A m \in M : /\ m.Version # None
                                 /\ m.Path = Std => m.Version = "v1"}
  /\ db \in MCBinaryDatabase /\ os = None
  /\ packageSymbols \in [ImportPath -> {{}, {"f", "g"}}]
  /\ BinaryInit
  /\ Cardinality(pkgsLeft) <= 2

\* Builds without a binary, where the questions of ModuleVulns are asked.
Builds ==
  /\ db \in MCDatabase /\ MCInit
  /\ packageSymbols = [p \in ImportPath |-> {}] /\ ImportsOnly = TRUE
  /\ BinaryInit

MCBinarySpec == (Binaries \/ Builds) /\ [][BinaryNext]_bvars
=============================================================================
