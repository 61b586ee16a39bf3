--------------------------- MODULE MCModuleVulns ---------------------------
(***************************************************************************)
(* A module, one nested in it, the standard library and two versions.  An  *)
(* entry affects one or two modules, or one module in two ways, in a       *)
(* package or in none.  A package of the first module has a path that the  *)
(* path of the nested one is a prefix of, as text.                         *)
(***************************************************************************)
EXTENDS ModuleVulns

A  == <<"x.org">>
AB == <<"x.org", "b">>
S  == <<"stdlib">>

MCPath == {S, A, AB}
MCProvides ==
  [p \in MCPath |-> CASE p = S  -> {<<"fmt">>}
                      [] p = A  -> {A, A \o <<"bc">>}
                      [] p = AB -> {AB \o <<"c">>}]
MCVersion  == {"v1", "v2"}
MCOS       == {"linux", "windows"}
MCSymbol   == {"f", "g"}
MCSegment   == {"x.org", "b", "bc", "c", "stdlib", "fmt"}
MCPathLen   == [p \in MCPath |-> CASE p = A -> 5 [] p = S -> 6 [] p = AB -> 7]
MCSegPrefix == {<<"b", "bc">>}
MCDotless   == {"stdlib", "fmt"}

Packages == {[path |-> p, GOOS |-> o, symbols |-> s] :
          p \in UNION {MCProvides[q] : q \in MCPath},
          o \in {{}, {"windows"}}, s \in {{}, {"f"}}}
\* An entry lists packages under the path of the module it is about.
About(a) == \A k \in a.packages :
              IF a.module = S THEN k.path = <<"fmt">> ELSE IsPrefix(a.module, k.path)
Affected == {a \in [module : MCPath, versions : {{"v1"}, {"v1", "v2"}},
                    packages : {{}} \cup {{k} : k \in Packages}] : About(a)}
\* Packages that differ in all fields, in one affected module.
Affected2 == {a \in [module : {A}, versions : {{"v1"}},
                     packages : {{k, l} : k \in Packages, l \in {k2 \in Packages :
                       k2.symbols = {"f"} /\ k2.GOOS = {}}}] : About(a)}
Few == {a \in Affected : a.versions = {"v1"} /\ \A k \in a.packages : k.GOOS = {}}
MCEntry ==
  [id : {"GO-1"}, withdrawn : {FALSE}, affected : {{a, b} : a \in Few, b \in Few}]
    \cup [id : {"GO-1"}, withdrawn : BOOLEAN,
          affected : {{a} : a \in Affected \cup Affected2}]

\* One entry: entries do not depend on each other.
MCDatabase == {{e} : e \in MCEntry}

\* The modules of the build: at most one has a replacement.
Unreplaced == {m \in Module : m.Replace = None}
Replaced   == {m \in Module : m.Replace # None /\ m.Path = A /\ m.Version = "v1"
                              /\ m.Replace.Version # None
                              /\ m.Replace.Path = A}
MCInit ==
  /\ mods \in {M \in SUBSET (Unreplaced \cup Replaced) :
                 Cardinality(M) <= 3 /\ Build(M)}
  /\ Init
MCSpec == MCInit /\ [][Next]_vars
=============================================================================
