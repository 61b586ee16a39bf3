-------------------------- MODULE BinaryScan_proof --------------------------
(***************************************************************************)
(* Theorems about the vulnerabilities that are selected for the packages   *)
(* of a program and about the scan of a binary, for any modules, packages, *)
(* databases and symbols: a package has exactly its entries, a binary is   *)
(* reported to have exactly its vulnerable symbols, and the modules of the *)
(* report are those of the build.                                          *)
(***************************************************************************)
EXTENDS BinaryScan, FiniteSetTheorems, SequenceTheorems, TLAPS

-----------------------------------------------------------------------------
(* Induction on numbers, stated with sets.                                 *)

\* By the pigeonhole principle a finite set of numbers is not mapped into
\* itself without its 0 by taking successors.
LEMMA Climb ==
  ASSUME NEW n \in Nat, NEW T \in SUBSET (0 .. n), 0 \in T, \A i \in T : i + 1 \in T
  PROVE  FALSE
<1> DEFINE U == T \ {0}
           f == [i \in T |-> i + 1]
<1>1. IsFiniteSet(T)
  <2>1. IsFiniteSet(0 .. n)
    BY FS_Interval
  <2> QED BY <2>1, FS_Subset
<1>2. /\ IsFiniteSet(U) /\ Cardinality(U) = Cardinality(T) - 1
      /\ Cardinality(T) \in Nat /\ Cardinality(U) \in Nat
  BY <1>1, FS_RemoveElement, FS_CardinalityType
<1>3. f \in [T -> U]
  OBVIOUS
<1>4. Cardinality(U) < Cardinality(T)
  BY <1>2
<1> HIDE DEF U, f
<1>5. \E x, y \in T : x # y /\ f[x] = f[y]
  BY <1>1, <1>2, <1>3, <1>4, FS_PigeonHole
<1> QED BY <1>5 DEF f

LEMMA Upwards ==
  ASSUME NEW n \in Nat, NEW S, 0 \in S, \A i \in 0 .. n - 1 : i \in S => i + 1 \in S
  PROVE  0 .. n \subseteq S
<1> SUFFICES ASSUME NEW m \in 0 .. n, m \notin S PROVE FALSE
  OBVIOUS
<1> DEFINE T == {i \in 0 .. m : i \in S}
<1>1. m \in Nat /\ T \in SUBSET (0 .. m) /\ 0 \in T
  OBVIOUS
<1>2. ASSUME NEW i \in T PROVE i + 1 \in T
  <2>1. i \in 0 .. m /\ i # m /\ i \in S
    OBVIOUS
  <2>2. i \in 0 .. n - 1 /\ i + 1 \in 0 .. m
    BY <2>1
  <2> QED BY <2>1, <2>2
<1> HIDE DEF T
<1> QED BY <1>1, <1>2, Climb

\* A set of numbers has a least one.
LEMMA Least ==
  ASSUME NEW S \in SUBSET Nat, S # {}
  PROVE  \E m \in S : \A k \in S : m <= k
<1> SUFFICES ASSUME \A m \in S : \E k \in S : k < m PROVE FALSE
  OBVIOUS
<1>1. PICK m \in S : TRUE
  OBVIOUS
<1> DEFINE T == {i \in 0 .. m : \A k \in S : i <= k}
<1>2. 0 \in T /\ T \in SUBSET (0 .. m) /\ m \in Nat
  OBVIOUS
<1>3. ASSUME NEW i \in T PROVE i + 1 \in T
  <2>1. i \notin S
    OBVIOUS
  <2>2. \A k \in S : i + 1 <= k
    BY <2>1
  <2> QED BY <1>1, <2>2
<1> HIDE DEF T
<1> QED BY <1>2, <1>3, Climb

\* f has the values of a loop of n turns, from b.
IsLoop(f, n, b, step) == f[0] = b /\ \A i \in 1 .. n : f[i] = step[i][f[i - 1]]

\* A loop has values: what a recursive function is defined by has a solution.
LEMMA Iterates ==
  ASSUME NEW n \in Nat, NEW X, NEW b \in X, NEW step \in [1 .. n -> [X -> X]]
  PROVE  \E f \in [0 .. n -> X] : IsLoop(f, n, b, step)
<1> DEFINE S == {m \in 0 .. n : \E f \in [0 .. m -> X] : IsLoop(f, m, b, step)}
<1>1. 0 \in S
  <2>1. [i \in 0 .. 0 |-> b] \in [0 .. 0 -> X] /\ IsLoop([i \in 0 .. 0 |-> b], 0, b, step)
    BY DEF IsLoop
  <2>2. 0 \in 0 .. n
    OBVIOUS
  <2> QED BY <2>1, <2>2
<1>2. ASSUME NEW m \in 0 .. n - 1, m \in S PROVE m + 1 \in S
  <2>1. PICK f \in [0 .. m -> X] : IsLoop(f, m, b, step)
    BY <1>2
  <2> DEFINE x == step[m + 1][f[m]]
             g == [i \in 0 .. m + 1 |-> IF i = m + 1 THEN x ELSE f[i]]
  <2>2. m + 1 \in 1 .. n /\ m \in Nat /\ f[m] \in X
    OBVIOUS
  <2>3. x \in X
    BY <2>2
  <2>4. g \in [0 .. m + 1 -> X]
    BY <2>3
  <2>5. IsLoop(g, m + 1, b, step)
    <3>1. g[0] = b
      BY <2>1, <2>2 DEF IsLoop
    <3>2. ASSUME NEW i \in 1 .. m + 1 PROVE g[i] = step[i][g[i - 1]]
      <4>1. i - 1 \in 0 .. m /\ i - 1 # m + 1 /\ g[i - 1] = f[i - 1]
        BY <2>2
      <4>2. CASE i = m + 1
        <5>1. g[i] = x /\ i - 1 = m
          BY <2>2, <4>2
        <5> HIDE DEF g
        <5> QED BY <4>1, <4>2, <5>1
      <4>3. CASE i # m + 1
        <5>1. i \in 1 .. m /\ g[i] = f[i]
          BY <2>2, <4>3
        <5>2. f[i] = step[i][f[i - 1]]
          BY <2>1, <5>1 DEF IsLoop
        <5> HIDE DEF g
        <5> QED BY <4>1, <5>1, <5>2
      <4> QED BY <4>2, <4>3
    <3> QED BY <3>1, <3>2 DEF IsLoop
  <2>6. m + 1 \in 0 .. n
    BY <2>2
  <2> HIDE DEF g
  <2> QED BY <2>4, <2>5, <2>6
<1>3. n \in S
  <2>1. n \in 0 .. n
    OBVIOUS
  <2> HIDE DEF S
  <2>2. 0 .. n \subseteq S
    BY <1>1, <1>2, Upwards
  <2> QED BY <2>1, <2>2
<1> QED BY <1>3

-----------------------------------------------------------------------------
(* The fetch and the filter.                                               *)

\* The loop of vulnsForPackage: each turn continues from the one before.
LEMMA LoopOfModules ==
  ASSUME NEW p, Len(mv) \in Nat
  PROVE  \E f :
           /\ f[0] = 0 /\ mostSpecificMod(p) = f[Len(mv)]
           /\ \A i \in 1 .. Len(mv) : f[i] = moreSpecific(f[i - 1], i, p)
<1> DEFINE n == Len(mv)
           X == 0 .. n
           E(f) == [i \in 0 .. n |-> IF i = 0 THEN 0 ELSE moreSpecific(f[i - 1], i, p)]
           best == CHOOSE f : f = E(f)
           step == [i \in 1 .. n |-> [x \in X |-> moreSpecific(x, i, p)]]
<1>1. step \in [1 .. n -> [X -> X]]
  <2>1. \A b \in 0 .. n : \A i \in 1 .. n : moreSpecific(b, i, p) \in 0 .. n
    BY DEF moreSpecific
  <2> QED BY <2>1
<1>2. \E f \in [0 .. n -> X] : IsLoop(f, n, 0, step)
  <2>1. n \in Nat /\ 0 \in X
    OBVIOUS
  <2> HIDE DEF step, n, X
  <2> QED BY <1>1, <2>1, Iterates
<1>3. PICK f \in [0 .. n -> X] : IsLoop(f, n, 0, step)
  BY <1>2
<1>4. f = E(f)
  <2>1. ASSUME NEW i \in 1 .. n PROVE f[i] = moreSpecific(f[i - 1], i, p)
    <3>1. i - 1 \in 0 .. n
      OBVIOUS
    <3>2. f[i - 1] \in X
      BY <3>1
    <3> QED BY <1>3, <3>2 DEF IsLoop
  <2>2. \A i \in 0 .. n : i = 0 \/ i \in 1 .. n
    OBVIOUS
  <2> QED BY <1>3, <2>1, <2>2 DEF IsLoop
<1>5. best = E(best)
  <2> HIDE DEF E
  <2> QED BY <1>4
<1>6. mostSpecificMod(p) = best[n]
  BY Zenon DEF mostSpecificMod
<1> HIDE DEF best
<1>7. best[0] = 0
  <2>1. 0 \in 0 .. n
    OBVIOUS
  <2> QED BY <1>5, <2>1
<1>8. ASSUME NEW i \in 1 .. n PROVE best[i] = moreSpecific(best[i - 1], i, p)
  <2>1. i \in 0 .. n /\ i # 0
    OBVIOUS
  <2> QED BY <1>5, <2>1
<1> QED BY <1>6, <1>7, <1>8

-----------------------------------------------------------------------------
(* What the fetch leaves behind.                                           *)

Known    == {m \in mods \ todo : ByModule(modPath(m)) # {}}
Entry(m) == [Module |-> m, Vulns |-> VulnsOf(m)]

LEMMA Fetched0 ==
  ASSUME FetchInv
  PROVE  /\ mv \in Seq({Entry(m) : m \in Known})
         /\ \A m \in Known : \E i \in DOMAIN mv : mv[i].Module = m
BY DEF FetchInv, Known, Entry

LEMMA FetchInit == Init => FetchInv
<1> SUFFICES ASSUME Init PROVE FetchInv
  OBVIOUS
<1>1. mods \ todo = {}
  BY DEF Init
<1>2. mv \in Seq({[Module |-> m, Vulns |-> VulnsOf(m)] :
                    m \in {n \in mods \ todo : ByModule(modPath(n)) # {}}})
  BY DEF Init
<1> QED BY <1>1, <1>2 DEF Init, FetchInv

\* What is known of a module depends on the inputs and the phase.
LEMMA SameVulns ==
  ASSUME UNCHANGED input, NEW m
  PROVE  /\ ByModule(modPath(m))' = ByModule(modPath(m))
         /\ (phase' = "ready" <=> phase = "ready") => VulnsOf(m)' = VulnsOf(m)
<1>1. ByModule(modPath(m))' = ByModule(modPath(m))
  BY DEF input, ByModule, modPath, replaced
<1>2. \A v, n : filteredAffected(v, n)' = filteredAffected(v, n)
  BY DEF input, filteredAffected, matchesPlatform, modVersion, replaced
<1>3. \A x : filteredVulns(x)' = filteredVulns(x)
  BY <1>2 DEF filteredVulns
<1> QED BY <1>1, <1>3 DEF VulnsOf

LEMMA FetchStep == FetchInv /\ [Next]_vars => FetchInv'
<1> SUFFICES ASSUME FetchInv, [Next]_vars PROVE FetchInv'
  OBVIOUS
<1> DEFINE K == Known
           R == {Entry(m) : m \in K}
           KK == {m \in mods' \ todo' : ByModule(modPath(m))' # {}}
           RR == {[Module |-> m, Vulns |-> VulnsOf(m)'] : m \in KK}
<1>0. mv \in Seq(R) /\ \A m \in K : \E i \in DOMAIN mv : mv[i].Module = m
  BY Fetched0
<1>t. /\ mods \in SUBSET Module /\ Build(mods) /\ db \in Database
      /\ todo \in SUBSET mods /\ (phase # "fetch" => todo = {})
      /\ phase \in {"fetch", "filter", "ready"}
  BY DEF FetchInv
<1>b. ASSUME UNCHANGED input PROVE mods' \in SUBSET Module /\ Build(mods)' /\ db' \in Database
  BY <1>b, <1>t DEF input, Build, replaced
<1>f. ASSUME /\ UNCHANGED input /\ phase' \in {"fetch", "filter", "ready"}
             /\ todo' \in SUBSET mods /\ (phase' # "fetch" => todo' = {})
             /\ mv' \in Seq(RR) /\ \A m \in KK : \E i \in DOMAIN mv' : mv'[i].Module = m
      PROVE  FetchInv'
  <2>1. todo' \in SUBSET mods'
    BY <1>f DEF input
  <2> QED BY <1>f, <1>b, <2>1 DEF FetchInv
<1>1. CASE \E m \in Module : Fetch(m)
  <2>1. PICK m \in Module : Fetch(m)
    BY <1>1
  <2> DEFINE vulns == ByModule(modPath(m))
  <2>2. UNCHANGED input /\ phase = "fetch" /\ phase' = phase /\ m \in todo
        /\ todo' = todo \ {m}
    BY <2>1 DEF Fetch
  <2>3. \A n : ByModule(modPath(n))' = ByModule(modPath(n)) /\ VulnsOf(n)' = VulnsOf(n)
    BY <2>2, SameVulns
  <2>4. K \subseteq KK /\ KK \subseteq K \cup {m} /\ (m \in KK <=> vulns # {})
    BY <2>2, <2>3, <1>t DEF Known, input
  <2>5. RR = {Entry(n) : n \in KK} /\ R \subseteq RR
    BY <2>3, <2>4 DEF Entry
  <2>6. mv \in Seq(RR)
    <3> HIDE DEF R, RR
    <3> QED BY <1>0, <2>5
  <2>7. CASE vulns = {}
    <3>1. KK = K /\ mv' = mv
      BY <2>1, <2>4, <2>7 DEF Fetch, Known
    <3> HIDE DEF KK, K, RR
    <3> QED BY <1>0, <1>f, <1>t, <2>2, <2>6, <3>1
  <2>8. CASE vulns # {}
    <3>1. mv' = Append(mv, Entry(m)) /\ Entry(m) \in RR /\ Entry(m).Module = m
      BY <2>1, <2>2, <2>4, <2>5, <2>8 DEF Fetch, Entry, VulnsOf
    <3>2. mv' \in Seq(RR)
      <4> HIDE DEF RR
      <4> QED BY <2>6, <3>1
    <3>3. \A n \in KK : \E i \in DOMAIN mv' : mv'[i].Module = n
      <4> HIDE DEF K, KK, RR
      <4> SUFFICES ASSUME NEW n \in KK PROVE \E i \in DOMAIN mv' : mv'[i].Module = n
        OBVIOUS
      <4>1. CASE n = m
        <5>1. Len(mv) + 1 \in DOMAIN mv' /\ mv'[Len(mv) + 1] = Entry(m)
          BY <2>6, <3>1
        <5> QED BY <3>1, <4>1, <5>1
      <4>2. CASE n # m
        <5>1. PICK i \in DOMAIN mv : mv[i].Module = n
          BY <1>0, <2>4, <4>2
        <5>2. i \in DOMAIN mv' /\ mv'[i] = mv[i]
          BY <2>6, <3>1
        <5> QED BY <5>1, <5>2
      <4> QED BY <4>1, <4>2
    <3> HIDE DEF KK, K, RR
    <3> QED BY <1>f, <1>t, <2>2, <3>2, <3>3
  <2> QED BY <2>7, <2>8
<1>2. CASE Fetched
  <2>1. UNCHANGED input /\ phase = "fetch" /\ phase' = "filter" /\ todo = {}
        /\ todo' = {} /\ mv' = mv
    BY <1>2 DEF Fetched
  <2>2. \A n : ByModule(modPath(n))' = ByModule(modPath(n)) /\ VulnsOf(n)' = VulnsOf(n)
    BY <2>1, SameVulns
  <2>3. KK = K
    BY <2>1, <2>2 DEF Known, input
  <2>4. RR = R
    BY <2>2, <2>3 DEF Entry
  <2> HIDE DEF KK, K, RR, R
  <2> QED BY <1>0, <1>f, <2>1, <2>3, <2>4
<1>3. CASE Filter
  <2>1. UNCHANGED input /\ phase = "filter" /\ phase' = "ready" /\ UNCHANGED todo
    BY <1>3 DEF Filter
  <2>2. \A n : ByModule(modPath(n))' = ByModule(modPath(n))
    BY <2>1, SameVulns
  <2>3. KK = K
    BY <2>1, <2>2 DEF Known, input
  <2>4. \A x : filteredVulns(x)' = filteredVulns(x)
    <3>1. \A v, n : filteredAffected(v, n)' = filteredAffected(v, n)
      BY <2>1 DEF input, filteredAffected, matchesPlatform, modVersion, replaced
    <3> QED BY <3>1 DEF filteredVulns
  <2>5. \A n : VulnsOf(n)' = filteredVulns(Entry(n))
    BY <2>1, <2>2, <2>4 DEF VulnsOf, Entry
  <2>6. ASSUME NEW i \in DOMAIN mv
        PROVE  mv'[i] \in RR /\ mv'[i].Module = mv[i].Module
    <3>1. PICK n \in K : mv[i] = Entry(n)
      BY <1>0
    <3>2. mv'[i] = [Module |-> n, Vulns |-> filteredVulns(Entry(n))] /\ mv[i].Module = n
      BY <1>3, <3>1 DEF Filter, Entry
    <3> QED BY <2>3, <2>5, <3>2
  <2>7. DOMAIN mv = 1 .. Len(mv) /\ Len(mv) \in Nat /\ mv' = [i \in 1 .. Len(mv) |-> mv'[i]]
    BY <1>0, <1>3 DEF Filter
  <2>8. mv' \in Seq(RR) /\ DOMAIN mv' = DOMAIN mv
    <3> HIDE DEF RR
    <3> QED BY <2>6, <2>7
  <2> HIDE DEF KK, K, RR, R
  <2> QED BY <1>0, <1>f, <1>t, <2>1, <2>3, <2>6, <2>8
<1>4. CASE Ready \/ UNCHANGED vars
  <2>1. UNCHANGED vars
    BY <1>4 DEF Ready
  <2>2. UNCHANGED input /\ phase' = phase /\ UNCHANGED todo /\ mv' = mv
    BY <2>1 DEF vars
  <2>3. \A n : ByModule(modPath(n))' = ByModule(modPath(n)) /\ VulnsOf(n)' = VulnsOf(n)
    BY <2>2, SameVulns
  <2>4. KK = K
    BY <2>2, <2>3 DEF Known, input
  <2>5. RR = R
    BY <2>3, <2>4 DEF Entry
  <2> HIDE DEF KK, K, RR, R
  <2> QED BY <1>0, <1>f, <1>t, <2>2, <2>4, <2>5
<1> QED BY <1>1, <1>2, <1>3, <1>4 DEF Next

\* The modules that were asked about and have entries are known, each with
\* its entries cut down by filter.  (FetchVulnerabilities, filter)
THEOREM FetchCorrect == Spec => []FetchInv
BY FetchInit, FetchStep, PTL DEF Spec

-----------------------------------------------------------------------------
(* What filter keeps of an entry.                                          *)

LEMMA TypedEntry ==
  ASSUME FetchInv, NEW e \in db
  PROVE  /\ e \in [id : {e.id}, withdrawn : BOOLEAN, affected : SUBSET AffectedModule]
         /\ \A d \in db : d.id = e.id => d = e
BY DatabaseAssumption DEF FetchInv

LEMMA FilteredPackages ==
  ASSUME FetchInv, NEW e \in db, NEW m, NEW k
  PROVE  (\E a \in filteredAffected(e, m) : k \in a.packages) <=>
           /\ modVersion(m) # None
           /\ \E b \in e.affected :
                /\ b.module = m.Path /\ modVersion(m) \in b.versions
                /\ k \in b.packages /\ matchesPlatform(k)
<1> DEFINE cut(b) == [b EXCEPT !.packages = {p \in @ : matchesPlatform(p)}]
<1>1. ASSUME NEW b \in e.affected
      PROVE  cut(b).packages = {p \in b.packages : matchesPlatform(p)}
  <2>1. b \in AffectedModule
    BY TypedEntry
  <2> QED BY <2>1 DEF AffectedModule
<1>2. ASSUME NEW a \in filteredAffected(e, m), k \in a.packages
      PROVE  /\ modVersion(m) # None
             /\ \E b \in e.affected :
                  /\ b.module = m.Path /\ modVersion(m) \in b.versions
                  /\ k \in b.packages /\ matchesPlatform(k)
  <2>1. PICK b \in e.affected :
               /\ a = cut(b) /\ b.module = m.Path
               /\ modVersion(m) # None /\ modVersion(m) \in b.versions
    BY Zenon DEF filteredAffected
  <2> HIDE DEF cut
  <2> QED BY <1>1, <1>2, <2>1
<1>3. ASSUME modVersion(m) # None,
             NEW b \in e.affected, b.module = m.Path, modVersion(m) \in b.versions,
             k \in b.packages, matchesPlatform(k)
      PROVE  \E a \in filteredAffected(e, m) : k \in a.packages
  <2>1. cut(b) \in filteredAffected(e, m)
    BY <1>3, Zenon DEF filteredAffected
  <2> HIDE DEF cut
  <2> QED BY <1>1, <1>3, <2>1
<1> QED BY <1>2, <1>3

\* An entry as filter leaves it.
Cut(e, m) == [e EXCEPT !.affected = filteredAffected(e, m)]

LEMMA CutEntry ==
  ASSUME FetchInv, NEW e \in db, NEW m
  PROVE  Cut(e, m).id = e.id /\ Cut(e, m).affected = filteredAffected(e, m)
<1> DEFINE fa == filteredAffected(e, m)
<1>1. Cut(e, m) = [e EXCEPT !.affected = fa]
  BY DEF Cut
<1> HIDE DEF fa
<1>2. Cut(e, m).id = e.id /\ Cut(e, m).affected = fa
  BY <1>1, TypedEntry
<1> QED BY <1>2 DEF fa

LEMMA FilteredEntries ==
  ASSUME NEW m, NEW W, NEW v
  PROVE  v \in filteredVulns([Module |-> m, Vulns |-> W]) <=>
           \E e \in W : ~e.withdrawn /\ filteredAffected(e, m) # {} /\ v = Cut(e, m)
<1> DEFINE mod == [Module |-> m, Vulns |-> W]
<1>1. mod.Module = m /\ mod.Vulns = W
  OBVIOUS
<1> HIDE DEF mod
<1>2. v \in filteredVulns(mod) <=>
        \E e \in mod.Vulns : ~e.withdrawn /\ filteredAffected(e, mod.Module) # {}
                             /\ v = Cut(e, mod.Module)
  BY Zenon DEF filteredVulns, Cut
<1> QED BY <1>1, <1>2 DEF mod

-----------------------------------------------------------------------------
(* The module of a package.                                                *)

\* The modules of mv are modules of the build, and have entries.
LEMMA KnownModule ==
  ASSUME FetchInv, phase = "ready", NEW i \in DOMAIN mv
  PROVE  /\ mv[i].Module \in mods /\ ByModule(modPath(mv[i].Module)) # {}
         /\ mv[i].Vulns = filteredVulns([Module |-> mv[i].Module,
                                         Vulns |-> ByModule(modPath(mv[i].Module))])
<1>1. PICK m \in Known : mv[i] = Entry(m)
  BY Fetched0
<1> QED BY <1>1 DEF Known, Entry, VulnsOf

LEMMA LengthOfMV ==
  ASSUME FetchInv
  PROVE  Len(mv) \in Nat /\ DOMAIN mv = 1 .. Len(mv)
BY Fetched0

\* The chosen module has the package under its path.
LEMMA ChosenUnder ==
  ASSUME FetchInv, NEW p
  PROVE  mostSpecificMod(p) = 0 \/ (/\ mostSpecificMod(p) \in DOMAIN mv
                                    /\ Under(p, mv[mostSpecificMod(p)].Module.Path))
<1> DEFINE n == Len(mv)
<1>0. n \in Nat /\ DOMAIN mv = 1 .. n
  BY LengthOfMV
<1>1. PICK f : /\ f[0] = 0 /\ mostSpecificMod(p) = f[n]
               /\ \A i \in 1 .. n : f[i] = moreSpecific(f[i - 1], i, p)
  BY <1>0, LoopOfModules
<1> DEFINE J(i) == f[i] = 0 \/ (f[i] \in 1 .. n /\ Under(p, mv[f[i]].Module.Path))
           S == {i \in 0 .. n : J(i)}
<1>2. 0 \in S
  BY <1>0, <1>1
<1>3. ASSUME NEW i \in 0 .. n - 1, i \in S PROVE i + 1 \in S
  <2>1. i + 1 \in 1 .. n /\ i + 1 \in 0 .. n /\ (i + 1) - 1 = i /\ J(i)
    BY <1>0, <1>3
  <2>2. f[i + 1] = moreSpecific(f[i], i + 1, p)
    BY <1>1, <2>1
  <2>3. \/ f[i + 1] = f[i]
        \/ f[i + 1] = i + 1 /\ Under(p, mv[i + 1].Module.Path)
    BY <2>2 DEF moreSpecific, Under
  <2>4. J(i + 1)
    BY <2>1, <2>3
  <2> QED BY <2>1, <2>4
<1>4. n \in S
  <2>1. n \in 0 .. n
    BY <1>0
  <2> HIDE DEF S, n
  <2>2. 0 .. n \subseteq S
    BY <1>0, <1>2, <1>3, Upwards
  <2> QED BY <2>1, <2>2
<1> QED BY <1>0, <1>1, <1>4

\* A package of a module is under its path.
LEMMA ProvidedUnder ==
  ASSUME NEW q \in Path, NEW p \in Provides[q]
  PROVE  /\ p \in Seq(Segment) /\ p # <<>> /\ q \in Seq(Segment) /\ q # <<>>
         /\ IF q = Std THEN isStdPackage(p) ELSE IsPrefix(q, p) /\ HasPrefix(p, q)
<1>1. /\ p \in Seq(Segment) /\ p # <<>> /\ q \in Seq(Segment) /\ q # <<>>
      /\ IF q = Std THEN isStdPackage(p) ELSE IsPrefix(q, p)
  BY PathAssumption
<1>2. ASSUME IsPrefix(q, p) PROVE HasPrefix(p, q)
  <2> DEFINE k == Len(q)
  <2>1. k \in Nat \ {0} /\ k <= Len(p) /\ Len(p) \in Nat /\ SubSeq(p, 1, k) = q
    BY <1>1, <1>2 DEF IsPrefix
  <2>2. p[k] = q[k]
    BY <1>1, <2>1
  <2>3. SubSeq(p, 1, k - 1) = SubSeq(q, 1, k - 1)
    <3>1. \A i \in 1 .. k : p[i] = q[i]
      BY <1>1, <2>1
    <3> QED BY <1>1, <2>1, <3>1
  <2> QED BY <2>1, <2>2, <2>3 DEF HasPrefix, Front, Last
<1> QED BY <1>1, <1>2

\* The loop finds the module of a package when it is the most specific one.
LEMMA Chosen ==
  ASSUME FetchInv, phase = "ready",
         NEW m \in mods, NEW p \in Provides[m.Path], MostSpecific(m, p)
  PROVE  mostSpecificMod(p) \in DOMAIN mv /\ mv[mostSpecificMod(p)].Module = m
<1> DEFINE n == Len(mv)
           M(i) == mv[i].Module
<1>0. n \in Nat /\ DOMAIN mv = 1 .. n
  BY LengthOfMV
<1>1. PICK f : /\ f[0] = 0 /\ mostSpecificMod(p) = f[n]
               /\ \A i \in 1 .. n : f[i] = moreSpecific(f[i - 1], i, p)
  BY <1>0, LoopOfModules
<1>2. /\ \A i \in 1 .. n : M(i) \in mods /\ ByModule(modPath(M(i))) # {}
      /\ \E j \in 1 .. n : M(j) = m
  <2>1. m \in Known
    BY DEF MostSpecific, Known, FetchInv
  <2> QED BY <1>0, <2>1, Fetched0, KnownModule
<1>3. /\ \A i \in 1 .. n : M(i).Path \in Path
      /\ m.Path \in Path
      /\ \A q \in Path : PathLen[q] \in Nat
  BY <1>2, PathAssumption DEF FetchInv, Module
<1>4. ASSUME NEW i \in 1 .. n, M(i) # m, Under(p, M(i).Path)
      PROVE  M(i).Path # Std /\ PathLen[M(i).Path] < PathLen[m.Path]
  BY <1>2, <1>4 DEF MostSpecific
<1>5. (m.Path = Std /\ isStdPackage(p)) \/ (m.Path # Std /\ HasPrefix(p, m.Path))
  BY <1>3, ProvidedUnder
<1> DEFINE seen(i) == \E j \in 1 .. i : M(j) = m
           J(i) == /\ f[i] = 0 \/ (f[i] \in 1 .. i /\ Under(p, M(f[i]).Path))
                   /\ seen(i) => f[i] # 0 /\ M(f[i]) = m
           S == {i \in 0 .. n : J(i)}
<1>6. 0 \in S
  BY <1>0, <1>1
<1>7. ASSUME NEW i \in 0 .. n - 1, i \in S PROVE i + 1 \in S
  <2> DEFINE k == i + 1
             b == f[i]
             q == M(k)
  <2>1. /\ k \in 1 .. n /\ k \in 0 .. n /\ k - 1 = i /\ i \in Nat
        /\ b = 0 \/ (b \in 1 .. i /\ b \in 1 .. n /\ Under(p, M(b).Path))
        /\ seen(i) => b # 0 /\ M(b) = m
        /\ seen(k) => seen(i) \/ q = m
    BY <1>0, <1>7
  <2>2. f[k] = moreSpecific(b, k, p)
    BY <1>1, <2>1
  <2>3. CASE isStdPackage(p) /\ q.Path = Std
    <3>1. f[k] = k /\ Under(p, q.Path)
      BY <2>2, <2>3 DEF moreSpecific, Under
    <3>2. q = m
      BY <1>4, <2>1, <2>3, <3>1
    <3> QED BY <2>1, <3>1, <3>2
  <2>4. CASE /\ ~(isStdPackage(p) /\ q.Path = Std) /\ HasPrefix(p, q.Path)
             /\ b = 0 \/ PathLen[M(b).Path] < PathLen[q.Path]
    <3>1. f[k] = k /\ Under(p, q.Path)
      BY <2>2, <2>4 DEF moreSpecific, Under
    <3>2. ASSUME seen(i) PROVE q = m
      <4>1. SUFFICES ASSUME q # m PROVE FALSE
        OBVIOUS
      <4>2. PathLen[q.Path] < PathLen[m.Path] /\ PathLen[m.Path] < PathLen[q.Path]
        BY <1>4, <2>1, <2>4, <3>1, <3>2, <4>1
      <4> QED BY <1>3, <2>1, <4>2
    <3> QED BY <2>1, <3>1, <3>2
  <2>5. CASE /\ ~(isStdPackage(p) /\ q.Path = Std)
             /\ ~(/\ HasPrefix(p, q.Path)
                  /\ b = 0 \/ PathLen[M(b).Path] < PathLen[q.Path])
    <3>1. f[k] = b
      BY <2>2, <2>5 DEF moreSpecific
    <3>2. ASSUME q = m PROVE b # 0 /\ M(b) = m
      <4>1. b # 0 /\ ~(PathLen[M(b).Path] < PathLen[m.Path])
        BY <1>5, <2>5, <3>2
      <4> QED BY <1>4, <2>1, <4>1
    <3>3. k \in Nat /\ (b \in 1 .. i => b \in 1 .. k)
      BY <2>1
    <3> HIDE DEF k, b, q, M, n
    <3> QED BY <2>1, <3>1, <3>2, <3>3
  <2> QED BY <2>3, <2>4, <2>5
<1>8. n \in S
  <2>1. n \in 0 .. n
    BY <1>0
  <2> HIDE DEF S, n
  <2>2. 0 .. n \subseteq S
    BY <1>0, <1>6, <1>7, Upwards
  <2> QED BY <2>1, <2>2
<1> QED BY <1>0, <1>1, <1>2, <1>8

\* A package is looked up under its own path, unless its module is replaced
\* by another.
LEMMA OwnPath ==
  ASSUME FetchInv, NEW m \in mods, NEW p \in Provides[m.Path], SamePath(m),
         NEW x, x.Module = m
  PROVE  replacedPath(x, p) = p
<1>1. m.Path \in Path
  BY DEF FetchInv, Module
<1>2. CASE ~replaced(m)
  BY <1>2 DEF replacedPath
<1>3. CASE replaced(m)
  <2>1. m.Path # Std
    BY <1>3 DEF FetchInv, Build
  <2>2. IsPrefix(m.Path, p) /\ p \in Seq(Segment) /\ m.Path \in Seq(Segment)
    BY <1>1, <2>1, ProvidedUnder
  <2>3. replacedPath(x, p) = m.Path \o SubSeq(p, Len(m.Path) + 1, Len(p))
    BY <1>3 DEF replacedPath, SamePath, modPath
  <2> DEFINE q == m.Path
             t == SubSeq(p, Len(q) + 1, Len(p))
  <2>4. Len(q) \in Nat /\ Len(p) \in Nat /\ Len(q) <= Len(p) /\ SubSeq(p, 1, Len(q)) = q
    BY <2>2 DEF IsPrefix
  <2>5. \A i \in 1 .. Len(q) : q[i] = p[i]
    BY <2>2, <2>4
  <2>6. t \in Seq(Segment) /\ Len(t) = Len(p) - Len(q)
        /\ \A i \in 1 .. Len(p) - Len(q) : t[i] = p[i + Len(q)]
    <3> DEFINE lo == Len(q) + 1
               hi == Len(p)
    <3>1. lo \in Int /\ hi \in Int /\ \A i \in lo .. hi : p[i] \in Segment
      BY <2>2, <2>4
    <3>2. hi - lo + 1 = Len(p) - Len(q)
          /\ \A i \in 1 .. Len(p) - Len(q) : lo + i - 1 = i + Len(q)
      BY <2>4
    <3>3. (IF lo <= hi THEN hi - lo + 1 ELSE 0) = Len(p) - Len(q)
      <4>1. \A a, c \in Nat : a <= c => (IF a + 1 <= c THEN c - (a + 1) + 1 ELSE 0) = c - a
        OBVIOUS
      <4> QED BY <2>4, <4>1
    <3> HIDE DEF lo, hi
    <3>4. /\ SubSeq(p, lo, hi) \in Seq(Segment)
          /\ Len(SubSeq(p, lo, hi)) = IF lo <= hi THEN hi - lo + 1 ELSE 0
          /\ \A i \in 1 .. hi - lo + 1 : SubSeq(p, lo, hi)[i] = p[lo + i - 1]
      BY <3>1, SubSeqProperties
    <3>5. t = SubSeq(p, lo, hi)
      BY DEF lo, hi
    <3> QED BY <3>2, <3>3, <3>4, <3>5
  <2> HIDE DEF t
  <2>7. q \o t \in Seq(Segment) /\ Len(q \o t) = Len(p)
    BY <2>2, <2>4, <2>6
  <2>8. ASSUME NEW i \in 1 .. Len(p) PROVE (q \o t)[i] = p[i]
    <3>1. CASE i <= Len(q)
      BY <2>2, <2>4, <2>5, <2>6, <3>1
    <3>2. CASE ~(i <= Len(q))
      <4>1. i - Len(q) \in 1 .. Len(p) - Len(q) /\ (i - Len(q)) + Len(q) = i
        BY <2>4, <3>2
      <4>2. (q \o t)[i] = t[i - Len(q)]
        BY <2>2, <2>4, <2>6, <3>2, <4>1
      <4> QED BY <2>6, <4>1, <4>2
    <3> QED BY <3>1, <3>2
  <2>9. q \o t = p
    <3> DEFINE s == q \o t
    <3>1. s \in Seq(Segment) /\ Len(s) = Len(p) /\ \A i \in 1 .. Len(s) : s[i] = p[i]
      BY <2>7, <2>8
    <3> HIDE DEF s
    <3>2. s = p
      BY <2>2, <3>1, SeqEqual
    <3> QED BY <3>2 DEF s
  <2> QED BY <2>3, <2>9 DEF t
<1> QED BY <1>2, <1>3

\* What the database says of package k of the entry e, for the module m.
Listed(e, m, k) ==
  /\ ~e.withdrawn /\ modVersion(m) # None
  /\ \E a \in e.affected :
       /\ a.module = m.Path /\ modVersion(m) \in a.versions
       /\ k \in a.packages /\ matchesPlatform(k)

\* The vulnerabilities of a package of the module m: those that list it.
LEMMA VulnsOfPackage ==
  ASSUME FetchInv, phase = "ready", NEW p, NEW v
  PROVE  v \in vulnsForPackage(p) <=>
           /\ mostSpecificMod(p) \in DOMAIN mv
           /\ LET x == mv[mostSpecificMod(p)]
              IN  \E e \in ByModule(modPath(x.Module)) :
                    /\ v = Cut(e, x.Module)
                    /\ \E k : Listed(e, x.Module, k) /\ k.path = replacedPath(x, p)
<1> DEFINE i == mostSpecificMod(p)
           x == mv[i]
           m == x.Module
           W == ByModule(modPath(m))
<1>1. CASE i \notin DOMAIN mv
  <2>1. i = 0
    BY <1>1, ChosenUnder
  <2> QED BY <1>1, <2>1 DEF vulnsForPackage
<1>2. CASE i \in DOMAIN mv
  <2>1. i # 0 /\ x.Vulns = filteredVulns([Module |-> m, Vulns |-> W]) /\ W \subseteq db
    BY <1>2, KnownModule, LengthOfMV DEF ByModule
  <2>2. v \in vulnsForPackage(p) <=>
          /\ v \in x.Vulns
          /\ \E a \in v.affected : \E k \in a.packages : k.path = replacedPath(x, p)
    BY <2>1 DEF vulnsForPackage
  <2>3. v \in x.Vulns <=>
          \E e \in W : ~e.withdrawn /\ filteredAffected(e, m) # {} /\ v = Cut(e, m)
    BY <2>1, FilteredEntries
  <2>4. ASSUME NEW e \in W, v = Cut(e, m), NEW k
        PROVE  (\E a \in v.affected : k \in a.packages) <=>
               (\E a \in filteredAffected(e, m) : k \in a.packages)
    BY <2>1, <2>4, CutEntry
  <2>5. ASSUME NEW e \in W, NEW k
        PROVE  Listed(e, m, k) <=>
                 ~e.withdrawn /\ \E a \in filteredAffected(e, m) : k \in a.packages
    BY <2>1, FilteredPackages DEF Listed
  <2>6. ASSUME v \in vulnsForPackage(p)
        PROVE  \E e \in W : /\ v = Cut(e, m)
                            /\ \E k : Listed(e, m, k) /\ k.path = replacedPath(x, p)
    <3> HIDE DEF W, m, x
    <3> QED BY <2>2, <2>3, <2>4, <2>5, <2>6
  <2>7. ASSUME NEW e \in W, v = Cut(e, m),
               NEW k, Listed(e, m, k), k.path = replacedPath(x, p)
        PROVE  v \in vulnsForPackage(p)
    <3> HIDE DEF W, m, x
    <3> QED BY <2>2, <2>3, <2>4, <2>5, <2>7
  <2> QED BY <1>2, <2>6, <2>7
<1> QED BY <1>1, <1>2

LEMMA ListedEntry ==
  ASSUME NEW m, NEW e \in db, NEW k, Listed(e, m, k), SamePath(m)
  PROVE  e \in ByModule(modPath(m))
BY DEF Listed, ByModule, SamePath

LEMMA AnyPackage == FetchInv => PackageExact
<1> SUFFICES ASSUME FetchInv, phase = "ready",
                    NEW m \in mods, NEW p \in Provides[m.Path],
                    SamePath(m), MostSpecific(m, p)
             PROVE  {v.id : v \in vulnsForPackage(p)} =
                      {e.id : e \in {d \in db : Affects(d, m, p, m.Path, LAMBDA k : TRUE)}}
  BY DEF PackageExact
<1> DEFINE x == mv[mostSpecificMod(p)]
<1>1. mostSpecificMod(p) \in DOMAIN mv /\ x.Module = m
  BY Chosen
<1>2. replacedPath(x, p) = p
  BY <1>1, OwnPath
<1>3. \A v : v \in vulnsForPackage(p) <=>
               \E e \in ByModule(modPath(m)) :
                 /\ v = Cut(e, m) /\ \E k : Listed(e, m, k) /\ k.path = p
  BY <1>1, <1>2, VulnsOfPackage
<1>4. \A d : Affects(d, m, p, m.Path, LAMBDA k : TRUE) <=>
               \E k : Listed(d, m, k) /\ k.path = p
  BY DEF Affects, Listed
<1>5. ByModule(modPath(m)) \subseteq db
  BY DEF ByModule
<1>6. \A e \in db : Cut(e, m).id = e.id
  BY CutEntry
<1>7. ASSUME NEW e \in db, NEW k, Listed(e, m, k), k.path = p
      PROVE  \E v \in vulnsForPackage(p) : v.id = e.id
  BY <1>3, <1>6, <1>7, ListedEntry
<1>8. ASSUME NEW v \in vulnsForPackage(p)
      PROVE  \E e \in db : v.id = e.id /\ \E k : Listed(e, m, k) /\ k.path = p
  BY <1>3, <1>5, <1>6
<1> HIDE DEF x
<1> QED BY <1>4, <1>7, <1>8

\* Whatever the order in which the modules come, a package has the
\* vulnerabilities of the entries that list it, and no others.
\* (vulnsForPackage)
THEOREM PackagesCorrect == Spec => []PackageExact
BY FetchCorrect, AnyPackage, PTL

-----------------------------------------------------------------------------
(* The vulnerable symbols of a package.                                    *)

\* The package k of an entry is about the symbol s of the package p.
Hits(k, p, s) ==
  IF ImportsOnly
  THEN s \in IF k.symbols = {} THEN packageSymbols[p] ELSE k.symbols
  ELSE s \in packageSymbols[p] /\ (k.symbols = {} \/ s \in k.symbols)

LEMMA VulnerableIs ==
  ASSUME BinaryInv, NEW p \in ImportPath, NEW e \in db, NEW m, NEW s
  PROVE  s \in Vulnerable(e, m, p) <=>
           \E k : Listed(e, m, k) /\ k.path = p /\ Hits(k, p, s)
<1>1. packageSymbols[p] \subseteq Symbol
  BY DEF BinaryInv
<1>2. ASSUME NEW k, Listed(e, m, k) PROVE k.symbols \subseteq Symbol
  <2>1. \A a \in e.affected : a.packages \subseteq Package
    BY TypedEntry DEF BinaryInv, AffectedModule
  <2> QED BY <1>2, <2>1 DEF Listed, Package
<1>3. CASE ImportsOnly
  <2>1. s \in Vulnerable(e, m, p) <=>
          s \in Symbol /\ \E k : Listed(e, m, k) /\ k.path = p /\ Hits(k, p, s)
    BY <1>3 DEF Vulnerable, Affects, Listed, Hits
  <2> QED BY <1>1, <1>2, <1>3, <2>1 DEF Hits
<1>4. CASE ~ImportsOnly
  BY <1>4 DEF Vulnerable, Affects, Listed, Hits
<1> QED BY <1>3, <1>4

LEMMA PackageVulnsAre ==
  ASSUME NEW p, NEW v
  PROVE  v \in PackageVulns(p) <=>
           \E w \in vulnsForPackage(p) : \E s :
             /\ v = [OSV |-> w, Symbol |-> s, PkgPath |-> p, ModPath |-> findPackageModule(p)]
             /\ \E a \in w.affected : \E k \in a.packages : k.path = p /\ Hits(k, p, s)
<1> DEFINE rec(w, s) == [OSV |-> w, Symbol |-> s, PkgPath |-> p,
                         ModPath |-> findPackageModule(p)]
           hit(w, s) == \E a \in w.affected : \E k \in a.packages :
                          k.path = p /\ Hits(k, p, s)
<1>1. CASE ImportsOnly
  <2> DEFINE Ks(w) == {l \in UNION {a.packages : a \in w.affected} : l.path = p}
             Sy(w) == UNION {IF k.symbols = {} THEN packageSymbols[p] ELSE k.symbols :
                               k \in Ks(w)}
             Rs(w) == [OSV : {w}, PkgPath : {p}, ModPath : {findPackageModule(p)},
                       Symbol : Sy(w)]
  <2>1. PackageVulns(p) = UNION {Rs(w) : w \in vulnsForPackage(p)}
    BY <1>1, Zenon DEF PackageVulns, ImportsOnlyVulns
  <2>2. \A w, s : s \in Sy(w) <=> hit(w, s)
    BY <1>1 DEF Hits
  <2> HIDE DEF Sy, hit
  <2>3. \A w : v \in Rs(w) <=> \E s \in Sy(w) : v = rec(w, s)
    OBVIOUS
  <2> HIDE DEF Rs, rec
  <2>4. v \in PackageVulns(p) <=> \E w \in vulnsForPackage(p) : v \in Rs(w)
    BY <2>1
  <2>5. v \in PackageVulns(p) <=>
          \E w \in vulnsForPackage(p) : \E s : v = rec(w, s) /\ hit(w, s)
    BY <2>2, <2>3, <2>4
  <2> QED BY <2>5 DEF rec, hit
<1>2. CASE ~ImportsOnly
  <2> DEFINE Rs(s) == [OSV : vulnsForSymbol(p, s), PkgPath : {p},
                       ModPath : {findPackageModule(p)}, Symbol : {s}]
  <2>1. PackageVulns(p) = UNION {Rs(s) : s \in packageSymbols[p]}
    BY <1>2, Zenon DEF PackageVulns, SymbolVulns
  <2>2. \A w, s : w \in vulnsForSymbol(p, s) /\ s \in packageSymbols[p] <=>
                    w \in vulnsForPackage(p) /\ hit(w, s)
    BY <1>2 DEF vulnsForSymbol, Hits
  <2> HIDE DEF hit
  <2>3. \A s : v \in Rs(s) <=> \E w \in vulnsForSymbol(p, s) : v = rec(w, s)
    OBVIOUS
  <2> HIDE DEF Rs, rec
  <2>4. v \in PackageVulns(p) <=> \E s \in packageSymbols[p] : v \in Rs(s)
    BY <2>1
  <2>5. v \in PackageVulns(p) <=>
          \E w \in vulnsForPackage(p) : \E s : v = rec(w, s) /\ hit(w, s)
    BY <2>2, <2>3, <2>4
  <2> QED BY <2>5 DEF rec, hit
<1> QED BY <1>1, <1>2

\* What is found in a package comes from an entry that makes it vulnerable.
LEMMA FromEntry ==
  ASSUME BinaryInv, phase = "ready", NEW p \in ImportPath, NEW v \in PackageVulns(p)
  PROVE  /\ v.PkgPath = p /\ v.ModPath = findPackageModule(p)
         /\ mostSpecificMod(p) \in DOMAIN mv
         /\ \E e \in db :
              /\ e.id = v.OSV.id
              /\ v.Symbol \in Vulnerable(e, mv[mostSpecificMod(p)].Module, p)
<1> DEFINE x == mv[mostSpecificMod(p)]
           m == x.Module
<1>0. FetchInv
  BY DEF BinaryInv
<1>1. PICK w, s :
        /\ w \in vulnsForPackage(p)
        /\ v = [OSV |-> w, Symbol |-> s, PkgPath |-> p, ModPath |-> findPackageModule(p)]
        /\ \E a \in w.affected : \E k \in a.packages : k.path = p /\ Hits(k, p, s)
  BY PackageVulnsAre
<1>2. mostSpecificMod(p) \in DOMAIN mv
      /\ \E e \in ByModule(modPath(m)) : w = Cut(e, m) /\ \E k : Listed(e, m, k)
  BY <1>0, <1>1, VulnsOfPackage
<1>3. PICK e \in db : w = Cut(e, m) /\ \E k : Listed(e, m, k)
  BY <1>2 DEF ByModule
<1> HIDE DEF x, m
<1>4. w.id = e.id /\ w.affected = filteredAffected(e, m)
  BY <1>0, <1>3, CutEntry
<1>5. PICK a \in w.affected : \E k \in a.packages : k.path = p /\ Hits(k, p, s)
  BY <1>1
<1>6. PICK k \in a.packages : k.path = p /\ Hits(k, p, s)
  BY <1>5
<1>c. Listed(e, m, k)
  BY <1>0, <1>3, <1>4, <1>5, <1>6, FilteredPackages DEF Listed
<1>7. s \in Vulnerable(e, m, p)
  BY <1>6, <1>c, VulnerableIs
<1> QED BY <1>1, <1>2, <1>4, <1>7 DEF m, x

\* And what an entry makes vulnerable is found.
LEMMA ToEntry ==
  ASSUME BinaryInv, phase = "ready", NEW m \in mods, NEW p \in Provides[m.Path],
         p \in ImportPath, SamePath(m), MostSpecific(m, p),
         NEW e \in db, NEW s \in Vulnerable(e, m, p)
  PROVE  \E v \in PackageVulns(p) : v.OSV.id = e.id /\ v.Symbol = s
<1> DEFINE x == mv[mostSpecificMod(p)]
           w == Cut(e, m)
           v == [OSV |-> w, Symbol |-> s, PkgPath |-> p, ModPath |-> findPackageModule(p)]
<1>0. FetchInv
  BY DEF BinaryInv
<1>1. mostSpecificMod(p) \in DOMAIN mv /\ x.Module = m /\ replacedPath(x, p) = p
  BY <1>0, Chosen, OwnPath
<1>2. PICK k : Listed(e, m, k) /\ k.path = p /\ Hits(k, p, s)
  BY VulnerableIs
<1>3. e \in ByModule(modPath(m))
  BY <1>2, ListedEntry
<1>4. w \in vulnsForPackage(p)
  BY <1>0, <1>1, <1>2, <1>3, VulnsOfPackage
<1>5. w.id = e.id /\ w.affected = filteredAffected(e, m)
  BY <1>0, CutEntry
<1>6. \E a \in w.affected : k \in a.packages
  BY <1>0, <1>2, <1>5, FilteredPackages DEF Listed
<1> HIDE DEF w, x
<1>7. v \in PackageVulns(p)
  BY <1>2, <1>4, <1>6, PackageVulnsAre
<1>8. v.OSV.id = e.id /\ v.Symbol = s
  BY <1>5
<1> HIDE DEF v
<1> QED BY <1>7, <1>8

-----------------------------------------------------------------------------
(* The loop over the packages, and the merge.                              *)

LEMMA SamePackageVulns ==
  ASSUME UNCHANGED <<vars, packageSymbols, ImportsOnly>>, NEW p
  PROVE  PackageVulns(p)' = PackageVulns(p)
<1>1. mostSpecificMod(p)' = mostSpecificMod(p)
  BY DEF vars, mostSpecificMod, moreSpecific
<1>2. vulnsForPackage(p)' = vulnsForPackage(p)
  BY <1>1 DEF vars, vulnsForPackage, replacedPath, replaced
<1>3. \A s : vulnsForSymbol(p, s)' = vulnsForSymbol(p, s)
  BY <1>2 DEF vulnsForSymbol
<1>4. findPackageModule(p)' = findPackageModule(p)
  BY DEF vars, input, findPackageModule
<1>5. ImportsOnlyVulns(p)' = ImportsOnlyVulns(p)
  <2> DEFINE F == findPackageModule(p)
             V == vulnsForPackage(p)
             Sym(v, ps) ==
               UNION {IF k.symbols = {} THEN ps[p] ELSE k.symbols :
                        k \in {l \in UNION {a.packages : a \in v.affected} : l.path = p}}
             Rs(v, f, ps) ==
               [OSV : {v}, PkgPath : {p}, ModPath : {f}, Symbol : Sym(v, ps)]
  <2>1. ImportsOnlyVulns(p) = UNION {Rs(v, F, packageSymbols) : v \in V}
    BY Zenon DEF ImportsOnlyVulns
  <2>2. ImportsOnlyVulns(p)' = UNION {Rs(v, F', packageSymbols') : v \in V'}
    BY Zenon DEF ImportsOnlyVulns
  <2>3. packageSymbols' = packageSymbols /\ F' = F /\ V' = V
    BY <1>2, <1>4
  <2> HIDE DEF Rs, F, V
  <2> QED BY <2>1, <2>2, <2>3
<1>6. SymbolVulns(p)' = SymbolVulns(p)
  <2> DEFINE F == findPackageModule(p)
             V(s) == vulnsForSymbol(p, s)
             Rs(v, f, s) == [OSV : v, PkgPath : {p}, ModPath : {f}, Symbol : {s}]
  <2>1. SymbolVulns(p) = UNION {Rs(V(s), F, s) : s \in packageSymbols[p]}
    BY Zenon DEF SymbolVulns
  <2>2. SymbolVulns(p)' = UNION {Rs(V(s)', F', s) : s \in packageSymbols'[p]}
    BY Zenon DEF SymbolVulns
  <2>3. packageSymbols' = packageSymbols /\ F' = F /\ \A s : V(s)' = V(s)
    BY <1>3, <1>4
  <2> HIDE DEF Rs, F, V
  <2> QED BY <2>1, <2>2, <2>3
<1> QED BY <1>5, <1>6 DEF PackageVulns

LEMMA SameMerged ==
  ASSUME UNCHANGED <<mods, Vulns>>
  PROVE  MergedVulns' = MergedVulns
BY DEF MergedVulns, MergedModule, foundVersion, fixedVersion, modVersion, replaced,
       ofModule, ofPackage

LEMMA BinaryStart == BinaryInit => BinaryInv
<1> SUFFICES ASSUME BinaryInit PROVE BinaryInv
  OBVIOUS
<1>1. FetchInv
  BY FetchInit DEF BinaryInit
<1>2. Vulns = {} /\ pkgsLeft = InBinary /\ InBinary \ pkgsLeft = {}
  BY DEF BinaryInit, InBinary
<1>3. Vulns = UNION {PackageVulns(p) : p \in InBinary \ pkgsLeft}
  BY <1>2
<1> QED BY <1>1, <1>2, <1>3 DEF BinaryInit, BinaryInv

LEMMA BinaryStep == BinaryInv /\ [BinaryNext]_bvars => BinaryInv'
<1> SUFFICES ASSUME BinaryInv, [BinaryNext]_bvars PROVE BinaryInv'
  OBVIOUS
<1>1. [Next]_vars
  BY DEF BinaryNext, AddVulns, Merge, Merged, Next, bvars
<1>2. FetchInv'
  BY <1>1, FetchStep DEF BinaryInv
<1>3. UNCHANGED <<packageSymbols, ImportsOnly>> /\ InBinary' = InBinary
      /\ mods' = mods
  <2>1. UNCHANGED <<packageSymbols, ImportsOnly>>
    BY DEF BinaryNext, AddVulns, Merge, Merged, bvars, binary
  <2>2. mods' = mods
    BY <1>1 DEF Next, vars, input, Fetch, Fetched, Filter, Ready
  <2> QED BY <2>1, <2>2 DEF InBinary
<1>t. /\ (packageSymbols \in [ImportPath -> SUBSET Symbol])'
      /\ (ImportsOnly \in BOOLEAN)'
  BY <1>3 DEF BinaryInv
<1>4. CASE ((\E m \in Module : Fetch(m)) \/ Fetched \/ Filter) /\ UNCHANGED binary
  <2>1. phase # "ready"
    BY <1>4 DEF Fetch, Fetched, Filter
  <2>2. pkgsLeft = InBinary /\ outcome = "none" /\ Vulns = {}
    <3>1. pkgsLeft = InBinary /\ outcome = "none"
      BY <2>1 DEF BinaryInv
    <3> QED BY <3>1 DEF BinaryInv
  <2>3. UNCHANGED <<pkgsLeft, Vulns, outcome, result>>
    BY <1>4 DEF binary
  <2>4. Vulns' = UNION {PackageVulns(p)' : p \in InBinary' \ pkgsLeft'}
    BY <1>3, <2>2, <2>3
  <2> QED BY <1>2, <1>3, <1>t, <2>2, <2>3, <2>4 DEF BinaryInv
<1>5. CASE \E p \in ImportPath : AddVulns(p)
  <2>1. PICK p \in ImportPath : AddVulns(p)
    BY <1>5
  <2>2. /\ phase = "ready" /\ p \in pkgsLeft /\ phase' = phase
        /\ Vulns' = Vulns \cup PackageVulns(p) /\ pkgsLeft' = pkgsLeft \ {p}
        /\ UNCHANGED <<vars, packageSymbols, ImportsOnly>> /\ UNCHANGED <<outcome, result>>
    BY <2>1 DEF AddVulns, vars
  <2>3. \A k : PackageVulns(k)' = PackageVulns(k)
    BY <2>2, SamePackageVulns
  <2>4. InBinary \ pkgsLeft' = (InBinary \ pkgsLeft) \cup {p}
        /\ Vulns = UNION {PackageVulns(k) : k \in InBinary \ pkgsLeft}
        /\ outcome = "none" /\ pkgsLeft' \in SUBSET InBinary
    BY <2>2 DEF BinaryInv
  <2>5. Vulns' = UNION {PackageVulns(k)' : k \in InBinary' \ pkgsLeft'}
    BY <1>3, <2>2, <2>3, <2>4
  <2> QED BY <1>2, <1>3, <1>t, <2>2, <2>4, <2>5 DEF BinaryInv
<1>6. CASE Merge \/ Merged \/ UNCHANGED bvars
  <2>1. UNCHANGED <<vars, packageSymbols, ImportsOnly>> /\ UNCHANGED <<pkgsLeft, Vulns>>
        /\ phase' = phase
    BY <1>6 DEF Merge, Merged, bvars, binary, vars
  <2>2. \A k : PackageVulns(k)' = PackageVulns(k)
    BY <2>1, SamePackageVulns
  <2>3. Vulns' = UNION {PackageVulns(k)' : k \in InBinary' \ pkgsLeft'}
    BY <1>3, <2>1, <2>2 DEF BinaryInv
  <2>4. MergedVulns' = MergedVulns
    BY <1>3, <2>1, SameMerged
  <2>5. /\ outcome' \in {"none", "ok", "panic"}
        /\ outcome' # "none" => phase = "ready" /\ pkgsLeft = {}
        /\ outcome' = "ok" => result' = MergedVulns
    <3>1. CASE Merge
      BY <3>1 DEF Merge
    <3>2. CASE Merged \/ UNCHANGED bvars
      BY <3>2 DEF Merged, bvars, binary, BinaryInv
    <3> QED BY <1>6, <3>1, <3>2
  <2>6. pkgsLeft' \in SUBSET InBinary' /\ (phase' # "ready" => pkgsLeft' = InBinary')
    BY <1>3, <2>1 DEF BinaryInv
  <2> QED BY <1>2, <1>3, <1>t, <2>1, <2>3, <2>4, <2>5, <2>6 DEF BinaryInv
<1> QED BY <1>4, <1>5, <1>6 DEF BinaryNext

\* The vulnerabilities found are those of the packages the loop has been
\* through, and what is reported is these, merged.
THEOREM BinaryCorrect == BinarySpec => []BinaryInv
BY BinaryStart, BinaryStep, PTL DEF BinarySpec

-----------------------------------------------------------------------------
(* The report.                                                             *)

LEMMA ReportedState ==
  ASSUME BinaryInv, Reported
  PROVE  /\ FetchInv /\ phase = "ready" /\ result = MergedVulns
         /\ Vulns = UNION {PackageVulns(p) : p \in InBinary}
BY DEF BinaryInv, Reported

\* What the merged result has of an entry, of a module and of a package.
LEMMA MergedIs ==
  ASSUME result = MergedVulns
  PROVE  /\ DOMAIN result = {v.OSV.id : v \in Vulns}
         /\ \A id \in DOMAIN result :
              /\ DOMAIN result[id] = {v.ModPath : v \in {w \in Vulns : w.OSV.id = id}}
              /\ \A q \in DOMAIN result[id] : result[id][q] = MergedModule(id, q)
<1> DEFINE ids == {v.OSV.id : v \in Vulns}
           paths(id) == {v.ModPath : v \in {w \in Vulns : w.OSV.id = id}}
<1>1. result = [id \in ids |-> [q \in paths(id) |-> MergedModule(id, q)]]
  BY Zenon DEF MergedVulns
<1> HIDE DEF ids, paths
<1>3. DOMAIN result = ids
  BY <1>1
<1>4. ASSUME NEW id \in ids
      PROVE  /\ DOMAIN result[id] = paths(id)
             /\ \A q \in paths(id) : result[id][q] = MergedModule(id, q)
  BY <1>1
<1> QED BY <1>3, <1>4 DEF ids, paths

LEMMA MergedModuleIs ==
  ASSUME NEW id, NEW q
  PROVE  /\ MergedModule(id, q).FoundVersion = foundVersion(q)
         /\ DOMAIN MergedModule(id, q).Packages = {v.PkgPath : v \in ofModule(id, q)}
         /\ \A pk \in DOMAIN MergedModule(id, q).Packages :
              MergedModule(id, q).Packages[pk] = {v.Symbol : v \in ofPackage(id, q, pk)}
<1> DEFINE D == {v.PkgPath : v \in ofModule(id, q)}
           T(pk) == {v.Symbol : v \in ofPackage(id, q, pk)}
<1>1. MergedModule(id, q).FoundVersion = foundVersion(q)
      /\ MergedModule(id, q).Packages = [pk \in D |-> T(pk)]
  BY DEF MergedModule
<1> HIDE DEF D, T
<1>2. DOMAIN MergedModule(id, q).Packages = D
      /\ \A pk \in D : MergedModule(id, q).Packages[pk] = T(pk)
  BY <1>1
<1> QED BY <1>1, <1>2 DEF D, T

LEMMA SymbolsAre ==
  ASSUME result = MergedVulns, NEW id, NEW p
  PROVE  Symbols(id, p) = {v.Symbol : v \in {w \in Vulns : w.OSV.id = id /\ w.PkgPath = p}}
<1> DEFINE Of == {w \in Vulns : w.OSV.id = id /\ w.PkgPath = p}
<1>1. CASE id \notin DOMAIN result
  <2>1. Of = {}
    BY <1>1, MergedIs
  <2> QED BY <1>1, <2>1 DEF Symbols
<1>2. CASE id \in DOMAIN result
  <2> DEFINE at(q) == IF p \in DOMAIN result[id][q].Packages
                      THEN result[id][q].Packages[p] ELSE {}
  <2>1. Symbols(id, p) = UNION {at(q) : q \in DOMAIN result[id]}
    BY <1>2, Zenon DEF Symbols
  <2>2. ASSUME NEW q \in DOMAIN result[id]
        PROVE  at(q) = {v.Symbol : v \in ofPackage(id, q, p)}
    <3>0. result[id][q] = MergedModule(id, q)
      BY <1>2, <2>2, MergedIs
    <3>1. CASE p \in DOMAIN result[id][q].Packages
      BY <3>0, <3>1, MergedModuleIs
    <3>2. CASE p \notin DOMAIN result[id][q].Packages
      <4>1. ofPackage(id, q, p) = {}
        <5>1. \A v \in ofModule(id, q) : v.PkgPath # p
          <6> DEFINE pks == {v.PkgPath : v \in ofModule(id, q)}
          <6>1. DOMAIN result[id][q].Packages = pks
            BY <3>0, MergedModuleIs
          <6>2. p \notin pks
            BY <3>2, <6>1
          <6> QED BY <6>2
        <5> QED BY <5>1 DEF ofPackage
      <4> QED BY <3>2, <4>1
    <3> QED BY <3>1, <3>2
  <2>3. DOMAIN result[id] = {v.ModPath : v \in {w \in Vulns : w.OSV.id = id}}
    BY <1>2, MergedIs
  <2> HIDE DEF at
  <2>4. \A v : v \in Of <=> \E q \in DOMAIN result[id] : v \in ofPackage(id, q, p)
    BY <2>3 DEF ofPackage, ofModule
  <2>5. ASSUME NEW s
        PROVE  s \in Symbols(id, p) <=> \E v \in Of : s = v.Symbol
    <3> HIDE DEF Of
    <3> QED BY <2>1, <2>2, <2>4
  <2> HIDE DEF Of
  <2>6. Symbols(id, p) = {v.Symbol : v \in Of}
    BY <2>5
  <2> QED BY <2>6 DEF Of
<1> QED BY <1>1, <1>2

LEMMA ProvidedImport ==
  ASSUME FetchInv, NEW m \in mods, NEW p \in Provides[m.Path]
  PROVE  m.Path \in Path /\ p \in ImportPath
BY DEF FetchInv, Module, ImportPath

LEMMA AnyBinary == BinaryInv => BinaryExact
<1> SUFFICES ASSUME BinaryInv, Reported,
                    NEW m \in mods, NEW p \in Provides[m.Path], NEW e \in db,
                    SamePath(m), MostSpecific(m, p), packageSymbols[p] # {}
             PROVE  Symbols(e.id, p) = Vulnerable(e, m, p)
  BY DEF BinaryExact
<1>1. /\ FetchInv /\ phase = "ready" /\ result = MergedVulns
      /\ Vulns = UNION {PackageVulns(k) : k \in InBinary}
  BY ReportedState
<1>2. p \in ImportPath /\ p \in InBinary /\ InBinary \subseteq ImportPath
  BY <1>1, ProvidedImport DEF InBinary
<1>3. Symbols(e.id, p) =
        {v.Symbol : v \in {w \in Vulns : w.OSV.id = e.id /\ w.PkgPath = p}}
  BY <1>1, SymbolsAre
<1>4. mv[mostSpecificMod(p)].Module = m
  BY <1>1, Chosen
<1>5. ASSUME NEW v \in Vulns, v.OSV.id = e.id, v.PkgPath = p
      PROVE  v.Symbol \in Vulnerable(e, m, p)
  <2>1. PICK k \in InBinary : v \in PackageVulns(k)
    BY <1>1
  <2>2. v.PkgPath = k
    BY <1>1, <1>2, <2>1, FromEntry
  <2>3. PICK d \in db : d.id = v.OSV.id /\ v.Symbol \in Vulnerable(d, m, p)
    BY <1>1, <1>2, <1>4, <1>5, <2>1, <2>2, FromEntry
  <2>4. d = e
    BY <1>1, <1>5, <2>3, TypedEntry
  <2> QED BY <2>3, <2>4
<1>6. ASSUME NEW s \in Vulnerable(e, m, p)
      PROVE  \E v \in Vulns : v.OSV.id = e.id /\ v.PkgPath = p /\ v.Symbol = s
  <2>1. PICK v \in PackageVulns(p) : v.OSV.id = e.id /\ v.Symbol = s
    BY <1>1, <1>2, ToEntry
  <2>2. v \in Vulns /\ v.PkgPath = p
    BY <1>1, <1>2, FromEntry
  <2> QED BY <2>1, <2>2
<1> QED BY <1>3, <1>5, <1>6

\* The package is of no module of the build.
Unlisted(p) == ~isStdPackage(p) /\ \A m \in mods : ~IsPrefix(m.Path, p)

\* The module of a package is one of the build, or the package is of none.
LEMMA FoundModule ==
  ASSUME FetchInv, NEW p
  PROVE  IF Unlisted(p) THEN findPackageModule(p) = <<>>
         ELSE \E m \in mods : m.Path = findPackageModule(p)
<1>1. CASE isStdPackage(p)
  <2>1. findPackageModule(p) = Std
    BY <1>1 DEF findPackageModule
  <2> QED BY <1>1, <2>1 DEF FetchInv, Build, Unlisted
<1>2. CASE ~isStdPackage(p) /\ ~Unlisted(p)
  <2> DEFINE ms == {m.Path : m \in {n \in mods : IsPrefix(n.Path, p)}}
             S == {Len(q) : q \in ms}
  <2>1. PICK m \in mods : IsPrefix(m.Path, p)
    BY <1>2 DEF Unlisted
  <2>2. m.Path \in ms
    BY <2>1
  <2>3. \A q \in ms : q \in Path /\ Len(q) \in Nat
    <3>1. \A n \in mods : n.Path \in Path
      BY DEF FetchInv, Module
    <3>2. \A q \in Path : Len(q) \in Nat
      BY PathAssumption
    <3> QED BY <3>1, <3>2
  <2>4. findPackageModule(p) = CHOOSE q \in ms : \A r \in ms : Len(q) <= Len(r)
    BY <1>2, <2>2 DEF findPackageModule
  <2>5. \E q \in ms : \A r \in ms : Len(q) <= Len(r)
    <3> HIDE DEF ms
    <3>1. S \in SUBSET Nat /\ S # {}
      BY <2>2, <2>3
    <3>2. PICK k \in S : \A l \in S : k <= l
      BY <3>1, Least
    <3> QED BY <3>2
  <2>6. findPackageModule(p) \in ms
    <3> HIDE DEF ms
    <3> QED BY <2>4, <2>5
  <2> QED BY <1>2, <2>6
<1>3. CASE Unlisted(p)
  <2>1. {m.Path : m \in {n \in mods : IsPrefix(n.Path, p)}} = {}
    BY <1>3 DEF Unlisted
  <2> QED BY <1>3, <2>1 DEF findPackageModule, Unlisted
<1> QED BY <1>1, <1>2, <1>3

LEMMA AnyModules == BinaryInv => ModulesInBuild
<1> SUFFICES ASSUME BinaryInv, Reported,
                    NEW id \in DOMAIN result, NEW q \in DOMAIN result[id],
                    ~(q = <<>> /\ \A p \in DOMAIN result[id][q].Packages : Unlisted(p))
             PROVE  \E m \in mods :
                      /\ m.Path = q /\ result[id][q].FoundVersion = modVersion(m)
                      /\ \A p \in DOMAIN result[id][q].Packages :
                           \/ \E n \in mods : n # m /\ Under(p, n.Path)
                           \/ \E e \in db : e.id = id /\ Vulnerable(e, m, p) # {}
  BY DEF ModulesInBuild, Unlisted
<1>1. /\ FetchInv /\ phase = "ready" /\ result = MergedVulns
      /\ Vulns = UNION {PackageVulns(k) : k \in InBinary}
      /\ InBinary \subseteq ImportPath
  BY ReportedState DEF InBinary
<1>2. /\ result[id][q].FoundVersion = foundVersion(q)
      /\ DOMAIN result[id][q].Packages = {v.PkgPath : v \in ofModule(id, q)}
      /\ \E v \in Vulns : v.ModPath = q
  <2>1. /\ DOMAIN result[id] = {v.ModPath : v \in {w \in Vulns : w.OSV.id = id}}
        /\ result[id][q] = MergedModule(id, q)
    BY <1>1, MergedIs
  <2> QED BY <2>1, MergedModuleIs
<1>3. \A v \in Vulns : \E p \in InBinary :
        v \in PackageVulns(p) /\ v.PkgPath = p /\ v.ModPath = findPackageModule(p)
  BY <1>1, FromEntry
<1>e. \A m \in mods : m.Path # <<>>
  BY <1>1, PathAssumption DEF FetchInv, Module
<1>4. PICK m \in mods : m.Path = q
  <2>1. ASSUME NEW v \in Vulns, v.ModPath = q
        PROVE  IF Unlisted(v.PkgPath) THEN q = <<>> ELSE \E m \in mods : m.Path = q
    BY <1>1, <1>3, <2>1, FoundModule
  <2>2. CASE q = <<>>
    <3>1. PICK p \in DOMAIN result[id][q].Packages : ~Unlisted(p)
      BY <2>2
    <3>2. PICK v \in Vulns : v.ModPath = q /\ v.PkgPath = p
      BY <1>2, <3>1 DEF ofModule
    <3> QED BY <2>1, <3>1, <3>2
  <2>3. CASE q # <<>>
    BY <1>2, <2>1, <2>3
  <2> QED BY <2>2, <2>3
<1>5. result[id][q].FoundVersion = modVersion(m)
  <2>1. \A n \in mods : n.Path = q => n = m
    BY <1>1, <1>4 DEF FetchInv, Build
  <2>2. (CHOOSE n \in mods : n.Path = q) = m
    BY <1>4, <2>1
  <2> QED BY <1>2, <1>4, <2>2 DEF foundVersion
<1>6. ASSUME NEW p \in DOMAIN result[id][q].Packages,
             \A n \in mods : n # m => ~Under(p, n.Path)
      PROVE  \E e \in db : e.id = id /\ Vulnerable(e, m, p) # {}
  <2>1. PICK v \in Vulns : v.OSV.id = id /\ v.ModPath = q /\ v.PkgPath = p
    BY <1>2 DEF ofModule
  <2>2. p \in InBinary /\ v \in PackageVulns(p)
    BY <1>3, <2>1
  <2>3. /\ mostSpecificMod(p) \in DOMAIN mv
        /\ \E e \in db : /\ e.id = v.OSV.id
                         /\ v.Symbol \in Vulnerable(e, mv[mostSpecificMod(p)].Module, p)
    BY <1>1, <2>2, FromEntry
  <2>4. mv[mostSpecificMod(p)].Module = m
    <3>1. mostSpecificMod(p) # 0
      BY <1>1, <2>3, LengthOfMV
    <3> QED BY <1>1, <1>6, <2>3, <3>1, ChosenUnder, KnownModule
  <2> QED BY <2>1, <2>3, <2>4
<1> QED BY <1>4, <1>5, <1>6

\* The report names for a package the symbols that an entry makes vulnerable,
\* and no others: nothing is lost or attributed to another package between
\* the fetch and the merge.  (Binary, createBinaryResult, merge)
THEOREM SymbolsReported == BinarySpec => []BinaryExact
BY BinaryCorrect, AnyBinary, PTL

\* A module in the report is one of the build, with the version it was judged
\* by, and what is reported of its packages is in the database; it has no name
\* only if its packages are of no module of the build.
\* (findPackageModule, moduleVersionMap)
THEOREM ModulesReported == BinarySpec => []ModulesInBuild
BY BinaryCorrect, AnyModules, PTL
=============================================================================
