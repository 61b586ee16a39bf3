------------------------ MODULE SourceImports_proof ------------------------
(***************************************************************************)
(* Theorems about vulnPkgModSlice, for any packages, modules and           *)
(* replacements.  The first half is about ImportSlice: the types, the      *)
(* inductive invariants SliceInv and ResultInv, the exactness of the       *)
(* slice, that a package is expanded once, and what the nodes, the entries *)
(* and the Vulns are.  The second half is about both stages together: what *)
(* is proved of the import slice holds, a module has one node, and the     *)
(* requires slice is exact and leads to the entries.                       *)
(***************************************************************************)
EXTENDS SourceImports, TLAPS

\* The control values are not packages and differ from each other.
LEMMA ControlValues ==
  Idle \notin Package /\ Main \notin Package /\ Idle # Main
BY ControlAssumption DEF Idle, Main

-----------------------------------------------------------------------------
(* Types.                                                                  *)

LEMMA TypeInit == Init => TypeOK
BY FirstIDAssumption DEF Init, TypeOK, Unvisited

\* A node made with the next identifier, and an importer added to others.
LEMMA AddPkgNodeType ==
  ASSUME TypeOK, cur \in Package
  PROVE  LET id == pkgID + 1
             P  == AddPkgNode([id |-> id, pkg |-> cur, importedBy |-> {}],
                              onSlice[cur])
         IN  /\ DOMAIN P \subseteq FirstID + 1 .. id
             /\ \A i \in DOMAIN P : P[i] \in PkgNode
<1> DEFINE id == pkgID + 1
           n == [id |-> id, pkg |-> cur, importedBy |-> {}]
           P == AddPkgNode(n, onSlice[cur])
<1>1. DOMAIN P = DOMAIN Packages \cup {id}
  BY DEF AddPkgNode
<1>2. pkgID \in Nat /\ DOMAIN Packages \subseteq FirstID + 1 .. pkgID
  BY DEF TypeOK
<1>3. FirstID + 1 \in Nat /\ FirstID + 1 <= id
  BY FirstIDAssumption DEF TypeOK
<1>4. n \in PkgNode
  BY <1>2 DEF PkgNode
<1>5. ASSUME NEW i \in DOMAIN P PROVE P[i] \in PkgNode
  <2>1. CASE i = id
    BY <2>1, <1>1, <1>4 DEF AddPkgNode
  <2>2. CASE i # id
    <3>1. i \in DOMAIN Packages /\ Packages[i] \in PkgNode
      BY <2>2, <1>1, <1>5 DEF TypeOK
    <3>2. [Packages[i] EXCEPT !.importedBy = @ \cup {id}] \in PkgNode
      BY <3>1, <1>2 DEF PkgNode
    <3>3. P[i] \in {Packages[i], [Packages[i] EXCEPT !.importedBy = @ \cup {id}]}
      BY <2>2, <1>1, <1>5 DEF AddPkgNode
    <3> QED BY <3>1, <3>2, <3>3
  <2> QED BY <2>1, <2>2
<1> QED BY <1>1, <1>2, <1>3, <1>5

\* A return hands control to a caller that exists because of the stack.
LEMMA TypeStep == TypeOK /\ Stack /\ [Next]_vars => TypeOK'
<1> SUFFICES ASSUME TypeOK, Stack, [Next]_vars PROVE TypeOK'
  OBVIOUS
<1> USE ControlValues
<1>1. ASSUME NEW p \in Package, VisitTop(p) PROVE TypeOK'
  BY <1>1 DEF TypeOK, VisitTop, Call, input, graph, Nil
<1>2. ASSUME NEW p \in Package, RevisitTop(p) PROVE TypeOK'
  BY <1>2 DEF TypeOK, RevisitTop, input, calls, graph, Visited, Nil, Unvisited
<1>3. ASSUME NEW q \in Package, VisitImport(q) PROVE TypeOK'
  BY <1>3 DEF TypeOK, VisitImport, Call, input, graph, Nil
<1>4. ASSUME NEW q \in Package, RevisitImport(q) PROVE TypeOK'
  BY <1>4 DEF TypeOK, RevisitImport, input, graph, Visited, Nil, Unvisited
<1>5. ASSUME cur \in Package, NEW node \in Nat, Return(cur, node)
      PROVE  /\ caller' \in [Package -> Package \cup {Main, Idle}]
             /\ cur' \in Package \cup {Main}
             /\ onSlice' \in [Package -> SUBSET Nat]
             /\ Entries' \in SUBSET Nat
             /\ UNCHANGED <<imports, vulnerable, tops, topsLeft, rest>>
  <2>1. caller[cur] \in Package \cup {Main}
    BY <1>5 DEF TypeOK, Stack, Active
  <2> QED BY <2>1, <1>5 DEF TypeOK, Return, input
<1>6. CASE ReturnNil
  <2>1. cur \in Package /\ Return(cur, 0) /\ UNCHANGED <<analyzed, graph>>
    BY <1>6 DEF ReturnNil, Nil
  <2> QED BY <2>1, <1>5 DEF TypeOK, graph
<1>7. CASE ReturnNode
  <2> DEFINE id == pkgID + 1
  <2>1. cur \in Package /\ id \in Nat /\ id >= FirstID /\ Return(cur, id)
    BY <1>7, FirstIDAssumption DEF ReturnNode, TypeOK
  <2>2. pkgID' = id /\ analyzed' = [analyzed EXCEPT ![cur] = id]
    BY <1>7 DEF ReturnNode
  <2>3. Vulns' \in SUBSET Vuln
    BY <1>7, <2>1 DEF ReturnNode, TypeOK, Vuln
  <2>4. /\ DOMAIN Packages' \subseteq FirstID + 1 .. id
        /\ \A i \in DOMAIN Packages' : Packages'[i] \in PkgNode
    BY <1>7, <2>1, AddPkgNodeType DEF ReturnNode
  <2>5. /\ caller' \in [Package -> Package \cup {Main, Idle}]
        /\ cur' \in Package \cup {Main}
        /\ onSlice' \in [Package -> SUBSET Nat]
        /\ Entries' \in SUBSET Nat
        /\ UNCHANGED <<imports, vulnerable, tops, topsLeft, rest>>
    BY <2>1, <1>5
  <2>6. analyzed' \in [Package -> Nat \cup {Unvisited}]
    BY <2>1, <2>2 DEF TypeOK
  <2> QED BY <2>1, <2>2, <2>3, <2>4, <2>5, <2>6 DEF TypeOK
<1>8. CASE UNCHANGED vars
  BY <1>8 DEF TypeOK, vars, input, calls, graph
<1> QED BY <1>1, <1>2, <1>3, <1>4, <1>6, <1>7, <1>8 DEF Next

-----------------------------------------------------------------------------
(* The inductive invariant.                                                *)

\* What the invariant says of the graph: everything but the types.
Shape == Acyclic /\ Stack /\ InProgress /\ Settled /\ Sound

LEMMA ShapeInit == Init => Shape
<1> SUFFICES ASSUME Init PROVE Shape
  OBVIOUS
<1>1. \A p \in Package : ~Active(p) /\ ~Visited(p)
  BY DEF Init, Active, Visited
<1>2. Acyclic
  BY DEF Init, Acyclic
<1>3. Stack
  BY <1>1, ControlValues DEF Init, Stack, Active
<1>4. InProgress /\ Settled /\ Sound
  BY <1>1 DEF InProgress, Settled, Sound, Finished, OnSlice
<1> QED BY <1>2, <1>3, <1>4 DEF Shape

\* No call that is in progress was made by the running one, so the running
\* call never meets an import whose call is still in progress.
LEMMA NoCallee ==
  ASSUME TypeOK, Shape, cur \in Package
  PROVE  /\ \A p \in Package : caller[p] # cur
         /\ \A q \in imports[cur] : q \in Package /\ q # cur /\ ~Active(q)
<1>1. \A p \in Package : Level[p] \in Nat
  BY LevelAssumption
<1>2. \A q \in imports[cur] : q \in Package /\ Level[q] < Level[cur]
  BY DEF TypeOK, Shape, Acyclic
<1>3. \A q \in imports[cur] : q \in Package /\ q # cur /\ ~Active(q)
  BY <1>1, <1>2 DEF Shape, Stack
<1>4. \A p \in Package : caller[p] = cur => Active(p) /\ p \in imports[cur]
  BY ControlValues DEF Shape, Stack, Active
<1> QED BY <1>3, <1>4

\* An active package is visited, and is not on the slice yet.
LEMMA ActiveVisited ==
  ASSUME Shape, NEW p \in Package, Active(p)
  PROVE  Visited(p) /\ ~OnSlice(p)
BY DEF Shape, InProgress, Visited, OnSlice, Nil, Unvisited

(***************************************************************************)
(* A call starts, from the loop or from the running call.                  *)
(***************************************************************************)
LEMMA CallShape ==
  ASSUME TypeOK, Shape, NEW q \in Package, ~Visited(q), Call(q, cur),
         cur \in Package => q \in rest[cur],
         rest' = [p \in Package |-> IF p = q THEN imports[q]
                                    ELSE IF p = cur THEN rest[p] \ {q}
                                    ELSE rest[p]],
         onSlice' = [onSlice EXCEPT ![q] = {}]
  PROVE  Shape'
<1>1. /\ imports' = imports /\ vulnerable' = vulnerable /\ cur' = q
      /\ analyzed' = [analyzed EXCEPT ![q] = Nil]
      /\ caller' = [caller EXCEPT ![q] = cur]
  BY DEF Call, input
<1>2. cur \in Package \cup {Main} /\ cur # Idle
  BY ControlValues DEF TypeOK
<1>3. ~Active(q) /\ q # cur
  BY ActiveVisited, <1>2, ControlValues DEF Shape, Stack
<1>4. \A p \in Package : Active(p)' <=> (Active(p) \/ p = q)
  BY <1>1, <1>2 DEF Active, TypeOK
<1>5. \A p \in Package : Visited(p)' <=> (Visited(p) \/ p = q)
  BY <1>1 DEF Visited, TypeOK, Nil, Unvisited
<1>6. \A p \in Package : OnSlice(p)' <=> OnSlice(p)
  BY <1>1 DEF OnSlice, Visited, TypeOK, Nil, Unvisited
<1>7. \A p \in Package : Finished(p)' <=> Finished(p)
  BY <1>4, <1>5 DEF Finished
<1>8. cur \in Package => q \in imports[cur] /\ Level[q] < Level[cur]
  BY <1>2, ControlValues DEF Shape, Stack, InProgress, Acyclic
<1>9. \A p \in Package : Level[p] \in Nat
  BY LevelAssumption
<1>10. Acyclic'
  BY <1>1 DEF Shape, Acyclic
<1>11. Stack'
  <2>1. IF cur' = Main THEN \A p \in Package : ~Active(p)' ELSE Active(cur)'
    BY <1>1, <1>4, ControlValues
  <2>2. ASSUME NEW p \in Package, caller'[p] \in Package
        PROVE  /\ Active(caller[p])'
               /\ p \in imports'[caller'[p]] \ rest'[caller'[p]]
    <3>1. CASE p = q
      <4>1. caller'[p] = cur /\ cur \in Package
        BY <3>1, <2>2, <1>1 DEF TypeOK
      <4>2. Active(cur)
        BY <4>1, ControlValues DEF Shape, Stack
      <4>3. rest'[cur] = rest[cur] \ {q}
        BY <4>1, <1>3
      <4> QED BY <3>1, <4>1, <4>2, <4>3, <1>1, <1>4, <1>8 DEF Active
    <3>2. CASE p # q
      <4>1. caller'[p] = caller[p] /\ caller[p] \in Package
        BY <3>2, <2>2, <1>1 DEF TypeOK
      <4>2. Active(caller[p]) /\ p \in imports[caller[p]] \ rest[caller[p]]
        BY <4>1 DEF Shape, Stack
      <4>3. caller[p] # q
        BY <4>2, <1>3
      <4> QED BY <4>1, <4>2, <4>3, <1>1, <1>4 DEF Active
    <3> QED BY <3>1, <3>2
  <2>3. ASSUME NEW p \in Package, Active(p)', p # q PROVE Level[q] < Level[p]
    <3>1. Active(p) /\ cur \in Package
      BY <2>3, <1>2, <1>4 DEF Shape, Stack
    <3>2. p = cur \/ Level[cur] < Level[p]
      BY <3>1 DEF Shape, Stack
    <3> QED BY <3>1, <3>2, <1>8, <1>9
  <2>4. ASSUME NEW p \in Package, NEW r \in Package,
               Active(p)', Active(r)', p # r, Level[r] >= Level[p]
        PROVE  /\ caller'[p] \in Package
               /\ r = caller'[p] \/ Level[r] > Level[caller'[p]]
    <3>1. r # q
      BY <2>3, <2>4, <1>9
    <3>2. Active(r)
      BY <3>1, <2>4, <1>4
    <3>3. CASE p = q
      <4>1. caller'[p] = cur
        BY <3>3, <1>1 DEF TypeOK
      <4>2. cur \in Package /\ (r = cur \/ Level[cur] < Level[r])
        BY <3>2, <1>2 DEF Shape, Stack
      <4> QED BY <4>1, <4>2, <1>9
    <3>4. CASE p # q
      <4>1. caller'[p] = caller[p] /\ Active(p)
        BY <3>4, <2>4, <1>1, <1>4 DEF TypeOK
      <4> QED BY <4>1, <3>2, <2>4 DEF Shape, Stack
    <3> QED BY <3>3, <3>4
  <2> QED BY <2>1, <2>2, <2>3, <2>4, <1>1 DEF Stack
<1>12. InProgress'
  <2> SUFFICES ASSUME NEW p \in Package, Active(p)'
               PROVE  /\ analyzed'[p] = Nil
                      /\ rest'[p] \subseteq imports[p]
                      /\ \A r \in imports[p] \ rest'[p] :
                           Visited(r)' /\ (Active(r)' => caller'[r] = p)
                      /\ onSlice'[p] = {analyzed'[r] : r \in
                           {s \in imports[p] \ rest'[p] : OnSlice(s)'}}
    BY <1>1 DEF InProgress
  <2>1. imports[p] \subseteq Package
    BY DEF TypeOK
  <2>2. CASE p = q
    BY <2>2, <1>1 DEF TypeOK
  <2>3. CASE p # q
    <3>1. /\ analyzed[p] = Nil /\ rest[p] \subseteq imports[p]
          /\ \A r \in imports[p] \ rest[p] :
               Visited(r) /\ (Active(r) => caller[r] = p)
          /\ onSlice[p] = {analyzed[r] : r \in
               {s \in imports[p] \ rest[p] : OnSlice(s)}}
      BY <2>3, <1>4 DEF Shape, InProgress
    <3>2. analyzed'[p] = Nil /\ onSlice'[p] = onSlice[p]
      BY <2>3, <3>1, <1>1 DEF TypeOK
    <3>3. rest'[p] = IF p = cur THEN rest[p] \ {q} ELSE rest[p]
      BY <2>3
    <3>4. ASSUME NEW r \in imports[p] \ rest'[p]
          PROVE  Visited(r)' /\ (Active(r)' => caller'[r] = p)
      <4>1. CASE r = q
        BY <4>1, <3>1, <3>3, <3>4, <1>1, <1>5 DEF TypeOK
      <4>2. CASE r # q
        BY <4>2, <3>1, <3>3, <3>4, <2>1, <1>1, <1>4, <1>5 DEF TypeOK
      <4> QED BY <4>1, <4>2
    <3>5. {s \in imports[p] \ rest'[p] : OnSlice(s)'}
            = {s \in imports[p] \ rest[p] : OnSlice(s)}
      BY <3>3, <2>1, <1>6, ~OnSlice(q) DEF OnSlice
    <3>6. \A s \in {t \in imports[p] \ rest[p] : OnSlice(t)} :
            analyzed'[s] = analyzed[s]
      BY <2>1, <1>1, ~OnSlice(q) DEF OnSlice, TypeOK
    <3> QED BY <3>1, <3>2, <3>3, <3>4, <3>5, <3>6
  <2> QED BY <2>2, <2>3
<1>13. Settled'
  BY <1>1, <1>6, <1>7 DEF Shape, Settled, TypeOK
<1>14. Sound'
  BY <1>1, <1>6 DEF Shape, Sound, LeadsToVuln, Closed
<1> QED BY <1>10, <1>11, <1>12, <1>13, <1>14 DEF Shape

(***************************************************************************)
(* The running call returns a node, or nil.                                *)
(***************************************************************************)
LEMMA ReturnShape ==
  ASSUME TypeOK, Shape, cur \in Package, rest[cur] = {}, NEW node \in Nat,
         node = Nil <=> (onSlice[cur] = {} /\ cur \notin vulnerable),
         analyzed' = [analyzed EXCEPT ![cur] = node],
         Return(cur, node)
  PROVE  Shape'
<1>1. /\ imports' = imports /\ vulnerable' = vulnerable /\ rest' = rest
      /\ cur' = caller[cur]
      /\ caller' = [caller EXCEPT ![cur] = Idle]
  BY DEF Return, input
<1>2. \A p \in Package : Active(p)' <=> (Active(p) /\ p # cur)
  BY <1>1 DEF Active, TypeOK
<1>3. Active(cur) /\ caller[cur] \in Package \cup {Main}
  BY ControlValues DEF TypeOK, Shape, Stack, Active
<1>4. Visited(cur) /\ ~OnSlice(cur)
  BY <1>3, ActiveVisited
<1>5. \A p \in Package : Visited(p)' <=> Visited(p)
  BY <1>4 DEF Visited, TypeOK, Unvisited
<1>6. \A p \in Package : OnSlice(p)' <=> (OnSlice(p) \/ (p = cur /\ node # Nil))
  BY <1>4, <1>5 DEF OnSlice, Visited, TypeOK, Unvisited
<1>7. \A p \in Package : Finished(p)' <=> (Finished(p) \/ p = cur)
  BY <1>2, <1>4, <1>5 DEF Finished
<1>8. /\ \A p \in Package : caller[p] # cur
      /\ \A q \in imports[cur] : q \in Package /\ q # cur /\ ~Active(q)
  BY NoCallee
<1>9. /\ \A q \in imports[cur] : Visited(q)
      /\ onSlice[cur] = {analyzed[q] : q \in {r \in imports[cur] : OnSlice(r)}}
  BY <1>3 DEF Shape, InProgress
<1>10. \A p \in Package : p = cur =>
         (OnSlice(p)' <=> (p \in vulnerable \/ \E q \in imports[p] : OnSlice(q)))
  BY <1>4, <1>6, <1>9
<1>11. \A p \in Package : Level[p] \in Nat
  BY LevelAssumption
<1>12. Acyclic'
  BY <1>1 DEF Shape, Acyclic
<1>13. \A r \in Package : Active(r) /\ r # cur =>
         caller[cur] \in Package /\ (r = caller[cur] \/ Level[caller[cur]] < Level[r])
  <2> SUFFICES ASSUME NEW r \in Package, Active(r), r # cur
               PROVE  caller[cur] \in Package
                        /\ (r = caller[cur] \/ Level[caller[cur]] < Level[r])
    OBVIOUS
  <2>1. Level[cur] < Level[r]
    BY DEF Shape, Stack
  <2>2. Level[r] >= Level[cur]
    BY <2>1, <1>11
  <2>3. caller[cur] \in Package /\ (r = caller[cur] \/ Level[r] > Level[caller[cur]])
    BY <2>2, <1>3 DEF Shape, Stack
  <2> QED BY <2>3, <1>11
<1>14. Stack'
  <2>1. IF cur' = Main THEN \A p \in Package : ~Active(p)' ELSE Active(cur)'
    <3>1. CASE cur' = Main
      BY <3>1, <1>1, <1>2, <1>13, ControlValues
    <3>2. CASE cur' # Main
      <4>1. caller[cur] \in Package /\ caller[cur] # cur
        BY <3>2, <1>1, <1>3, <1>8
      <4>2. Active(caller[cur])
        BY <4>1 DEF Shape, Stack
      <4> QED BY <3>2, <4>1, <4>2, <1>1 DEF Active, TypeOK
    <3> QED BY <3>1, <3>2
  <2>2. ASSUME NEW p \in Package, caller'[p] \in Package
        PROVE  /\ Active(caller[p])'
               /\ p \in imports'[caller'[p]] \ rest'[caller'[p]]
    <3>1. p # cur /\ caller'[p] = caller[p]
      BY <2>2, <1>1, ControlValues DEF TypeOK
    <3>2. Active(caller[p]) /\ p \in imports[caller[p]] \ rest[caller[p]]
      BY <3>1, <2>2 DEF Shape, Stack
    <3>3. caller[p] \in Package /\ caller[p] # cur
      BY <3>1, <2>2, <1>8
    <3> QED BY <3>1, <3>2, <3>3, <1>1 DEF Active, TypeOK
  <2>3. \A p \in Package : Active(p)' /\ p # cur' => Level[cur'] < Level[p]
    BY <1>1, <1>2, <1>13
  <2>4. ASSUME NEW p \in Package, NEW r \in Package,
               Active(p)', Active(r)', p # r, Level[r] >= Level[p]
        PROVE  /\ caller'[p] \in Package
               /\ r = caller'[p] \/ Level[r] > Level[caller'[p]]
    <3>1. Active(p) /\ Active(r) /\ caller'[p] = caller[p]
      BY <2>4, <1>1, <1>2 DEF TypeOK
    <3> QED BY <3>1, <2>4 DEF Shape, Stack
  <2> QED BY <2>1, <2>2, <2>3, <2>4 DEF Stack
<1>15. InProgress'
  <2> SUFFICES ASSUME NEW p \in Package, Active(p)'
               PROVE  /\ analyzed'[p] = Nil
                      /\ rest[p] \subseteq imports[p]
                      /\ \A r \in imports[p] \ rest[p] :
                           Visited(r)' /\ (Active(r)' => caller'[r] = p)
                      /\ onSlice'[p] = {analyzed'[r] : r \in
                           {s \in imports[p] \ rest[p] : OnSlice(s)'}}
    BY <1>1 DEF InProgress
  <2>1. imports[p] \subseteq Package /\ p # cur
    BY <1>2 DEF TypeOK
  <2>2. /\ analyzed[p] = Nil /\ rest[p] \subseteq imports[p]
        /\ \A r \in imports[p] \ rest[p] :
             Visited(r) /\ (Active(r) => caller[r] = p)
        /\ onSlice[p] = {analyzed[r] : r \in
             {s \in imports[p] \ rest[p] : OnSlice(s)}}
    BY <1>2 DEF Shape, InProgress
  <2>3. analyzed'[p] = Nil
    BY <2>1, <2>2 DEF TypeOK
  <2>4. \A r \in imports[p] \ rest[p] :
          Visited(r)' /\ (Active(r)' => caller'[r] = p)
    BY <2>1, <2>2, <1>1, <1>2, <1>5 DEF TypeOK
  <2>5. \A r \in Package : r # cur => analyzed'[r] = analyzed[r]
    BY DEF TypeOK
  <2>6. CASE caller[cur] = p /\ node # Nil
    <3>1. onSlice'[p] = onSlice[p] \cup {node}
      BY <2>6 DEF Return, TypeOK
    <3>2. cur \in imports[p] \ rest[p]
      BY <2>6 DEF Shape, Stack
    <3>3. {s \in imports[p] \ rest[p] : OnSlice(s)'}
            = {s \in imports[p] \ rest[p] : OnSlice(s)} \cup {cur}
      BY <2>1, <2>6, <3>2, <1>6
    <3>4. analyzed'[cur] = node
      BY DEF TypeOK
    <3>5. \A s \in {t \in imports[p] \ rest[p] : OnSlice(t)} :
            analyzed'[s] = analyzed[s]
      BY <2>1, <2>5, <1>4
    <3>6. onSlice'[p] = {analyzed'[r] : r \in
                          {s \in imports[p] \ rest[p] : OnSlice(s)'}}
      BY <3>1, <3>3, <3>4, <3>5, <2>2
    <3> QED BY <2>2, <2>3, <2>4, <3>6
  <2>7. CASE ~(caller[cur] = p /\ node # Nil)
    <3>1. onSlice'[p] = onSlice[p]
      BY <2>7 DEF Return, TypeOK
    <3>2. cur \in imports[p] \ rest[p] => node = Nil
      BY <2>2, <2>7, <1>3
    <3>3. {s \in imports[p] \ rest[p] : OnSlice(s)'}
            = {s \in imports[p] \ rest[p] : OnSlice(s)}
      BY <2>1, <3>2, <1>6
    <3>4. \A s \in {t \in imports[p] \ rest[p] : OnSlice(t)} :
            analyzed'[s] = analyzed[s]
      BY <2>1, <2>5, <1>4
    <3> QED BY <3>1, <3>3, <3>4, <2>2, <2>3, <2>4
  <2> QED BY <2>6, <2>7
<1>16. Settled'
  <2> SUFFICES ASSUME NEW p \in Package, Finished(p)'
               PROVE  /\ \A q \in imports[p] : Finished(q)'
                      /\ OnSlice(p)' <=> \/ p \in vulnerable
                                         \/ \E q \in imports[p] : OnSlice(q)'
    BY <1>1 DEF Settled
  <2>1. CASE p = cur
    <3>1. \A q \in imports[cur] : Finished(q)'
      BY <1>7, <1>8, <1>9 DEF Finished
    <3>2. \A q \in imports[cur] : OnSlice(q)' <=> OnSlice(q)
      BY <1>6, <1>8
    <3> QED BY <2>1, <3>1, <3>2, <1>10
  <2>2. CASE p # cur
    <3>1. Finished(p) /\ imports[p] \subseteq Package
      BY <2>2, <1>7 DEF TypeOK
    <3>2. /\ \A q \in imports[p] : Finished(q)
          /\ OnSlice(p) <=> (p \in vulnerable \/ \E q \in imports[p] : OnSlice(q))
      BY <3>1 DEF Shape, Settled
    <3>3. cur \notin imports[p]
      BY <3>2, <1>3 DEF Finished
    <3> QED BY <2>2, <3>1, <3>2, <3>3, <1>6, <1>7
  <2> QED BY <2>1, <2>2
<1>17. Sound'
  <2> SUFFICES ASSUME NEW p \in Package, OnSlice(p)', NEW S \in SUBSET Package,
                      Closed(S)
               PROVE  p \in S
    BY <1>1 DEF Sound, LeadsToVuln, Closed
  <2>1. \A q \in Package : OnSlice(q) => q \in S
    BY DEF Shape, Sound, LeadsToVuln
  <2>2. CASE p = cur
    BY <2>1, <2>2, <1>8, <1>10 DEF Closed
  <2>3. CASE p # cur
    BY <2>1, <2>3, <1>6
  <2> QED BY <2>2, <2>3
<1> QED BY <1>12, <1>14, <1>15, <1>16, <1>17 DEF Shape

(***************************************************************************)
(* The running call finds an import in the map; its call is over.          *)
(***************************************************************************)
LEMMA RevisitShape ==
  ASSUME TypeOK, Shape, NEW q \in Package, RevisitImport(q)
  PROVE  Shape'
<1>1. /\ cur \in Package /\ q \in rest[cur] /\ Visited(q)
      /\ rest' = [rest EXCEPT ![cur] = rest[cur] \ {q}]
      /\ UNCHANGED <<imports, vulnerable, analyzed, caller, cur>>
  BY DEF RevisitImport, input
<1>2. \A p \in Package :
        /\ Active(p)' <=> Active(p)
        /\ Visited(p)' <=> Visited(p)
        /\ OnSlice(p)' <=> OnSlice(p)
        /\ Finished(p)' <=> Finished(p)
  BY <1>1 DEF Active, Visited, OnSlice, Finished
<1>3. Active(cur)
  BY <1>1, ControlValues DEF Shape, Stack
<1>4. q \in imports[cur]
  BY <1>1, <1>3 DEF Shape, InProgress
<1>5. ~Active(q)
  BY <1>1, <1>4, NoCallee
<1>6. Acyclic' /\ Settled' /\ Sound'
  BY <1>1, <1>2 DEF Shape, Acyclic, Settled, Sound, LeadsToVuln, Closed, TypeOK
<1>7. Stack'
  <2>1. ASSUME NEW p \in Package, caller[p] \in Package
        PROVE  p \in imports[caller[p]] \ rest'[caller[p]]
    <3>1. p \in imports[caller[p]] \ rest[caller[p]]
      BY <2>1 DEF Shape, Stack
    <3> QED BY <2>1, <3>1, <1>1 DEF TypeOK
  <2> QED BY <2>1, <1>1 DEF Shape, Stack, Active
<1>8. InProgress'
  <2> SUFFICES ASSUME NEW p \in Package, Active(p)
               PROVE  /\ analyzed[p] = Nil
                      /\ rest'[p] \subseteq imports[p]
                      /\ \A r \in imports[p] \ rest'[p] :
                           Visited(r) /\ (Active(r) => caller[r] = p)
                      /\ onSlice'[p] = {analyzed[r] : r \in
                           {s \in imports[p] \ rest'[p] : OnSlice(s)}}
    BY <1>1, <1>2 DEF InProgress, Active, Visited, OnSlice
  <2>1. /\ analyzed[p] = Nil /\ rest[p] \subseteq imports[p]
        /\ \A r \in imports[p] \ rest[p] :
             Visited(r) /\ (Active(r) => caller[r] = p)
        /\ onSlice[p] = {analyzed[r] : r \in
             {s \in imports[p] \ rest[p] : OnSlice(s)}}
    BY DEF Shape, InProgress
  <2>2. CASE p = cur
    <3>1. imports[p] \ rest'[p] = (imports[p] \ rest[p]) \cup {q}
      BY <2>2, <1>1, <1>4 DEF TypeOK
    <3>2. onSlice'[p] = IF OnSlice(q) THEN onSlice[p] \cup {analyzed[q]}
                                      ELSE onSlice[p]
      BY <2>2, <1>1 DEF RevisitImport, OnSlice, TypeOK
    <3> QED BY <2>1, <2>2, <3>1, <3>2, <1>1, <1>5 DEF TypeOK
  <2>3. CASE p # cur
    BY <2>1, <2>3, <1>1 DEF RevisitImport, TypeOK
  <2> QED BY <2>2, <2>3
<1> QED BY <1>6, <1>7, <1>8 DEF Shape

\* A step that leaves the calls and the map alone.
LEMMA StutterShape ==
  ASSUME Shape, UNCHANGED <<input, analyzed, calls>>
  PROVE  Shape'
BY DEF Shape, input, calls, Acyclic, Stack, InProgress, Settled, Sound, Active,
       Visited, OnSlice, Finished, LeadsToVuln, Closed

LEMMA ShapeStep == TypeOK /\ Shape /\ [Next]_vars => Shape'
<1> SUFFICES ASSUME TypeOK, Shape, [Next]_vars PROVE Shape'
  OBVIOUS
<1>1. ASSUME NEW p \in Package, VisitTop(p) PROVE Shape'
  <2>1. cur = Main /\ ~Visited(p) /\ Call(p, cur) /\ cur \notin Package
    BY <1>1, ControlValues DEF VisitTop
  <2>2. rest' = [r \in Package |-> IF r = p THEN imports[p]
                                   ELSE IF r = cur THEN rest[r] \ {p}
                                   ELSE rest[r]]
    BY <1>1, <2>1 DEF VisitTop, TypeOK
  <2>3. onSlice' = [onSlice EXCEPT ![p] = {}]
    BY <1>1 DEF VisitTop
  <2> QED BY <2>1, <2>2, <2>3, CallShape
<1>2. ASSUME NEW p \in Package, RevisitTop(p) PROVE Shape'
  BY <1>2, StutterShape DEF RevisitTop
<1>3. ASSUME NEW q \in Package, VisitImport(q) PROVE Shape'
  <2>1. /\ cur \in Package /\ q \in rest[cur] /\ ~Visited(q) /\ Call(q, cur)
        /\ onSlice' = [onSlice EXCEPT ![q] = {}]
        /\ rest' = [rest EXCEPT ![cur] = rest[cur] \ {q}, ![q] = imports[q]]
    BY <1>3 DEF VisitImport
  <2>2. rest' = [r \in Package |-> IF r = q THEN imports[q]
                                   ELSE IF r = cur THEN rest[r] \ {q}
                                   ELSE rest[r]]
    BY <2>1 DEF TypeOK
  <2> QED BY <2>1, <2>2, CallShape
<1>4. ASSUME NEW q \in Package, RevisitImport(q) PROVE Shape'
  BY <1>4, RevisitShape
<1>5. CASE ReturnNil
  <2>1. /\ cur \in Package /\ rest[cur] = {} /\ Return(cur, Nil)
        /\ onSlice[cur] = {} /\ cur \notin vulnerable /\ Nil \in Nat
    BY <1>5 DEF ReturnNil, Nil
  <2>2. Active(cur)
    BY <2>1, ControlValues DEF Shape, Stack
  <2>3. analyzed' = analyzed /\ analyzed[cur] = Nil
    BY <1>5, <2>1, <2>2 DEF ReturnNil, Shape, InProgress
  <2>4. analyzed' = [analyzed EXCEPT ![cur] = Nil]
    BY <2>3 DEF TypeOK
  <2> QED BY <2>1, <2>4, ReturnShape
<1>6. CASE ReturnNode
  <2>1. pkgID + 1 \in Nat /\ pkgID + 1 # Nil
    BY DEF TypeOK, Nil
  <2> QED BY <1>6, <2>1, ReturnShape DEF ReturnNode
<1>7. CASE UNCHANGED vars
  BY <1>7, StutterShape DEF vars
<1> QED BY <1>1, <1>2, <1>3, <1>4, <1>5, <1>6, <1>7 DEF Next

LEMMA SliceInvCorrect == Spec => []SliceInv
<1>1. Init => SliceInv
  BY TypeInit, ShapeInit DEF SliceInv, Shape
<1>2. SliceInv /\ [Next]_vars => SliceInv'
  BY TypeStep, ShapeStep DEF SliceInv, Shape
<1> QED BY <1>1, <1>2, PTL DEF Spec

-----------------------------------------------------------------------------
(***************************************************************************)
(* The variables stay in their types, for every import graph.              *)
(***************************************************************************)
THEOREM TypeCorrect == Spec => []TypeOK
<1>1. SliceInv => TypeOK
  BY DEF SliceInv
<1> QED BY <1>1, SliceInvCorrect, PTL

\* Finished packages: what is not on the slice leads to no vulnerable package,
\* as those on the slice, and those not finished, are a closed set.
LEMMA SliceInvExact == SliceInv => SliceExact
<1> SUFFICES ASSUME SliceInv, NEW p \in Package, Finished(p)
             PROVE  OnSlice(p) <=> LeadsToVuln(p)
  BY DEF SliceExact
<1>1. OnSlice(p) => LeadsToVuln(p)
  BY DEF SliceInv, Sound
<1>2. ASSUME LeadsToVuln(p) PROVE OnSlice(p)
  <2> DEFINE S == {q \in Package : Finished(q) => OnSlice(q)}
  <2>1. vulnerable \subseteq S
    BY DEF SliceInv, TypeOK, Settled
  <2>2. ASSUME NEW q \in Package, imports[q] \cap S # {}, Finished(q)
        PROVE  OnSlice(q)
    BY <2>2 DEF SliceInv, Settled
  <2>3. Closed(S)
    BY <2>1, <2>2 DEF Closed
  <2> QED BY <1>2, <2>3 DEF LeadsToVuln
<1> QED BY <1>1, <1>2

(***************************************************************************)
(* vulnImportSlice computes the slice exactly: for every import graph      *)
(* without a cycle, every set of vulnerable packages, every list of top    *)
(* level packages and every order in which imports are visited, a finished *)
(* package has a node if and only if it leads to a vulnerable package.     *)
(***************************************************************************)
THEOREM SliceCorrect == Spec => []SliceExact
BY SliceInvExact, SliceInvCorrect, PTL

(***************************************************************************)
(* A package whose call has returned is never expanded again, and its node *)
(* is never replaced.                                                      *)
(***************************************************************************)
THEOREM ExpandedOnce == Spec => AnalyzedOnce
<1> DEFINE Once == \A p \in Package :
                     analyzed[p] # Unvisited /\ caller[p] = Idle
                       => caller'[p] = Idle /\ analyzed'[p] = analyzed[p]
<1>1. SliceInv /\ [Next]_vars => [Once]_vars
  <2> SUFFICES ASSUME SliceInv, Next, NEW p \in Package,
                      analyzed[p] # Unvisited, caller[p] = Idle
               PROVE  caller'[p] = Idle /\ analyzed'[p] = analyzed[p]
    OBVIOUS
  <2>1. ASSUME NEW q \in Package, NEW by, Call(q, by), ~Visited(q)
        PROVE  caller'[p] = Idle /\ analyzed'[p] = analyzed[p]
    BY <2>1 DEF SliceInv, TypeOK, Call, Visited
  <2>2. ASSUME cur \in Package, NEW node, Return(cur, node)
        PROVE  caller'[p] = Idle /\ p # cur
    BY <2>2, ControlValues DEF SliceInv, TypeOK, Return, Stack, Active
  <2>3. CASE ReturnNil
    BY <2>2, <2>3 DEF ReturnNil
  <2>4. CASE ReturnNode
    BY <2>2, <2>4 DEF ReturnNode, SliceInv, TypeOK
  <2>5. ASSUME NEW q \in Package, VisitTop(q) \/ VisitImport(q)
        PROVE  caller'[p] = Idle /\ analyzed'[p] = analyzed[p]
    BY <2>1, <2>5 DEF VisitTop, VisitImport
  <2>6. ASSUME NEW q \in Package, RevisitTop(q) \/ RevisitImport(q)
        PROVE  caller'[p] = Idle /\ analyzed'[p] = analyzed[p]
    BY <2>6 DEF RevisitTop, RevisitImport, calls
  <2> QED BY <2>3, <2>4, <2>5, <2>6 DEF Next
<1> QED BY <1>1, SliceInvCorrect, PTL DEF Spec, AnalyzedOnce

-----------------------------------------------------------------------------
(* The nodes, the entries and the Vulns.                                   *)

LEMMA ResultInit == Init => ResultInv
<1> SUFFICES ASSUME Init PROVE ResultInv
  OBVIOUS
<1>1. SliceInv
  BY TypeInit, ShapeInit DEF SliceInv, Shape
<1>2. \A p \in Package : ~Active(p) /\ ~Visited(p) /\ ~OnSlice(p)
  BY DEF Init, Active, Visited, OnSlice
<1>3. DOMAIN Packages = {} /\ tops \ topsLeft = {} /\ Entries = {} /\ Vulns = {}
  BY DEF Init
<1>4. Nodes /\ ImportedByExact /\ Loop
  BY <1>2, <1>3 DEF Nodes, ImportedByExact, Loop
<1>5. Results
  BY <1>2, <1>3, <1>1 DEF Results, SliceInv, TypeOK
<1> QED BY <1>1, <1>4, <1>5 DEF ResultInv

\* What a step does to the map: a call marks a package with nil, ...
LEMMA CallMap ==
  ASSUME TypeOK, NEW q \in Package, NEW by \in Package \cup {Main}, ~Visited(q), Call(q, by)
  PROVE  /\ \A p \in Package : Visited(p)' <=> (Visited(p) \/ p = q)
         /\ \A p \in Package : OnSlice(p)' <=> OnSlice(p)
         /\ \A p \in Package : OnSlice(p) => analyzed'[p] = analyzed[p]
         /\ \A p \in Package : p # q =>
              (Active(p)' <=> Active(p)) /\ caller'[p] = caller[p]
         /\ caller'[q] = by
         /\ UNCHANGED <<input, graph>>
BY DEF TypeOK, Call, Visited, OnSlice, Active, Nil, Unvisited

\* ... and a return gives the running package its node.
LEMMA ReturnNodeMap ==
  ASSUME TypeOK, Shape, ReturnNode
  PROVE  /\ cur \in Package /\ Active(cur) /\ Visited(cur) /\ ~OnSlice(cur)
         /\ analyzed'[cur] = pkgID + 1
         /\ \A p \in Package : Visited(p)' <=> Visited(p)
         /\ \A p \in Package : OnSlice(p)' <=> (OnSlice(p) \/ p = cur)
         /\ \A p \in Package : p # cur =>
              /\ analyzed'[p] = analyzed[p] /\ caller'[p] = caller[p]
         /\ caller'[cur] = Idle
         /\ UNCHANGED <<input, topsLeft>>
<1>1. cur \in Package /\ Active(cur)
  BY ControlValues DEF ReturnNode, Shape, Stack
<1>2. Visited(cur) /\ ~OnSlice(cur)
  BY <1>1, ActiveVisited
<1>3. /\ analyzed' = [analyzed EXCEPT ![cur] = pkgID + 1]
      /\ caller' = [caller EXCEPT ![cur] = Idle]
      /\ UNCHANGED <<input, topsLeft>>
  BY DEF ReturnNode, Return
<1>4. pkgID + 1 # Nil /\ pkgID + 1 # Unvisited
  BY DEF TypeOK, Nil, Unvisited
<1>5. /\ analyzed'[cur] = pkgID + 1 /\ caller'[cur] = Idle
      /\ \A p \in Package : p # cur =>
           analyzed'[p] = analyzed[p] /\ caller'[p] = caller[p]
  BY <1>1, <1>3 DEF TypeOK
<1>6. \A p \in Package : Visited(p)' <=> Visited(p)
  BY <1>2, <1>4, <1>5 DEF Visited
<1>7. \A p \in Package : OnSlice(p)' <=> (OnSlice(p) \/ p = cur)
  BY <1>1, <1>2, <1>4, <1>5, <1>6 DEF OnSlice
<1> QED BY <1>1, <1>2, <1>3, <1>5, <1>6, <1>7

\* A step that makes no node leaves the nodes as they are.
LEMMA NodesKept ==
  ASSUME TypeOK, Nodes, ImportedByExact, UNCHANGED <<input, graph>>,
         \A p \in Package : OnSlice(p)' <=> OnSlice(p),
         \A p \in Package : OnSlice(p) => analyzed'[p] = analyzed[p]
  PROVE  Nodes' /\ ImportedByExact'
<1>1. imports' = imports /\ Packages' = Packages
  BY DEF input, graph
<1>2. \A id \in DOMAIN Packages : Packages[id].pkg \in Package
  BY DEF TypeOK, PkgNode
<1>3. Nodes'
  BY <1>1, <1>2 DEF Nodes
<1>4. ASSUME NEW id \in DOMAIN Packages
      PROVE  Packages[id].importedBy =
               {analyzed'[r] : r \in {p \in Package :
                                 OnSlice(p)' /\ Packages[id].pkg \in imports[p]}}
  <2>1. {p \in Package : OnSlice(p)' /\ Packages[id].pkg \in imports[p]}
          = {p \in Package : OnSlice(p) /\ Packages[id].pkg \in imports[p]}
    OBVIOUS
  <2>2. \A r \in {p \in Package : OnSlice(p) /\ Packages[id].pkg \in imports[p]} :
          analyzed'[r] = analyzed[r]
    OBVIOUS
  <2> QED BY <2>1, <2>2 DEF ImportedByExact
<1> QED BY <1>1, <1>3, <1>4 DEF ImportedByExact

\* The new node is the first for its package, nobody that is on the slice yet
\* imports the package, and its imports on the slice get it as importer.
LEMMA NodesMade ==
  ASSUME TypeOK, Shape, Nodes, ImportedByExact, ReturnNode
  PROVE  Nodes' /\ ImportedByExact'
<1> DEFINE id == pkgID + 1
<1>1. /\ cur \in Package /\ Active(cur) /\ ~OnSlice(cur) /\ analyzed'[cur] = id
      /\ \A p \in Package : OnSlice(p)' <=> (OnSlice(p) \/ p = cur)
      /\ \A p \in Package : p # cur => analyzed'[p] = analyzed[p]
      /\ imports' = imports
  BY ReturnNodeMap DEF input
<1>2. \A p \in Package : imports[p] \subseteq Package
  BY DEF TypeOK
<1>3. Packages' = [n \in DOMAIN Packages \cup {id} |->
        IF n = id THEN [id |-> id, pkg |-> cur, importedBy |-> {}]
        ELSE IF n \in onSlice[cur]
             THEN [Packages[n] EXCEPT !.importedBy = @ \cup {id}]
             ELSE Packages[n]]
  BY DEF ReturnNode, AddPkgNode
<1>4. id \notin DOMAIN Packages
  BY FirstIDAssumption DEF TypeOK
<1>5. /\ DOMAIN Packages' = DOMAIN Packages \cup {id}
      /\ Packages'[id].pkg = cur /\ Packages'[id].importedBy = {}
  BY <1>3
<1>6. ASSUME NEW n \in DOMAIN Packages
      PROVE  /\ Packages[n].pkg \in Package /\ Packages'[n].pkg = Packages[n].pkg
             /\ Packages'[n].importedBy =
                  Packages[n].importedBy \cup (IF n \in onSlice[cur] THEN {id} ELSE {})
  BY <1>3, <1>4 DEF TypeOK, PkgNode
<1>7. Nodes'
  <2>1. ASSUME NEW p \in Package, OnSlice(p)'
        PROVE  analyzed'[p] \in DOMAIN Packages' /\ Packages'[analyzed'[p]].pkg = p
    <3>1. CASE p = cur
      BY <3>1, <1>1, <1>5
    <3>2. CASE p # cur
      BY <2>1, <3>2, <1>1, <1>5, <1>6 DEF Nodes
    <3> QED BY <3>1, <3>2
  <2>2. ASSUME NEW n \in DOMAIN Packages'
        PROVE  \E p \in Package : Packages'[n].pkg = p /\ OnSlice(p)' /\ analyzed'[p] = n
    <3>1. CASE n = id
      BY <3>1, <1>1, <1>5
    <3>2. CASE n # id
      <4>1. n \in DOMAIN Packages
        BY <2>2, <3>2, <1>5
      <4>2. OnSlice(Packages[n].pkg) /\ analyzed[Packages[n].pkg] = n
        BY <4>1 DEF Nodes
      <4>3. Packages[n].pkg \in Package /\ Packages'[n].pkg = Packages[n].pkg
        BY <4>1, <1>6
      <4>4. Packages[n].pkg # cur
        BY <4>2, <1>1
      <4> QED BY <4>2, <4>3, <4>4, <1>1
    <3> QED BY <3>1, <3>2
  <2> QED BY <2>1, <2>2 DEF Nodes, OnSlice, Visited
<1>8. onSlice[cur] = {analyzed[q] : q \in {r \in imports[cur] : OnSlice(r)}}
  BY <1>1 DEF ReturnNode, Shape, InProgress
<1>9. ASSUME NEW n \in DOMAIN Packages
      PROVE  n \in onSlice[cur] <=> Packages[n].pkg \in imports[cur]
  <2>1. OnSlice(Packages[n].pkg) /\ analyzed[Packages[n].pkg] = n
    BY DEF Nodes
  <2>2. ASSUME n \in onSlice[cur] PROVE Packages[n].pkg \in imports[cur]
    <3>1. PICK q \in imports[cur] : OnSlice(q) /\ analyzed[q] = n
      BY <1>8, <2>2
    <3> QED BY <3>1, <1>1, <1>2 DEF Nodes
  <2> QED BY <2>1, <2>2, <1>8
<1>10. ASSUME NEW n \in DOMAIN Packages'
       PROVE  Packages'[n].importedBy =
                {analyzed'[r] : r \in {p \in Package :
                               OnSlice(p)' /\ Packages'[n].pkg \in imports[p]}}
  <2>1. CASE n = id
    <3>1. ASSUME NEW p \in Package, OnSlice(p)', cur \in imports[p] PROVE FALSE
      <4>1. Level[cur] \in Nat /\ Level[p] \in Nat
        BY <1>1, LevelAssumption
      <4>2. p # cur
        BY <3>1, <4>1 DEF Shape, Acyclic
      <4>3. Finished(p)
        BY <3>1, <4>2, <1>1, ActiveVisited DEF Finished, OnSlice
      <4> QED BY <3>1, <4>3, <1>1 DEF Shape, Settled, Finished
    <3> QED BY <2>1, <3>1, <1>5
  <2>2. CASE n # id
    <3> DEFINE P == {p \in Package : OnSlice(p) /\ Packages[n].pkg \in imports[p]}
               Q == {p \in Package : OnSlice(p)' /\ Packages[n].pkg \in imports[p]}
    <3>1. n \in DOMAIN Packages
      BY <2>2, <1>5
    <3>2. Packages[n].importedBy = {analyzed[r] : r \in P}
      BY <3>1 DEF ImportedByExact
    <3>3. Q = P \cup (IF n \in onSlice[cur] THEN {cur} ELSE {})
      BY <3>1, <1>1, <1>9
    <3>4. \A r \in P : analyzed'[r] = analyzed[r]
      BY <1>1
    <3>5. {analyzed'[r] : r \in Q} =
            {analyzed[r] : r \in P} \cup (IF n \in onSlice[cur] THEN {id} ELSE {})
      BY <3>3, <3>4, <1>1
    <3> QED BY <3>1, <3>2, <3>5, <1>6
  <2> QED BY <2>1, <2>2
<1> QED BY <1>1, <1>7, <1>10 DEF ImportedByExact, OnSlice, Visited

\* Results after a step that makes no node.
LEMMA ResultsKept ==
  ASSUME TypeOK, Results, UNCHANGED <<input, graph>>,
         \A p \in Package : OnSlice(p)' <=> OnSlice(p),
         \A p \in Package : OnSlice(p) => analyzed'[p] = analyzed[p],
         topsLeft' \subseteq topsLeft,
         Entries' = Entries \cup
           {analyzed[p] : p \in {q \in topsLeft \ topsLeft' : OnSlice(q)}},
         \A p \in Package : Visited(p)' => Visited(p) \/ Loaded(p)
  PROVE  Results'
<1>1. /\ imports' = imports /\ vulnerable' = vulnerable /\ tops' = tops
      /\ Vulns' = Vulns
  BY DEF input, graph
<1>2. tops \subseteq Package /\ topsLeft \subseteq tops /\ vulnerable \subseteq Package
  BY DEF TypeOK
<1>3. Entries' = {analyzed'[p] : p \in {q \in tops \ topsLeft' : OnSlice(q)'}}
  <2> DEFINE P == {q \in tops \ topsLeft : OnSlice(q)}
             Q == {q \in topsLeft \ topsLeft' : OnSlice(q)}
             N == {q \in tops \ topsLeft' : OnSlice(q)'}
  <2>1. N = P \cup Q
    BY <1>2
  <2>2. \A p \in N : analyzed'[p] = analyzed[p]
    BY <1>2
  <2>3. Entries = {analyzed[p] : p \in P}
    BY DEF Results
  <2>4. Entries' = {analyzed[p] : p \in P} \cup {analyzed[p] : p \in Q}
    BY <2>3
  <2>5. {analyzed'[p] : p \in N} = {analyzed[p] : p \in P} \cup {analyzed[p] : p \in Q}
    BY <2>1, <2>2
  <2> QED BY <2>4, <2>5
<1>4. Vulns = {[pkg |-> p, sink |-> analyzed'[p]] : p \in {q \in vulnerable : OnSlice(q)'}}
  <2> DEFINE P == {q \in vulnerable : OnSlice(q)}
  <2>1. {q \in vulnerable : OnSlice(q)'} = P
    BY <1>2
  <2>2. \A p \in P : analyzed'[p] = analyzed[p]
    BY <1>2
  <2>3. Vulns = {[pkg |-> p, sink |-> analyzed[p]] : p \in P}
    BY DEF Results
  <2> QED BY <2>1, <2>2, <2>3
<1>5. \A p \in Package : Visited(p)' => Loaded(p)'
  BY <1>1 DEF Results, Loaded
<1> QED BY <1>1, <1>3, <1>4, <1>5 DEF Results

LEMMA ResultsMade ==
  ASSUME TypeOK, Shape, Loop, Results, ReturnNode
  PROVE  Results'
<1> DEFINE id == pkgID + 1
<1>1. /\ cur \in Package /\ Active(cur) /\ ~OnSlice(cur) /\ analyzed'[cur] = id
      /\ \A p \in Package : Visited(p)' <=> Visited(p)
      /\ \A p \in Package : OnSlice(p)' <=> (OnSlice(p) \/ p = cur)
      /\ \A p \in Package : p # cur => analyzed'[p] = analyzed[p]
      /\ UNCHANGED <<imports, vulnerable, tops, topsLeft>>
  BY ReturnNodeMap DEF input
<1>2. tops \subseteq Package /\ vulnerable \subseteq Package
  BY DEF TypeOK
<1>3. Entries' = Entries \cup (IF cur \in tops \ topsLeft THEN {id} ELSE {})
  <2>1. id # Nil /\ (caller[cur] = Main <=> cur \in tops \ topsLeft)
    BY <1>1 DEF TypeOK, Nil, Loop
  <2> QED BY <2>1 DEF ReturnNode, Return
<1>4. Entries' = {analyzed'[p] : p \in {q \in tops \ topsLeft : OnSlice(q)'}}
  <2> DEFINE P == {q \in tops \ topsLeft : OnSlice(q)}
             Q == {q \in tops \ topsLeft : OnSlice(q)'}
  <2>1. Q = P \cup (IF cur \in tops \ topsLeft THEN {cur} ELSE {})
    BY <1>1, <1>2
  <2>2. \A p \in P : analyzed'[p] = analyzed[p]
    BY <1>1, <1>2
  <2>3. Entries = {analyzed[p] : p \in P}
    BY DEF Results
  <2> QED BY <2>1, <2>2, <2>3, <1>1, <1>3
<1>5. Vulns' = {[pkg |-> p, sink |-> analyzed'[p]] : p \in {q \in vulnerable : OnSlice(q)'}}
  <2> DEFINE P == {q \in vulnerable : OnSlice(q)}
             Q == {q \in vulnerable : OnSlice(q)'}
  <2>1. Q = P \cup (IF cur \in vulnerable THEN {cur} ELSE {})
    BY <1>1, <1>2
  <2>2. \A p \in P : analyzed'[p] = analyzed[p]
    BY <1>1, <1>2
  <2>3. Vulns = {[pkg |-> p, sink |-> analyzed[p]] : p \in P}
    BY DEF Results
  <2>4. Vulns' = Vulns \cup (IF cur \in vulnerable THEN {[pkg |-> cur, sink |-> id]} ELSE {})
    BY DEF ReturnNode
  <2> QED BY <2>1, <2>2, <2>3, <2>4, <1>1
<1>6. \A p \in Package : Visited(p)' => Loaded(p)'
  BY <1>1 DEF Results, Loaded
<1> QED BY <1>1, <1>4, <1>5, <1>6 DEF Results

LEMMA ResultStep == ResultInv /\ [Next]_vars => ResultInv'
<1> SUFFICES ASSUME ResultInv, [Next]_vars PROVE ResultInv'
  OBVIOUS
<1> USE ControlValues
<1>1. TypeOK /\ Shape /\ Nodes /\ ImportedByExact /\ Loop /\ Results
  BY DEF ResultInv, SliceInv, Shape
<1>2. SliceInv'
  BY <1>1, TypeStep, ShapeStep DEF SliceInv, Shape
<1>3. tops \subseteq Package /\ topsLeft \subseteq tops
  BY <1>1 DEF TypeOK
<1>4. cur = Main => \A p \in Package : ~Active(p)
  BY <1>1 DEF Shape, Stack
<1>5. ASSUME NEW p \in Package, VisitTop(p)
      PROVE  Nodes' /\ ImportedByExact' /\ Loop' /\ Results'
  <2>1. /\ cur = Main /\ p \in topsLeft /\ ~Visited(p) /\ Call(p, Main)
        /\ topsLeft' = topsLeft \ {p} /\ Entries' = Entries
    BY <1>5 DEF VisitTop
  <2>2. ~OnSlice(p) /\ UNCHANGED <<input, graph, tops>>
    BY <2>1 DEF OnSlice, Call, input
  <2>3. Loop'
    BY <1>1, <1>3, <1>4, <2>1, <2>2, CallMap DEF Loop
  <2>4. Loaded(p)
    BY <1>3, <2>1 DEF Loaded
  <2>5. {analyzed[q] : q \in {r \in topsLeft \ topsLeft' : OnSlice(r)}} = {}
    BY <2>1, <2>2
  <2>6. Results'
    BY <1>1, <2>1, <2>2, <2>4, <2>5, CallMap, ResultsKept
  <2> QED BY <1>1, <2>1, <2>2, <2>3, <2>6, CallMap, NodesKept
<1>6. ASSUME NEW p \in Package, RevisitTop(p)
      PROVE  Nodes' /\ ImportedByExact' /\ Loop' /\ Results'
  <2>1. /\ cur = Main /\ p \in topsLeft /\ Visited(p)
        /\ topsLeft' = topsLeft \ {p}
        /\ UNCHANGED <<input, analyzed, calls, graph, tops>>
    BY <1>6 DEF RevisitTop, input
  <2>2. \A q \in Package : /\ Visited(q)' <=> Visited(q)
                           /\ OnSlice(q)' <=> OnSlice(q)
                           /\ Active(q)' <=> Active(q)
    BY <2>1 DEF Visited, OnSlice, Active, calls
  <2>3. Loop'
    BY <1>1, <1>3, <1>4, <2>1, <2>2 DEF Loop
  <2>4. Entries' = Entries \cup
          {analyzed[q] : q \in {r \in topsLeft \ topsLeft' : OnSlice(r)}}
    <3>1. topsLeft \ topsLeft' = {p}
      BY <2>1
    <3>2. Entries' = IF OnSlice(p) THEN Entries \cup {analyzed[p]} ELSE Entries
      BY <1>6, <2>1 DEF RevisitTop, OnSlice
    <3>3. {analyzed[q] : q \in {r \in {p} : OnSlice(r)}} = IF OnSlice(p) THEN {analyzed[p]} ELSE {}
      OBVIOUS
    <3> QED BY <3>1, <3>2, <3>3
  <2>5. Results'
    BY <1>1, <2>1, <2>2, <2>4, ResultsKept
  <2> QED BY <1>1, <2>1, <2>2, <2>3, <2>5, NodesKept
<1>7. ASSUME NEW q \in Package, VisitImport(q)
      PROVE  Nodes' /\ ImportedByExact' /\ Loop' /\ Results'
  <2>1. /\ cur \in Package /\ q \in rest[cur] /\ ~Visited(q) /\ Call(q, cur)
        /\ UNCHANGED <<topsLeft, Entries>>
    BY <1>7 DEF VisitImport
  <2>2. UNCHANGED <<input, graph, tops>> /\ topsLeft \ topsLeft' = {}
    BY <2>1 DEF Call, input
  <2>3. Active(cur) /\ Visited(cur) /\ q \in imports[cur]
    BY <1>1, <2>1, ActiveVisited DEF Shape, Stack, InProgress
  <2>4. Loaded(q)
    <3>1. Loaded(cur)
      BY <1>1, <2>1, <2>3 DEF Results
    <3> QED BY <2>1, <2>3, <3>1 DEF Loaded
  <2>5. Loop'
    BY <1>1, <1>3, <2>1, <2>2, CallMap DEF Loop
  <2>6. {analyzed[r] : r \in {t \in topsLeft \ topsLeft' : OnSlice(t)}} = {}
    BY <2>2
  <2>7. Results'
    BY <1>1, <2>1, <2>2, <2>4, <2>6, CallMap, ResultsKept
  <2> QED BY <1>1, <2>1, <2>2, <2>5, <2>7, CallMap, NodesKept
<1>8. ASSUME \/ \E q \in Package : RevisitImport(q)
             \/ ReturnNil
             \/ UNCHANGED vars
      PROVE  Nodes' /\ ImportedByExact' /\ Loop' /\ Results'
  <2>1. /\ UNCHANGED <<input, analyzed, graph, tops, topsLeft, Entries>>
        /\ topsLeft \ topsLeft' = {}
    BY <1>8 DEF RevisitImport, ReturnNil, Return, vars, input, Nil
  <2>2. \A p \in Package : caller'[p] = caller[p] \/ caller'[p] = Idle
    BY <1>1, <1>8 DEF RevisitImport, ReturnNil, Return, vars, calls, TypeOK
  <2>3. \A p \in Package : /\ Visited(p)' <=> Visited(p)
                           /\ OnSlice(p)' <=> OnSlice(p)
                           /\ Active(p)' => Active(p) /\ caller'[p] = caller[p]
    BY <2>1, <2>2 DEF Visited, OnSlice, Active
  <2>4. Loop'
    BY <1>1, <1>3, <2>1, <2>3 DEF Loop
  <2>5. {analyzed[r] : r \in {t \in topsLeft \ topsLeft' : OnSlice(t)}} = {}
    BY <2>1
  <2>6. Results'
    BY <1>1, <2>1, <2>3, <2>5, ResultsKept
  <2> QED BY <1>1, <2>1, <2>3, <2>4, <2>6, NodesKept
<1>9. CASE ReturnNode
  <2>1. Loop'
    BY <1>1, <1>3, <1>9, ReturnNodeMap DEF Loop, Active, input
  <2> QED BY <1>1, <1>2, <1>9, <2>1, NodesMade, ResultsMade DEF ResultInv
<1> QED BY <1>2, <1>5, <1>6, <1>7, <1>8, <1>9 DEF Next, ResultInv

LEMMA ResultInvCorrect == Spec => []ResultInv
BY ResultInit, ResultStep, PTL DEF Spec

(***************************************************************************)
(* The ImportedBy of a node names the importers on the slice and no other, *)
(* at every moment and in whatever order packages are visited.             *)
(***************************************************************************)
THEOREM ImportedByCorrect == Spec => []ImportedByExact
<1>1. ResultInv => ImportedByExact
  BY DEF ResultInv
<1> QED BY <1>1, ResultInvCorrect, PTL

\* When the loop has ended nothing is in progress and everything loaded is
\* finished.
LEMMA DoneFinished ==
  ASSUME ResultInv, Done
  PROVE  /\ \A p \in Package : Visited(p) <=> Finished(p)
         /\ \A p \in Package : Loaded(p) <=> Finished(p)
         /\ \A p \in tops : Finished(p)
<1>1. \A p \in Package : ~Active(p)
  BY DEF ResultInv, SliceInv, Stack, Done
<1>2. \A p \in Package : Visited(p) <=> Finished(p)
  BY <1>1 DEF Finished
<1>3. tops \subseteq Package /\ topsLeft = {}
  BY DEF ResultInv, SliceInv, TypeOK, Done
<1>4. \A p \in tops : Finished(p)
  BY <1>2, <1>3 DEF ResultInv, Loop
<1>5. ASSUME NEW p \in Package, Loaded(p) PROVE Finished(p)
  <2> DEFINE S == {q \in Package : Finished(q)}
  <2>1. tops \subseteq S
    BY <1>3, <1>4
  <2>2. \A q \in S : imports[q] \subseteq S
    BY DEF ResultInv, SliceInv, TypeOK, Settled
  <2> QED BY <1>5, <2>1, <2>2 DEF Loaded
<1>6. \A p \in Package : Finished(p) => Loaded(p)
  BY DEF ResultInv, Results, Finished
<1> QED BY <1>2, <1>4, <1>5, <1>6

LEMMA ResultInvEntries == ResultInv => EntriesExact
<1> SUFFICES ASSUME ResultInv, Done
             PROVE  Entries = {analyzed[p] : p \in {q \in tops : LeadsToVuln(q)}}
  BY DEF EntriesExact
<1>1. \A p \in tops : OnSlice(p) <=> LeadsToVuln(p)
  BY DoneFinished, SliceInvExact DEF ResultInv, SliceInv, TypeOK, SliceExact
<1>2. tops \ topsLeft = tops
  BY DEF Done
<1>3. {q \in tops : OnSlice(q)} = {q \in tops : LeadsToVuln(q)}
  BY <1>1
<1> QED BY <1>2, <1>3 DEF ResultInv, Results

(***************************************************************************)
(* The entries are the top level packages that lead to a vulnerable one,   *)
(* also those that were reached first as imports.                          *)
(***************************************************************************)
THEOREM EntriesCorrect == Spec => []EntriesExact
BY ResultInvEntries, ResultInvCorrect, PTL

\* From the node of a loaded package ImportedBy leads to an entry: otherwise
\* the packages whose nodes it does not lead to would be closed under imports,
\* and hold the top level packages but not that one.
LEMMA NodeTraced ==
  ASSUME ResultInv, Done, NEW p \in Package, OnSlice(p)
  PROVE  LeadsToEntry(analyzed[p])
<1> SUFFICES ASSUME NEW S \in SUBSET DOMAIN Packages, analyzed[p] \in S,
                    \A n \in S : Packages[n].importedBy \subseteq S,
                    S \cap Entries = {}
             PROVE  FALSE
  BY DEF LeadsToEntry
<1> DEFINE V == {q \in Package : Finished(q) /\ ~(OnSlice(q) /\ analyzed[q] \in S)}
<1>1. tops \subseteq V
  <2> SUFFICES ASSUME NEW q \in tops PROVE q \in V
    OBVIOUS
  <2>1. q \in Package /\ Finished(q) /\ q \in tops \ topsLeft
    BY DoneFinished DEF ResultInv, SliceInv, TypeOK, Done
  <2>2. OnSlice(q) => analyzed[q] \in Entries
    BY <2>1 DEF ResultInv, Results
  <2> QED BY <2>1, <2>2
<1>2. ASSUME NEW q \in V, NEW r \in imports[q] PROVE r \in V
  <2>1. r \in Package /\ Finished(r)
    BY <1>2 DEF ResultInv, SliceInv, TypeOK, Settled
  <2>2. ASSUME OnSlice(r), analyzed[r] \in S PROVE FALSE
    <3>1. OnSlice(q)
      BY <1>2, <2>2 DEF ResultInv, SliceInv, Settled
    <3>2. analyzed[r] \in DOMAIN Packages /\ Packages[analyzed[r]].pkg = r
      BY <2>1, <2>2 DEF ResultInv, Nodes
    <3>3. analyzed[q] \in Packages[analyzed[r]].importedBy
      BY <1>2, <3>1, <3>2 DEF ResultInv, ImportedByExact
    <3> QED BY <2>2, <3>1, <3>3
  <2> QED BY <2>1, <2>2
<1>3. Loaded(p)
  BY DEF ResultInv, Results, OnSlice
<1>4. p \in V
  BY <1>1, <1>2, <1>3 DEF Loaded
<1> QED BY <1>4

LEMMA ResultInvTraced == ResultInv => VulnsTraced
<1> SUFFICES ASSUME ResultInv, Done
             PROVE  /\ {v.pkg : v \in Vulns} = {p \in vulnerable : Loaded(p)}
                    /\ \A v \in Vulns : /\ v.sink \in DOMAIN Packages
                                       /\ Packages[v.sink].pkg = v.pkg
                                       /\ LeadsToEntry(v.sink)
  BY DEF VulnsTraced
<1>1. Vulns = {[pkg |-> p, sink |-> analyzed[p]] : p \in {q \in vulnerable : OnSlice(q)}}
  BY DEF ResultInv, Results
<1>2. ASSUME NEW p \in vulnerable PROVE p \in Package /\ (OnSlice(p) <=> Loaded(p))
  <2>1. p \in Package
    BY DEF ResultInv, SliceInv, TypeOK
  <2> QED BY <2>1, DoneFinished DEF ResultInv, SliceInv, Settled, OnSlice
<1>3. {v.pkg : v \in Vulns} = {q \in vulnerable : OnSlice(q)}
  <2>1. ASSUME NEW v \in Vulns PROVE v.pkg \in {q \in vulnerable : OnSlice(q)}
    BY <1>1, <2>1
  <2>2. ASSUME NEW q \in vulnerable, OnSlice(q) PROVE \E v \in Vulns : v.pkg = q
    <3>1. [pkg |-> q, sink |-> analyzed[q]] \in Vulns
      BY <1>1, <2>2
    <3>2. [pkg |-> q, sink |-> analyzed[q]].pkg = q
      OBVIOUS
    <3> QED BY <3>1, <3>2
  <2> QED BY <2>1, <2>2
<1>4. ASSUME NEW v \in Vulns
      PROVE  /\ v.sink \in DOMAIN Packages
             /\ Packages[v.sink].pkg = v.pkg
             /\ LeadsToEntry(v.sink)
  <2>1. PICK p \in vulnerable : OnSlice(p) /\ v = [pkg |-> p, sink |-> analyzed[p]]
    BY <1>1, <1>4
  <2>2. v.pkg = p /\ v.sink = analyzed[p] /\ p \in Package
    BY <2>1, <1>2
  <2> QED BY <2>1, <2>2, NodeTraced DEF ResultInv, Nodes
<1> QED BY <1>2, <1>3, <1>4

(***************************************************************************)
(* Every vulnerable package that the program loads, and no other, has its  *)
(* Vulns, and a chain of importers from its node to an entry.              *)
(***************************************************************************)
THEOREM TracesCorrect == Spec => []VulnsTraced
BY ResultInvTraced, ResultInvCorrect, PTL

-----------------------------------------------------------------------------
(* The requires slice on top of it.                                        *)

(***************************************************************************)
(* The import slice is not disturbed by what is laid over it: whatever is  *)
(* proved of ImportSlice holds of the whole.                               *)
(***************************************************************************)
THEOREM ImportsImplemented == SourceSpec => Spec
<1>1. SourceInit => Init
  BY DEF SourceInit
<1>2. [SourceNext]_allVars => [Next]_vars
  BY DEF SourceNext, ImportStep, RequireStep, Ended, Load, allVars
<1> QED BY <1>1, <1>2, PTL DEF SourceSpec, Spec

-----------------------------------------------------------------------------
(* What the requires slice works on.                                       *)

LEMMA Given ==
  ASSUME ResultInv, RequireInv, module # <<>>
  PROVE  /\ \A id \in DOMAIN Packages :
              /\ id \in Nat /\ id # 0
              /\ Packages[id].pkg \in Package
              /\ ModuleOf(id) \in Module \cup {None}
              /\ Packages[id].importedBy \subseteq DOMAIN Packages
         /\ Entries \subseteq DOMAIN Packages
         /\ \A v \in Vulns : v.sink \in DOMAIN Packages
<1>1. TypeOK /\ Nodes /\ ImportedByExact /\ Results
  BY DEF ResultInv, SliceInv
<1>2. \A p \in Package : OnSlice(p) => analyzed[p] \in DOMAIN Packages
  BY <1>1 DEF Nodes
<1>3. ASSUME NEW id \in DOMAIN Packages
      PROVE  id \in Nat /\ id # 0 /\ Packages[id].pkg \in Package
  BY <1>1, FirstIDAssumption DEF TypeOK, PkgNode
<1>4. ASSUME NEW id \in DOMAIN Packages PROVE ModuleOf(id) \in Module \cup {None}
  BY <1>3 DEF RequireInv, Inputs, ModuleOf
<1>5. ASSUME NEW id \in DOMAIN Packages
      PROVE  Packages[id].importedBy \subseteq DOMAIN Packages
  BY <1>1, <1>2 DEF ImportedByExact
<1>6. tops \subseteq Package /\ vulnerable \subseteq Package
  BY <1>1 DEF TypeOK
<1>7. Entries \subseteq DOMAIN Packages
  BY <1>1, <1>2, <1>6 DEF Results
<1>8. \A v \in Vulns : v.sink \in DOMAIN Packages
  BY <1>1, <1>2, <1>6 DEF Results
<1> QED BY <1>3, <1>4, <1>5, <1>7, <1>8

\* Nothing of it changes afterwards.
LEMMA Frame ==
  ASSUME RequireStep
  PROVE  /\ UNCHANGED <<vars, module, replace>>
         /\ UNCHANGED <<Packages, Entries, Vulns>>
<1>1. UNCHANGED <<vars, module>>
  BY DEF RequireStep
<1>2. UNCHANGED replace
  BY DEF RequireStep, R!Begin, R!Next, R!AddPackage, R!AddPred, R!AddEntry,
     R!NextPackage, R!StoreRequiredBy, R!UpdateVulns, R!input
<1> QED BY <1>1, <1>2 DEF vars, graph

LEMMA InputsKept ==
  ASSUME RequireInv, RequireStep, phase' \in {"packages", "entries", "vulns", "done"}
  PROVE  Inputs'
<1>1. /\ UNCHANGED <<vars, module, replace, Packages, Entries, Vulns>>
      /\ module # <<>>
  BY Frame DEF RequireStep
<1>2. Done' /\ module' \in [Package -> Module \cup {None}]
      /\ replace' \in [Module -> Module \cup {None}]
  BY <1>1 DEF RequireInv, Inputs, Done, vars, calls
<1>3. R!Loaded'
  <2> DEFINE M == [id \in DOMAIN Packages |-> module[Packages[id].pkg]]
             L(N, r, S) == /\ None \notin R!Range(N) \/ R!Range(N) \subseteq {Std, None}
                           /\ \A p \in S : N[p] # None
                           /\ \A m \in Module : r[m] # None =>
                                /\ m \in R!Range(N) \ {Std} /\ r[m] # Std
                                /\ r[m] \in R!Range(N) => r[m] = m
                                /\ \A n \in Module : r[n] = r[m] => n = m
  <2>1. L(M, replace, {v.sink : v \in Vulns})
    BY <1>1 DEF RequireInv, Inputs, R!Loaded, R!ModuleMode
  <2>2. M' = M /\ replace' = replace /\ {v.sink : v \in Vulns}' = {v.sink : v \in Vulns}
    BY <1>1
  <2>3. L(M', replace', {v.sink : v \in Vulns}')
    BY <2>1, <2>2
  <2> QED BY <2>3 DEF R!Loaded, R!ModuleMode
<1> QED BY <1>1, <1>2, <1>3 DEF Inputs

-----------------------------------------------------------------------------
(* moduleNodeID.                                                           *)

\* After a call for p its module has a node; those that had one keep it, and
\* new nodes are required by nobody.
LEMMA NodeStep ==
  ASSUME ModNodes, NEW p \in DOMAIN Packages,
         ModuleOf(p) \in Module \cup {None},
         replace \in [Module -> Module \cup {None}],
         R!moduleNodeID(p)
  PROVE  /\ ModNodes'
         /\ \A m \in Module : modNodeIDs[m] # 0 => modNodeIDs'[m] = modNodeIDs[m]
         /\ ModuleOf(p) # None => modNodeIDs'[ModuleOf(p)] # 0
         /\ DOMAIN Modules \subseteq DOMAIN Modules'
         /\ \A i \in DOMAIN Modules : Modules'[i] = Modules[i]
         /\ \A i \in DOMAIN Modules' \ DOMAIN Modules : Modules'[i].RequiredBy = {}
<1> DEFINE m   == ModuleOf(p)
           r   == replace[m]
           id  == modID + 1
           ids == [modNodeIDs EXCEPT ![m] = id]
           new == IF r # None /\ ids[r] = 0 THEN {id + 1} ELSE {}
<1>1. [i \in DOMAIN Packages |-> module[Packages[i].pkg]][p] = m
  BY DEF ModuleOf
<1>2. None \notin Module
  BY ModuleAssumption
<1>3. CASE m = None \/ modNodeIDs[m] # 0
  <2>1. UNCHANGED <<modID, modNodeIDs, Modules>>
    BY <1>1, <1>3 DEF R!moduleNodeID, R!ID, R!nodes
  <2>2. ModNodes'
    BY <2>1 DEF ModNodes, OneNodePerModule, R!OneNodePerModule
  <2> QED BY <1>3, <2>1, <2>2
<1>4. CASE m # None /\ modNodeIDs[m] = 0
  <2>1. m \in Module /\ r \in Module \cup {None}
    BY <1>4
  <2>2. /\ modID' = IF new = {} THEN id ELSE id + 1
        /\ modNodeIDs' = IF new = {} THEN ids ELSE [ids EXCEPT ![r] = id + 1]
        /\ Modules' = [i \in DOMAIN Modules \cup {id} \cup new |->
             CASE i = id   -> R!ModNode(id, m, IF r = None THEN 0 ELSE modNodeIDs'[r])
               [] i \in new -> R!ModNode(0, r, 0)
               [] OTHER    -> Modules[i]]
    BY <1>1, <1>4 DEF R!moduleNodeID, R!ID
  <2>3. modID \in Nat /\ id \in Nat /\ id + 1 \in Nat
    BY DEF ModNodes
  <2>4. modID' \in Nat /\ modID' >= id /\ new \subseteq id + 1 .. modID'
    BY <2>2, <2>3
  <2>5. ids \in [Module -> 0 .. id] /\ ids[m] = id
        /\ \A x \in Module : x # m => ids[x] = modNodeIDs[x]
    BY <2>1, <2>3 DEF ModNodes
  <2>6. new # {} => r \in Module /\ r # m /\ modNodeIDs[r] = 0 /\ new = {id + 1}
    BY <2>1, <2>3, <2>5
  <2>7. /\ modNodeIDs' \in [Module -> 0 .. modID']
        /\ modNodeIDs'[m] = id
        /\ new # {} => modNodeIDs'[r] = id + 1
        /\ \A x \in Module : x # m /\ (new # {} => x # r) =>
             modNodeIDs'[x] = modNodeIDs[x]
    <3>1. CASE new = {}
      BY <3>1, <2>2, <2>3, <2>4, <2>5
    <3>2. CASE new # {}
      <4>1. r \in Module /\ r # m /\ modID' = id + 1 /\ modNodeIDs' = [ids EXCEPT ![r] = id + 1]
        BY <3>2, <2>2, <2>6
      <4>2. modNodeIDs' \in [Module -> 0 .. modID']
        <5>1. \A x \in Module : ids[x] \in 0 .. id + 1
          BY <2>3, <2>5
        <5>2. id + 1 \in 0 .. id + 1
          BY <2>3
        <5> HIDE DEF ids, id, r
        <5>3. ids \in [Module -> 0 .. id + 1]
          BY <5>1, <2>5
        <5> QED BY <4>1, <5>2, <5>3
      <4>3. /\ modNodeIDs'[m] = ids[m] /\ modNodeIDs'[r] = id + 1
            /\ \A x \in Module : x # m /\ x # r => modNodeIDs'[x] = ids[x]
        <5> HIDE DEF ids, id, r, m
        <5> QED BY <2>1, <2>5, <4>1
      <4> QED BY <3>2, <4>2, <4>3, <2>5
    <3> QED BY <3>1, <3>2
  <2>8. /\ DOMAIN Modules \subseteq 1 .. modID
        /\ id \notin DOMAIN Modules /\ id + 1 \notin DOMAIN Modules
    BY <2>3 DEF ModNodes
  <2>9. /\ DOMAIN Modules' = DOMAIN Modules \cup {id} \cup new
        /\ \A i \in DOMAIN Modules : Modules'[i] = Modules[i]
        /\ Modules'[id] = R!ModNode(id, m, IF r = None THEN 0 ELSE modNodeIDs'[r])
        /\ \A i \in new : i = id + 1 /\ Modules'[i] = R!ModNode(0, r, 0)
    BY <2>2, <2>3, <2>6, <2>8
  <2>10. (IF r = None THEN 0 ELSE modNodeIDs'[r]) \in Nat
    BY <2>1, <2>4, <2>7
  <2>11. /\ Modules'[id] \in ModNode /\ Modules'[id].module = m
         /\ Modules'[id].RequiredBy = {}
    BY <2>1, <2>3, <2>9, <2>10 DEF R!ModNode, ModNode
  <2>12. \A i \in new : /\ Modules'[i] \in ModNode /\ Modules'[i].module = r
                        /\ Modules'[i].RequiredBy = {}
    BY <2>6, <2>9 DEF R!ModNode, ModNode
  <2>13. DOMAIN Modules' \subseteq 1 .. modID'
    BY <2>3, <2>4, <2>8, <2>9
  <2>14. \A i \in DOMAIN Modules' : Modules'[i] \in ModNode
    BY <2>9, <2>11, <2>12 DEF ModNodes
  <2>15. \A x \in Module : modNodeIDs[x] # 0 => modNodeIDs'[x] = modNodeIDs[x]
    BY <1>4, <2>6, <2>7
  <2>16. \A x \in Module : modNodeIDs'[x] # 0 =>
           modNodeIDs'[x] \in DOMAIN Modules' /\ Modules'[modNodeIDs'[x]].module = x
    <3> SUFFICES ASSUME NEW x \in Module, modNodeIDs'[x] # 0
                 PROVE  modNodeIDs'[x] \in DOMAIN Modules'
                        /\ Modules'[modNodeIDs'[x]].module = x
      OBVIOUS
    <3>1. CASE x = m
      BY <3>1, <2>7, <2>9, <2>11
    <3>2. CASE new # {} /\ x = r
      BY <3>2, <2>6, <2>7, <2>9, <2>12
    <3>3. CASE x # m /\ (new # {} => x # r)
      BY <3>3, <2>7, <2>9 DEF ModNodes, OneNodePerModule, R!OneNodePerModule
    <3> QED BY <3>1, <3>2, <3>3
  <2>17. \A i \in DOMAIN Modules' : modNodeIDs'[Modules'[i].module] = i
    <3> SUFFICES ASSUME NEW i \in DOMAIN Modules'
                 PROVE  modNodeIDs'[Modules'[i].module] = i
      OBVIOUS
    <3>1. CASE i = id
      BY <3>1, <2>7, <2>11
    <3>2. CASE i \in new
      BY <3>2, <2>7, <2>9, <2>12
    <3>3. CASE i \in DOMAIN Modules
      <4>1. Modules[i].module \in Module /\ modNodeIDs[Modules[i].module] = i /\ i # 0
        BY <3>3 DEF ModNodes, ModNode, OneNodePerModule, R!OneNodePerModule
      <4> QED BY <3>3, <4>1, <2>9, <2>15
    <3> QED BY <3>1, <3>2, <3>3, <2>9
  <2>18. ModNodes'
    BY <2>4, <2>7, <2>13, <2>14, <2>16, <2>17
    DEF ModNodes, OneNodePerModule, R!OneNodePerModule
  <2> QED BY <2>3, <2>7, <2>9, <2>11, <2>12, <2>15, <2>18
<1> QED BY <1>3, <1>4

-----------------------------------------------------------------------------
(* The steps of vulnModuleSlice.                                           *)

\* Handled and HandledEntries, phase by phase.
LEMMA Arms ==
  /\ phase = "imports" => Handled = {} /\ HandledEntries = {}
  /\ phase = "packages" => Handled = DOMAIN Packages \ todo /\ HandledEntries = {}
  /\ phase = "entries" => Handled = DOMAIN Packages /\ HandledEntries = Entries \ todo
  /\ phase \in {"vulns", "done"} => Handled = DOMAIN Packages /\ HandledEntries = Entries
BY DEF Handled, HandledEntries

\* ... and after a step.
LEMMA ArmsNext ==
  /\ phase' = "imports" => Handled' = {} /\ HandledEntries' = {}
  /\ phase' = "packages" => Handled' = DOMAIN Packages' \ todo' /\ HandledEntries' = {}
  /\ phase' = "entries" => Handled' = DOMAIN Packages' /\ HandledEntries' = Entries' \ todo'
  /\ phase' \in {"vulns", "done"} => Handled' = DOMAIN Packages' /\ HandledEntries' = Entries'
BY DEF Handled, HandledEntries

LEMMA NodesSame ==
  ASSUME ModNodes, UNCHANGED <<modID, modNodeIDs, Modules>>
  PROVE  ModNodes'
BY DEF ModNodes, OneNodePerModule, R!OneNodePerModule

LEMMA BeginStep ==
  ASSUME ResultInv, RequireInv, RequireStep, R!Begin
  PROVE  RequireInv'
<1>1. /\ UNCHANGED <<module, replace, Packages, Entries, Vulns>>
      /\ module # <<>>
  BY Frame DEF RequireStep
<1>2. /\ phase = "imports" /\ todo' = DOMAIN Packages
      /\ phase' = IF DOMAIN Packages = {} THEN "entries" ELSE "packages"
      /\ UNCHANGED <<curPkg, preds, modID, modNodeIDs, Modules, pkgModule, modPred,
                     ModEntries, RequireSink>>
  BY DEF R!Begin, R!PkgID, R!nodes
<1>3. Entries \subseteq DOMAIN Packages
  BY <1>1, Given
<1>4. Handled = {} /\ HandledEntries = {} /\ Handled' = {} /\ HandledEntries' = {}
  BY <1>1, <1>2, <1>3, Arms, ArmsNext
<1>5. Inputs'
  BY <1>2, InputsKept
<1>6. ModNodes'
  BY <1>2, NodesSame DEF RequireInv
<1>7. curPkg = 0
  BY <1>2 DEF RequireInv, Loops
<1>8. Loops'
  BY <1>1, <1>2, <1>3, <1>7 DEF Loops
<1>9. Relation'
  BY <1>2, <1>4 DEF RequireInv, Relation
<1>10. ModResults'
  BY <1>2, <1>4 DEF RequireInv, ModResults
<1> QED BY <1>5, <1>6, <1>8, <1>9, <1>10 DEF RequireInv

\* A call of moduleNodeID leaves the identifiers that are in use.
LEMMA IDsKept ==
  ASSUME \A m \in Module : modNodeIDs[m] # 0 => modNodeIDs'[m] = modNodeIDs[m],
         UNCHANGED <<module, Packages>>,
         NEW q, ModuleOf(q) \in Module \cup {None}, HasModNode(q)
  PROVE  HasModNode(q)' /\ R!ID(ModuleOf(q))' = R!ID(ModuleOf(q))
BY DEF HasModNode, ModuleOf, R!ID

\* The setting of a step that calls moduleNodeID for the package p.
LEMMA CallStep ==
  ASSUME ResultInv, RequireInv, RequireStep, NEW p \in DOMAIN Packages, R!moduleNodeID(p)
  PROVE  /\ ModNodes'
         /\ \A q \in DOMAIN Packages : HasModNode(q) =>
              HasModNode(q)' /\ R!ID(ModuleOf(q))' = R!ID(ModuleOf(q))
         /\ HasModNode(p)' /\ R!newID(p) = R!ID(ModuleOf(p))'
         /\ HasModNode(p) => UNCHANGED <<modID, modNodeIDs, Modules>>
         /\ DOMAIN Modules \subseteq DOMAIN Modules'
         /\ \A i \in DOMAIN Modules' : Modules'[i].RequiredBy =
              IF i \in DOMAIN Modules THEN Modules[i].RequiredBy ELSE {}
<1>1. UNCHANGED <<module, replace, Packages>> /\ module # <<>>
  BY Frame DEF RequireStep
<1>2. \A q \in DOMAIN Packages : ModuleOf(q) \in Module \cup {None}
  BY <1>1, Given
<1>3. replace \in [Module -> Module \cup {None}] /\ ModNodes
  BY <1>1 DEF RequireInv, Inputs
<1>4. /\ ModNodes'
      /\ \A m \in Module : modNodeIDs[m] # 0 => modNodeIDs'[m] = modNodeIDs[m]
      /\ ModuleOf(p) # None => modNodeIDs'[ModuleOf(p)] # 0
      /\ DOMAIN Modules \subseteq DOMAIN Modules'
      /\ \A i \in DOMAIN Modules : Modules'[i] = Modules[i]
      /\ \A i \in DOMAIN Modules' \ DOMAIN Modules : Modules'[i].RequiredBy = {}
  BY <1>2, <1>3, NodeStep
<1>5. \A q \in DOMAIN Packages : HasModNode(q) =>
        HasModNode(q)' /\ R!ID(ModuleOf(q))' = R!ID(ModuleOf(q))
  BY <1>1, <1>2, <1>4, IDsKept
<1>6. HasModNode(p)' /\ R!newID(p) = R!ID(ModuleOf(p))'
  BY <1>1, <1>4 DEF HasModNode, ModuleOf, R!newID, R!ID
<1>7. HasModNode(p) => UNCHANGED <<modID, modNodeIDs, Modules>>
  BY DEF HasModNode, ModuleOf, R!moduleNodeID, R!ID, R!nodes
<1> QED BY <1>4, <1>5, <1>6, <1>7

LEMMA AddPackageStep ==
  ASSUME ResultInv, RequireInv, RequireStep, NEW p, R!AddPackage(p)
  PROVE  RequireInv'
<1>1. /\ UNCHANGED <<module, replace, Packages, Entries, Vulns>>
      /\ module # <<>>
  BY Frame DEF RequireStep
<1>2. /\ phase = "packages" /\ phase' = "packages" /\ curPkg = 0 /\ p \in todo
      /\ todo' = todo \ {p} /\ curPkg' = p /\ preds' = Packages[p].importedBy
      /\ p \in DOMAIN Packages
      /\ R!moduleNodeID(p)
      /\ pkgModule' = [q \in DOMAIN pkgModule \cup {p} |->
                         IF q = p THEN R!newID(p) ELSE pkgModule[q]]
      /\ modPred' = [id \in DOMAIN modPred \cup {pkgModule'[p]} |->
                       IF id \in DOMAIN modPred THEN modPred[id] ELSE {}]
      /\ UNCHANGED <<ModEntries, RequireSink>>
  BY DEF R!AddPackage, RequireInv, Loops
<1>3. /\ Handled = DOMAIN Packages \ todo /\ Handled' = Handled \cup {p}
      /\ p \notin Handled
      /\ HandledEntries = {} /\ HandledEntries' = {}
  BY <1>1, <1>2, Arms, ArmsNext DEF RequireInv, Loops
<1>4. /\ ModNodes'
      /\ \A q \in DOMAIN Packages : HasModNode(q) =>
           HasModNode(q)' /\ R!ID(ModuleOf(q))' = R!ID(ModuleOf(q))
      /\ HasModNode(p)' /\ R!newID(p) = R!ID(ModuleOf(p))'
      /\ \A i \in DOMAIN Modules' : Modules'[i].RequiredBy =
           IF i \in DOMAIN Modules THEN Modules[i].RequiredBy ELSE {}
  BY <1>2, CallStep
<1>5. Inputs'
  BY <1>2, InputsKept
<1>6. Loops'
  BY <1>1, <1>2, <1>3 DEF RequireInv, Loops
<1>7. /\ \A x \in Handled : Looked(x)' = Looked(x) /\ Looked(x) \subseteq DOMAIN Packages
      /\ Looked(p)' = {}
  <2>1. \A x \in Handled : x # 0 /\ x # p /\ Packages[x].importedBy \subseteq DOMAIN Packages
    BY <1>1, <1>3, Given
  <2> QED BY <1>1, <1>2, <1>3, <2>1 DEF Looked
<1>8. /\ DOMAIN pkgModule = Handled
      /\ \A x \in Handled : pkgModule[x] = R!ID(ModuleOf(x)) /\ HasModNode(x)
                            /\ \A q \in Looked(x) : HasModNode(q)
      /\ DOMAIN modPred = {pkgModule[x] : x \in Handled}
      /\ \A id \in DOMAIN modPred :
           modPred[id] = {R!ID(ModuleOf(q)) :
             q \in UNION {Looked(x) : x \in {r \in Handled : pkgModule[r] = id}}} \ {id}
  BY DEF RequireInv, Relation
<1>9. /\ DOMAIN pkgModule' = Handled'
      /\ \A x \in Handled' : pkgModule'[x] = R!ID(ModuleOf(x))'
      /\ \A x \in Handled : pkgModule'[x] = pkgModule[x]
  BY <1>2, <1>3, <1>4, <1>8
<1>10. \A x \in Handled' : \A q \in {x} \cup Looked(x)' : HasModNode(q)'
  BY <1>3, <1>4, <1>7, <1>8
<1>11. DOMAIN modPred' = {pkgModule'[x] : x \in Handled'}
  <2>1. {pkgModule'[x] : x \in Handled'} = {pkgModule[x] : x \in Handled} \cup {pkgModule'[p]}
    BY <1>3, <1>9
  <2>2. DOMAIN modPred' = DOMAIN modPred \cup {pkgModule'[p]}
    BY <1>2
  <2> QED BY <2>1, <2>2, <1>8
<1>12. ASSUME NEW id \in DOMAIN modPred'
       PROVE  modPred'[id] = {R!ID(ModuleOf(q))' :
                q \in UNION {Looked(x)' : x \in {r \in Handled' : pkgModule'[r] = id}}} \ {id}
  <2> DEFINE Old == UNION {Looked(x) : x \in {r \in Handled : pkgModule[r] = id}}
             New == UNION {Looked(x)' : x \in {r \in Handled' : pkgModule'[r] = id}}
  <2>1. New = Old
    BY <1>3, <1>7, <1>9
  <2>2. \A q \in Old : R!ID(ModuleOf(q))' = R!ID(ModuleOf(q))
    BY <1>4, <1>7, <1>8
  <2> HIDE DEF Old, New
  <2>3. {R!ID(ModuleOf(q))' : q \in New} = {R!ID(ModuleOf(q)) : q \in Old}
    BY <2>1, <2>2
  <2>4. CASE id \in DOMAIN modPred
    <3>1. modPred'[id] = {R!ID(ModuleOf(q)) : q \in Old} \ {id}
      BY <1>2, <1>8, <2>4 DEF Old
    <3> QED BY <3>1, <2>3 DEF New
  <2>5. CASE id \notin DOMAIN modPred
    <3>1. Old = {} /\ modPred'[id] = {}
      BY <1>2, <1>8, <2>5 DEF Old
    <3> QED BY <3>1, <2>1 DEF New
  <2> QED BY <2>4, <2>5
<1>13. Relation'
  BY <1>9, <1>10, <1>11, <1>12 DEF Relation
<1>14. ModResults'
  BY <1>1, <1>2, <1>3, <1>4 DEF RequireInv, ModResults
<1> QED BY <1>4, <1>5, <1>6, <1>13, <1>14 DEF RequireInv

LEMMA AddPredStep ==
  ASSUME ResultInv, RequireInv, RequireStep, NEW p, R!AddPred(p)
  PROVE  RequireInv'
<1> DEFINE c == curPkg
<1>1. /\ UNCHANGED <<module, replace, Packages, Entries, Vulns>>
      /\ module # <<>>
  BY Frame DEF RequireStep
<1>2. /\ phase = "packages" /\ phase' = "packages" /\ c # 0 /\ p \in preds
      /\ todo' = todo /\ curPkg' = c /\ preds' = preds \ {p}
      /\ c \in Handled /\ preds \subseteq Packages[c].importedBy
      /\ R!moduleNodeID(p)
      /\ pkgModule' = pkgModule
      /\ modPred' = [modPred EXCEPT ![pkgModule[c]] =
                       @ \cup ({R!newID(p)} \ {pkgModule[c]})]
      /\ UNCHANGED <<ModEntries, RequireSink>>
  BY DEF R!AddPred, RequireInv, Loops
<1>3. /\ Handled = DOMAIN Packages \ todo /\ Handled' = Handled
      /\ HandledEntries = {} /\ HandledEntries' = {}
  BY <1>1, <1>2, Arms, ArmsNext
<1>4. \A x \in Handled : Packages[x].importedBy \subseteq DOMAIN Packages
  BY <1>1, <1>3, Given
<1>5. p \in DOMAIN Packages
  BY <1>2, <1>4
<1>6. /\ ModNodes'
      /\ \A q \in DOMAIN Packages : HasModNode(q) =>
           HasModNode(q)' /\ R!ID(ModuleOf(q))' = R!ID(ModuleOf(q))
      /\ HasModNode(p)' /\ R!newID(p) = R!ID(ModuleOf(p))'
      /\ \A i \in DOMAIN Modules' : Modules'[i].RequiredBy =
           IF i \in DOMAIN Modules THEN Modules[i].RequiredBy ELSE {}
  BY <1>2, <1>5, CallStep
<1>7. Inputs'
  BY <1>2, InputsKept
<1>8. Loops'
  BY <1>1, <1>2, <1>3 DEF RequireInv, Loops
<1>9. /\ \A x \in Handled \ {c} : Looked(x)' = Looked(x)
      /\ \A x \in Handled : Looked(x) \subseteq DOMAIN Packages
      /\ Looked(c)' = Looked(c) \cup {p}
  BY <1>1, <1>2, <1>4 DEF Looked
<1>10. /\ DOMAIN pkgModule = Handled
       /\ \A x \in Handled : pkgModule[x] = R!ID(ModuleOf(x)) /\ HasModNode(x)
                             /\ \A q \in Looked(x) : HasModNode(q)
       /\ DOMAIN modPred = {pkgModule[x] : x \in Handled}
       /\ \A id \in DOMAIN modPred :
            modPred[id] = {R!ID(ModuleOf(q)) :
              q \in UNION {Looked(x) : x \in {r \in Handled : pkgModule[r] = id}}} \ {id}
  BY DEF RequireInv, Relation
<1>11. /\ DOMAIN pkgModule' = Handled'
       /\ \A x \in Handled' : pkgModule'[x] = R!ID(ModuleOf(x))'
  BY <1>2, <1>3, <1>6, <1>10
<1>12. \A x \in Handled' : \A q \in {x} \cup Looked(x)' : HasModNode(q)'
  <2> SUFFICES ASSUME NEW x \in Handled', NEW q \in {x} \cup Looked(x)' PROVE HasModNode(q)'
    OBVIOUS
  <2>1. x \in Handled /\ (q = p \/ q \in {x} \cup Looked(x))
    <3>1. CASE x = c
      BY <3>1, <1>2, <1>9
    <3>2. CASE x # c
      BY <3>2, <1>3, <1>9
    <3> QED BY <3>1, <3>2
  <2> QED BY <2>1, <1>3, <1>6, <1>9, <1>10
<1>13. DOMAIN modPred' = {pkgModule'[x] : x \in Handled'}
  BY <1>2, <1>3, <1>10
<1>14. ASSUME NEW id \in DOMAIN modPred'
       PROVE  modPred'[id] = {R!ID(ModuleOf(q))' :
                q \in UNION {Looked(x)' : x \in {r \in Handled' : pkgModule'[r] = id}}} \ {id}
  <2> DEFINE Old == UNION {Looked(x) : x \in {r \in Handled : pkgModule[r] = id}}
             New == UNION {Looked(x)' : x \in {r \in Handled' : pkgModule'[r] = id}}
             Ids == {R!ID(ModuleOf(q)) : q \in Old}
  <2>1. \A q \in Old : R!ID(ModuleOf(q))' = R!ID(ModuleOf(q))
    BY <1>6, <1>9, <1>10
  <2>2. modPred[id] = Ids \ {id} /\ id \in DOMAIN modPred
    BY <1>2, <1>10
  <2>3. CASE id = pkgModule[c]
    <3>1. New = Old \cup {p}
      <4>1. \A q \in New : q \in Old \cup {p}
        BY <1>2, <1>3, <1>9
      <4>2. \A q \in Old : q \in New
        BY <1>2, <1>3, <1>9
      <4>3. p \in New
        BY <1>2, <1>3, <1>9, <2>3
      <4> QED BY <4>1, <4>2, <4>3
    <3>2. modPred'[id] = (Ids \ {id}) \cup ({R!ID(ModuleOf(p))'} \ {id})
      BY <1>2, <1>6, <2>2, <2>3
    <3> HIDE DEF Old, New
    <3>3. {R!ID(ModuleOf(q))' : q \in New} = Ids \cup {R!ID(ModuleOf(p))'}
      BY <2>1, <3>1
    <3> QED BY <3>2, <3>3 DEF New
  <2>4. CASE id # pkgModule[c]
    <3>1. New = Old
      BY <1>2, <1>3, <1>9, <2>4
    <3>2. modPred'[id] = Ids \ {id}
      BY <1>2, <2>2, <2>4
    <3> HIDE DEF Old, New
    <3>3. {R!ID(ModuleOf(q))' : q \in New} = Ids
      BY <2>1, <3>1
    <3> QED BY <3>2, <3>3 DEF New
  <2> QED BY <2>3, <2>4
<1>15. Relation'
  BY <1>11, <1>12, <1>13, <1>14 DEF Relation
<1>16. ModResults'
  BY <1>1, <1>2, <1>3, <1>6 DEF RequireInv, ModResults
<1> QED BY <1>6, <1>7, <1>8, <1>15, <1>16 DEF RequireInv

\* Steps that leave the nodes and the relation.
LEMMA RelationKept ==
  ASSUME RequireInv, UNCHANGED <<module, Packages, modNodeIDs, pkgModule, modPred>>,
         Handled' = Handled, \A x \in Handled : Looked(x)' = Looked(x)
  PROVE  Relation'
<1>1. \A q : /\ HasModNode(q)' <=> HasModNode(q)
             /\ R!ID(ModuleOf(q))' = R!ID(ModuleOf(q))
  BY DEF HasModNode, ModuleOf, R!ID
<1>2. /\ DOMAIN pkgModule = Handled
      /\ \A x \in Handled : pkgModule[x] = R!ID(ModuleOf(x)) /\ HasModNode(x)
                            /\ \A q \in Looked(x) : HasModNode(q)
      /\ DOMAIN modPred = {pkgModule[x] : x \in Handled}
      /\ \A id \in DOMAIN modPred :
           modPred[id] = {R!ID(ModuleOf(q)) :
             q \in UNION {Looked(x) : x \in {r \in Handled : pkgModule[r] = id}}} \ {id}
  BY DEF RequireInv, Relation
<1>3. ASSUME NEW id \in DOMAIN modPred'
      PROVE  modPred'[id] = {R!ID(ModuleOf(q))' :
                q \in UNION {Looked(x)' : x \in {r \in Handled' : pkgModule'[r] = id}}} \ {id}
  <2> DEFINE Old == UNION {Looked(x) : x \in {r \in Handled : pkgModule[r] = id}}
             New == UNION {Looked(x)' : x \in {r \in Handled' : pkgModule'[r] = id}}
  <2>1. New = Old
    OBVIOUS
  <2>2. modPred'[id] = {R!ID(ModuleOf(q)) : q \in Old} \ {id}
    BY <1>2
  <2> HIDE DEF Old, New
  <2>3. modPred'[id] = {R!ID(ModuleOf(q))' : q \in New} \ {id}
    BY <1>1, <2>1, <2>2
  <2> QED BY <2>3 DEF New
<1> QED BY <1>1, <1>2, <1>3 DEF Relation

LEMMA NextPackageStep ==
  ASSUME ResultInv, RequireInv, RequireStep, R!NextPackage
  PROVE  RequireInv'
<1>1. /\ UNCHANGED <<module, replace, Packages, Entries, Vulns>>
      /\ module # <<>>
  BY Frame DEF RequireStep
<1>2. /\ phase = "packages" /\ curPkg # 0 /\ preds = {} /\ curPkg' = 0
      /\ \/ phase' = phase /\ todo' = todo
         \/ todo = {} /\ phase' = "entries" /\ todo' = Entries
      /\ UNCHANGED <<preds, modID, modNodeIDs, Modules, pkgModule, modPred,
                     ModEntries, RequireSink>>
  BY DEF R!NextPackage, R!nodes, RequireInv, Loops
<1>3. /\ Handled' = Handled /\ HandledEntries = {} /\ HandledEntries' = {}
  BY <1>1, <1>2, Arms, ArmsNext
<1>4. Inputs'
  BY <1>2, InputsKept
<1>5. ModNodes'
  BY <1>2, NodesSame DEF RequireInv
<1>6. Loops'
  BY <1>1, <1>2 DEF RequireInv, Loops
<1>7. \A x \in Handled : Looked(x)' = Looked(x)
  BY <1>1, <1>2 DEF Looked
<1>8. Relation'
  BY <1>1, <1>2, <1>3, <1>7, RelationKept
<1>9. ModResults'
  BY <1>1, <1>2, <1>3 DEF RequireInv, ModResults
<1> QED BY <1>4, <1>5, <1>6, <1>8, <1>9 DEF RequireInv

LEMMA AddEntryStep ==
  ASSUME ResultInv, RequireInv, RequireStep, NEW p, R!AddEntry(p)
  PROVE  RequireInv'
<1>1. /\ UNCHANGED <<module, replace, Packages, Entries, Vulns>>
      /\ module # <<>>
  BY Frame DEF RequireStep
<1>2. /\ phase = "entries" /\ phase' = "entries" /\ p \in todo /\ todo' = todo \ {p}
      /\ todo \subseteq Entries
      /\ R!moduleNodeID(p)
      /\ ModEntries' = [i \in DOMAIN ModEntries \cup {R!newID(p)} |-> 1]
      /\ UNCHANGED <<curPkg, preds, pkgModule, modPred, RequireSink>>
  BY DEF R!AddEntry, RequireInv, Loops
<1>3. /\ Handled = DOMAIN Packages /\ Handled' = Handled
      /\ HandledEntries' = HandledEntries \cup {p}
      /\ HandledEntries \subseteq Entries /\ Entries \subseteq DOMAIN Packages
  BY <1>1, <1>2, Given, Arms, ArmsNext
<1>4. HasModNode(p) /\ p \in DOMAIN Packages
  BY <1>2, <1>3 DEF RequireInv, Relation
<1>5. /\ ModNodes' /\ UNCHANGED <<modID, modNodeIDs, Modules>>
      /\ R!newID(p) = R!ID(ModuleOf(p))'
  BY <1>2, <1>4, CallStep
<1>6. Inputs'
  BY <1>2, InputsKept
<1>7. Loops'
  BY <1>1, <1>2, <1>3 DEF RequireInv, Loops
<1>8. Relation'
  BY <1>1, <1>2, <1>3, <1>5, RelationKept DEF Looked
<1>9. \A q : R!ID(ModuleOf(q))' = R!ID(ModuleOf(q))
  BY <1>1, <1>5 DEF ModuleOf, R!ID
<1>10. DOMAIN ModEntries' = {R!ID(ModuleOf(q))' : q \in HandledEntries'}
  BY <1>2, <1>3, <1>5, <1>9 DEF RequireInv, ModResults
<1>11. ModResults'
  BY <1>2, <1>5, <1>10 DEF RequireInv, ModResults
<1> QED BY <1>5, <1>6, <1>7, <1>8, <1>11 DEF RequireInv

LEMMA StoreStep ==
  ASSUME ResultInv, RequireInv, RequireStep, R!StoreRequiredBy
  PROVE  RequireInv'
<1>1. /\ UNCHANGED <<module, replace, Packages, Entries, Vulns>>
      /\ module # <<>>
  BY Frame DEF RequireStep
<1>2. /\ phase = "entries" /\ phase' = "vulns" /\ todo = {}
      /\ Modules' = [id \in DOMAIN Modules |->
           IF id \in DOMAIN modPred
           THEN [Modules[id] EXCEPT !.RequiredBy = modPred[id]] ELSE Modules[id]]
      /\ UNCHANGED <<todo, curPkg, preds, modID, modNodeIDs, pkgModule, modPred,
                     ModEntries, RequireSink>>
  BY DEF R!StoreRequiredBy
<1>3. Handled = DOMAIN Packages /\ Handled' = Handled /\ HandledEntries' = HandledEntries
  BY <1>1, <1>2, Arms, ArmsNext
<1>4. Inputs'
  BY <1>2, InputsKept
<1>5. \A id \in DOMAIN Modules : Modules[id] \in ModNode /\ Modules[id].RequiredBy = {}
  BY <1>2 DEF RequireInv, ModNodes, ModResults
<1>6. \A id \in DOMAIN modPred : modPred[id] \subseteq Nat
  <2>1. ASSUME NEW q \in DOMAIN Packages PROVE R!ID(ModuleOf(q)) \in Nat
    BY <1>1, Given DEF R!ID, RequireInv, ModNodes
  <2>2. \A x \in Handled : Looked(x) \subseteq DOMAIN Packages
    BY <1>1, <1>3, Given DEF Looked
  <2> QED BY <2>1, <2>2 DEF RequireInv, Relation
<1>7. /\ DOMAIN Modules' = DOMAIN Modules
      /\ \A id \in DOMAIN Modules :
           /\ Modules'[id] \in ModNode
           /\ Modules'[id].module = Modules[id].module
           /\ Modules'[id].RequiredBy = IF id \in DOMAIN modPred THEN modPred[id] ELSE {}
  BY <1>2, <1>5, <1>6 DEF ModNode
<1>8. ModNodes'
  BY <1>2, <1>7 DEF RequireInv, ModNodes, OneNodePerModule, R!OneNodePerModule
<1>9. Loops'
  BY <1>2 DEF RequireInv, Loops
<1>10. Relation'
  BY <1>1, <1>2, <1>3, RelationKept DEF Looked
<1>11. \A q : R!ID(ModuleOf(q))' = R!ID(ModuleOf(q))
  BY <1>1, <1>2 DEF ModuleOf, R!ID
<1>12. DOMAIN ModEntries' = {R!ID(ModuleOf(q))' : q \in HandledEntries'}
  BY <1>2, <1>3, <1>11 DEF RequireInv, ModResults
<1>13. ModResults'
  BY <1>2, <1>7, <1>12 DEF RequireInv, ModResults
<1> QED BY <1>4, <1>8, <1>9, <1>10, <1>13 DEF RequireInv

LEMMA UpdateStep ==
  ASSUME ResultInv, RequireInv, RequireStep, R!UpdateVulns
  PROVE  RequireInv'
<1>1. /\ UNCHANGED <<module, replace, Packages, Entries, Vulns>>
      /\ module # <<>>
  BY Frame DEF RequireStep
<1>2. /\ phase = "vulns" /\ phase' = "done"
      /\ RequireSink' = [s \in {v.sink : v \in Vulns} |-> pkgModule[s]]
      /\ UNCHANGED <<todo, curPkg, preds, modID, modNodeIDs, Modules, pkgModule, modPred,
                     ModEntries>>
  BY DEF R!UpdateVulns, R!nodes
<1>3. Handled' = Handled /\ HandledEntries' = HandledEntries
  BY <1>1, <1>2, Arms, ArmsNext
<1>4. Inputs'
  BY <1>2, InputsKept
<1>5. ModNodes'
  BY <1>2, NodesSame DEF RequireInv
<1>6. Loops'
  BY <1>2 DEF RequireInv, Loops
<1>7. Relation'
  BY <1>1, <1>2, <1>3, RelationKept DEF Looked
<1>8. \A q : R!ID(ModuleOf(q))' = R!ID(ModuleOf(q))
  BY <1>1, <1>2 DEF ModuleOf, R!ID
<1>9. DOMAIN ModEntries' = {R!ID(ModuleOf(q))' : q \in HandledEntries'}
  BY <1>2, <1>3, <1>8 DEF RequireInv, ModResults
<1>10. ModResults'
  BY <1>1, <1>2, <1>9 DEF RequireInv, ModResults
<1> QED BY <1>4, <1>5, <1>6, <1>7, <1>10 DEF RequireInv

\* Before the overlay starts only Inputs says anything of the rest.
LEMMA OverlayKept ==
  ASSUME RequireInv, UNCHANGED <<phase, todo, curPkg, preds, modID, modNodeIDs, Modules,
                                 pkgModule, modPred, ModEntries, RequireSink>>,
         phase = "imports", Inputs'
  PROVE  RequireInv'
<1>1. Handled = {} /\ HandledEntries = {} /\ Handled' = {} /\ HandledEntries' = {}
  BY Arms, ArmsNext
<1>2. ModNodes'
  BY NodesSame DEF RequireInv
<1>3. Loops'
  BY DEF RequireInv, Loops
<1>4. Relation'
  BY <1>1 DEF RequireInv, Relation
<1>5. ModResults'
  BY <1>1 DEF RequireInv, ModResults
<1> QED BY <1>2, <1>3, <1>4, <1>5 DEF RequireInv

\* The import slice has no step left once it is complete.
LEMMA ImportsDone == ResultInv /\ Next => ~Done
<1> SUFFICES ASSUME ResultInv, Next, Done PROVE FALSE
  OBVIOUS
<1>1. cur = Main /\ cur \notin Package /\ topsLeft = {}
  BY ControlAssumption DEF Done
<1> QED BY <1>1 DEF Next, VisitTop, RevisitTop, VisitImport, RevisitImport, ReturnNil, ReturnNode

LEMMA RequireInit == SourceInit => RequireInv
<1> SUFFICES ASSUME SourceInit PROVE RequireInv
  OBVIOUS
<1>1. /\ module = <<>> /\ phase = "imports" /\ curPkg = 0 /\ modID = 0
      /\ modNodeIDs = [m \in Module |-> 0] /\ DOMAIN Modules = {}
      /\ DOMAIN pkgModule = {} /\ DOMAIN modPred = {} /\ DOMAIN ModEntries = {}
  BY DEF SourceInit, R!Init
<1>2. Handled = {} /\ HandledEntries = {}
  BY <1>1, Arms
<1>3. Inputs /\ ModNodes /\ Loops
  BY <1>1 DEF Inputs, ModNodes, Loops, OneNodePerModule, R!OneNodePerModule
<1>4. Relation /\ ModResults
  BY <1>1, <1>2 DEF Relation, ModResults
<1> QED BY <1>3, <1>4 DEF RequireInv

LEMMA UnchangedInv ==
  ASSUME RequireInv, UNCHANGED allVars
  PROVE  RequireInv'
<1>1. /\ UNCHANGED <<vars, module, replace, phase, todo, curPkg, preds, modID, modNodeIDs,
                     Modules, pkgModule, modPred, ModEntries, RequireSink>>
      /\ UNCHANGED <<Packages, Entries, Vulns, cur, topsLeft>>
  BY DEF allVars, overlay, vars, graph, calls
<1>2. Handled' = Handled /\ HandledEntries' = HandledEntries
  BY <1>1 DEF Handled, HandledEntries
<1>3. ModNodes'
  BY <1>1, NodesSame DEF RequireInv
<1>4. Loops'
  BY <1>1, <1>2 DEF RequireInv, Loops
<1>5. Relation'
  BY <1>1, <1>2, RelationKept DEF Looked
<1>6. \A q : R!ID(ModuleOf(q))' = R!ID(ModuleOf(q))
  BY <1>1 DEF ModuleOf, R!ID
<1>7. DOMAIN ModEntries' = {R!ID(ModuleOf(q))' : q \in HandledEntries'}
  BY <1>1, <1>2, <1>6 DEF RequireInv, ModResults
<1>8. ModResults'
  BY <1>1, <1>7 DEF RequireInv, ModResults
<1>9. Inputs'
  <2>1. R!Loaded' <=> R!Loaded
    BY <1>1 DEF R!Loaded, R!ModuleMode, R!Range
  <2> QED BY <1>1, <2>1 DEF RequireInv, Inputs, Done
<1> QED BY <1>3, <1>4, <1>5, <1>8, <1>9 DEF RequireInv

LEMMA RequireInvStep == ResultInv /\ RequireInv /\ [SourceNext]_allVars => RequireInv'
<1> SUFFICES ASSUME ResultInv, RequireInv, [SourceNext]_allVars PROVE RequireInv'
  OBVIOUS
<1>1. CASE ImportStep
  <2>1. Next /\ UNCHANGED <<module, overlay>> /\ ~Done
    BY <1>1, ImportsDone DEF ImportStep
  <2>2. /\ module = <<>> /\ phase = "imports"
        /\ UNCHANGED <<module, phase, todo, curPkg, preds, modID, modNodeIDs, Modules,
                       pkgModule, modPred, ModEntries, RequireSink>>
    BY <2>1 DEF RequireInv, Inputs, overlay
  <2>3. Inputs'
    BY <2>2 DEF Inputs
  <2> QED BY <2>2, <2>3, OverlayKept
<1>2. ASSUME NEW mods \in [Package -> Module \cup {None}],
             NEW repl \in [Module -> Module \cup {None}], Load(mods, repl)
      PROVE  RequireInv'
  <2>1. /\ phase = "imports" /\ module' = mods /\ replace' = repl /\ R!Loaded'
        /\ Done /\ UNCHANGED <<cur, topsLeft>>
        /\ UNCHANGED <<phase, todo, curPkg, preds, modID, modNodeIDs, Modules,
                       pkgModule, modPred, ModEntries, RequireSink>>
    BY <1>2 DEF Load, RequireInv, Inputs, vars, calls
  <2>2. Inputs'
    BY <2>1 DEF Inputs, Done
  <2> QED BY <2>1, <2>2, OverlayKept
<1>3. CASE RequireStep
  <2>1. R!Begin \/ R!Next
    BY <1>3 DEF RequireStep
  <2> QED BY <1>3, <2>1, BeginStep, AddPackageStep, AddPredStep, AddEntryStep,
             NextPackageStep, StoreStep, UpdateStep DEF R!Next
<1>4. CASE UNCHANGED allVars
  BY <1>4, UnchangedInv
<1> QED BY <1>1, <1>2, <1>3, <1>4 DEF SourceNext, Ended

LEMMA RequireInvCorrect == SourceSpec => [](ResultInv /\ RequireInv)
<1>1. SourceSpec => []ResultInv
  BY ImportsImplemented, ResultInvCorrect, PTL
<1> QED BY <1>1, RequireInit, RequireInvStep, PTL DEF SourceSpec

-----------------------------------------------------------------------------
(***************************************************************************)
(* A module has one node, under the identifier the map holds for it, in    *)
(* whatever order packages, importers, entries and replacements ask.       *)
(***************************************************************************)
THEOREM NodesCorrect == SourceSpec => []OneNodePerModule
<1>1. RequireInv => OneNodePerModule
  BY DEF RequireInv, ModNodes
<1> QED BY <1>1, RequireInvCorrect, PTL

-----------------------------------------------------------------------------
(* The relation that is stored.                                            *)

\* Packages on the slice and nodes are in a one to one correspondence.
LEMMA Correspond ==
  ASSUME ResultInv, RequireInv
  PROVE  /\ \A p \in Package : OnSlice(p) =>
              analyzed[p] \in DOMAIN Packages /\ ModuleOf(analyzed[p]) = module[p]
         /\ \A n \in DOMAIN Packages :
              /\ Packages[n].pkg \in Package /\ OnSlice(Packages[n].pkg)
              /\ analyzed[Packages[n].pkg] = n
<1>1. TypeOK /\ Nodes
  BY DEF ResultInv, SliceInv
<1>2. \A n \in DOMAIN Packages : Packages[n].pkg \in Package
  BY <1>1 DEF TypeOK, PkgNode
<1> QED BY <1>1, <1>2 DEF Nodes, ModuleOf

\* Once the packages are handled, each has its module's identifier, and no two
\* modules share one.
LEMMA ModuleIDs ==
  ASSUME ResultInv, RequireInv, phase \in {"vulns", "done"}, NEW n \in DOMAIN Packages
  PROVE  /\ n \in Handled /\ pkgModule[n] = R!ID(ModuleOf(n))
         /\ Looked(n) = Packages[n].importedBy
         /\ ModuleOf(n) \in Module \cup {None}
         /\ ModuleOf(n) = None => R!ID(ModuleOf(n)) = 0
         /\ ModuleOf(n) # None =>
              /\ R!ID(ModuleOf(n)) = modNodeIDs[ModuleOf(n)] /\ R!ID(ModuleOf(n)) # 0
              /\ R!ID(ModuleOf(n)) \in DOMAIN Modules
              /\ Modules[R!ID(ModuleOf(n))].module = ModuleOf(n)
<1>1. n \in Handled
  BY Arms
<1>2. pkgModule[n] = R!ID(ModuleOf(n)) /\ HasModNode(n)
  BY <1>1 DEF RequireInv, Relation
<1>3. Looked(n) = Packages[n].importedBy
  BY Given DEF RequireInv, Inputs, Loops, Looked
<1>4. ModuleOf(n) \in Module \cup {None}
  BY Given DEF RequireInv, Inputs
<1>5. ModuleOf(n) # None => /\ ModuleOf(n) \in Module
                            /\ R!ID(ModuleOf(n)) = modNodeIDs[ModuleOf(n)]
                            /\ R!ID(ModuleOf(n)) # 0
  BY <1>2, <1>4 DEF HasModNode, R!ID
<1>6. ModuleOf(n) # None => /\ R!ID(ModuleOf(n)) \in DOMAIN Modules
                            /\ Modules[R!ID(ModuleOf(n))].module = ModuleOf(n)
  BY <1>5 DEF RequireInv, ModNodes, OneNodePerModule, R!OneNodePerModule
<1> QED BY <1>1, <1>2, <1>3, <1>4, <1>5, <1>6 DEF R!ID

\* What is stored for the module of a package.
LEMMA RequiredByStored ==
  ASSUME ResultInv, RequireInv, phase = "done",
         NEW n \in DOMAIN Packages, ModuleOf(n) # None
  PROVE  Modules[R!ID(ModuleOf(n))].RequiredBy =
           {R!ID(ModuleOf(q)) : q \in UNION {Packages[x].importedBy :
              x \in {r \in DOMAIN Packages : ModuleOf(r) = ModuleOf(n)}}} \ {R!ID(ModuleOf(n))}
<1> DEFINE id == R!ID(ModuleOf(n))
<1>1. Handled = DOMAIN Packages /\ pkgModule[n] = id /\ id \in DOMAIN Modules
  BY ModuleIDs, Arms
<1>2. id \in DOMAIN modPred
  BY <1>1 DEF RequireInv, Relation
<1>3. Modules[id].RequiredBy = modPred[id]
  BY <1>1, <1>2 DEF RequireInv, ModResults
<1>4. modPred[id] = {R!ID(ModuleOf(q)) :
        q \in UNION {Looked(x) : x \in {r \in Handled : pkgModule[r] = id}}} \ {id}
  BY <1>2 DEF RequireInv, Relation
<1>5. \A r \in DOMAIN Packages : pkgModule[r] = id <=> ModuleOf(r) = ModuleOf(n)
  <2> SUFFICES ASSUME NEW r \in DOMAIN Packages
               PROVE  pkgModule[r] = id <=> ModuleOf(r) = ModuleOf(n)
    OBVIOUS
  <2>1. /\ pkgModule[r] = R!ID(ModuleOf(r))
        /\ ModuleOf(r) = None => R!ID(ModuleOf(r)) = 0
        /\ ModuleOf(r) # None => Modules[R!ID(ModuleOf(r))].module = ModuleOf(r)
    BY ModuleIDs
  <2>2. id # 0 /\ Modules[id].module = ModuleOf(n)
    BY ModuleIDs
  <2> QED BY <2>1, <2>2
<1>6. {r \in Handled : pkgModule[r] = id} = {r \in DOMAIN Packages : ModuleOf(r) = ModuleOf(n)}
  BY <1>1, <1>5
<1>7. \A x \in DOMAIN Packages : Looked(x) = Packages[x].importedBy
  BY ModuleIDs
<1>8. UNION {Looked(x) : x \in {r \in Handled : pkgModule[r] = id}} =
      UNION {Packages[x].importedBy :
               x \in {r \in DOMAIN Packages : ModuleOf(r) = ModuleOf(n)}}
  BY <1>6, <1>7
<1> QED BY <1>3, <1>4, <1>8

LEMMA RequiredBySlice == ResultInv /\ RequireInv => RequiredByExact
<1> SUFFICES ASSUME ResultInv, RequireInv, phase = "done",
                    NEW p \in Package, OnSlice(p), module[p] # None
             PROVE  Modules[modNodeIDs[module[p]]].RequiredBy =
                      {R!ID(module[q]) : q \in {s \in Package :
                        OnSlice(s) /\ module[s] # module[p]
                        /\ \E r \in imports[s] : OnSlice(r) /\ module[r] = module[p]}}
  BY DEF RequiredByExact
<1> DEFINE n == analyzed[p]
           id == R!ID(ModuleOf(n))
           Exact == {s \in Package : OnSlice(s) /\ module[s] # module[p]
                       /\ \E r \in imports[s] : OnSlice(r) /\ module[r] = module[p]}
           Above == UNION {Packages[x].importedBy :
                       x \in {r \in DOMAIN Packages : ModuleOf(r) = ModuleOf(n)}}
<1>1. n \in DOMAIN Packages /\ ModuleOf(n) = module[p]
  BY Correspond
<1>2. id = modNodeIDs[module[p]]
  BY <1>1, ModuleIDs
<1>3. Modules[id].RequiredBy = {R!ID(ModuleOf(q)) : q \in Above} \ {id}
  BY <1>1, RequiredByStored
<1>4. ImportedByExact /\ imports \in [Package -> SUBSET Package]
  BY DEF ResultInv, SliceInv, TypeOK
<1>5. ASSUME NEW q \in Above, R!ID(ModuleOf(q)) # id
      PROVE  \E s \in Exact : R!ID(module[s]) = R!ID(ModuleOf(q))
  <2>1. PICK x \in DOMAIN Packages : ModuleOf(x) = module[p] /\ q \in Packages[x].importedBy
    BY <1>1, <1>5
  <2>2. PICK s \in Package : OnSlice(s) /\ Packages[x].pkg \in imports[s] /\ q = analyzed[s]
    BY <1>4, <2>1 DEF ImportedByExact
  <2>3. ModuleOf(q) = module[s] /\ module[s] # module[p]
    BY <1>1, <1>5, <2>2, Correspond
  <2>4. OnSlice(Packages[x].pkg) /\ module[Packages[x].pkg] = module[p]
    BY <2>1, Correspond DEF ModuleOf
  <2>5. s \in Exact
    BY <2>2, <2>3, <2>4
  <2> QED BY <2>3, <2>5
<1>6. ASSUME NEW s \in Exact
      PROVE  \E q \in Above : R!ID(ModuleOf(q)) = R!ID(module[s]) /\ R!ID(ModuleOf(q)) # id
  <2>1. PICK r \in Package : r \in imports[s] /\ OnSlice(r) /\ module[r] = module[p]
    BY <1>4
  <2>2. /\ analyzed[r] \in DOMAIN Packages /\ ModuleOf(analyzed[r]) = ModuleOf(n)
        /\ Packages[analyzed[r]].pkg = r
    BY <1>1, <2>1, Correspond DEF ResultInv, Nodes
  <2>3. analyzed[s] \in Packages[analyzed[r]].importedBy
    BY <1>4, <2>1, <2>2 DEF ImportedByExact
  <2>4. analyzed[s] \in Above
    BY <2>2, <2>3
  <2>5. analyzed[s] \in DOMAIN Packages /\ ModuleOf(analyzed[s]) = module[s]
    BY Correspond
  <2>6. R!ID(module[s]) # id
    <3>1. /\ module[s] = None => R!ID(module[s]) = 0
          /\ module[s] # None => Modules[R!ID(module[s])].module = module[s]
      BY <2>5, ModuleIDs
    <3>2. id # 0 /\ Modules[id].module = module[p]
      BY <1>1, ModuleIDs
    <3> QED BY <3>1, <3>2
  <2> QED BY <2>4, <2>5, <2>6
<1> HIDE DEF Exact, Above, id
<1>7. {R!ID(ModuleOf(q)) : q \in Above} \ {id} = {R!ID(module[s]) : s \in Exact}
  BY <1>5, <1>6
<1> QED BY <1>2, <1>3, <1>7 DEF Exact

(***************************************************************************)
(* RequiredBy names the other modules with a package on the slice that     *)
(* imports one of the module's: all of them, no other, and not itself.     *)
(***************************************************************************)
THEOREM RequiredByCorrect == SourceSpec => []RequiredByExact
BY RequiredBySlice, RequireInvCorrect, PTL

-----------------------------------------------------------------------------
(* The chain of modules.                                                   *)

\* The Vulns have a module.
LEMMA SinksHaveModules ==
  ASSUME ResultInv, RequireInv, phase # "imports", NEW v \in Vulns
  PROVE  v.sink \in DOMAIN Packages /\ ModuleOf(v.sink) # None
<1>1. module # <<>> /\ R!Loaded
  BY DEF RequireInv, Inputs
<1>2. v.sink \in DOMAIN Packages
  BY <1>1, Given
<1>3. [i \in DOMAIN Packages |-> module[Packages[i].pkg]][v.sink] # None
  BY <1>1 DEF R!Loaded
<1> QED BY <1>2, <1>3 DEF ModuleOf

\* Following RequiredBy from the module of a package on the slice leads to the
\* module of an entry: the nodes whose modules it reaches are closed under
\* ImportedBy.  Without modules there are two identifiers, and a set with
\* both has all packages.
LEMMA ModuleTraced ==
  ASSUME ResultInv, RequireInv, phase = "done",
         NEW s \in DOMAIN Packages, ModuleOf(s) # None, LeadsToEntry(s)
  PROVE  LeadsToModEntry(R!ID(ModuleOf(s)))
<1> SUFFICES ASSUME NEW S \in SUBSET (0 .. modID), R!ID(ModuleOf(s)) \in S,
                    \A n \in S \ {0} : Modules[n].RequiredBy \subseteq S
             PROVE  S \cap DOMAIN ModEntries # {}
  BY DEF LeadsToModEntry
<1> DEFINE T == {n \in DOMAIN Packages : R!ID(ModuleOf(n)) \in S}
<1>1. s \in T
  OBVIOUS
<1>2. ASSUME NEW n \in T, NEW q \in Packages[n].importedBy PROVE q \in T
  <2>1. n \in DOMAIN Packages /\ q \in DOMAIN Packages
    BY Given DEF RequireInv, Inputs
  <2>2. CASE ModuleOf(n) # None
    <3> DEFINE id == R!ID(ModuleOf(n))
    <3>1. id # 0
      BY <2>1, <2>2, ModuleIDs
    <3>2. Modules[id].RequiredBy \subseteq S
      BY <3>1
    <3>3. R!ID(ModuleOf(q)) = id \/ R!ID(ModuleOf(q)) \in Modules[id].RequiredBy
      BY <2>1, <2>2, RequiredByStored
    <3> QED BY <2>1, <3>2, <3>3
  <2>3. CASE ModuleOf(n) = None
    <3>1. None = [i \in DOMAIN Packages |-> module[Packages[i].pkg]][n]
      BY <2>1, <2>3 DEF ModuleOf
    <3>2. R!Range([i \in DOMAIN Packages |-> module[Packages[i].pkg]]) \subseteq {Std, None}
      BY <2>1, <3>1 DEF RequireInv, Inputs, R!Loaded, R!ModuleMode, R!Range
    <3>3. \A i \in DOMAIN Packages : ModuleOf(i) \in {Std, None}
      BY <3>2 DEF R!Range, ModuleOf
    <3>4. ModuleOf(s) = Std /\ R!ID(None) = 0 /\ R!ID(ModuleOf(n)) \in S
      BY <2>1, <3>3 DEF R!ID
    <3>5. ModuleOf(q) \in {Std, None}
      BY <2>1, <3>3
    <3>6. R!ID(ModuleOf(q)) \in S
      BY <2>3, <3>4, <3>5
    <3> QED BY <2>1, <3>6
  <2> QED BY <2>2, <2>3
<1>3. T \cap Entries # {}
  BY <1>1, <1>2 DEF LeadsToEntry
<1>4. PICK e \in Entries : R!ID(ModuleOf(e)) \in S
  BY <1>3
<1>5. R!ID(ModuleOf(e)) \in DOMAIN ModEntries
  BY Arms DEF RequireInv, ModResults
<1> QED BY <1>4, <1>5

LEMMA ModulesSlice == ResultInv /\ RequireInv => ModulesTraced
<1> SUFFICES ASSUME ResultInv, RequireInv PROVE ModulesTraced
  OBVIOUS
<1>1. ASSUME phase = "vulns" PROVE R!SinksHaveNodes
  <2> SUFFICES ASSUME NEW v \in Vulns PROVE pkgModule[v.sink] \in DOMAIN Modules
    BY DEF R!SinksHaveNodes
  <2> QED BY <1>1, SinksHaveModules, ModuleIDs
<1>2. ASSUME phase = "done", NEW v \in Vulns
      PROVE  /\ RequireSink[v.sink] = R!ID(ModuleOf(v.sink))
             /\ Modules[RequireSink[v.sink]].module = ModuleOf(v.sink)
             /\ v.sink \in DOMAIN Packages /\ ModuleOf(v.sink) # None
  <2>1. RequireSink[v.sink] = pkgModule[v.sink]
    BY <1>2 DEF RequireInv, ModResults
  <2> QED BY <1>2, <2>1, SinksHaveModules, ModuleIDs
<1>3. phase = "done" => Done
  BY DEF RequireInv, Inputs
<1>4. ASSUME phase = "done", NEW p \in vulnerable, Loaded(p)
      PROVE  \E v \in Vulns : v.pkg = p /\ Modules[RequireSink[v.sink]].module = module[p]
  <2>1. PICK v \in Vulns : v.pkg = p
    BY <1>3, <1>4, ResultInvTraced DEF VulnsTraced
  <2>2. Packages[v.sink].pkg = p
    BY <1>3, <1>4, <2>1, ResultInvTraced DEF VulnsTraced
  <2> QED BY <1>2, <1>4, <2>1, <2>2 DEF ModuleOf
<1>5. ASSUME phase = "done", NEW v \in Vulns PROVE LeadsToModEntry(RequireSink[v.sink])
  <2>1. LeadsToEntry(v.sink)
    BY <1>3, <1>5, ResultInvTraced DEF VulnsTraced
  <2> QED BY <1>2, <1>5, <2>1, ModuleTraced
<1>6. ASSUME phase = "done"
      PROVE  DOMAIN ModEntries = {R!ID(module[p]) : p \in {q \in tops : LeadsToVuln(q)}}
  <2> DEFINE Q == {q \in tops : LeadsToVuln(q)}
  <2>1. Q \subseteq Package
    BY DEF ResultInv, SliceInv, TypeOK
  <2>2. \A p \in Q : OnSlice(p)
    BY <1>3, <1>6, <2>1, DoneFinished, SliceInvExact DEF SliceExact, ResultInv
  <2>3. Entries = {analyzed[p] : p \in Q}
    BY <1>3, <1>6, ResultInvEntries DEF EntriesExact
  <2>4. \A p \in Q : ModuleOf(analyzed[p]) = module[p]
    BY <2>1, <2>2, Correspond
  <2>5. DOMAIN ModEntries = {R!ID(ModuleOf(e)) : e \in Entries}
    BY <1>6, Arms DEF RequireInv, ModResults
  <2> HIDE DEF Q
  <2>6. DOMAIN ModEntries = {R!ID(module[p]) : p \in Q}
    BY <2>3, <2>4, <2>5
  <2> QED BY <2>6 DEF Q
<1>7. \A id \in DOMAIN ModEntries : ModEntries[id] = 1
  BY DEF RequireInv, ModResults
<1> QED BY <1>1, <1>4, <1>5, <1>6, <1>7 DEF ModulesTraced

(***************************************************************************)
(* Every vulnerable package that is loaded is reported with its module,    *)
(* the module leads over RequiredBy to that of a top level package, also   *)
(* where modules require each other, and the entries are these, each once. *)
(***************************************************************************)
THEOREM ModulesCorrect == SourceSpec => []ModulesTraced
BY ModulesSlice, RequireInvCorrect, PTL
=============================================================================
