------------------------- MODULE VersionRange_proof -------------------------
(***************************************************************************)
(* Proofs about VersionRange: the walk over the sorted events finds a      *)
(* version to be affected exactly if it lies in a range, and the fix that  *)
(* is reported helps.                                                      *)
(***************************************************************************)
EXTENDS StdVersion, FiniteSetTheorems, WellFoundedInduction,
        SequenceTheorems, TLAPS

RangeType == [Type : {"SEMVER", "OTHER"}, Events : Seq(Event)]

-----------------------------------------------------------------------------
(* The positions of events and the order of the sort.                      *)

\* An event has a place on the line of versions.
LEMMA Places ==
  ASSUME NEW e \in Event
  PROVE  /\ e.Introduced \in Nat /\ e.Fixed \in Nat
         /\ at(e) \in Nat /\ pos(e) \in Nat
         /\ e.Introduced # Zero => pos(e) = at(e)
         /\ e.Introduced = Zero => pos(e) = 0
         /\ e.Introduced = 0 => pos(e) = e.Fixed
         /\ e.Fixed = 0 => pos(e) = (IF e.Introduced = Zero THEN 0 ELSE e.Introduced)
<1>1. e.Introduced \in Nat /\ e.Fixed \in Nat
  <2>1. e.Introduced \in Version \cup {0, Zero} /\ e.Fixed \in Version \cup {0}
    BY DEF Event
  <2>2. \A x \in Version \cup {0, Zero} : x \in Nat
    BY VersionAssumption
  <2> QED BY <2>1, <2>2
<1>2. CASE e.Introduced = Zero
  BY <1>1, <1>2, VersionAssumption DEF at, pos
<1>3. CASE e.Introduced # Zero
  <2>1. pos(e) = at(e)
    BY <1>3 DEF pos
  <2>2. CASE e.Fixed = 0
    BY <1>1, <1>3, <2>1, <2>2 DEF at
  <2>3. CASE e.Fixed # 0
    BY <1>1, <1>3, <2>1, <2>3 DEF at
  <2> QED BY <2>2, <2>3
<1> QED BY <1>2, <1>3

\* The comparison of the sort is that of the places, where these differ.
LEMMA LessIsBefore ==
  ASSUME NEW d \in Event, NEW e \in Event, pos(d) # pos(e)
  PROVE  less(d, e) <=> pos(d) < pos(e)
<1>1. CASE d.Introduced = Zero
  BY <1>1, Places DEF less
<1>2. CASE d.Introduced # Zero /\ e.Introduced = Zero
  BY <1>2, Places DEF less
<1>3. CASE d.Introduced # Zero /\ e.Introduced # Zero
  BY <1>3, Places DEF less
<1> QED BY <1>1, <1>2, <1>3

-----------------------------------------------------------------------------
(* Moving an event down.                                                   *)

\* Where the element n of MoveBefore(s, i, j) comes from, and where the
\* element m of s goes.
Source(n, i, j) == IF n = j THEN i ELSE IF n > j /\ n <= i THEN n - 1 ELSE n
Target(m, i, j) == IF m = i THEN j ELSE IF m >= j /\ m < i THEN m + 1 ELSE m

\* The one is the inverse of the other.
LEMMA SourceTarget ==
  ASSUME NEW l \in Nat, NEW i \in 1 .. l, NEW j \in 1 .. i, NEW n \in 1 .. l
  PROVE  /\ Source(n, i, j) \in 1 .. l /\ Target(n, i, j) \in 1 .. l
         /\ Source(Target(n, i, j), i, j) = n
         /\ Target(Source(n, i, j), i, j) = n
BY DEF Source, Target

\* A moved element leaves a sequence of the same elements.
LEMMA Moved ==
  ASSUME NEW s \in Seq(Event), NEW i \in 1 .. Len(s), NEW j \in 1 .. i,
         NEW t, t = MoveBefore(s, i, j)
  PROVE  /\ t \in Seq(Event) /\ Len(t) = Len(s) /\ DOMAIN t = 1 .. Len(s)
         /\ DOMAIN s = 1 .. Len(s)
         /\ \A n \in 1 .. Len(s) : t[n] = s[Source(n, i, j)]
         /\ \A n \in 1 .. Len(s) : s[n] = t[Target(n, i, j)]
<1>1. DOMAIN s = 1 .. Len(s) /\ Len(s) \in Nat /\ \A n \in 1 .. Len(s) : s[n] \in Event
  OBVIOUS
<1>2. t = [n \in 1 .. Len(s) |-> s[Source(n, i, j)]]
  <2>1. ASSUME NEW n \in 1 .. Len(s)
        PROVE  (IF n = j THEN s[i] ELSE IF n > j /\ n <= i THEN s[n - 1] ELSE s[n])
                 = s[Source(n, i, j)]
    BY DEF Source
  <2> QED BY <1>1, <2>1 DEF MoveBefore
<1>3. \A n \in 1 .. Len(s) : s[Source(n, i, j)] \in Event
  BY <1>1, SourceTarget
<1>4. t \in Seq(Event) /\ Len(t) = Len(s) /\ DOMAIN t = 1 .. Len(s)
  <2>1. t \in [1 .. Len(s) -> Event]
    BY <1>2, <1>3
  <2> QED BY <1>1, <2>1
<1>5. ASSUME NEW n \in 1 .. Len(s)
      PROVE  s[n] = t[Target(n, i, j)]
  <2>1. /\ Target(n, i, j) \in 1 .. Len(s)
        /\ Source(Target(n, i, j), i, j) = n
    BY <1>1, SourceTarget
  <2> QED BY <1>2, <2>1
<1> QED BY <1>1, <1>2, <1>4, <1>5

\* So the range has the same events, and is as well formed as before.
LEMMA MovedRange ==
  ASSUME NEW old \in RangeType, NEW i \in 1 .. Len(old.Events), NEW j \in 1 .. i,
         NEW moved \in RangeType, moved.Events = MoveBefore(old.Events, i, j)
  PROVE  /\ EventSet(moved) = EventSet(old)
         /\ WellFormed(moved) <=> WellFormed(old)
<1> DEFINE s == old.Events
           t == moved.Events
           src(n) == Source(n, i, j)
           tgt(n) == Target(n, i, j)
<1>0. s \in Seq(Event) /\ Len(s) \in Nat
  BY DEF RangeType
<1>1. /\ DOMAIN t = 1 .. Len(s) /\ DOMAIN s = 1 .. Len(s)
      /\ \A n \in 1 .. Len(s) : t[n] = s[src(n)]
      /\ \A n \in 1 .. Len(s) : s[n] = t[tgt(n)]
  BY <1>0, Moved
<1>2. \A n \in 1 .. Len(s) :
        /\ src(n) \in 1 .. Len(s) /\ tgt(n) \in 1 .. Len(s)
        /\ src(tgt(n)) = n /\ tgt(src(n)) = n
  BY <1>0, SourceTarget
<1> HIDE DEF src, tgt
<1>3. EventSet(moved) = EventSet(old)
  <2>1. EventSet(moved) = {t[n] : n \in 1 .. Len(s)}
    BY <1>1 DEF EventSet
  <2>2. EventSet(old) = {s[n] : n \in 1 .. Len(s)}
    BY <1>1 DEF EventSet
  <2> HIDE DEF s, t
  <2> QED BY <1>1, <1>2, <2>1, <2>2
<1>4. ASSUME NEW p \in 1 .. Len(s), NEW q \in 1 .. Len(s), p # q
      PROVE  src(p) # src(q) /\ tgt(p) # tgt(q)
  BY <1>2, <1>4
<1>5. ASSUME WellFormed(old) PROVE WellFormed(moved)
  <2>1. \A e \in EventSet(moved) : (e.Introduced = 0) # (e.Fixed = 0)
    BY <1>3, <1>5 DEF WellFormed
  <2>2. \A p, q \in 1 .. Len(s) : p # q => pos(s[p]) # pos(s[q])
    BY <1>1, <1>5 DEF WellFormed
  <2>3. ASSUME NEW p \in 1 .. Len(s), NEW q \in 1 .. Len(s), p # q
        PROVE  pos(t[p]) # pos(t[q])
    <3>1. t[p] = s[src(p)] /\ t[q] = s[src(q)]
      BY <1>1
    <3>2. src(p) \in 1 .. Len(s) /\ src(q) \in 1 .. Len(s) /\ src(p) # src(q)
      BY <1>2, <1>4, <2>3
    <3> HIDE DEF s, t
    <3> QED BY <2>2, <3>1, <3>2
  <2> QED BY <1>1, <2>1, <2>3 DEF WellFormed
<1>6. ASSUME WellFormed(moved) PROVE WellFormed(old)
  <2>1. \A e \in EventSet(old) : (e.Introduced = 0) # (e.Fixed = 0)
    BY <1>3, <1>6 DEF WellFormed
  <2>2. \A p, q \in 1 .. Len(s) : p # q => pos(t[p]) # pos(t[q])
    BY <1>1, <1>6 DEF WellFormed
  <2>3. ASSUME NEW p \in 1 .. Len(s), NEW q \in 1 .. Len(s), p # q
        PROVE  pos(s[p]) # pos(s[q])
    <3>1. s[p] = t[tgt(p)] /\ s[q] = t[tgt(q)]
      BY <1>1
    <3>2. tgt(p) \in 1 .. Len(s) /\ tgt(q) \in 1 .. Len(s) /\ tgt(p) # tgt(q)
      BY <1>2, <1>4, <2>3
    <3> HIDE DEF s, t
    <3> QED BY <2>2, <3>1, <3>2
  <2> QED BY <1>1, <2>1, <2>3 DEF WellFormed
<1> QED BY <1>3, <1>5, <1>6

\* An insertion among the first n - 1 events, which are in order, leaves the
\* first n in order.
LEMMA InsertionOrders ==
  ASSUME NEW s \in Seq(Event), NEW n \in 1 .. Len(s), NEW j \in 1 .. n,
         \A a, b \in 1 .. Len(s) : a # b => pos(s[a]) # pos(s[b]),
         \A a, b \in 1 .. n - 1 : a < b => pos(s[a]) < pos(s[b]),
         \A a \in j .. n - 1 : less(s[n], s[a]),
         j > 1 => ~less(s[n], s[j - 1]),
         NEW t, t = MoveBefore(s, n, j)
  PROVE  \A a, b \in 1 .. n : a < b => pos(t[a]) < pos(t[b])
<1>1. /\ Len(s) \in Nat
      /\ \A a \in 1 .. Len(s) : s[a] \in Event /\ pos(s[a]) \in Nat
  <2>1. Len(s) \in Nat /\ \A a \in 1 .. Len(s) : s[a] \in Event
    OBVIOUS
  <2> QED BY <2>1, Places
<1>2. \A a \in 1 .. n : t[a] = s[Source(a, n, j)]
  BY Moved
<1>3. ASSUME NEW a \in j .. n - 1 PROVE pos(s[n]) < pos(s[a])
  <2>1. a \in 1 .. Len(s) /\ n \in 1 .. Len(s) /\ a # n
    BY <1>1
  <2>2. pos(s[n]) # pos(s[a]) /\ less(s[n], s[a])
    BY <2>1
  <2> QED BY <1>1, <2>1, <2>2, LessIsBefore
<1>4. ASSUME NEW a \in 1 .. j - 1 PROVE pos(s[a]) < pos(s[n])
  <2>1. j - 1 \in 1 .. Len(s) /\ n \in 1 .. Len(s) /\ j - 1 # n /\ j > 1 /\ a \in 1 .. Len(s)
    BY <1>1
  <2>2. pos(s[n]) # pos(s[j - 1]) /\ ~less(s[n], s[j - 1])
    BY <2>1
  <2>3. pos(s[j - 1]) < pos(s[n])
    BY <1>1, <2>1, <2>2, LessIsBefore
  <2>4. a = j - 1 \/ pos(s[a]) < pos(s[j - 1])
    BY <2>1
  <2> QED BY <1>1, <2>1, <2>3, <2>4
<1>5. ASSUME NEW a \in 1 .. n, NEW b \in 1 .. n, a < b
      PROVE  pos(t[a]) < pos(t[b])
  <2>1. CASE a = j
    <3>1. t[a] = s[n] /\ t[b] = s[b - 1] /\ b - 1 \in j .. n - 1
      BY <1>2, <1>5, <2>1 DEF Source
    <3> QED BY <1>3, <3>1
  <2>2. CASE b = j
    <3>1. t[b] = s[n] /\ t[a] = s[a] /\ a \in 1 .. j - 1
      BY <1>2, <1>5, <2>2 DEF Source
    <3> QED BY <1>4, <3>1
  <2>3. CASE a # j /\ b # j
    <3>1. /\ Source(a, n, j) \in 1 .. n - 1 /\ Source(b, n, j) \in 1 .. n - 1
          /\ Source(a, n, j) < Source(b, n, j)
      BY <1>5, <2>3 DEF Source
    <3> QED BY <1>2, <3>1
  <2> QED BY <2>1, <2>2, <2>3
<1> QED BY <1>5

-----------------------------------------------------------------------------
(* What the inductive invariant says of the current range.                 *)

\* The ranges and their events have their types.
LEMMA RangeTypes ==
  ASSUME NEW rs \in Seq(RangeType), NEW i \in DOMAIN rs
  PROVE  /\ Len(rs) \in Nat /\ DOMAIN rs = 1 .. Len(rs) /\ i \in Nat \ {0}
         /\ rs[i] \in RangeType /\ rs[i].Events \in Seq(Event)
         /\ Len(rs[i].Events) \in Nat
         /\ DOMAIN rs[i].Events = 1 .. Len(rs[i].Events)
         /\ \A n \in 1 .. Len(rs[i].Events) :
              /\ rs[i].Events[n] \in Event /\ rs[i].Events[n] \in EventSet(rs[i])
              /\ pos(rs[i].Events[n]) \in Nat
<1>1. rs[i] \in RangeType /\ DOMAIN rs = 1 .. Len(rs) /\ Len(rs) \in Nat
  OBVIOUS
<1>2. rs[i].Events \in Seq(Event)
  BY <1>1 DEF RangeType
<1>3. /\ DOMAIN rs[i].Events = 1 .. Len(rs[i].Events)
      /\ \A n \in 1 .. Len(rs[i].Events) : rs[i].Events[n] \in Event
      /\ Len(rs[i].Events) \in Nat
  BY <1>2
<1>4. ASSUME NEW n \in 1 .. Len(rs[i].Events)
      PROVE  /\ rs[i].Events[n] \in EventSet(rs[i])
             /\ pos(rs[i].Events[n]) \in Nat
  BY <1>3, Places DEF EventSet
<1>5. i \in Nat \ {0}
  BY <1>1
<1> QED BY <1>1, <1>2, <1>3, <1>4, <1>5

\* The lists that are given have the type of the list that is sorted.
LEMMA GivenType ==
  ASSUME given \in RangeLists
  PROVE  given \in Seq(RangeType)
BY RangesAssumption DEF RangeType

\* In a well-formed range an event is an introduction at its place or a fix
\* at its place.
LEMMA OneField ==
  ASSUME NEW rg \in RangeType, WellFormed(rg), NEW e \in EventSet(rg), e \in Event
  PROVE  /\ pos(e) \in Nat /\ e.Introduced \in Nat /\ e.Fixed \in Nat
         /\ e.Introduced = 0 => e.Fixed # 0 /\ pos(e) = e.Fixed
         /\ e.Introduced # 0 => e.Fixed = 0
         /\ e.Introduced = Zero => pos(e) = 0
         /\ e.Introduced # 0 /\ e.Introduced # Zero => pos(e) = e.Introduced
<1>1. (e.Introduced = 0) # (e.Fixed = 0)
  BY DEF WellFormed
<1> QED BY <1>1, Places

\* At the end of the walk the first events are all events.
LEMMA AllEvents ==
  ASSUME NEW rg \in RangeType, rg = ranges[r]
  PROVE  InFirst(Len(rg.Events)) <=> In(v, rg)
<1> DEFINE s == rg.Events
<1>1. s \in Seq(Event) /\ DOMAIN s = 1 .. Len(s) /\ events = s
  BY DEF RangeType, events
<1>2. EventSet(rg) = {s[n] : n \in 1 .. Len(s)}
  BY <1>1 DEF EventSet
<1> HIDE DEF s
<1> QED BY <1>1, <1>2 DEF InFirst, In, s

\* Membership is a matter of the set of events.
LEMMA InOfSet ==
  ASSUME NEW x, NEW rg, NEW rh, EventSet(rg) = EventSet(rh)
  PROVE  In(x, rg) <=> In(x, rh)
BY DEF In

\* So is being empty.
LEMMA EmptyOfSet ==
  ASSUME NEW rg \in RangeType, NEW rh \in RangeType, EventSet(rg) = EventSet(rh)
  PROVE  rg.Events = <<>> <=> rh.Events = <<>>
<1>1. ASSUME NEW x \in RangeType PROVE x.Events = <<>> <=> EventSet(x) = {}
  <2>1. x.Events \in Seq(Event)
    BY DEF RangeType
  <2>2. DOMAIN x.Events = 1 .. Len(x.Events)
    BY <2>1
  <2>3. Len(x.Events) \in Nat /\ (x.Events = <<>> <=> Len(x.Events) = 0)
    BY <2>1, EmptySeq
  <2>4. CASE Len(x.Events) = 0
    BY <2>2, <2>3, <2>4 DEF EventSet
  <2>5. CASE Len(x.Events) # 0
    <3>1. x.Events[1] \in EventSet(x)
      BY <2>2, <2>3, <2>5 DEF EventSet
    <3> QED BY <2>3, <2>5, <3>1
  <2> QED BY <2>4, <2>5
<1> QED BY <1>1

-----------------------------------------------------------------------------
(* Init and the steps.                                                     *)

LEMMA InitInv == Init => RangeInv
<1> SUFFICES ASSUME Init PROVE RangeInv
  OBVIOUS
<1>0. given \in Seq(RangeType)
  BY GivenType DEF Init
<1>1. TypeOK
  <2>1. ranges \in Seq(RangeType)
    BY <1>0 DEF Init
  <2>2. ranges \in Seq([Type : {"SEMVER", "OTHER"}, Events : Seq(Event)])
    BY <2>1 DEF RangeType
  <2>3. given \in RangeLists /\ v \in Version \cup {0}
    BY DEF Init
  <2>4. phase \in {"range", "sort", "walk", "done"} /\ r \in Nat \ {0} /\ k \in Nat \ {0}
    BY DEF Init
  <2>5. affected \in BOOLEAN /\ semverRangePresent \in BOOLEAN /\ answer \in BOOLEAN
    BY DEF Init
  <2> QED BY <2>2, <2>3, <2>4, <2>5 DEF TypeOK
<1>2. Permuted
  BY DEF Init, Permuted
<1>3. Looking /\ AffectsExact
  BY DEF Init, Looking, AffectsExact
<1>4. Passed
  BY <1>0 DEF Init, Passed, PassedBy, Counted
<1> QED BY <1>1, <1>2, <1>3, <1>4 DEF RangeInv

\* A step that sorts nothing leaves the events as they are.
LEMMA PermutedKept ==
  ASSUME Permuted, UNCHANGED <<ranges, given>>
  PROVE  Permuted'
BY DEF Permuted

\* The loop over the ranges goes on after range n.
LEMMA GoesOn ==
  ASSUME UNCHANGED <<given, v, semverRangePresent>>, Len(given) \in Nat,
         NEW n \in Nat, n <= Len(given), PassedBy(n), Counted(n),
         phase' = "range", r' = n + 1
  PROVE  Passed'
<1>1. (r - 1)' = n /\ (r <= Len(given) + 1)'
  OBVIOUS
<1>2. PassedBy(n)' /\ Counted(n)'
  BY DEF PassedBy, Counted
<1>3. PassedBy(r - 1)'
  BY <1>1, <1>2
<1>4. Counted(r - 1)'
  BY <1>1, <1>2
<1>5. Counted(IF phase = "range" THEN r - 1 ELSE r)'
  BY <1>4
<1> QED BY <1>1, <1>3, <1>5 DEF Passed

LEMMA StepOtherType ==
  ASSUME RangeInv, OtherType
  PROVE  RangeInv'
<1> USE DEF RangeInv
<1>0. given \in Seq(RangeType) /\ ranges \in Seq(RangeType)
  BY GivenType DEF TypeOK, RangeType
<1>1. TypeOK'
  BY DEF OtherType, input, TypeOK
<1>2. Permuted'
  BY PermutedKept DEF OtherType, input
<1>3. Looking' /\ AffectsExact'
  BY DEF OtherType, input, Looking, AffectsExact
<1>4. r \in 1 .. Len(given) /\ given[r].Type # "SEMVER" /\ r' = r + 1 /\ r \in Nat
  BY <1>0 DEF OtherType, Permuted, TypeOK
<1>5. PassedBy(r) /\ Counted(r)
  <2>1. PassedBy(r - 1) /\ Counted(r - 1)
    BY DEF OtherType, Passed
  <2>2. \A i \in 1 .. r : i \in 1 .. r - 1 \/ i = r
    BY <1>4
  <2>3. \A i \in 1 .. r - 1 : i \in 1 .. r
    BY <1>4
  <2> QED BY <1>4, <2>1, <2>2, <2>3 DEF PassedBy, Counted
<1>6. Passed'
  <2>1. UNCHANGED <<given, v, semverRangePresent>> /\ phase' = "range"
    BY DEF OtherType, input
  <2> QED BY <1>0, <1>4, <1>5, <2>1, GoesOn
<1> QED BY <1>1, <1>2, <1>3, <1>6

LEMMA StepNoneContains ==
  ASSUME RangeInv, NoneContains
  PROVE  RangeInv'
<1> USE DEF RangeInv
<1>0. given \in Seq(RangeType) /\ ranges \in Seq(RangeType)
  BY GivenType DEF TypeOK, RangeType
<1>1. TypeOK'
  BY DEF NoneContains, Answer, input, TypeOK
<1>2. Permuted'
  BY PermutedKept DEF NoneContains, Answer, input
<1>3. Looking' /\ Passed'
  BY DEF NoneContains, Answer, Looking, Passed
<1>4. r - 1 = Len(given) /\ PassedBy(Len(given)) /\ Counted(Len(given))
  <2>1. r <= Len(given) + 1 /\ PassedBy(r - 1) /\ Counted(r - 1)
    BY DEF NoneContains, Passed
  <2>2. r > Len(ranges) /\ Len(ranges) = Len(given) /\ Len(given) \in Nat
    BY <1>0 DEF NoneContains, Permuted
  <2>3. r - 1 = Len(given)
    BY <2>1, <2>2 DEF TypeOK
  <2> QED BY <2>1, <2>3
<1>5. AllWellFormed => (~semverRangePresent <=> AffectedBy(v, given))
  <2>1. SemverRanges(given) = {given[i] : i \in {n \in 1 .. Len(given) : given[n].Type = "SEMVER"}}
    BY <1>0 DEF SemverRanges
  <2>2. semverRangePresent <=> SemverRanges(given) # {}
    BY <1>4, <2>1 DEF Counted
  <2>3. AllWellFormed => \A rg \in SemverRanges(given) : rg.Events # <<>> /\ ~In(v, rg)
    BY <1>4, <2>1 DEF PassedBy, AllWellFormed
  <2> QED BY <2>2, <2>3 DEF AffectedBy
<1>6. AffectsExact'
  <2>1. given' = given /\ v' = v /\ (answer' <=> ~semverRangePresent)
    BY DEF NoneContains, Answer, input
  <2>2. AllWellFormed' <=> AllWellFormed
    BY <2>1 DEF AllWellFormed
  <2>3. AffectedBy(v, given)' <=> AffectedBy(v, given)
    BY <2>1
  <2> QED BY <1>5, <2>1, <2>2, <2>3 DEF AffectsExact
<1> QED BY <1>1, <1>2, <1>3, <1>6

\* The version is found to be in the current range.
LEMMA Found ==
  ASSUME UNCHANGED <<given, v>>, AllWellFormed => AffectedBy(v, given),
         answer' = TRUE
  PROVE  AffectsExact'
<1>1. AllWellFormed' <=> AllWellFormed
  BY DEF AllWellFormed
<1>2. AffectedBy(v, given)' <=> AffectedBy(v, given)
  OBVIOUS
<1> QED BY <1>1, <1>2 DEF AffectsExact

LEMMA StepNoEvents ==
  ASSUME RangeInv, NoEvents
  PROVE  RangeInv'
<1> USE DEF RangeInv
<1>0. given \in Seq(RangeType) /\ ranges \in Seq(RangeType)
  BY GivenType DEF TypeOK, RangeType
<1>1. TypeOK'
  BY DEF NoEvents, Answer, input, TypeOK
<1>2. Permuted'
  BY PermutedKept DEF NoEvents, Answer, input
<1>3. Looking' /\ Passed'
  BY DEF NoEvents, Answer, Looking, Passed
<1>4. r \in DOMAIN ranges /\ r \in DOMAIN given
  BY <1>0 DEF NoEvents, Permuted, TypeOK
<1>5. given[r].Type = "SEMVER" /\ given[r].Events = <<>>
  <2>1. ranges[r].Type = "SEMVER" /\ ranges[r].Events = <<>>
    BY DEF NoEvents, events
  <2>2. ranges[r] \in RangeType /\ given[r] \in RangeType
    BY <1>0, <1>4, RangeTypes
  <2>3. ranges[r].Type = given[r].Type /\ EventSet(ranges[r]) = EventSet(given[r])
    BY <1>4 DEF Permuted
  <2> QED BY <2>1, <2>2, <2>3, EmptyOfSet
<1>6. AffectedBy(v, given)
  BY <1>4, <1>5 DEF AffectedBy, SemverRanges
<1>7. UNCHANGED <<given, v>> /\ answer' = TRUE
  BY DEF NoEvents, Answer, input
<1>8. AffectsExact'
  BY <1>6, <1>7, Found
<1> QED BY <1>1, <1>2, <1>3, <1>8

LEMMA StepEnterRange ==
  ASSUME RangeInv, EnterRange
  PROVE  RangeInv'
<1> USE DEF RangeInv
<1>0. given \in Seq(RangeType) /\ ranges \in Seq(RangeType)
  BY GivenType DEF TypeOK, RangeType
<1>1. TypeOK'
  <2>1. /\ UNCHANGED <<ranges, given, v, r, answer>>
        /\ phase' = "sort" /\ k' = 2 /\ affected' = FALSE /\ semverRangePresent' = TRUE
    BY DEF EnterRange, input
  <2>2. affected' \in BOOLEAN
    BY <2>1
  <2>3. semverRangePresent' \in BOOLEAN
    BY <2>1
  <2>4. k' \in Nat \ {0}
    BY <2>1
  <2> QED BY <2>1, <2>2, <2>3, <2>4 DEF TypeOK
<1>2. Permuted'
  BY PermutedKept DEF EnterRange, input
<1>3. r \in DOMAIN ranges /\ r \in 1 .. Len(given) /\ given[r].Type = "SEMVER"
  BY <1>0 DEF EnterRange, Permuted, TypeOK
<1>4. Looking'
  <2>1. events \in Seq(Event) /\ events # <<>>
    BY <1>0, <1>3, RangeTypes DEF EnterRange, events
  <2>2. Len(events) \in Nat /\ Len(events) # 0
    BY <2>1, EmptySeq
  <2>3. UNCHANGED <<ranges, r>> /\ phase' = "sort" /\ k' = 2 /\ affected' = FALSE /\ events' = events
    BY DEF EnterRange, events
  <2>4. Ordered(k - 1)'
    <3>1. (k - 1)' = 1
      BY <2>3
    <3>2. \A i, j \in 1 .. 1 : ~(i < j)
      OBVIOUS
    <3> QED BY <3>1, <3>2 DEF Ordered
  <2> QED BY <1>3, <2>1, <2>2, <2>3, <2>4 DEF Looking, EnterRange
<1>5. Passed'
  <2>1. r <= Len(given) + 1 /\ PassedBy(r - 1)
    BY DEF EnterRange, Passed
  <2>2. UNCHANGED <<given, v, r>> /\ phase' = "sort" /\ semverRangePresent' = TRUE
    BY DEF EnterRange, input
  <2>3. PassedBy(r - 1)'
    BY <2>1, <2>2 DEF PassedBy
  <2>4. Counted(r)'
    <3>1. r \in 1 .. r
      BY DEF TypeOK
    <3> QED BY <1>3, <2>2, <3>1 DEF Counted
  <2>5. Counted(IF phase = "range" THEN r - 1 ELSE r)'
    BY <2>2, <2>4
  <2> QED BY <2>1, <2>2, <2>3, <2>5 DEF Passed
<1>6. AffectsExact'
  BY DEF EnterRange, AffectsExact
<1> QED BY <1>1, <1>2, <1>4, <1>5, <1>6

\* A step within the current range.
LEMMA Stays ==
  ASSUME UNCHANGED <<given, v, r, semverRangePresent>>, Passed,
         phase \in {"sort", "walk"}, phase' \in {"sort", "walk"}
  PROVE  Passed' /\ AffectsExact'
<1>1. r <= Len(given) + 1 /\ PassedBy(r - 1) /\ Counted(r)
  BY DEF Passed
<1>2. PassedBy(r - 1)' /\ Counted(r)'
  BY <1>1 DEF PassedBy, Counted
<1>3. Counted(IF phase = "range" THEN r - 1 ELSE r)'
  BY <1>2
<1> QED BY <1>1, <1>2, <1>3 DEF Passed, AffectsExact

LEMMA StepSorted ==
  ASSUME RangeInv, Sorted
  PROVE  RangeInv'
<1> USE DEF RangeInv
<1>0. ranges \in Seq(RangeType)
  BY DEF TypeOK, RangeType
<1>1. TypeOK'
  BY DEF Sorted, input, TypeOK
<1>2. Permuted'
  BY PermutedKept DEF Sorted, input
<1>3. Passed' /\ AffectsExact'
  BY Stays DEF Sorted, input
<1>4. Looking'
  <2>1. /\ r \in DOMAIN ranges /\ ranges[r].Type = "SEMVER" /\ events # <<>>
        /\ k <= Len(events) + 1 /\ k > Len(events)
        /\ WellFormed(ranges[r]) => Ordered(k - 1) /\ ~affected
    BY DEF Sorted, Looking
  <2>2. Len(events) \in Nat
    BY <1>0, <2>1, RangeTypes DEF events
  <2>3. k - 1 = Len(events)
    BY <2>1, <2>2 DEF TypeOK
  <2>4. UNCHANGED <<ranges, r, affected, events, v>> /\ phase' = "walk" /\ k' = 1
    BY DEF Sorted, events, input
  <2>5. WellFormed(ranges[r])' <=> WellFormed(ranges[r])
    BY <2>4
  <2>6. WellFormed(ranges[r]) => Ordered(Len(events))'
    BY <2>1, <2>3, <2>4 DEF Ordered
  <2>7. ~InFirst(k - 1)'
    BY <2>4 DEF InFirst
  <2>8. (k <= Len(events) + 1)'
    BY <2>2, <2>4
  <2>9. (WellFormed(ranges[r]) => Ordered(Len(events)) /\ (affected <=> InFirst(k - 1)))'
    BY <2>1, <2>4, <2>5, <2>6, <2>7
  <2> QED BY <2>1, <2>4, <2>8, <2>9 DEF Looking
<1> QED BY <1>1, <1>2, <1>3, <1>4

\* A turn of the walk keeps to whether v is in the range as far as the events
\* tell that have been looked at.
LEMMA Turn ==
  ASSUME RangeInv, Walk, WellFormed(ranges[r])
  PROVE  affected' <=> InFirst(k)
<1> DEFINE e == events[k]
           l == Len(events)
<1>1. /\ r \in DOMAIN ranges /\ k \in 1 .. l /\ l \in Nat /\ k \in Nat
      /\ ranges[r] \in RangeType
  <2>1. r \in DOMAIN ranges /\ k <= l /\ k \in Nat \ {0} /\ ranges \in Seq(RangeType)
    BY DEF RangeInv, Looking, Walk, TypeOK, RangeType
  <2> QED BY <2>1, RangeTypes DEF events
<1>2. \A n \in 1 .. l :
        /\ events[n] \in Event /\ events[n] \in EventSet(ranges[r])
  <2>1. ranges \in Seq(RangeType)
    BY DEF RangeInv, TypeOK, RangeType
  <2> QED BY <1>1, <2>1, RangeTypes DEF events
<1>3. \A n \in 1 .. l :
        /\ pos(events[n]) \in Nat /\ events[n].Introduced \in Nat /\ events[n].Fixed \in Nat
        /\ events[n].Introduced = 0 => events[n].Fixed # 0 /\ pos(events[n]) = events[n].Fixed
        /\ events[n].Introduced # 0 => events[n].Fixed = 0
        /\ events[n].Introduced = Zero => pos(events[n]) = 0
        /\ events[n].Introduced # 0 /\ events[n].Introduced # Zero
             => pos(events[n]) = events[n].Introduced
  BY <1>1, <1>2, OneField
<1>4. /\ \A i, j \in 1 .. l : i < j => pos(events[i]) < pos(events[j])
      /\ affected <=> InFirst(k - 1)
  BY DEF RangeInv, Looking, Walk, Ordered
<1>5. affected' = CASE ~affected /\ e.Introduced # 0 ->
                         e.Introduced = Zero \/ v >= e.Introduced
                    [] affected /\ e.Fixed # 0 -> v < e.Fixed
                    [] OTHER -> affected
  BY DEF Walk
<1>6. v \in Nat /\ Zero # 0
  <2>1. \A x \in Version \cup {0} : x \in Nat
    BY VersionAssumption
  <2> QED BY <2>1, VersionAssumption DEF RangeInv, TypeOK
\* An event before the last one that shows v in the range has shown it before.
<1>7. ASSUME NEW i \in 1 .. k, i # k,
             events[i].Introduced # 0, pos(events[i]) <= v,
             \A j \in 1 .. k :
               events[j].Fixed # 0 /\ pos(events[i]) < events[j].Fixed => v < events[j].Fixed
      PROVE  InFirst(k - 1)
  <2>1. i \in 1 .. k - 1 /\ \A j \in 1 .. k - 1 : j \in 1 .. k
    BY <1>1, <1>7
  <2> QED BY <1>7, <2>1 DEF InFirst
\* The other way round it takes the last event to agree.
<1>8. ASSUME InFirst(k - 1), e.Fixed # 0 => v < e.Fixed
      PROVE  InFirst(k)
  <2>1. PICK i \in 1 .. k - 1 :
          /\ events[i].Introduced # 0 /\ pos(events[i]) <= v
          /\ \A j \in 1 .. k - 1 :
               events[j].Fixed # 0 /\ pos(events[i]) < events[j].Fixed => v < events[j].Fixed
    BY <1>8 DEF InFirst
  <2>2. \A j \in 1 .. k : j \in 1 .. k - 1 \/ j = k
    BY <1>1
  <2>3. i \in 1 .. k
    BY <1>1
  <2> QED BY <1>8, <2>1, <2>2, <2>3 DEF InFirst
<1> HIDE DEF l, e
<1>9. CASE e.Introduced # 0
  <2>1. e.Fixed = 0
    BY <1>1, <1>3, <1>9 DEF e
  <2>2. CASE affected
    <3>1. affected' <=> TRUE
      BY <1>5, <2>1, <2>2
    <3> QED BY <1>4, <1>8, <2>1, <2>2, <3>1
  <2>3. CASE ~affected
    <3>1. affected' <=> e.Introduced = Zero \/ v >= e.Introduced
      BY <1>5, <1>9, <2>3
    <3>2. (e.Introduced = Zero \/ v >= e.Introduced) <=> pos(e) <= v
      BY <1>1, <1>3, <1>6, <1>9 DEF e
    <3>3. ASSUME pos(e) <= v PROVE InFirst(k)
      <4>1. ASSUME NEW j \in 1 .. k, events[j].Fixed # 0, pos(e) < events[j].Fixed
            PROVE  FALSE
        <5>1. j \in 1 .. l /\ k \in 1 .. l /\ events[j].Introduced = 0
          BY <1>1, <1>3, <4>1
        <5>2. pos(events[j]) = events[j].Fixed
          BY <1>3, <5>1
        <5>3. j = k \/ pos(events[j]) < pos(events[k])
          BY <1>1, <1>4, <5>1
        <5> QED BY <1>3, <4>1, <5>1, <5>2, <5>3 DEF e
      <4>2. k \in 1 .. k /\ events[k].Introduced # 0 /\ pos(events[k]) <= v
        BY <1>1, <1>9, <3>3 DEF e
      <4> QED BY <4>1, <4>2 DEF InFirst, e
    <3>4. ASSUME InFirst(k) PROVE pos(e) <= v
      <4>1. PICK i \in 1 .. k :
              /\ events[i].Introduced # 0 /\ pos(events[i]) <= v
              /\ \A j \in 1 .. k :
                   events[j].Fixed # 0 /\ pos(events[i]) < events[j].Fixed => v < events[j].Fixed
        BY <3>4 DEF InFirst
      <4>2. i = k
        BY <1>4, <1>7, <2>3, <4>1
      <4> QED BY <4>1, <4>2 DEF e
    <3> QED BY <3>1, <3>2, <3>3, <3>4
  <2> QED BY <2>2, <2>3
<1>10. CASE e.Introduced = 0
  <2>1. e.Fixed # 0 /\ pos(e) = e.Fixed /\ pos(e) \in Nat
    BY <1>1, <1>3, <1>10 DEF e
  <2>2. affected' <=> affected /\ v < e.Fixed
    BY <1>5, <1>10, <2>1
  <2>3. ASSUME InFirst(k) PROVE affected /\ v < e.Fixed
    <3>1. PICK i \in 1 .. k :
            /\ events[i].Introduced # 0 /\ pos(events[i]) <= v
            /\ \A j \in 1 .. k :
                 events[j].Fixed # 0 /\ pos(events[i]) < events[j].Fixed => v < events[j].Fixed
      BY <2>3 DEF InFirst
    <3>2. i # k
      BY <1>10, <3>1 DEF e
    <3>3. affected
      BY <1>4, <1>7, <3>1, <3>2
    <3>4. i \in 1 .. l /\ k \in 1 .. l /\ i < k /\ k \in 1 .. k
      BY <1>1, <3>2
    <3>5. pos(events[i]) < e.Fixed
      BY <1>4, <2>1, <3>4 DEF e
    <3> QED BY <2>1, <3>1, <3>3, <3>4, <3>5 DEF e
  <2> QED BY <1>4, <1>8, <2>2, <2>3
<1> QED BY <1>9, <1>10

LEMMA StepWalk ==
  ASSUME RangeInv, Walk
  PROVE  RangeInv'
<1> USE DEF RangeInv
<1>0. ranges \in Seq(RangeType)
  BY DEF TypeOK, RangeType
<1>1. TypeOK'
  <2>1. UNCHANGED <<ranges, given, v, phase, r, semverRangePresent, answer>> /\ k' = k + 1
    BY DEF Walk, input
  <2>2. affected' \in BOOLEAN
    <3>1. affected \in BOOLEAN
      BY DEF TypeOK
    <3>2. \/ affected' = (events[k].Introduced = Zero \/ v >= events[k].Introduced)
          \/ affected' = (v < events[k].Fixed)
          \/ affected' = affected
      BY DEF Walk
    <3>3. CASE affected' = (events[k].Introduced = Zero \/ v >= events[k].Introduced)
      BY <3>3, Zenon
    <3>4. CASE affected' = (v < events[k].Fixed)
      <4>1. (v < events[k].Fixed) \in BOOLEAN
        BY SMT
      <4> QED BY <3>4, <4>1, Zenon
    <3>5. CASE affected' = affected
      BY <3>1, <3>5
    <3> QED BY <3>2, <3>3, <3>4, <3>5
  <2>3. k' \in Nat \ {0}
    BY <2>1 DEF TypeOK
  <2> QED BY <2>1, <2>2, <2>3 DEF TypeOK
<1>2. Permuted'
  BY PermutedKept DEF Walk, input
<1>3. Passed' /\ AffectsExact'
  BY Stays DEF Walk, input
<1>4. Looking'
  <2>1. /\ r \in DOMAIN ranges /\ ranges[r].Type = "SEMVER" /\ events # <<>>
        /\ k <= Len(events)
        /\ WellFormed(ranges[r]) => Ordered(Len(events))
    BY DEF Walk, Looking
  <2>2. Len(events) \in Nat /\ k \in Nat
    BY <1>0, <2>1, RangeTypes DEF events, TypeOK
  <2>3. UNCHANGED <<ranges, r, events, v>> /\ phase' = "walk" /\ k' = k + 1
    BY DEF Walk, events, input
  <2>4. WellFormed(ranges[r])' <=> WellFormed(ranges[r])
    BY <2>3
  <2>5. WellFormed(ranges[r]) => Ordered(Len(events))'
    BY <2>1, <2>3 DEF Ordered
  <2>6. (k - 1)' = k
    BY <2>2, <2>3
  <2>7. InFirst(k - 1)' <=> InFirst(k)
    BY <2>3, <2>6 DEF InFirst
  <2>8. WellFormed(ranges[r]) => (affected' <=> InFirst(k))
    BY Turn
  <2>9. (WellFormed(ranges[r]) => Ordered(Len(events)) /\ (affected <=> InFirst(k - 1)))'
    BY <2>4, <2>5, <2>7, <2>8
  <2>10. (k <= Len(events) + 1)'
    BY <2>1, <2>2, <2>3
  <2> QED BY <2>1, <2>3, <2>9, <2>10 DEF Looking
<1> QED BY <1>1, <1>2, <1>3, <1>4

\* At the end of the walk, affected tells whether v is in the range.
LEMMA Walked ==
  ASSUME RangeInv, phase = "walk", k > Len(events)
  PROVE  /\ r \in 1 .. Len(given) /\ given[r].Type = "SEMVER" /\ given[r].Events # <<>>
         /\ WellFormed(given[r]) => (affected <=> In(v, given[r]))
<1> USE DEF RangeInv
<1>1. given \in Seq(RangeType) /\ ranges \in Seq(RangeType)
  BY GivenType DEF TypeOK, RangeType
<1>2. /\ r \in DOMAIN ranges /\ ranges[r].Type = "SEMVER" /\ events # <<>>
      /\ k <= Len(events) + 1
      /\ WellFormed(ranges[r]) => (affected <=> InFirst(k - 1))
  BY DEF Looking
<1>3. ranges[r] \in RangeType /\ Len(events) \in Nat /\ events = ranges[r].Events
  BY <1>1, <1>2, RangeTypes DEF events
<1>4. k - 1 = Len(events)
  BY <1>2, <1>3 DEF TypeOK
<1>5. WellFormed(ranges[r]) => (affected <=> In(v, ranges[r]))
  BY <1>2, <1>3, <1>4, AllEvents
<1>6. r \in DOMAIN given
  BY <1>2 DEF Permuted
<1>7. given[r] \in RangeType /\ r \in 1 .. Len(given)
  BY <1>1, <1>6, RangeTypes
<1>8. /\ given[r].Type = "SEMVER" /\ EventSet(ranges[r]) = EventSet(given[r])
      /\ WellFormed(given[r]) => WellFormed(ranges[r])
  BY <1>2, <1>6 DEF Permuted
<1>9. given[r].Events # <<>>
  BY <1>2, <1>3, <1>7, <1>8, EmptyOfSet
<1>10. In(v, ranges[r]) <=> In(v, given[r])
  BY <1>8, InOfSet
<1> QED BY <1>5, <1>7, <1>8, <1>9, <1>10

LEMMA StepContained ==
  ASSUME RangeInv, Contained
  PROVE  RangeInv'
<1> USE DEF RangeInv
<1>1. TypeOK'
  BY DEF Contained, Answer, input, TypeOK
<1>2. Permuted'
  BY PermutedKept DEF Contained, Answer, input
<1>3. Looking' /\ Passed'
  BY DEF Contained, Answer, Looking, Passed
<1>4. AllWellFormed => AffectedBy(v, given)
  <2>1. given \in Seq(RangeType)
    BY GivenType DEF TypeOK
  <2>2. /\ r \in 1 .. Len(given) /\ given[r].Type = "SEMVER"
        /\ WellFormed(given[r]) => In(v, given[r])
    BY Walked DEF Contained
  <2>3. given[r] \in SemverRanges(given)
    BY <2>1, <2>2 DEF SemverRanges
  <2> QED BY <2>2, <2>3 DEF AllWellFormed, AffectedBy
<1>5. UNCHANGED <<given, v>> /\ answer' = TRUE
  BY DEF Contained, Answer, input
<1>6. AffectsExact'
  BY <1>4, <1>5, Found
<1> QED BY <1>1, <1>2, <1>3, <1>6

LEMMA StepNotContained ==
  ASSUME RangeInv, NotContained
  PROVE  RangeInv'
<1> USE DEF RangeInv
<1>0. given \in Seq(RangeType)
  BY GivenType DEF TypeOK
<1>1. TypeOK'
  BY DEF NotContained, input, TypeOK
<1>2. Permuted'
  BY PermutedKept DEF NotContained, input
<1>3. Looking' /\ AffectsExact'
  BY DEF NotContained, input, Looking, AffectsExact
<1>4. /\ r \in 1 .. Len(given) /\ given[r].Type = "SEMVER" /\ given[r].Events # <<>>
      /\ WellFormed(given[r]) => ~In(v, given[r])
  BY Walked DEF NotContained
<1>5. PassedBy(r - 1) /\ Counted(r) /\ r \in Nat /\ Len(given) \in Nat
  BY <1>0 DEF NotContained, Passed, TypeOK
<1>6. PassedBy(r)
  <2>1. \A i \in 1 .. r : i \in 1 .. r - 1 \/ i = r
    BY <1>5
  <2> QED BY <1>4, <1>5, <2>1 DEF PassedBy
<1>7. Passed'
  <2>1. UNCHANGED <<given, v, semverRangePresent>> /\ phase' = "range" /\ r' = r + 1
    BY DEF NotContained, input
  <2>2. r <= Len(given)
    BY <1>4, <1>5
  <2> QED BY <1>5, <1>6, <2>1, <2>2, GoesOn
<1> QED BY <1>1, <1>2, <1>3, <1>7

LEMMA StepInsert ==
  ASSUME RangeInv, Insert
  PROVE  RangeInv'
<1> USE DEF RangeInv
<1>0. ranges \in Seq(RangeType)
  BY DEF TypeOK, RangeType
<1>1. /\ r \in DOMAIN ranges /\ ranges[r].Type = "SEMVER" /\ events # <<>>
      /\ k <= Len(events) /\ k \in Nat \ {0}
      /\ WellFormed(ranges[r]) => k >= 2 /\ Ordered(k - 1) /\ ~affected
  BY DEF Insert, Looking, TypeOK
<1>2. /\ events \in Seq(Event) /\ Len(events) \in Nat /\ DOMAIN events = 1 .. Len(events)
      /\ events = ranges[r].Events /\ ranges[r] \in RangeType
      /\ k \in 1 .. Len(events)
  BY <1>0, <1>1, RangeTypes DEF events
<1>3. PICK j \in 1 .. k :
        /\ \A i \in j .. k - 1 : less(events[k], events[i])
        /\ j > 1 => ~less(events[k], events[j - 1])
        /\ ranges' = [ranges EXCEPT ![r].Events = MoveBefore(@, k, j)]
  BY DEF Insert
<1> DEFINE t == MoveBefore(events, k, j)
           m == [ranges[r] EXCEPT !.Events = t]
<1>4. t \in Seq(Event) /\ Len(t) = Len(events)
  <2>1. t = MoveBefore(events, k, j)
    OBVIOUS
  <2> HIDE DEF t
  <2> QED BY <1>2, <2>1, Moved
<1>5. m \in RangeType /\ m.Events = t /\ m.Type = ranges[r].Type
  <2> HIDE DEF t
  <2> QED BY <1>2, <1>4 DEF RangeType
<1>6. ranges' = [ranges EXCEPT ![r] = m]
  BY <1>2, <1>3
<1>7. EventSet(m) = EventSet(ranges[r]) /\ (WellFormed(m) <=> WellFormed(ranges[r]))
  <2> HIDE DEF m
  <2> QED BY <1>2, <1>5, MovedRange
<1> HIDE DEF m, t
<1>8. /\ ranges' \in Seq(RangeType) /\ DOMAIN ranges' = DOMAIN ranges
      /\ ranges'[r] = m
      /\ \A i \in DOMAIN ranges : i # r => ranges'[i] = ranges[i]
  <2>1. r \in 1 .. Len(ranges) /\ DOMAIN ranges = 1 .. Len(ranges)
    BY <1>0, <1>1
  <2>2. ranges' \in Seq(RangeType)
    BY <1>0, <1>5, <1>6, <2>1, ExceptSeq
  <2> QED BY <1>1, <1>6, <2>2
<1>9. /\ UNCHANGED <<given, v, phase, r, affected, semverRangePresent, answer>>
      /\ phase = "sort" /\ k' = k + 1
  BY DEF Insert, input
<1>10. TypeOK'
  <2>1. k' \in Nat \ {0}
    BY <1>1, <1>9
  <2>2. ranges' \in Seq([Type : {"SEMVER", "OTHER"}, Events : Seq(Event)])
    BY <1>8 DEF RangeType
  <2> QED BY <1>9, <2>1, <2>2 DEF TypeOK
<1>11. Permuted'
  <2>1. ASSUME NEW i \in DOMAIN given
        PROVE  /\ ranges'[i].Type = given[i].Type
               /\ EventSet(ranges'[i]) = EventSet(given[i])
               /\ WellFormed(given[i]) => WellFormed(ranges'[i])
    <3>1. /\ ranges[i].Type = given[i].Type /\ EventSet(ranges[i]) = EventSet(given[i])
          /\ WellFormed(given[i]) => WellFormed(ranges[i])
          /\ i \in DOMAIN ranges
      BY DEF Permuted
    <3>2. CASE i = r
      BY <1>5, <1>7, <1>8, <3>1, <3>2
    <3>3. CASE i # r
      BY <1>8, <3>1, <3>3
    <3> QED BY <3>2, <3>3
  <2>2. DOMAIN ranges' = DOMAIN given
    BY <1>8 DEF Permuted
  <2> QED BY <1>9, <2>1, <2>2 DEF Permuted
<1>12. Passed' /\ AffectsExact'
  BY <1>9, Stays
<1>13. Looking'
  <2>1. events' = t
    BY <1>5, <1>8, <1>9 DEF events
  <2>2. /\ r' \in DOMAIN ranges' /\ ranges'[r'].Type = "SEMVER"
    BY <1>1, <1>5, <1>8, <1>9
  <2>3. t # <<>> /\ k' <= Len(t) + 1
    <3>1. Len(t) # 0
      BY <1>2, <1>4
    <3> QED BY <1>2, <1>4, <1>9, <3>1, EmptySeq
  <2>4. ASSUME WellFormed(m)
        PROVE  k' >= 2 /\ ~affected' /\ \A a, b \in 1 .. k : a < b => pos(t[a]) < pos(t[b])
    <3>1. k >= 2 /\ Ordered(k - 1) /\ ~affected
      BY <1>1, <1>7, <2>4
    <3>2. \A a, b \in 1 .. k - 1 : a < b => pos(events[a]) < pos(events[b])
      BY <3>1 DEF Ordered
    <3>3. \A a, b \in 1 .. Len(events) : a # b => pos(events[a]) # pos(events[b])
      BY <1>2, <1>7, <2>4 DEF WellFormed
    <3>4. \A a, b \in 1 .. k : a < b => pos(t[a]) < pos(t[b])
      BY <1>2, <1>3, <3>2, <3>3, InsertionOrders DEF t
    <3> QED BY <1>1, <1>9, <3>1, <3>4
  <2>5. (k - 1)' = k
    BY <1>1, <1>9
  <2>6. (WellFormed(ranges[r]) => k >= 2 /\ Ordered(k - 1) /\ ~affected)'
    <3>1. WellFormed(ranges[r])' <=> WellFormed(m)
      BY <1>8, <1>9
    <3>2. Ordered(k - 1)' <=> \A a, b \in 1 .. k : a < b => pos(t[a]) < pos(t[b])
      BY <2>1, <2>5 DEF Ordered
    <3> QED BY <2>4, <3>1, <3>2
  <2>7. (phase = "sort" /\ events # <<>> /\ k <= Len(events) + 1)'
    BY <1>9, <2>1, <2>3
  <2> QED BY <2>2, <2>6, <2>7 DEF Looking
<1> QED BY <1>10, <1>11, <1>12, <1>13

LEMMA StepStutter ==
  ASSUME RangeInv, UNCHANGED vars
  PROVE  RangeInv'
<1> USE DEF RangeInv
<1>0. /\ UNCHANGED <<ranges, given, v, phase, r, k, affected, semverRangePresent, answer>>
      /\ events' = events
  BY DEF vars, input, events
<1>1. TypeOK'
  BY <1>0 DEF TypeOK
<1>2. Permuted'
  BY <1>0 DEF Permuted
<1>3. Looking'
  BY <1>0 DEF Looking, Ordered, InFirst
<1>4. Passed'
  BY <1>0 DEF Passed, PassedBy, Counted
<1>5. AffectsExact'
  BY <1>0 DEF AffectsExact, AllWellFormed
<1> QED BY <1>1, <1>2, <1>3, <1>4, <1>5

LEMMA RangeStep == RangeInv /\ [Next]_vars => RangeInv'
BY StepNoneContains, StepOtherType, StepNoEvents, StepEnterRange, StepInsert,
   StepSorted, StepWalk, StepContained, StepNotContained, StepStutter
   DEF Next, Done

THEOREM RangeInvCorrect == Spec => []RangeInv
BY InitInv, RangeStep, PTL DEF Spec

(***************************************************************************)
(* affectsSemver tells exactly whether a version lies in one of the        *)
(* ranges, for any set of versions and any list of ranges, in whatever     *)
(* order their events are listed.                                          *)
(***************************************************************************)
THEOREM AffectsCorrect == Spec => []AffectsExact
<1>1. RangeInv => AffectsExact
  BY DEF RangeInv
<1> QED BY <1>1, RangeInvCorrect, PTL

-----------------------------------------------------------------------------
(* The fix that is reported.                                               *)

\* A finite set of numbers has a greatest one: a smallest non-empty subset
\* without one would stay such when it loses an element.
LEMMA Greatest ==
  ASSUME NEW S \in SUBSET Nat, IsFiniteSet(S), S # {}
  PROVE  \E f \in S : \A g \in S : g <= f
<1> DEFINE Without == {T \in SUBSET S : T # {} /\ \A f \in T : \E g \in T : f < g}
<1> SUFFICES ASSUME Without # {} PROVE FALSE
  OBVIOUS
<1>1. IsWellFoundedOn(StrictSubsetOrdering(S), SUBSET S)
  BY FS_StrictSubsetOrderingWellFounded, FS_FiniteSubsetsOfFinite
<1>2. PICK T \in Without : \A U \in Without : <<U, T>> \notin StrictSubsetOrdering(S)
  <2>1. Without \subseteq SUBSET S
    OBVIOUS
  <2> HIDE DEF Without
  <2> QED BY <1>1, <2>1, WFMin
<1>3. PICK f \in T : TRUE
  OBVIOUS
<1> DEFINE U == {g \in T : f < g}
<1>4. U \in Without
  <2>1. U \in SUBSET S /\ U # {}
    OBVIOUS
  <2>2. ASSUME NEW g \in U PROVE \E h \in U : g < h
    <3>1. PICK h \in T : g < h
      OBVIOUS
    <3>2. f \in Nat /\ g \in Nat /\ h \in Nat /\ f < g
      BY <1>3
    <3>3. h \in U
      BY <3>1, <3>2
    <3> QED BY <3>1, <3>3
  <2> QED BY <2>1, <2>2
<1>5. U \subseteq T /\ f \in T /\ f \notin U /\ f \in Nat
  BY <1>3
<1>6. <<U, T>> \in StrictSubsetOrdering(S)
  <2>1. U \in SUBSET S /\ T \in SUBSET S /\ U \subseteq T /\ U # T
    BY <1>4, <1>5
  <2> HIDE DEF U
  <2> QED BY <2>1 DEF StrictSubsetOrdering
<1> QED BY <1>2, <1>4, <1>6

\* The values of a function on a finite set are finitely many.
LEMMA Image ==
  ASSUME NEW S, IsFiniteSet(S), NEW g, g = [x \in S |-> g[x]]
  PROVE  IsFiniteSet({g[x] : x \in S})
<1> DEFINE T == {g[x] : x \in S}
<1>1. g \in Surjection(S, T)
  BY DEF Surjection
<1> HIDE DEF T
<1>2. IsFiniteSet(T)
  BY <1>1, FS_Surjection
<1> QED BY <1>2 DEF T

\* The fixes of a list of ranges are a finite set of versions.
LEMMA FixesFinite ==
  ASSUME NEW rs \in Seq(RangeType)
  PROVE  fixes(rs) \in SUBSET Nat /\ IsFiniteSet(fixes(rs))
<1> DEFINE I == {n \in DOMAIN rs : rs[n].Type = "SEMVER"}
           E(i) == {rs[i].Events[j] : j \in DOMAIN rs[i].Events}
           Es == {E(i) : i \in I}
<1>1. IsFiniteSet(I)
  <2>1. Len(rs) \in Nat /\ DOMAIN rs = 1 .. Len(rs)
    OBVIOUS
  <2>2. IsFiniteSet(1 .. Len(rs)) /\ I \in SUBSET (1 .. Len(rs))
    BY <2>1, FS_Interval
  <2> HIDE DEF I
  <2> QED BY <2>2, FS_Subset
<1>2. ASSUME NEW i \in I PROVE IsFiniteSet(E(i)) /\ E(i) \subseteq Event
  <2>1. /\ DOMAIN rs[i].Events = 1 .. Len(rs[i].Events) /\ Len(rs[i].Events) \in Nat
        /\ \A j \in 1 .. Len(rs[i].Events) : rs[i].Events[j] \in Event
    BY RangeTypes
  <2>2. IsFiniteSet(DOMAIN rs[i].Events)
    BY <2>1, FS_Interval
  <2>3. IsFiniteSet(E(i))
    <3> DEFINE D == DOMAIN rs[i].Events
               g == [j \in D |-> rs[i].Events[j]]
    <3>1. g = [j \in D |-> g[j]] /\ E(i) = {g[j] : j \in D}
      OBVIOUS
    <3> HIDE DEF g, E
    <3> QED BY <2>2, <3>1, Image
  <2> QED BY <2>1, <2>3
<1>3. IsFiniteSet(Es)
  <2> DEFINE g == [i \in I |-> E(i)]
  <2> HIDE DEF I, E
  <2>1. g = [i \in I |-> g[i]] /\ Es = {g[i] : i \in I}
    OBVIOUS
  <2> HIDE DEF g, Es
  <2> QED BY <1>1, <2>1, Image
<1>4. SemverEvents(rs) = UNION Es
  BY DEF SemverEvents
<1>5. IsFiniteSet(SemverEvents(rs)) /\ SemverEvents(rs) \subseteq Event
  <2> HIDE DEF I, E
  <2>1. \A T \in Es : IsFiniteSet(T) /\ T \subseteq Event
    BY <1>2
  <2> HIDE DEF Es
  <2> QED BY <1>3, <1>4, <2>1, FS_UNION
<1> DEFINE F == {e.Fixed : e \in SemverEvents(rs)}
<1>6. IsFiniteSet(F)
  <2> DEFINE g == [e \in SemverEvents(rs) |-> e.Fixed]
  <2>1. g = [e \in SemverEvents(rs) |-> g[e]] /\ F = {g[e] : e \in SemverEvents(rs)}
    OBVIOUS
  <2> HIDE DEF g, F
  <2> QED BY <1>5, <2>1, Image
<1>7. fixes(rs) \in SUBSET F
  BY DEF fixes
<1>8. F \in SUBSET Nat
  BY <1>5, Places
<1> HIDE DEF F
<1> QED BY <1>6, <1>7, <1>8, FS_Subset

\* latestFixed is the greatest of them.
LEMMA Latest ==
  ASSUME NEW rs \in Seq(RangeType), fixes(rs) # {}
  PROVE  /\ latestFixed(rs) \in fixes(rs) /\ latestFixed(rs) \in Nat
         /\ \A g \in fixes(rs) : g <= latestFixed(rs)
<1>1. \E f \in fixes(rs) : \A g \in fixes(rs) : g <= f
  BY FixesFinite, Greatest
<1> QED BY <1>1, FixesFinite DEF latestFixed

\* The fixes are those of the list that was given.
LEMMA SameFixes ==
  ASSUME RangeInv
  PROVE  SemverEvents(ranges) = SemverEvents(given)
<1>1. /\ DOMAIN ranges = DOMAIN given
      /\ \A i \in DOMAIN given : /\ ranges[i].Type = given[i].Type
                               /\ EventSet(ranges[i]) = EventSet(given[i])
  BY DEF RangeInv, Permuted
<1>2. \A rs : SemverEvents(rs) = UNION {EventSet(rs[i]) : i \in {n \in DOMAIN rs : rs[n].Type = "SEMVER"}}
  BY DEF SemverEvents, EventSet
<1> QED BY <1>1, <1>2

\* A fix of a SEMVER range is among them.
LEMMA FixOfRange ==
  ASSUME given \in Seq(RangeType), NEW rg \in SemverRanges(given),
         NEW e \in EventSet(rg), e.Fixed # 0
  PROVE  e.Fixed \in fixes(given)
<1>1. PICK i \in DOMAIN given : given[i].Type = "SEMVER" /\ rg = given[i]
  BY DEF SemverRanges
<1>2. e \in SemverEvents(given)
  BY <1>1 DEF SemverEvents, EventSet
<1> QED BY <1>2 DEF fixes

\* The ranges and events that count have their types.
LEMMA SemverTypes ==
  ASSUME given \in Seq(RangeType), NEW rg \in SemverRanges(given), NEW e \in EventSet(rg)
  PROVE  rg \in RangeType /\ e \in Event /\ pos(e) \in Nat /\ e.Fixed \in Nat
<1>1. PICK i \in DOMAIN given : rg = given[i]
  BY DEF SemverRanges
<1>2. rg \in RangeType /\ \A n \in DOMAIN rg.Events : rg.Events[n] \in Event
  BY <1>1, RangeTypes
<1>3. e \in Event
  BY <1>2 DEF EventSet
<1> QED BY <1>2, <1>3, Places

LEMMA FixHelpsInv ==
  ASSUME RangeInv
  PROVE  FixHelps
<1> SUFFICES ASSUME phase = "done", AllWellFormed, answer,
                    SemverRanges(given) # {},
                    \A rg \in SemverRanges(given) : Closed(rg)
             PROVE  latestFixed(ranges) > v /\ ~AffectedBy(latestFixed(ranges), given)
  BY DEF FixHelps
<1>0. /\ given \in Seq(RangeType) /\ ranges \in Seq(RangeType)
      /\ v \in Nat
  <2>1. \A x \in Version \cup {0} : x \in Nat
    BY VersionAssumption
  <2> QED BY <2>1, GivenType DEF RangeInv, TypeOK, RangeType
<1>1. PICK rg \in SemverRanges(given) : In(v, rg)
  BY DEF RangeInv, AffectsExact, AffectedBy, Closed
<1>2. PICK e \in EventSet(rg) :
        /\ e.Introduced # 0 /\ pos(e) <= v
        /\ \A f \in EventSet(rg) : f.Fixed # 0 /\ pos(e) < f.Fixed => v < f.Fixed
  BY <1>1 DEF In
<1>3. PICK f \in EventSet(rg) : f.Fixed # 0 /\ pos(e) < f.Fixed
  BY <1>2 DEF Closed
<1>4. f.Fixed \in fixes(given) /\ f.Fixed \in Nat /\ v < f.Fixed
  BY <1>0, <1>2, <1>3, FixOfRange, SemverTypes
<1>5. fixes(ranges) = fixes(given)
  BY SameFixes DEF fixes
<1> DEFINE l == latestFixed(ranges)
<1>6. l \in Nat /\ \A g \in fixes(given) : g <= l
  BY <1>0, <1>4, <1>5, Latest
<1> HIDE DEF l
<1>7. l > v
  BY <1>0, <1>4, <1>6
<1>8. ASSUME NEW rh \in SemverRanges(given) PROVE rh.Events # <<>> /\ ~In(l, rh)
  <2>1. rh.Events # <<>>
    BY DEF Closed
  <2>2. ASSUME NEW d \in EventSet(rh), d.Introduced # 0, pos(d) <= l,
               \A g \in EventSet(rh) : g.Fixed # 0 /\ pos(d) < g.Fixed => l < g.Fixed
        PROVE  FALSE
    <3>1. PICK g \in EventSet(rh) : g.Fixed # 0 /\ pos(d) < g.Fixed
      BY <2>2 DEF Closed
    <3>2. g.Fixed <= l /\ g.Fixed \in Nat
      BY <1>0, <1>6, <3>1, FixOfRange, SemverTypes
    <3> QED BY <1>6, <2>2, <3>1, <3>2
  <2> QED BY <2>1, <2>2 DEF In
<1>9. ~AffectedBy(l, given)
  BY <1>8 DEF AffectedBy
<1> QED BY <1>7, <1>9 DEF l

(***************************************************************************)
(* The fix that is reported for an affected version is a later version     *)
(* that is not affected, provided that every introduction has a fix: for   *)
(* any list of ranges, and with the events sorted before the fix is looked *)
(* for.                                                                    *)
(***************************************************************************)
THEOREM FixCorrect == Spec => []FixHelps
<1>1. RangeInv => FixHelps
  BY FixHelpsInv
<1> QED BY <1>1, RangeInvCorrect, PTL

-----------------------------------------------------------------------------
(* The version of the standard library.                                    *)

LEMMA StdInitInv == StdInit => StdInv
<1> SUFFICES ASSUME StdInit PROVE StdInv
  OBVIOUS
<1>1. gover \in Tag \cup {None} /\ (gover # None => v = Rank(GoTagToSemver(gover))) /\ Init
  BY DEF StdInit
<1>2. RangeInv
  BY <1>1, InitInv
<1>3. phase = "range" /\ v \in Version \cup {0}
  BY <1>1 DEF Init
<1> QED BY <1>1, <1>2, <1>3 DEF StdInv

LEMMA StdStep ==
  ASSUME StdInv, [StdNext]_stdVars
  PROVE  StdInv'
<1>1. CASE Filter
  <2>1. UNCHANGED <<v, gover>> /\ phase' = "skipped" /\ Unavailable
    BY <1>1 DEF Filter, input
  <2>2. Unavailable'
    BY <2>1 DEF Unavailable
  <2> QED BY <2>1, <2>2 DEF StdInv
<1>2. CASE Ask
  <2>1. phase # "skipped"
    BY <1>2 DEF Ask, StdInv
  <2>2. RangeInv'
    BY <1>2, <2>1, RangeStep DEF Ask, StdInv
  <2>3. phase' # "skipped"
    BY <2>2 DEF RangeInv, TypeOK
  <2>4. UNCHANGED <<v, gover>>
    BY <1>2 DEF Ask, Next, NoneContains, OtherType, NoEvents, EnterRange, Insert,
                Sorted, Walk, Contained, NotContained, Done, Answer, input, vars
  <2> QED BY <2>2, <2>3, <2>4 DEF StdInv
<1>3. CASE UNCHANGED stdVars
  <2>1. UNCHANGED <<v, gover, phase>> /\ UNCHANGED vars
    BY <1>3 DEF stdVars, vars, input
  <2>2. RangeInv => RangeInv'
    BY <2>1, StepStutter
  <2>3. Unavailable => Unavailable'
    BY <2>1 DEF Unavailable
  <2> QED BY <2>1, <2>2, <2>3 DEF StdInv
<1> QED BY <1>1, <1>2, <1>3 DEF StdNext, Skipped

THEOREM StdInvCorrect == StdSpec => []StdInv
BY StdInitInv, StdStep, PTL DEF StdSpec

(***************************************************************************)
(* The two properties hold as well where the version comes from a Go tag   *)
(* and is not asked about when it has none.                                *)
(***************************************************************************)
THEOREM StdCorrect == StdSpec => [](AffectsExact /\ FixHelps)
<1>1. StdInv => AffectsExact /\ FixHelps
  <2> SUFFICES ASSUME StdInv PROVE AffectsExact /\ FixHelps
    OBVIOUS
  <2>1. CASE phase = "skipped"
    BY <2>1 DEF AffectsExact, FixHelps
  <2>2. CASE phase # "skipped"
    <3>1. RangeInv
      BY <2>2 DEF StdInv
    <3> QED BY <3>1, FixHelpsInv DEF RangeInv
  <2> QED BY <2>1, <2>2
<1> QED BY <1>1, StdInvCorrect, PTL

\* The tag of a semantic version of Go 1, if it is that of a release.
LEMMA TagParts ==
  ASSUME NEW s \in Semvers, s.major = 1, NEW t, t = semverToGoTag(s), Released(t)
  PROVE  \/ /\ t.kind = "go1" /\ s.minor = 0 /\ s.patch = 0 /\ s.pre = "none" /\ s.n = 0
         \/ /\ t.kind = "tag" /\ t.minor = s.minor /\ t.pre = s.pre /\ t.n = s.n
            /\ t.patch = (IF s.patch = 0 THEN None ELSE s.patch)
            /\ s.pre \in {"none", "beta", "rc"} /\ (s.pre # "none" => s.patch = 0)
            /\ (s.minor = 0 => s.patch # 0)
<1>0. s.major # 0 /\ s # None
  BY TagAssumption
<1>1. CASE s = Semver(1, 0, 0, "none", 0)
  <2>1. t = Other("go1")
    BY <1>0, <1>1, Zenon DEF semverToGoTag
  <2>2. t.kind = "go1"
    BY <2>1 DEF Other, GoTag
  <2> QED BY <1>1, <2>2 DEF Semver
<1>2. CASE s # Semver(1, 0, 0, "none", 0)
  <2>1. t = GoTag(s.minor, IF s.patch = 0 THEN None ELSE s.patch, s.pre, s.n)
    BY <1>0, <1>2, Zenon DEF semverToGoTag
  <2>2. /\ t.kind = "tag" /\ t.minor = s.minor /\ t.pre = s.pre /\ t.n = s.n
        /\ t.patch = (IF s.patch = 0 THEN None ELSE s.patch)
    BY <2>1 DEF GoTag
  <2>3. s.patch \in Nat /\ None \notin Nat
    BY TagAssumption DEF Semvers
  <2> QED BY <2>2, <2>3 DEF Released
<1> QED BY <1>1, <1>2

\* The order of semantic versions and that of tags on numbers: minor version,
\* patch, rank of the prerelease and its number on one side, minor version,
\* stage and number on the other.
LEMMA SameOrder ==
  ASSUME NEW am \in Nat, NEW ap \in Nat, NEW ar \in {1, 3, 4}, NEW an \in Nat,
         NEW bm \in Nat, NEW bp \in Nat, NEW br \in {1, 3, 4}, NEW bn \in Nat,
         ar # 4 => ap = 0, ar = 4 => an = 0, br # 4 => bp = 0, br = 4 => bn = 0,
         NEW as \in Nat, as = (IF ar = 1 THEN 1 ELSE IF ar = 3 THEN 2 ELSE IF ap = 0 THEN 3 ELSE 4),
         NEW bs \in Nat, bs = (IF br = 1 THEN 1 ELSE IF br = 3 THEN 2 ELSE IF bp = 0 THEN 3 ELSE 4),
         NEW ak \in Nat, ak = (IF ap = 0 THEN an ELSE ap),
         NEW bk \in Nat, bk = (IF bp = 0 THEN bn ELSE bp)
  PROVE  (\/ am < bm
          \/ am = bm /\ as < bs
          \/ am = bm /\ as = bs /\ ak < bk) <=>
         (\/ am < bm
          \/ am = bm /\ ap < bp
          \/ am = bm /\ ap = bp /\ (ar < br \/ (ar = br /\ an < bn)))
OBVIOUS

\* The ranks of prereleases.
LEMMA Ranks ==
  /\ preRank["beta"] = 1 /\ preRank["pre"] = 2 /\ preRank["rc"] = 3 /\ preRank["none"] = 4
  /\ \A p \in {"beta", "pre", "rc", "none"} : preRank[p] \in 1 .. 4
  /\ \A p, q \in {"beta", "pre", "rc", "none"} : preRank[p] = preRank[q] => p = q
<1>1. /\ preRank["beta"] = 1 /\ preRank["pre"] = 2 /\ preRank["rc"] = 3
      /\ preRank["none"] = 4
  BY DEF preRank
<1>2. ASSUME NEW p \in {"beta", "pre", "rc", "none"}
      PROVE  \/ p = "beta" /\ preRank[p] = 1
             \/ p = "pre" /\ preRank[p] = 2
             \/ p = "rc" /\ preRank[p] = 3
             \/ p = "none" /\ preRank[p] = 4
  BY <1>1
<1>3. ASSUME NEW p \in {"beta", "pre", "rc", "none"}
      PROVE  preRank[p] \in 1 .. 4
  <2>1. preRank[p] = 1 \/ preRank[p] = 2 \/ preRank[p] = 3 \/ preRank[p] = 4
    BY <1>2, Zenon
  <2> QED BY <2>1
<1>4. ASSUME NEW p \in {"beta", "pre", "rc", "none"}, NEW q \in {"beta", "pre", "rc", "none"},
             preRank[p] = preRank[q]
      PROVE  p = q
  <2>1. \/ p = "beta" /\ preRank[p] = 1
        \/ p = "pre" /\ preRank[p] = 2
        \/ p = "rc" /\ preRank[p] = 3
        \/ p = "none" /\ preRank[p] = 4
    BY <1>2
  <2>2. \/ q = "beta" /\ preRank[q] = 1
        \/ q = "pre" /\ preRank[q] = 2
        \/ q = "rc" /\ preRank[q] = 3
        \/ q = "none" /\ preRank[q] = 4
    BY <1>2
  <2> QED BY <1>4, <2>1, <2>2
<1> QED BY <1>1, <1>3, <1>4

\* The stage and the number of a tag that is not go1.
LEMMA Stages ==
  ASSUME NEW s \in Semvers, s.major = 1, NEW t, t = semverToGoTag(s), Released(t),
         t.kind # "go1"
  PROVE  /\ t.kind = "tag" /\ t.minor = s.minor
         /\ preRank[s.pre] \in {1, 3, 4}
         /\ preRank[s.pre] # 4 => s.patch = 0
         /\ preRank[s.pre] = 4 => s.n = 0
         /\ stage(t) = IF preRank[s.pre] = 1 THEN 1 ELSE IF preRank[s.pre] = 3 THEN 2
                       ELSE IF s.patch = 0 THEN 3 ELSE 4
         /\ number(t) = IF s.patch = 0 THEN s.n ELSE s.patch
<1>1. /\ t.kind = "tag" /\ t.minor = s.minor /\ t.pre = s.pre /\ t.n = s.n
      /\ t.patch = (IF s.patch = 0 THEN None ELSE s.patch)
      /\ s.pre \in {"none", "beta", "rc"} /\ (s.pre # "none" => s.patch = 0)
  BY TagParts
<1>2. s.patch \in Nat /\ (s.pre = "none" => s.n = 0) /\ None \notin Nat
  BY TagAssumption DEF Semvers
<1>3. t.patch = None <=> s.patch = 0
  BY <1>1, <1>2
<1>4. number(t) = IF s.patch = 0 THEN s.n ELSE s.patch
  BY <1>1, <1>2, <1>3 DEF number
<1>5. CASE s.pre = "beta"
  <2>1. t.pre = "beta" /\ "rc" # "beta" /\ "none" # "beta"
    BY <1>1, <1>5
  <2>2. stage(t) = 1
    BY <2>1, Zenon DEF stage
  <2> QED BY <1>1, <1>4, <1>5, <2>2, Ranks
<1>6. CASE s.pre = "rc"
  <2>1. t.pre = "rc" /\ "rc" # "beta" /\ "rc" # "none"
    BY <1>1, <1>6
  <2>2. stage(t) = 2
    BY <2>1, Zenon DEF stage
  <2> QED BY <1>1, <1>4, <1>6, <2>2, Ranks
<1>7. CASE s.pre = "none"
  <2>1. t.pre # "rc" /\ t.pre # "beta" /\ t.pre = "none"
    BY <1>1, <1>7
  <2>2. stage(t) = IF t.patch = None THEN 3 ELSE 4
    BY <2>1, Zenon DEF stage
  <2>3. stage(t) = IF s.patch = 0 THEN 3 ELSE 4
    BY <1>3, <2>2
  <2> QED BY <1>1, <1>2, <1>4, <1>7, <2>3, Ranks
<1> QED BY <1>1, <1>5, <1>6, <1>7

\* The tags of releases appear in the order of their semantic versions.
LEMMA TagsInOrder ==
  ASSUME NEW a \in Semvers, a.major = 1, NEW t, t = semverToGoTag(a), Released(t),
         NEW b \in Semvers, b.major = 1, NEW u, u = semverToGoTag(b), Released(u)
  PROVE  Before(t, u) <=> Precedes(a, b)
<1>1. /\ a.minor \in Nat /\ a.patch \in Nat /\ a.n \in Nat
      /\ b.minor \in Nat /\ b.patch \in Nat /\ b.n \in Nat
      /\ a.pre \in {"beta", "pre", "rc", "none"} /\ b.pre \in {"beta", "pre", "rc", "none"}
  BY DEF Semvers
<1> DEFINE ar == preRank[a.pre]
           br == preRank[b.pre]
<1>2. ar \in Nat /\ br \in Nat /\ (ar = br <=> a.pre = b.pre)
  <2>1. preRank[a.pre] \in 1 .. 4 /\ preRank[b.pre] \in 1 .. 4
    BY <1>1, Ranks
  <2>2. preRank[a.pre] = preRank[b.pre] => a.pre = b.pre
    BY <1>1, Ranks
  <2>3. a.pre = b.pre => preRank[a.pre] = preRank[b.pre]
    OBVIOUS
  <2> QED BY <2>1, <2>2, <2>3
<1>3. Precedes(a, b) <=>
        \/ a.minor < b.minor
        \/ a.minor = b.minor /\ a.patch < b.patch
        \/ a.minor = b.minor /\ a.patch = b.patch /\ (ar < br \/ (ar = br /\ a.n < b.n))
  <2>1. ~(a.major < b.major) /\ a.major = b.major
    OBVIOUS
  <2> HIDE DEF ar, br
  <2>2. Precedes(a, b) <=>
          \/ a.minor < b.minor
          \/ a.minor = b.minor /\ a.patch < b.patch
          \/ /\ a.minor = b.minor /\ a.patch = b.patch
             /\ ar < br \/ (a.pre = b.pre /\ a.n < b.n)
    BY <2>1 DEF Precedes, ar, br
  <2> QED BY <1>2, <2>2
<1> HIDE DEF ar, br
<1>4. CASE t.kind = "go1"
  <2>1. a.minor = 0 /\ a.patch = 0 /\ ar = 4 /\ a.n = 0
    BY <1>4, TagParts, Ranks DEF ar
  <2>2. CASE u.kind = "go1"
    <3>1. b.minor = 0 /\ b.patch = 0 /\ br = 4 /\ b.n = 0
      BY <2>2, TagParts, Ranks DEF br
    <3>2. ~Before(t, u)
      BY <1>4, <2>2 DEF Before
    <3> QED BY <1>3, <2>1, <3>1, <3>2
  <2>3. CASE u.kind # "go1"
    <3>1. u.kind = "tag" /\ (b.minor = 0 => b.patch # 0)
      BY <2>3, TagParts
    <3>2. Before(t, u)
      BY <1>4, <3>1 DEF Before
    <3>3. 0 < b.minor \/ (0 = b.minor /\ 0 < b.patch)
      BY <1>1, <3>1
    <3>4. Precedes(a, b)
      BY <1>3, <2>1, <3>3
    <3> QED BY <3>2, <3>4
  <2> QED BY <2>2, <2>3
<1>5. CASE t.kind # "go1" /\ u.kind = "go1"
  <2>1. b.minor = 0 /\ b.patch = 0 /\ br = 4 /\ b.n = 0
    BY <1>5, TagParts, Ranks DEF br
  <2>2. /\ ar \in {1, 3, 4} /\ (ar # 4 => a.patch = 0) /\ (ar = 4 => a.n = 0)
    BY <1>5, Stages DEF ar
  <2>3. a.minor = 0 => a.patch # 0
    BY <1>5, TagParts
  <2>4. ~Before(t, u)
    BY <1>5 DEF Before
  <2>5. ~(a.minor < 0) /\ ~(a.patch < 0) /\ ~(a.n < 0)
    BY <1>1
  <2>6. a.minor = 0 /\ a.patch = 0 => ar = 4
    BY <2>2, <2>3
  <2>7. ~(a.minor = 0 /\ a.patch = 0)
    BY <2>3
  <2>8. ~Precedes(a, b)
    BY <1>3, <2>1, <2>5, <2>7
  <2> QED BY <2>4, <2>8
<1>6. CASE t.kind # "go1" /\ u.kind # "go1"
  <2>1. /\ t.kind = "tag" /\ t.minor = a.minor
        /\ ar \in {1, 3, 4} /\ (ar # 4 => a.patch = 0) /\ (ar = 4 => a.n = 0)
        /\ stage(t) = IF ar = 1 THEN 1 ELSE IF ar = 3 THEN 2 ELSE IF a.patch = 0 THEN 3 ELSE 4
        /\ number(t) = IF a.patch = 0 THEN a.n ELSE a.patch
    BY <1>6, Stages DEF ar
  <2>2. /\ u.kind = "tag" /\ u.minor = b.minor
        /\ br \in {1, 3, 4} /\ (br # 4 => b.patch = 0) /\ (br = 4 => b.n = 0)
        /\ stage(u) = IF br = 1 THEN 1 ELSE IF br = 3 THEN 2 ELSE IF b.patch = 0 THEN 3 ELSE 4
        /\ number(u) = IF b.patch = 0 THEN b.n ELSE b.patch
    BY <1>6, Stages DEF br
  <2>3. Before(t, u) <=>
          \/ a.minor < b.minor
          \/ a.minor = b.minor /\ stage(t) < stage(u)
          \/ a.minor = b.minor /\ stage(t) = stage(u) /\ number(t) < number(u)
    BY <1>6, <2>1, <2>2 DEF Before
  <2>4. stage(t) \in Nat /\ stage(u) \in Nat /\ number(t) \in Nat /\ number(u) \in Nat
    <3>1. number(t) = a.n \/ number(t) = a.patch
      BY <2>1
    <3>2. number(u) = b.n \/ number(u) = b.patch
      BY <2>2
    <3>3. stage(t) = 1 \/ stage(t) = 2 \/ stage(t) = 3 \/ stage(t) = 4
      BY <2>1
    <3>4. stage(u) = 1 \/ stage(u) = 2 \/ stage(u) = 3 \/ stage(u) = 4
      BY <2>2
    <3> QED BY <1>1, <3>1, <3>2, <3>3, <3>4
  <2>5. (\/ a.minor < b.minor
         \/ a.minor = b.minor /\ stage(t) < stage(u)
         \/ a.minor = b.minor /\ stage(t) = stage(u) /\ number(t) < number(u)) <=>
        (\/ a.minor < b.minor
         \/ a.minor = b.minor /\ a.patch < b.patch
         \/ a.minor = b.minor /\ a.patch = b.patch /\ (ar < br \/ (ar = br /\ a.n < b.n)))
    BY <1>1, <2>1, <2>2, <2>4, SameOrder
  <2> QED BY <1>3, <2>3, <2>5
<1> QED BY <1>4, <1>5, <1>6

\* The version of a release is that of its tag, one of Go 1.
LEMMA ReleaseVersion ==
  ASSUME StdInv, gover # None, Released(gover)
  PROVE  /\ v \in Version /\ v \in Nat /\ v # 0
         /\ SemverOf[v] \in Semvers /\ SemverOf[v].major = 1
         /\ tagOf(v) = gover
<1>1. gover \in Tag /\ v = Rank(GoTagToSemver(gover))
  BY DEF StdInv
<1> DEFINE s == GoTagToSemver(gover)
<1>2. /\ None \notin Nat /\ None \notin Semvers
      /\ \/ \E kind \in {"go1", "go1.0", "other"} : gover = Other(kind)
         \/ /\ gover.minor \in Nat /\ gover.patch \in Nat \cup {None}
            /\ gover.pre \in {"beta", "rc", "-pre", "none"} /\ gover.n \in Nat
            /\ (gover.pre = "none" => gover.n = 0)
            /\ gover = GoTag(gover.minor, gover.patch, gover.pre, gover.n)
      /\ s # None => \E x \in Version : SemverOf[x] = s
  BY <1>1, TagAssumption
<1>3. ASSUME gover.kind = "go1"
      PROVE  s \in Semvers /\ s.major = 1 /\ semverToGoTag(s) = gover
  <2>1. gover = Other("go1")
    <3>1. \A kind : Other(kind).kind = kind
      BY DEF Other, GoTag
    <3>2. \A minor, patch, pre, n : GoTag(minor, patch, pre, n).kind = "tag"
      BY DEF GoTag
    <3> QED BY <1>2, <1>3, <3>1, <3>2
  <2>2. s = Semver(1, 0, 0, "none", 0)
    BY <1>3 DEF GoTagToSemver
  <2>3. s \in Semvers /\ s.major = 1
    BY <2>2 DEF Semver, Semvers
  <2>4. semverToGoTag(s) = Other("go1")
    <3>1. s.major # 0 /\ s # None
      BY <1>2, <2>3
    <3> HIDE DEF s
    <3> QED BY <2>2, <3>1, Zenon DEF semverToGoTag
  <2> QED BY <2>1, <2>3, <2>4
<1>4. ASSUME gover.kind = "tag"
      PROVE  s \in Semvers /\ s.major = 1 /\ semverToGoTag(s) = gover
  <2>1. /\ gover.pre \in {"none", "beta", "rc"} /\ (gover.pre # "none" => gover.patch = None)
        /\ gover.patch # 0 /\ (gover.minor = 0 => gover.patch # None)
    BY <1>4 DEF Released
  <2>2. /\ gover.minor \in Nat /\ gover.patch \in Nat \cup {None} /\ gover.n \in Nat
        /\ (gover.pre = "none" => gover.n = 0)
        /\ gover = GoTag(gover.minor, gover.patch, gover.pre, gover.n)
    <3>1. \A kind : Other(kind).kind = kind
      BY DEF Other, GoTag
    <3> QED BY <1>2, <1>4, <3>1
  <2> DEFINE p == IF gover.patch = None THEN 0 ELSE gover.patch
  <2>3. s = Semver(1, gover.minor, p, gover.pre, gover.n)
    <3>1. gover.kind # "go1" /\ gover.kind # "go1.0" /\ gover.kind # "other" /\ gover.pre # "-pre"
      BY <1>4, <2>1
    <3>2. (IF gover.pre = "-pre" THEN "pre" ELSE gover.pre) = gover.pre
      BY <3>1
    <3>3. s = Semver(1, gover.minor, p, IF gover.pre = "-pre" THEN "pre" ELSE gover.pre, gover.n)
      BY <3>1, Zenon DEF GoTagToSemver
    <3> QED BY <3>2, <3>3
  <2>4. p \in Nat /\ gover.patch = (IF p = 0 THEN None ELSE p)
    BY <1>2, <2>1, <2>2
  <2> HIDE DEF p, s
  <2>5. /\ s.major = 1 /\ s.minor = gover.minor /\ s.patch = p /\ s.pre = gover.pre
        /\ s.n = gover.n
        /\ s \in [major : Nat, minor : Nat, patch : Nat, pre : {"beta", "pre", "rc", "none"}, n : Nat]
    BY <2>1, <2>2, <2>3, <2>4 DEF Semver
  <2>6. s \in Semvers
    BY <2>2, <2>5 DEF Semvers
  <2>7. s # Semver(1, 0, 0, "none", 0)
    <3>1. ~(s.minor = 0 /\ s.patch = 0)
      BY <2>1, <2>4, <2>5
    <3> QED BY <3>1 DEF Semver
  <2>8. semverToGoTag(s) = GoTag(s.minor, IF s.patch = 0 THEN None ELSE s.patch, s.pre, s.n)
    <3>1. s.major # 0 /\ s # None
      BY <1>2, <2>5, <2>6
    <3> QED BY <2>7, <3>1, Zenon DEF semverToGoTag
  <2> QED BY <2>2, <2>4, <2>5, <2>6, <2>8
<1>5. s \in Semvers /\ s.major = 1 /\ semverToGoTag(s) = gover
  BY <1>3, <1>4 DEF Released
<1>6. s # None
  BY <1>2, <1>5
<1> HIDE DEF s
<1>7. v \in Version /\ SemverOf[v] = s
  <2>1. v = CHOOSE x \in Version : SemverOf[x] = s
    BY <1>1, <1>6 DEF Rank, s
  <2> QED BY <1>2, <1>6, <2>1
<1>8. v \in Nat /\ v # 0
  BY <1>7, VersionAssumption
<1> QED BY <1>5, <1>7, <1>8 DEF tagOf

\* The versions of releases are after those with major version 0, and their
\* order is that of the tags.
LEMMA ReleaseOrder ==
  /\ \A x, y \in Version : SemverOf[x].major = 0 /\ SemverOf[y].major = 1 => x < y
  /\ \A x, y \in Version :
       SemverOf[x].major = 1 /\ Released(tagOf(x)) /\ SemverOf[y].major = 1 /\ Released(tagOf(y))
         => (Before(tagOf(x), tagOf(y)) <=> x < y)
<1>1. /\ \A x \in Version : SemverOf[x] \in Semvers
      /\ \A x, y \in Version : x < y <=> Precedes(SemverOf[x], SemverOf[y])
  BY SemverAssumption
<1>3. ASSUME NEW x \in Version, NEW y \in Version,
             SemverOf[x].major = 0, SemverOf[y].major = 1
      PROVE  x < y
  <2>1. Precedes(SemverOf[x], SemverOf[y])
    BY <1>3 DEF Precedes
  <2> QED BY <1>1, <2>1
<1>4. ASSUME NEW x \in Version, NEW y \in Version,
             SemverOf[x].major = 1, Released(tagOf(x)), SemverOf[y].major = 1, Released(tagOf(y))
      PROVE  Before(tagOf(x), tagOf(y)) <=> x < y
  BY <1>1, <1>4, TagsInOrder DEF tagOf
<1> QED BY <1>1, <1>3, <1>4

\* A release is in a range exactly if it appeared between an introduction
\* and its fix.
LEMMA InReleased ==
  ASSUME StdInv, gover # None, Released(gover),
         NEW rg \in RangeType, WellFormed(rg), BetweenReleases(rg)
  PROVE  In(v, rg) <=> ReleasedIn(gover, rg)
<1>1. /\ v \in Version /\ v \in Nat /\ SemverOf[v].major = 1 /\ tagOf(v) = gover
      /\ Zero \notin Version /\ \A x \in Version : x \in Nat
      /\ \A x \in Version : SemverOf[x].major = 0 => x < v
  BY ReleaseVersion, ReleaseOrder, VersionAssumption
<1>2. ASSUME NEW e \in EventSet(rg)
      PROVE  /\ pos(e) \in Nat
             /\ e.Introduced \in Version \cup {0, Zero} /\ e.Fixed \in Version \cup {0}
             /\ e.Introduced = 0 => e.Fixed # 0 /\ pos(e) = e.Fixed
             /\ e.Introduced # 0 => e.Fixed = 0
             /\ e.Introduced = Zero => pos(e) = 0
             /\ e.Introduced # 0 /\ e.Introduced # Zero => pos(e) = e.Introduced
  <2>1. e \in Event
    <3>1. rg.Events \in Seq(Event)
      BY DEF RangeType
    <3> QED BY <3>1 DEF EventSet
  <2> QED BY <2>1, OneField DEF Event
\* The tag of an event that is not before Go 1 tells its place.
<1>3. ASSUME NEW e \in EventSet(rg), NEW x \in Version, x = at(e), ~BeforeGo1(x)
      PROVE  Before(gover, tagOf(x)) <=> v < x
  <2>1. SemverOf[x].major = 1 /\ Released(tagOf(x))
    BY <1>3 DEF BetweenReleases
  <2> QED BY <1>1, <2>1, ReleaseOrder
<1>4. ASSUME NEW e \in EventSet(rg), e.Introduced # 0
      PROVE  pos(e) <= v <=> (BeforeGo1(e.Introduced) \/ ~Before(gover, tagOf(e.Introduced)))
  <2>1. at(e) = e.Introduced
    BY <1>2, <1>4 DEF at
  <2>2. CASE e.Introduced = Zero
    BY <1>1, <1>2, <2>2 DEF BeforeGo1
  <2>3. CASE e.Introduced # Zero
    <3>1. pos(e) = e.Introduced /\ e.Introduced \in Version /\ e.Introduced \in Nat
      BY <1>1, <1>2, <1>4, <2>3
    <3>2. CASE BeforeGo1(e.Introduced)
      BY <1>1, <2>3, <3>1, <3>2 DEF BeforeGo1
    <3>3. CASE ~BeforeGo1(e.Introduced)
      <4>1. Before(gover, tagOf(e.Introduced)) <=> v < e.Introduced
        BY <1>3, <2>1, <3>1, <3>3
      <4> QED BY <1>1, <3>1, <3>3, <4>1
    <3> QED BY <3>2, <3>3
  <2> QED BY <2>2, <2>3
<1>5. ASSUME NEW f \in EventSet(rg), f.Fixed # 0
      PROVE  /\ f.Fixed \in Version /\ f.Fixed \in Nat
             /\ IF BeforeGo1(f.Fixed) THEN f.Fixed < v
                ELSE Before(gover, tagOf(f.Fixed)) <=> v < f.Fixed
  <2>1. at(f) = f.Fixed /\ f.Fixed \in Version /\ f.Fixed \in Nat
    BY <1>1, <1>2, <1>5 DEF at
  <2>2. CASE BeforeGo1(f.Fixed)
    BY <1>1, <2>1, <2>2 DEF BeforeGo1
  <2>3. CASE ~BeforeGo1(f.Fixed)
    BY <1>3, <2>1, <2>3
  <2> QED BY <2>1, <2>2, <2>3
\* No introduction is at the place of a fix.
<1>6. ASSUME NEW e \in EventSet(rg), NEW f \in EventSet(rg), e.Introduced # 0, f.Fixed # 0
      PROVE  pos(e) # f.Fixed
  <2>1. f.Introduced = 0 /\ pos(f) = f.Fixed /\ e # f
    BY <1>2, <1>6
  <2>2. PICK i \in DOMAIN rg.Events : e = rg.Events[i]
    BY DEF EventSet
  <2>3. PICK j \in DOMAIN rg.Events : f = rg.Events[j]
    BY DEF EventSet
  <2> QED BY <2>1, <2>2, <2>3 DEF WellFormed
<1>7. ASSUME NEW e \in EventSet(rg), e.Introduced # 0, pos(e) <= v
      PROVE  (\A f \in EventSet(rg) : f.Fixed # 0 /\ pos(e) < f.Fixed => v < f.Fixed) <=>
             \A f \in EventSet(rg) : f.Fixed # 0 =>
               IF BeforeGo1(f.Fixed) THEN pos(e) > f.Fixed
               ELSE pos(e) < f.Fixed => Before(gover, tagOf(f.Fixed))
  <2>1. ASSUME NEW f \in EventSet(rg), f.Fixed # 0
        PROVE  (pos(e) < f.Fixed => v < f.Fixed) <=>
               IF BeforeGo1(f.Fixed) THEN pos(e) > f.Fixed
               ELSE pos(e) < f.Fixed => Before(gover, tagOf(f.Fixed))
    <3>1. pos(e) \in Nat /\ f.Fixed \in Nat /\ v \in Nat /\ pos(e) # f.Fixed
      BY <1>1, <1>2, <1>5, <1>6, <1>7, <2>1
    <3>2. CASE BeforeGo1(f.Fixed)
      <4>1. f.Fixed < v
        BY <1>5, <2>1, <3>2
      <4> QED BY <3>1, <3>2, <4>1
    <3>3. CASE ~BeforeGo1(f.Fixed)
      <4>1. Before(gover, tagOf(f.Fixed)) <=> v < f.Fixed
        BY <1>5, <2>1, <3>3
      <4> QED BY <3>3, <4>1
    <3> QED BY <3>2, <3>3
  <2> QED BY <2>1
<1> QED BY <1>4, <1>7 DEF In, ReleasedIn

(***************************************************************************)
(* A Go release is reported under the tag it was built from, and as        *)
(* affected exactly if it was released between an introduction and its     *)
(* fix: for any set of versions and tags, so that for any two releases the *)
(* order of semver.Compare after GoTagToSemver is that of their appearance.*)
(***************************************************************************)
THEOREM ReleasesCorrect == StdSpec => []ReleasesExact
<1>1. StdInv => ReleasesExact
  <2> SUFFICES ASSUME StdInv, phase \in {"done", "skipped"}, AllWellFormed,
                      gover # None, Released(gover)
               PROVE  /\ phase = "done" /\ tagOf(v) = gover
                      /\ SemverRanges(given) # {}
                         /\ (\A rg \in SemverRanges(given) : BetweenReleases(rg))
                         => (answer <=> \E rg \in SemverRanges(given) : ReleasedIn(gover, rg))
    BY DEF ReleasesExact
  <2>1. v # 0 /\ tagOf(v) = gover
    BY ReleaseVersion
  <2>2. phase = "done" /\ RangeInv
    BY <2>1 DEF StdInv, Unavailable
  <2>3. answer <=> AffectedBy(v, given)
    BY <2>2 DEF RangeInv, AffectsExact
  <2>4. ASSUME SemverRanges(given) # {}, \A rg \in SemverRanges(given) : BetweenReleases(rg)
        PROVE  answer <=> \E rg \in SemverRanges(given) : ReleasedIn(gover, rg)
    <3>1. given \in Seq(RangeType)
      BY <2>2, GivenType DEF RangeInv, TypeOK
    <3>2. ASSUME NEW rg \in SemverRanges(given)
          PROVE  rg.Events # <<>> /\ (In(v, rg) <=> ReleasedIn(gover, rg))
      <4>1. rg \in RangeType
        BY <3>1 DEF SemverRanges
      <4>2. WellFormed(rg) /\ BetweenReleases(rg)
        BY <2>4 DEF AllWellFormed
      <4>3. rg.Events # <<>>
        BY <4>2 DEF BetweenReleases
      <4> QED BY <4>1, <4>2, <4>3, InReleased
    <3> QED BY <2>3, <2>4, <3>2 DEF AffectedBy
  <2> QED BY <2>1, <2>2, <2>4
<1> QED BY <1>1, StdInvCorrect, PTL
=============================================================================
