---------------------------- MODULE Report_proof ----------------------------
(***************************************************************************)
(* Theorems about the report, for any findings of any entries, modules and *)
(* packages with any call stacks: merging loses no finding and invents     *)
(* none, the sections and the exit status agree with the findings, the     *)
(* summaries are true of their stacks, and a reader of the JSON stream     *)
(* shows the same.  First come facts about what loops compute: induction   *)
(* on numbers, the values of a recursive function, the concatenation of a  *)
(* list of lists, and the elements of a set in order.                      *)
(***************************************************************************)
EXTENDS Report, FiniteSetTheorems, SequenceTheorems, TLAPS

-----------------------------------------------------------------------------
(* Induction on numbers, stated with sets.                                 *)

\* By the pigeonhole principle a finite set of numbers is not mapped into
\* itself without its 0 by taking successors.
LEMMA Climb ==
  ASSUME NEW n \in Nat, NEW T \in SUBSET (0 .. n), 0 \in T, \A i \in T : i + 1 \in T
  PROVE  FALSE
<1> DEFINE U == T \ {0}
           f == [i \in T |-> i + 1]
<1>1. IsFiniteSet(T)
  <2>1. IsFiniteSet(0 .. n)
    BY FS_Interval
  <2> QED BY <2>1, FS_Subset
<1>2. /\ IsFiniteSet(U) /\ Cardinality(U) = Cardinality(T) - 1
      /\ Cardinality(T) \in Nat /\ Cardinality(U) \in Nat
  BY <1>1, FS_RemoveElement, FS_CardinalityType
<1>3. f \in [T -> U]
  OBVIOUS
<1>4. Cardinality(U) < Cardinality(T)
  BY <1>2
<1> HIDE DEF U, f
<1>5. \E x, y \in T : x # y /\ f[x] = f[y]
  BY <1>1, <1>2, <1>3, <1>4, FS_PigeonHole
<1> QED BY <1>5 DEF f

LEMMA Upwards ==
  ASSUME NEW n \in Nat, NEW S, 0 \in S, \A i \in 0 .. n - 1 : i \in S => i + 1 \in S
  PROVE  0 .. n \subseteq S
<1> SUFFICES ASSUME NEW m \in 0 .. n, m \notin S PROVE FALSE
  OBVIOUS
<1> DEFINE T == {i \in 0 .. m : i \in S}
<1>1. m \in Nat /\ T \in SUBSET (0 .. m) /\ 0 \in T
  OBVIOUS
<1>2. ASSUME NEW i \in T PROVE i + 1 \in T
  <2>1. i \in 0 .. m /\ i # m /\ i \in S
    OBVIOUS
  <2>2. i \in 0 .. n - 1 /\ i + 1 \in 0 .. m
    BY <2>1
  <2> QED BY <2>1, <2>2
<1> HIDE DEF T
<1> QED BY <1>1, <1>2, Climb

\* A set of numbers has a least one.
LEMMA Least ==
  ASSUME NEW S \in SUBSET Nat, S # {}
  PROVE  \E m \in S : \A k \in S : m <= k
<1> SUFFICES ASSUME \A m \in S : \E k \in S : k < m PROVE FALSE
  OBVIOUS
<1>1. PICK m \in S : TRUE
  OBVIOUS
<1> DEFINE T == {i \in 0 .. m : \A k \in S : i <= k}
<1>2. 0 \in T /\ T \in SUBSET (0 .. m) /\ m \in Nat
  OBVIOUS
<1>3. ASSUME NEW i \in T PROVE i + 1 \in T
  <2>1. i \notin S
    OBVIOUS
  <2>2. \A k \in S : i + 1 <= k
    BY <2>1
  <2> QED BY <1>1, <2>2
<1> HIDE DEF T
<1> QED BY <1>2, <1>3, Climb

\* f has the values of a loop of n turns, from b.
IsLoop(f, n, b, step) == f[0] = b /\ \A i \in 1 .. n : f[i] = step[i][f[i - 1]]

\* A loop has values: what a recursive function is defined by has a solution.
LEMMA Iterates ==
  ASSUME NEW n \in Nat, NEW X, NEW b \in X, NEW step \in [1 .. n -> [X -> X]]
  PROVE  \E f \in [0 .. n -> X] : IsLoop(f, n, b, step)
<1> DEFINE S == {m \in 0 .. n : \E f \in [0 .. m -> X] : IsLoop(f, m, b, step)}
<1>1. 0 \in S
  <2>1. [i \in 0 .. 0 |-> b] \in [0 .. 0 -> X] /\ IsLoop([i \in 0 .. 0 |-> b], 0, b, step)
    BY DEF IsLoop
  <2>2. 0 \in 0 .. n
    OBVIOUS
  <2> QED BY <2>1, <2>2
<1>2. ASSUME NEW m \in 0 .. n - 1, m \in S PROVE m + 1 \in S
  <2>1. PICK f \in [0 .. m -> X] : IsLoop(f, m, b, step)
    BY <1>2
  <2> DEFINE x == step[m + 1][f[m]]
             g == [i \in 0 .. m + 1 |-> IF i = m + 1 THEN x ELSE f[i]]
  <2>2. m + 1 \in 1 .. n /\ m \in Nat /\ f[m] \in X
    OBVIOUS
  <2>3. x \in X
    BY <2>2
  <2>4. g \in [0 .. m + 1 -> X]
    BY <2>3
  <2>5. IsLoop(g, m + 1, b, step)
    <3>1. g[0] = b
      BY <2>1, <2>2 DEF IsLoop
    <3>2. ASSUME NEW i \in 1 .. m + 1 PROVE g[i] = step[i][g[i - 1]]
      <4>1. i - 1 \in 0 .. m /\ i - 1 # m + 1 /\ g[i - 1] = f[i - 1]
        BY <2>2
      <4>2. CASE i = m + 1
        <5>1. g[i] = x /\ i - 1 = m
          BY <2>2, <4>2
        <5> HIDE DEF g
        <5> QED BY <4>1, <4>2, <5>1
      <4>3. CASE i # m + 1
        <5>1. i \in 1 .. m /\ g[i] = f[i]
          BY <2>2, <4>3
        <5>2. f[i] = step[i][f[i - 1]]
          BY <2>1, <5>1 DEF IsLoop
        <5> HIDE DEF g
        <5> QED BY <4>1, <5>1, <5>2
      <4> QED BY <4>2, <4>3
    <3> QED BY <3>1, <3>2 DEF IsLoop
  <2>6. m + 1 \in 0 .. n
    BY <2>2
  <2> HIDE DEF g
  <2> QED BY <2>4, <2>5, <2>6
<1>3. n \in S
  <2>1. n \in 0 .. n
    OBVIOUS
  <2> HIDE DEF S
  <2>2. 0 .. n \subseteq S
    BY <1>1, <1>2, Upwards
  <2> QED BY <2>1, <2>2
<1> QED BY <1>3

-----------------------------------------------------------------------------
(* Lists.                                                                  *)

InOrder(s, R) == \A i, j \in DOMAIN s : i < j => <<s[i], s[j]>> \in R

Has(s, x) == \E k \in DOMAIN s : s[k] = x

\* f[m] is the concatenation of the first m lists of ss.
IsConcat(f, ss) ==
  f[0] = <<>> /\ \A i \in 1 .. Len(ss) : f[i] = f[i - 1] \o ss[i]

LEMMA Concatenated ==
  ASSUME NEW S, NEW s \in Seq(S), NEW t \in Seq(S)
  PROVE  /\ s \o t \in Seq(S) /\ Len(s) \in Nat /\ DOMAIN s \subseteq Nat
         /\ \A k \in DOMAIN s : k <= Len(s) /\ k \in DOMAIN (s \o t) /\ (s \o t)[k] = s[k]
         /\ \A k \in DOMAIN t :
              k > 0 /\ Len(s) + k \in DOMAIN (s \o t) /\ (s \o t)[Len(s) + k] = t[k]
         /\ \A k \in DOMAIN (s \o t) :
              k \in DOMAIN s \/ \E j \in DOMAIN t : k = Len(s) + j
         /\ \A x : Has(s \o t, x) <=> Has(s, x) \/ Has(t, x)
<1>1. /\ s \o t \in Seq(S) /\ Len(s) \in Nat /\ Len(t) \in Nat
      /\ DOMAIN s = 1 .. Len(s) /\ DOMAIN t = 1 .. Len(t)
      /\ DOMAIN (s \o t) = 1 .. Len(s) + Len(t)
  OBVIOUS
<1>2. ASSUME NEW k \in 1 .. Len(s)
      PROVE k <= Len(s) /\ k \in DOMAIN (s \o t) /\ (s \o t)[k] = s[k]
  BY <1>1
<1>3. ASSUME NEW k \in 1 .. Len(t)
      PROVE k > 0 /\ Len(s) + k \in DOMAIN (s \o t) /\ (s \o t)[Len(s) + k] = t[k]
  BY <1>1
<1>4. ASSUME NEW k \in 1 .. Len(s) + Len(t)
      PROVE  k \in 1 .. Len(s) \/ \E j \in 1 .. Len(t) : k = Len(s) + j
  <2>1. CASE k > Len(s)
    <3>1. k - Len(s) \in 1 .. Len(t) /\ k = Len(s) + (k - Len(s))
      BY <1>1, <2>1
    <3> QED BY <3>1
  <2> QED BY <1>1, <2>1
<1> DEFINE u == s \o t
<1>a. /\ \A k \in DOMAIN s : k <= Len(s) /\ k \in DOMAIN u /\ u[k] = s[k]
      /\ \A k \in DOMAIN t : k > 0 /\ Len(s) + k \in DOMAIN u /\ u[Len(s) + k] = t[k]
      /\ \A k \in DOMAIN u : k \in DOMAIN s \/ \E j \in DOMAIN t : k = Len(s) + j
  BY <1>1, <1>2, <1>3, <1>4
<1>b. u \in Seq(S) /\ Len(s) \in Nat /\ DOMAIN s \subseteq Nat
  BY <1>1
<1> HIDE DEF u
<1>5. ASSUME NEW x PROVE Has(u, x) <=> Has(s, x) \/ Has(t, x)
  <2>1. ASSUME Has(u, x) PROVE Has(s, x) \/ Has(t, x)
    <3>1. PICK k \in DOMAIN u : u[k] = x
      BY <2>1 DEF Has
    <3>2. CASE k \in DOMAIN s
      BY <1>a, <3>1, <3>2 DEF Has
    <3>3. CASE \E j \in DOMAIN t : k = Len(s) + j
      BY <1>a, <3>1, <3>3 DEF Has
    <3> QED BY <1>a, <3>2, <3>3
  <2>2. ASSUME Has(s, x) PROVE Has(u, x)
    BY <1>a, <2>2 DEF Has
  <2>3. ASSUME Has(t, x) PROVE Has(u, x)
    BY <1>a, <2>3 DEF Has
  <2> QED BY <2>1, <2>2, <2>3
<1> QED BY <1>a, <1>b, <1>5 DEF u

\* The loop of FlattenSeq.
LEMMA FlattenLoop ==
  ASSUME NEW S, NEW ss \in Seq(Seq(S))
  PROVE  \E f \in [0 .. Len(ss) -> Seq(S)] :
           IsConcat(f, ss) /\ FlattenSeq(ss) = f[Len(ss)]
<1> DEFINE n == Len(ss)
           step == [i \in 1 .. n |-> [x \in Seq(S) |-> x \o ss[i]]]
<1>1. n \in Nat /\ ss \in [1 .. n -> Seq(S)] /\ <<>> \in Seq(S)
  OBVIOUS
<1>2. step \in [1 .. n -> [Seq(S) -> Seq(S)]]
  BY <1>1
<1>3. \A i \in 1 .. n : \A x \in Seq(S) : step[i][x] = x \o ss[i]
  OBVIOUS
<1> HIDE DEF n, step
<1>4. PICK f \in [0 .. n -> Seq(S)] : IsLoop(f, n, <<>>, step)
  BY <1>1, <1>2, Iterates
<1>5. \A i \in 1 .. n : f[i] = f[i - 1] \o ss[i]
  <2> SUFFICES ASSUME NEW i \in 1 .. n PROVE f[i] = f[i - 1] \o ss[i]
    OBVIOUS
  <2>1. i - 1 \in 0 .. n /\ f[i - 1] \in Seq(S)
    BY <1>1
  <2> QED BY <1>3, <1>4, <2>1 DEF IsLoop
<1>6. f[0] = <<>>
  BY <1>4 DEF IsLoop
<1>7. FlattenSeq(ss) = f[n]
  <2>1. CASE n = 0
    <3>1. ss = <<>>
      BY <1>1, <2>1 DEF n
    <3> QED BY <1>6, <2>1, <3>1 DEF FlattenSeq, n
  <2>2. CASE n # 0
    <3> DEFINE Is(g) == g = [i \in 1 .. n |-> IF i = 1 THEN ss[i] ELSE g[i - 1] \o ss[i]]
               g == [i \in 1 .. n |-> f[i]]
               flatten == CHOOSE h : Is(h)
    <3>1. FlattenSeq(ss) = flatten[n]
      BY <2>2, Zenon DEF FlattenSeq, n
    <3>a. 1 \in 1 .. n /\ 1 - 1 = 0
      BY <1>1, <2>2
    <3>b. f[1] = <<>> \o ss[1] /\ ss[1] \in Seq(S)
      <4>1. f[1] = f[1 - 1] \o ss[1]
        BY <1>5, <3>a
      <4> QED BY <1>1, <1>6, <3>a, <4>1
    <3>2. Is(g)
      <4>1. ASSUME NEW i \in 1 .. n
            PROVE  g[i] = IF i = 1 THEN ss[i] ELSE g[i - 1] \o ss[i]
        <5>1. CASE i = 1
          <6>1. g[i] = f[1]
            BY <5>1
          <6> QED BY <3>b, <5>1, <6>1
        <5>2. CASE i # 1
          <6>1. i - 1 \in 1 .. n
            BY <1>1, <5>2
          <6> QED BY <1>5, <5>2, <6>1
        <5> QED BY <5>1, <5>2
      <4> QED BY <4>1
    <3> HIDE DEF g
    <3>3. Is(flatten)
      BY <3>2
    <3> DEFINE T == {i \in 0 .. n - 1 : flatten[i + 1] = f[i + 1]}
    <3>4. \A i \in 1 .. n : flatten[i] = IF i = 1 THEN ss[i] ELSE flatten[i - 1] \o ss[i]
      <4> HIDE DEF flatten
      <4> QED BY <3>3
    <3> HIDE DEF Is, flatten
    <3>5. 0 \in T
      <4>1. 0 \in 0 .. n - 1
        BY <1>1, <2>2
      <4>2. flatten[1] = ss[1]
        BY <3>4, <3>a
      <4> QED BY <3>b, <4>1, <4>2
    <3>6. ASSUME NEW i \in 0 .. (n - 1) - 1, i \in T PROVE i + 1 \in T
      <4>1. i + 2 \in 1 .. n /\ i + 2 # 1 /\ (i + 2) - 1 = i + 1 /\ i + 1 \in 0 .. n - 1
            /\ (i + 1) + 1 = i + 2
        BY <1>1
      <4>2. flatten[i + 1] = f[i + 1]
        BY <3>6
      <4>3. flatten[i + 2] = flatten[i + 1] \o ss[i + 2]
        BY <3>4, <4>1
      <4>4. f[i + 2] = f[i + 1] \o ss[i + 2]
        BY <1>5, <4>1
      <4> QED BY <4>1, <4>2, <4>3, <4>4
    <3>7. n - 1 \in Nat /\ n - 1 \in 0 .. n - 1 /\ (n - 1) + 1 = n
      BY <1>1, <2>2
    <3>8. 0 .. n - 1 \subseteq T
      <4> HIDE DEF T
      <4> QED BY <3>5, <3>6, <3>7, Upwards
    <3> QED BY <3>1, <3>7, <3>8
  <2> QED BY <2>1, <2>2
<1> QED BY <1>5, <1>6, <1>7 DEF n, IsConcat

\* What it has after m lists.
LEMMA FlattenUpTo ==
  ASSUME NEW S, NEW ss \in Seq(Seq(S)), NEW f \in [0 .. Len(ss) -> Seq(S)], IsConcat(f, ss)
  PROVE  \A m \in 0 .. Len(ss) : \A x : Has(f[m], x) <=> \E i \in 1 .. m : Has(ss[i], x)
<1> DEFINE n == Len(ss)
           T == {m \in 0 .. n : \A x : Has(f[m], x) <=> \E i \in 1 .. m : Has(ss[i], x)}
<1>1. n \in Nat /\ ss \in [1 .. n -> Seq(S)] /\ f \in [0 .. n -> Seq(S)]
  OBVIOUS
<1>a. f[0] = <<>> /\ \A i \in 1 .. n : f[i] = f[i - 1] \o ss[i]
  BY DEF IsConcat
<1> HIDE DEF n
<1>2. 0 \in T
  BY <1>1, <1>a DEF Has
<1>3. ASSUME NEW m \in 0 .. n - 1, m \in T PROVE m + 1 \in T
  <2>1. m + 1 \in 1 .. n /\ (m + 1) - 1 = m /\ m \in 0 .. n /\ m + 1 \in 0 .. n
    BY <1>1
  <2>2. f[m + 1] = f[m] \o ss[m + 1] /\ f[m] \in Seq(S) /\ ss[m + 1] \in Seq(S)
    BY <1>1, <1>a, <2>1
  <2>3. \A x : Has(f[m + 1], x) <=> Has(f[m], x) \/ Has(ss[m + 1], x)
    BY <2>2, Concatenated
  <2>4. ASSUME NEW x PROVE Has(f[m + 1], x) <=> \E i \in 1 .. m + 1 : Has(ss[i], x)
    <3>1. Has(f[m], x) <=> \E i \in 1 .. m : Has(ss[i], x)
      BY <1>3
    <3>2. 1 .. m + 1 = 1 .. m \cup {m + 1}
      BY <2>1
    <3> QED BY <2>3, <3>1, <3>2
  <2> QED BY <2>1, <2>4
<1>4. 0 .. n \subseteq T
  <2> HIDE DEF T
  <2> QED BY <1>1, <1>2, <1>3, Upwards
<1> QED BY <1>4 DEF n

LEMMA Flattened ==
  ASSUME NEW S, NEW ss \in Seq(Seq(S))
  PROVE  /\ FlattenSeq(ss) \in Seq(S)
         /\ \A x : x \in ToSet(FlattenSeq(ss)) <=> \E i \in DOMAIN ss : x \in ToSet(ss[i])
<1>1. PICK f \in [0 .. Len(ss) -> Seq(S)] : IsConcat(f, ss) /\ FlattenSeq(ss) = f[Len(ss)]
  BY FlattenLoop
<1>2. Len(ss) \in 0 .. Len(ss) /\ DOMAIN ss = 1 .. Len(ss)
  OBVIOUS
<1>3. \A m \in 0 .. Len(ss) : \A x : Has(f[m], x) <=> \E i \in 1 .. m : Has(ss[i], x)
  BY <1>1, FlattenUpTo
<1>4. ASSUME NEW s, NEW x PROVE x \in ToSet(s) <=> Has(s, x)
  BY DEF ToSet, Has
<1>5. \A x : Has(FlattenSeq(ss), x) <=> \E i \in 1 .. Len(ss) : Has(ss[i], x)
  BY <1>1, <1>2, <1>3
<1>6. FlattenSeq(ss) \in Seq(S)
  BY <1>1, <1>2
<1> QED BY <1>2, <1>4, <1>5, <1>6

LEMMA FlattenedInOrder ==
  ASSUME NEW S, NEW ss \in Seq(Seq(S)), NEW R,
         \A i \in DOMAIN ss : InOrder(ss[i], R),
         \A i, j \in DOMAIN ss : i < j =>
           \A x, y : Has(ss[i], x) /\ Has(ss[j], y) => <<x, y>> \in R
  PROVE  InOrder(FlattenSeq(ss), R)
<1> DEFINE n == Len(ss)
<1>1. PICK f \in [0 .. Len(ss) -> Seq(S)] : IsConcat(f, ss) /\ FlattenSeq(ss) = f[Len(ss)]
  BY FlattenLoop
<1>2. n \in Nat /\ ss \in [1 .. n -> Seq(S)] /\ DOMAIN ss = 1 .. n /\ f \in [0 .. n -> Seq(S)]
  OBVIOUS
<1>a. f[0] = <<>> /\ \A i \in 1 .. n : f[i] = f[i - 1] \o ss[i]
  BY <1>1 DEF IsConcat
<1>3. \A m \in 0 .. Len(ss) : \A x : Has(f[m], x) <=> \E i \in 1 .. m : Has(ss[i], x)
  BY <1>1, FlattenUpTo
<1>b. \A m \in 0 .. n : \A x : Has(f[m], x) <=> \E i \in 1 .. m : Has(ss[i], x)
  BY <1>3
<1> HIDE DEF n
<1> DEFINE T == {m \in 0 .. n : InOrder(f[m], R)}
<1>4. 0 \in T
  BY <1>a, <1>2 DEF InOrder
<1>5. ASSUME NEW m \in 0 .. n - 1, m \in T PROVE m + 1 \in T
  <2> DEFINE s == f[m]
             t == ss[m + 1]
  <2>1. m + 1 \in 1 .. n /\ (m + 1) - 1 = m /\ m \in 0 .. n /\ m + 1 \in 0 .. n
    BY <1>2
  <2>2. f[m + 1] = s \o t /\ s \in Seq(S) /\ t \in Seq(S)
    BY <1>a, <1>2, <2>1
  <2>3. /\ Len(s) \in Nat /\ DOMAIN s \subseteq Nat
        /\ \A k \in DOMAIN s : k <= Len(s) /\ (s \o t)[k] = s[k]
        /\ \A k \in DOMAIN t : k > 0 /\ (s \o t)[Len(s) + k] = t[k]
        /\ \A k \in DOMAIN (s \o t) :
              k \in DOMAIN s \/ \E j \in DOMAIN t : k = Len(s) + j
    BY <2>2, Concatenated
  <2>4. DOMAIN t \subseteq Nat
    BY <2>2
  <2>5. InOrder(s, R) /\ InOrder(t, R)
    BY <1>2, <1>5, <2>1
  <2>6. \A a \in DOMAIN s, b \in DOMAIN t : <<s[a], t[b]>> \in R
    <3> SUFFICES ASSUME NEW a \in DOMAIN s, NEW b \in DOMAIN t PROVE <<s[a], t[b]>> \in R
      OBVIOUS
    <3>1. Has(f[m], s[a]) /\ Has(ss[m + 1], t[b])
      BY DEF Has
    <3>2. PICK i \in 1 .. m : Has(ss[i], s[a])
      BY <1>b, <2>1, <3>1
    <3>3. i \in DOMAIN ss /\ m + 1 \in DOMAIN ss /\ i < m + 1
      BY <1>2, <2>1
    <3> QED BY <3>1, <3>2, <3>3
  <2> HIDE DEF s, t
  <2>7. ASSUME NEW a \in DOMAIN (s \o t), NEW b \in DOMAIN (s \o t), a < b
        PROVE  <<(s \o t)[a], (s \o t)[b]>> \in R
    <3>1. CASE a \in DOMAIN s /\ b \in DOMAIN s
      BY <2>3, <2>5, <2>7, <3>1 DEF InOrder
    <3>2. CASE a \in DOMAIN s /\ b \notin DOMAIN s
      BY <2>3, <2>6, <3>2
    <3>3. CASE a \notin DOMAIN s /\ b \in DOMAIN s
      BY <2>3, <2>4, <2>7, <3>3
    <3>4. CASE a \notin DOMAIN s /\ b \notin DOMAIN s
      <4>1. PICK c \in DOMAIN t : a = Len(s) + c
        BY <2>3, <3>4
      <4>2. PICK d \in DOMAIN t : b = Len(s) + d
        BY <2>3, <3>4
      <4>3. c < d
        BY <2>3, <2>4, <2>7, <4>1, <4>2
      <4> QED BY <2>3, <2>5, <4>1, <4>2, <4>3 DEF InOrder
    <3> QED BY <3>1, <3>2, <3>3, <3>4
  <2>8. InOrder(f[m + 1], R)
    BY <2>2, <2>7 DEF InOrder
  <2> QED BY <2>1, <2>8
<1>6. n \in 0 .. n /\ 0 .. n \subseteq T
  <2>1. 0 .. n \subseteq T
    <3> HIDE DEF T
    <3> QED BY <1>2, <1>4, <1>5, Upwards
  <2> QED BY <1>2, <2>1
<1>7. InOrder(f[n], R)
  BY <1>6
<1> QED BY <1>1, <1>7 DEF n

\* A finite set in a strict and total order has a list in that order.
LEMMA Listable ==
  ASSUME NEW S, IsFiniteSet(S), NEW R,
         \A x, y \in S : x # y => <<x, y>> \in R \/ <<y, x>> \in R,
         \A x, y \in S : ~(<<x, y>> \in R /\ <<y, x>> \in R),
         \A x, y, z \in S : <<x, y>> \in R /\ <<y, z>> \in R => <<x, z>> \in R
  PROVE  \E s \in [1 .. Cardinality(S) -> S] :
           InOrder(s, R) /\ \A x \in S : \E k \in DOMAIN s : s[k] = x
<1> DEFINE n == Cardinality(S)
           below(x) == {y \in S : <<y, x>> \in R}
           rank == [x \in S |-> Cardinality(below(x)) + 1]
<1>1. n \in Nat
  BY FS_CardinalityType
<1>2. \A x \in S : IsFiniteSet(below(x)) /\ Cardinality(below(x)) \in Nat
  <2>1. \A x \in S : below(x) \in SUBSET S
    OBVIOUS
  <2> HIDE DEF below
  <2> QED BY <2>1, FS_Subset, FS_CardinalityType
<1>3. ASSUME NEW x \in S, NEW y \in S, <<x, y>> \in R
      PROVE  Cardinality(below(x)) < Cardinality(below(y))
  <2>1. below(x) \in SUBSET below(y) /\ x \in below(y) /\ x \notin below(x)
    BY <1>3
  <2> HIDE DEF below
  <2>2. Cardinality(below(x)) <= Cardinality(below(y))
        /\ Cardinality(below(x)) # Cardinality(below(y))
    BY <1>2, <2>1, FS_Subset
  <2> QED BY <1>2, <2>2
<1>4. ASSUME NEW x \in S PROVE Cardinality(below(x)) < n
  <2>1. below(x) \in SUBSET S /\ x \notin below(x)
    OBVIOUS
  <2> HIDE DEF below
  <2>2. Cardinality(below(x)) <= n /\ Cardinality(below(x)) # n
    BY <2>1, FS_Subset
  <2> QED BY <1>1, <1>2, <2>2
<1> HIDE DEF below
<1>5. rank \in [S -> 1 .. n]
  BY <1>1, <1>2, <1>4
<1>7. \A x, y \in S : <<x, y>> \in R => rank[x] < rank[y]
  BY <1>2, <1>3
<1>6. \A x, y \in S : x # y => rank[x] # rank[y]
  <2> SUFFICES ASSUME NEW x \in S, NEW y \in S, x # y PROVE rank[x] # rank[y]
    OBVIOUS
  <2>1. rank[x] \in 1 .. n /\ rank[y] \in 1 .. n /\ 1 .. n \subseteq Int
    BY <1>1, <1>5
  <2> HIDE DEF rank
  <2>2. rank[x] < rank[y] \/ rank[y] < rank[x]
    BY <1>7
  <2> QED BY <2>1, <2>2
<1> HIDE DEF rank
<1>8. rank \in Injection(S, 1 .. n)
  BY <1>5, <1>6 DEF Injection, IsInjective
<1>9. IsFiniteSet(1 .. n) /\ Cardinality(1 .. n) = n
  BY <1>1, FS_Interval
<1>10. rank \in Surjection(S, 1 .. n)
  BY <1>8, <1>9, FS_Injection
<1>11. \A k \in 1 .. n : \E x \in S : rank[x] = k
  BY <1>10 DEF Surjection
<1> DEFINE s == [k \in 1 .. n |-> CHOOSE x \in S : rank[x] = k]
<1>12. ASSUME NEW k \in 1 .. n PROVE s[k] \in S /\ rank[s[k]] = k
  BY <1>11
<1>13. s \in [1 .. n -> S]
  BY <1>12
<1> HIDE DEF s
<1>14. InOrder(s, R)
  <2> SUFFICES ASSUME NEW i \in 1 .. n, NEW j \in 1 .. n, i < j
               PROVE  <<s[i], s[j]>> \in R
    BY <1>13 DEF InOrder
  <2>1. s[i] \in S /\ s[j] \in S /\ rank[s[i]] = i /\ rank[s[j]] = j
    BY <1>12
  <2>2. s[i] # s[j] /\ i \in Int /\ j \in Int
    BY <2>1
  <2>3. <<s[i], s[j]>> \in R \/ <<s[j], s[i]>> \in R
    BY <2>1, <2>2
  <2>4. <<s[j], s[i]>> \in R => j < i
    BY <1>7, <2>1
  <2> QED BY <2>2, <2>3, <2>4
<1>15. ASSUME NEW x \in S PROVE \E k \in DOMAIN s : s[k] = x
  <2>1. rank[x] \in 1 .. n
    BY <1>5
  <2>2. s[rank[x]] = x
    BY <1>6, <1>12, <2>1
  <2> QED BY <1>13, <2>1, <2>2
<1> QED BY <1>13, <1>14, <1>15 DEF n

-----------------------------------------------------------------------------
(* Select and Sorted.                                                      *)

\* Select, with a set in the place of a condition.
Keep(s, A) == FlattenSeq([i \in DOMAIN s |-> IF s[i] \in A THEN <<s[i]>> ELSE <<>>])

LEMMA Elements ==
  ASSUME NEW S, NEW s \in Seq(S)
  PROVE  /\ \A x : x \in ToSet(s) <=> Has(s, x)
         /\ ToSet(s) \subseteq S /\ s \in Seq(ToSet(s)) /\ IsFiniteSet(ToSet(s))
         /\ \A i \in DOMAIN s : s[i] \in S /\ s[i] \in ToSet(s)
         /\ (s = <<>> <=> ToSet(s) = {})
<1>1. Len(s) \in Nat /\ DOMAIN s = 1 .. Len(s) /\ s \in [1 .. Len(s) -> S]
  OBVIOUS
<1>2. \A x : x \in ToSet(s) <=> Has(s, x)
  BY DEF ToSet, Has
<1>3. ToSet(s) \subseteq S /\ \A i \in DOMAIN s : s[i] \in S /\ s[i] \in ToSet(s)
  BY <1>1 DEF ToSet
<1>4. s \in [1 .. Len(s) -> ToSet(s)]
  BY <1>1, <1>3
<1>5. s \in Seq(ToSet(s))
  BY <1>1, <1>4
<1>6. s \in Surjection(1 .. Len(s), ToSet(s))
  BY <1>1, <1>2, <1>4 DEF Surjection, Has
<1>7. IsFiniteSet(ToSet(s))
  <2>1. IsFiniteSet(1 .. Len(s))
    BY <1>1, FS_Interval
  <2> QED BY <1>6, <2>1, FS_Surjection
<1>8. s = <<>> <=> ToSet(s) = {}
  <2>1. ASSUME s # <<>> PROVE ToSet(s) # {}
    <3>1. 1 \in DOMAIN s
      BY <1>1, <2>1
    <3> QED BY <1>3, <3>1
  <2>2. ASSUME s = <<>> PROVE ToSet(s) = {}
    BY <2>2 DEF ToSet
  <2> QED BY <2>1, <2>2
<1> QED BY <1>2, <1>3, <1>5, <1>7, <1>8

LEMMA Kept ==
  ASSUME NEW S, NEW s \in Seq(S), NEW A
  PROVE  /\ Keep(s, A) \in Seq(S)
         /\ \A x : x \in ToSet(Keep(s, A)) <=> x \in ToSet(s) /\ x \in A
         /\ \A R : InOrder(s, R) => InOrder(Keep(s, A), R)
<1> DEFINE ss == [i \in DOMAIN s |-> IF s[i] \in A THEN <<s[i]>> ELSE <<>>]
<1>1. Keep(s, A) = FlattenSeq(ss)
  BY DEF Keep
<1>2. DOMAIN s = 1 .. Len(s) /\ Len(s) \in Nat /\ \A i \in DOMAIN s : s[i] \in S
  OBVIOUS
<1>3. ss \in Seq(Seq(S)) /\ DOMAIN ss = DOMAIN s
  <2>1. \A i \in DOMAIN s : ss[i] \in Seq(S)
    BY <1>2
  <2>2. ss \in [1 .. Len(s) -> Seq(S)]
    BY <1>2, <2>1
  <2> HIDE DEF ss
  <2> QED BY <1>2, <2>2
<1>4. \A i \in DOMAIN s : \A x : Has(ss[i], x) <=> x = s[i] /\ x \in A
  BY DEF Has
<1>5. \A i \in DOMAIN s : \A R : InOrder(ss[i], R)
  BY DEF InOrder
<1> HIDE DEF ss
<1>6. \A i \in DOMAIN s : \A x : x \in ToSet(ss[i]) <=> Has(ss[i], x)
  BY DEF ToSet, Has
<1>7. FlattenSeq(ss) \in Seq(S)
      /\ \A x : x \in ToSet(FlattenSeq(ss)) <=> \E i \in DOMAIN ss : x \in ToSet(ss[i])
  BY <1>3, Flattened
<1>8. \A x : x \in ToSet(FlattenSeq(ss)) <=> x \in ToSet(s) /\ x \in A
  <2> SUFFICES ASSUME NEW x
               PROVE  x \in ToSet(FlattenSeq(ss)) <=> x \in ToSet(s) /\ x \in A
    OBVIOUS
  <2>1. x \in ToSet(FlattenSeq(ss)) <=> \E i \in DOMAIN s : x = s[i] /\ x \in A
    BY <1>3, <1>4, <1>6, <1>7
  <2>2. x \in ToSet(s) <=> \E i \in DOMAIN s : x = s[i]
    BY DEF ToSet
  <2> QED BY <2>1, <2>2
<1>9. ASSUME NEW R, InOrder(s, R) PROVE InOrder(FlattenSeq(ss), R)
  <2>1. \A i, j \in DOMAIN ss : i < j =>
          \A x, y : Has(ss[i], x) /\ Has(ss[j], y) => <<x, y>> \in R
    BY <1>3, <1>4, <1>9 DEF InOrder
  <2> QED BY <1>3, <1>5, <2>1, FlattenedInOrder
<1> QED BY <1>1, <1>7, <1>8, <1>9

\* As many elements of a finite set as it has, each greater than those before,
\* are all of them.
LEMMA ListsAll ==
  ASSUME NEW S, IsFiniteSet(S), NEW s \in [1 .. Cardinality(S) -> S],
         \A i, j \in 1 .. Cardinality(S) : i < j => s[i] # s[j]
  PROVE  /\ s \in Seq(S) /\ ToSet(s) = S
<1>1. Cardinality(S) \in Nat
  BY FS_CardinalityType
<1>2. IsFiniteSet(1 .. Cardinality(S)) /\ Cardinality(1 .. Cardinality(S)) = Cardinality(S)
  BY <1>1, FS_Interval
<1>3. s \in Injection(1 .. Cardinality(S), S)
  <2>1. ASSUME NEW i \in 1 .. Cardinality(S), NEW j \in 1 .. Cardinality(S), s[i] = s[j]
        PROVE  i = j
    <3>1. ~(i < j) /\ ~(j < i) /\ i \in Int /\ j \in Int
      BY <2>1
    <3> QED BY <3>1
  <2> QED BY <2>1 DEF Injection, IsInjective
<1>4. s \in Surjection(1 .. Cardinality(S), S)
  BY <1>2, <1>3, FS_Injection
<1>5. \A x \in S : \E i \in 1 .. Cardinality(S) : s[i] = x
  BY <1>4 DEF Surjection
<1>6. s \in Seq(S)
  BY <1>1
<1>7. ToSet(s) = S
  BY <1>5 DEF ToSet
<1> QED BY <1>6, <1>7

\* A list of different paths in their order.
LEMMA PathsAre ==
  ASSUME NEW S, NEW s \in Seq(S), \A x \in S : x.Path \in DOMAIN Rank
  PROVE  /\ Paths(s) \in Seq(DOMAIN Rank)
         /\ \A p : p \in ToSet(Paths(s)) <=> \E x \in ToSet(s) : x.Path = p
<1> DEFINE P == {s[i].Path : i \in DOMAIN s}
           R == {e \in P \X P : Rank[e[1]] < Rank[e[2]]}
           n == Cardinality(P)
           f == [i \in DOMAIN s |-> s[i].Path]
<1>1. DOMAIN s = 1 .. Len(s) /\ Len(s) \in Nat /\ \A i \in DOMAIN s : s[i] \in S
  OBVIOUS
<1>2. P \subseteq DOMAIN Rank
  BY <1>1
<1>3. IsFiniteSet(P)
  <2>1. f \in Surjection(DOMAIN s, P)
    BY DEF Surjection
  <2>2. IsFiniteSet(DOMAIN s)
    BY <1>1, FS_Interval
  <2> HIDE DEF f, P
  <2> QED BY <2>1, <2>2, FS_Surjection
<1>4. \A p : p \in P <=> \E x \in ToSet(s) : x.Path = p
  BY DEF ToSet
<1> HIDE DEF P, f
<1>5. \A p, q \in P : Rank[p] \in Nat /\ (<<p, q>> \in R <=> Rank[p] < Rank[q])
                      /\ (Rank[p] = Rank[q] => p = q)
  BY <1>2, RankAssumption
<1> HIDE DEF R
<1>6. \A x, y \in P : x # y => <<x, y>> \in R \/ <<y, x>> \in R
  BY <1>5
<1>7. ASSUME NEW x \in P, NEW y \in P PROVE ~(<<x, y>> \in R /\ <<y, x>> \in R)
  <2>1. Rank[x] \in Nat /\ Rank[y] \in Nat
        /\ (<<x, y>> \in R <=> Rank[x] < Rank[y]) /\ (<<y, x>> \in R <=> Rank[y] < Rank[x])
    BY <1>5
  <2> QED BY <2>1
<1>8. ASSUME NEW x \in P, NEW y \in P, NEW z \in P, <<x, y>> \in R, <<y, z>> \in R
      PROVE  <<x, z>> \in R
  <2>1. Rank[x] \in Nat /\ Rank[y] \in Nat /\ Rank[z] \in Nat
        /\ Rank[x] < Rank[y] /\ Rank[y] < Rank[z]
    BY <1>5, <1>8
  <2>2. Rank[x] < Rank[z]
    BY <2>1
  <2> QED BY <1>5, <2>2
<1>9. \E t \in [1 .. n -> P] : InOrder(t, R) /\ \A x \in P : \E k \in DOMAIN t : t[k] = x
  BY <1>3, <1>6, <1>7, <1>8, Listable
<1> DEFINE Ordered(t) == \A i, j \in DOMAIN t : i < j => Rank[t[i]] < Rank[t[j]]
<1>10. Paths(s) = CHOOSE t \in [1 .. n -> P] : Ordered(t)
  BY Zenon DEF Paths, Sorted, P
<1>11. \E t \in [1 .. n -> P] : Ordered(t)
  BY <1>5, <1>9 DEF InOrder
<1>12. Paths(s) \in [1 .. n -> P] /\ Ordered(Paths(s))
  <2> HIDE DEF Ordered
  <2> QED BY <1>10, <1>11
<1>13. \A i, j \in 1 .. n : i < j => Paths(s)[i] # Paths(s)[j]
  <2> SUFFICES ASSUME NEW i \in 1 .. n, NEW j \in 1 .. n, i < j
               PROVE  Paths(s)[i] # Paths(s)[j]
    OBVIOUS
  <2> DEFINE a == Paths(s)[i]
             b == Paths(s)[j]
  <2>1. a \in P /\ b \in P /\ Rank[a] < Rank[b]
    BY <1>12
  <2> HIDE DEF a, b
  <2>2. Rank[a] \in Nat /\ Rank[b] \in Nat
    BY <1>5, <2>1
  <2>3. a # b
    BY <2>1, <2>2
  <2> QED BY <2>3 DEF a, b
<1>14. Paths(s) \in Seq(P) /\ ToSet(Paths(s)) = P
  BY <1>3, <1>12, <1>13, ListsAll
<1> QED BY <1>2, <1>4, <1>14

LEMMA OfPathIs ==
  ASSUME NEW S, NEW s \in Seq(S), NEW path
  PROVE  /\ OfPath(s, path) \in Seq(S)
         /\ \A x : x \in ToSet(OfPath(s, path)) <=> x \in ToSet(s) /\ x.Path = path
<1> DEFINE A == {x \in S : x.Path = path}
<1>1. \A i \in DOMAIN s : s[i] \in S
  OBVIOUS
<1>2. OfPath(s, path) = Keep(s, A)
  BY <1>1 DEF OfPath, Select, Concat, Keep
<1>3. Keep(s, A) \in Seq(S)
      /\ \A x : x \in ToSet(Keep(s, A)) <=> x \in ToSet(s) /\ x \in A
  <2> HIDE DEF A
  <2> QED BY Kept
<1>4. ToSet(s) \subseteq S
  BY Elements
<1> QED BY <1>2, <1>3, <1>4

\* Concat, with a function in the place of an operator.
LEMMA Joined ==
  ASSUME NEW S, NEW T, NEW s \in Seq(S), NEW g \in [S -> Seq(T)]
  PROVE  /\ FlattenSeq([i \in DOMAIN s |-> g[s[i]]]) \in Seq(T)
         /\ \A x : x \in ToSet(FlattenSeq([i \in DOMAIN s |-> g[s[i]]])) <=>
                     \E e \in ToSet(s) : x \in ToSet(g[e])
<1> DEFINE ss == [i \in DOMAIN s |-> g[s[i]]]
<1>1. DOMAIN s = 1 .. Len(s) /\ Len(s) \in Nat /\ \A i \in DOMAIN s : s[i] \in S
  OBVIOUS
<1>2. ss \in [1 .. Len(s) -> Seq(T)]
  BY <1>1
<1>3. ss \in Seq(Seq(T)) /\ DOMAIN ss = DOMAIN s /\ \A i \in DOMAIN s : ss[i] = g[s[i]]
  BY <1>1, <1>2
<1> HIDE DEF ss
<1>4. /\ FlattenSeq(ss) \in Seq(T)
      /\ \A x : x \in ToSet(FlattenSeq(ss)) <=> \E i \in DOMAIN ss : x \in ToSet(ss[i])
  BY <1>3, Flattened
<1>5. \A x : (\E i \in DOMAIN ss : x \in ToSet(ss[i])) <=>
             \E e \in ToSet(s) : x \in ToSet(g[e])
  <2>1. ToSet(s) = {s[i] : i \in DOMAIN s}
    BY DEF ToSet
  <2> QED BY <1>3, <2>1
<1> QED BY <1>4, <1>5 DEF ss

-----------------------------------------------------------------------------
(* What merging makes of the packages of a module.                         *)

AnyStack   == UNION {ToSet(callStacks(vv)) : vv \in Findings}
AnyPackage == [Path : DOMAIN Rank, CallStacks : Seq(AnyStack)]

\* A finding of id in package pk of module mp, and a call stack of one.
Finds(vv, id, mp, pk) ==
  vv \in Findings /\ vv.OSV.ID = id /\ vv.ModPath = mp /\ vv.PkgPath = pk
IsStackOf(cs, id, mp, pk) == \E vv : Finds(vv, id, mp, pk) /\ cs \in ToSet(callStacks(vv))

\* Packages of module mp, as far as the findings of id justify them.
PackageOf(id, mp) ==
  {p \in AnyPackage :
     /\ \E vv : Finds(vv, id, mp, p.Path)
     /\ \A cs \in ToSet(p.CallStacks) : IsStackOf(cs, id, mp, p.Path)}

\* Whatever is in one package of ps is in one of qs.
PackagesCover(qs, ps) ==
  \A p \in ToSet(ps) : \E q \in ToSet(qs) :
    q.Path = p.Path /\ ToSet(p.CallStacks) \subseteq ToSet(q.CallStacks)

LEMMA StacksJoined ==
  ASSUME NEW ps \in Seq(AnyPackage), NEW path
  PROVE  /\ Concat(OfPath(ps, path), LAMBDA p : p.CallStacks) \in Seq(AnyStack)
         /\ \A cs : cs \in ToSet(Concat(OfPath(ps, path), LAMBDA p : p.CallStacks)) <=>
              \E p \in ToSet(ps) : p.Path = path /\ cs \in ToSet(p.CallStacks)
<1> DEFINE q == OfPath(ps, path)
           g == [p \in AnyPackage |-> p.CallStacks]
<1>1. q \in Seq(AnyPackage) /\ \A x : x \in ToSet(q) <=> x \in ToSet(ps) /\ x.Path = path
  BY OfPathIs
<1> HIDE DEF q
<1>2. g \in [AnyPackage -> Seq(AnyStack)]
  BY DEF AnyPackage
<1>3. \A i \in DOMAIN q : q[i] \in AnyPackage
  BY <1>1
<1>4. Concat(q, LAMBDA p : p.CallStacks) = FlattenSeq([i \in DOMAIN q |-> g[q[i]]])
  BY <1>3 DEF Concat
<1>5. \A p \in ToSet(q) : g[p] = p.CallStacks
  BY <1>1, Elements
<1> HIDE DEF g
<1>6. /\ FlattenSeq([i \in DOMAIN q |-> g[q[i]]]) \in Seq(AnyStack)
      /\ \A x : x \in ToSet(FlattenSeq([i \in DOMAIN q |-> g[q[i]]])) <=>
                  \E e \in ToSet(q) : x \in ToSet(g[e])
  BY <1>1, <1>2, Joined
<1> QED BY <1>1, <1>4, <1>5, <1>6 DEF q

LEMMA PackagesMerged ==
  ASSUME NEW id, NEW mp, NEW ps \in Seq(PackageOf(id, mp))
  PROVE  /\ mergePackages(ps) \in Seq(PackageOf(id, mp))
         /\ PackagesCover(mergePackages(ps), ps)
<1> DEFINE paths == Paths(ps)
           stacks(path) == Concat(OfPath(ps, path), LAMBDA p : p.CallStacks)
           new(path) == [Path |-> path, CallStacks |-> stacks(path)]
<1>1. mergePackages(ps) = [i \in DOMAIN paths |-> new(paths[i])]
  BY Zenon DEF mergePackages
<1>2. ps \in Seq(AnyPackage) /\ ToSet(ps) \subseteq PackageOf(id, mp)
  <2>1. PackageOf(id, mp) \subseteq AnyPackage
    BY DEF PackageOf
  <2>2. Seq(PackageOf(id, mp)) \subseteq Seq(AnyPackage)
    BY <2>1
  <2> QED BY <2>2, Elements
<1>3. /\ paths \in Seq(DOMAIN Rank)
      /\ \A p : p \in ToSet(paths) <=> \E x \in ToSet(ps) : x.Path = p
  <2>1. \A x \in AnyPackage : x.Path \in DOMAIN Rank
    BY DEF AnyPackage
  <2> QED BY <1>2, <2>1, PathsAre
<1>4. ASSUME NEW path
      PROVE  /\ stacks(path) \in Seq(AnyStack)
             /\ \A cs : cs \in ToSet(stacks(path)) <=>
                  \E p \in ToSet(ps) : p.Path = path /\ cs \in ToSet(p.CallStacks)
  BY <1>2, StacksJoined
<1> HIDE DEF stacks, paths
<1>5. ASSUME NEW path \in ToSet(paths) PROVE new(path) \in PackageOf(id, mp)
  <2>1. path \in DOMAIN Rank
    BY <1>3, Elements
  <2>2. new(path) \in AnyPackage
    BY <1>4, <2>1 DEF AnyPackage
  <2>3. PICK x \in ToSet(ps) : x.Path = path
    BY <1>3
  <2>4. \E vv : Finds(vv, id, mp, path)
    BY <1>2, <2>3 DEF PackageOf
  <2>5. ASSUME NEW cs \in ToSet(stacks(path)) PROVE IsStackOf(cs, id, mp, path)
    <3>1. PICK p \in ToSet(ps) : p.Path = path /\ cs \in ToSet(p.CallStacks)
      BY <1>4
    <3>2. p \in PackageOf(id, mp)
      BY <1>2
    <3> QED BY <3>1, <3>2 DEF PackageOf
  <2> QED BY <2>2, <2>4, <2>5 DEF PackageOf
<1>6. mergePackages(ps) \in Seq(PackageOf(id, mp))
  <2>1. DOMAIN paths = 1 .. Len(paths) /\ Len(paths) \in Nat
        /\ \A i \in DOMAIN paths : paths[i] \in ToSet(paths)
    BY <1>3, Elements
  <2> HIDE DEF new
  <2>2. mergePackages(ps) \in [1 .. Len(paths) -> PackageOf(id, mp)]
    BY <1>1, <1>5, <2>1
  <2> QED BY <2>1, <2>2
<1>7. ASSUME NEW p \in ToSet(ps)
      PROVE  \E q \in ToSet(mergePackages(ps)) :
               q.Path = p.Path /\ ToSet(p.CallStacks) \subseteq ToSet(q.CallStacks)
  <2>1. p.Path \in ToSet(paths)
    BY <1>3
  <2>2. new(p.Path) \in ToSet(mergePackages(ps))
    <3> HIDE DEF new
    <3> QED BY <1>1, <2>1 DEF ToSet
  <2>3. ToSet(p.CallStacks) \subseteq ToSet(stacks(p.Path))
    BY <1>4
  <2> QED BY <2>2, <2>3
<1> QED BY <1>6, <1>7 DEF PackagesCover

-----------------------------------------------------------------------------
(* The modules of a vulnerability.                                         *)

AnyModule ==
  [Path : DOMAIN Rank, FoundVersion : {Versions[p] : p \in DOMAIN Rank},
   FixedVersion : {latestFixed(vv.OSV.Affected) : vv \in Findings},
   Packages : Seq(AnyPackage)]

\* The fix of a finding of id in module mp.
IsFixOf(fix, id, mp) ==
  \E vv \in Findings : vv.OSV.ID = id /\ vv.ModPath = mp /\ fix = fixOf(vv)

\* Modules as far as the findings of id justify them.
ModuleOf(id) ==
  {m \in AnyModule : /\ m.FoundVersion = Versions[m.Path]
                     /\ IsFixOf(m.FixedVersion, id, m.Path)
                     /\ m.Packages \in Seq(PackageOf(id, m.Path)) /\ m.Packages # <<>>}

ModulesCover(ns, ms) ==
  \A m \in ToSet(ms) : \E n \in ToSet(ns) :
    n.Path = m.Path /\ PackagesCover(n.Packages, m.Packages)

LEMMA Subsequences ==
  ASSUME NEW S, NEW T, NEW s \in Seq(S), ToSet(s) \subseteq T
  PROVE  s \in Seq(T)
<1>1. s \in Seq(ToSet(s))
  BY Elements
<1>2. Seq(ToSet(s)) \subseteq Seq(T)
  OBVIOUS
<1> QED BY <1>1, <1>2

\* The packages of the modules with one path.
LEMMA PackagesJoined ==
  ASSUME NEW id, NEW ms \in Seq(ModuleOf(id)), NEW path
  PROVE  /\ Concat(OfPath(ms, path), LAMBDA m : m.Packages) \in Seq(PackageOf(id, path))
         /\ \A p : p \in ToSet(Concat(OfPath(ms, path), LAMBDA m : m.Packages)) <=>
              \E m \in ToSet(ms) : m.Path = path /\ p \in ToSet(m.Packages)
<1> DEFINE q == OfPath(ms, path)
           S == {m \in ModuleOf(id) : m.Path = path}
           g == [m \in S |-> m.Packages]
<1>1. q \in Seq(ModuleOf(id)) /\ \A x : x \in ToSet(q) <=> x \in ToSet(ms) /\ x.Path = path
  BY OfPathIs
<1>2. q \in Seq(S)
  <2>1. ToSet(q) \subseteq S
    BY <1>1, Elements
  <2> HIDE DEF q, S
  <2> QED BY <1>1, <2>1, Subsequences
<1> HIDE DEF q
<1>3. g \in [S -> Seq(PackageOf(id, path))]
  BY DEF ModuleOf
<1>4. \A i \in DOMAIN q : q[i] \in S
  BY <1>2
<1>5. Concat(q, LAMBDA m : m.Packages) = FlattenSeq([i \in DOMAIN q |-> g[q[i]]])
  BY <1>4 DEF Concat
<1>6. \A m \in ToSet(q) : g[m] = m.Packages
  BY <1>2, Elements
<1> HIDE DEF g, S
<1>7. /\ FlattenSeq([i \in DOMAIN q |-> g[q[i]]]) \in Seq(PackageOf(id, path))
      /\ \A x : x \in ToSet(FlattenSeq([i \in DOMAIN q |-> g[q[i]]])) <=>
                  \E e \in ToSet(q) : x \in ToSet(g[e])
  BY <1>2, <1>3, Joined
<1> QED BY <1>1, <1>5, <1>6, <1>7 DEF q

LEMMA ModulesMerged ==
  ASSUME NEW id, NEW ms \in Seq(ModuleOf(id))
  PROVE  /\ mergeModules(ms) \in Seq(ModuleOf(id))
         /\ ModulesCover(mergeModules(ms), ms)
<1> DEFINE paths == Paths(ms)
           of(path) == OfPath(ms, path)
           pks(path) == Concat(of(path), LAMBDA m : m.Packages)
           new(path) == [Path |-> path, FoundVersion |-> of(path)[1].FoundVersion,
                         FixedVersion |-> of(path)[1].FixedVersion,
                         Packages |-> mergePackages(pks(path))]
<1>1. mergeModules(ms) = [i \in DOMAIN paths |-> new(paths[i])]
  BY Zenon DEF mergeModules
<1>2. ToSet(ms) \subseteq ModuleOf(id)
  BY Elements
<1>3. /\ paths \in Seq(DOMAIN Rank)
      /\ \A p : p \in ToSet(paths) <=> \E x \in ToSet(ms) : x.Path = p
  <2>1. \A x \in ModuleOf(id) : x.Path \in DOMAIN Rank
    BY DEF ModuleOf, AnyModule
  <2> QED BY <2>1, PathsAre
<1>4. ASSUME NEW path
      PROVE  /\ of(path) \in Seq(ModuleOf(id))
             /\ \A x : x \in ToSet(of(path)) <=> x \in ToSet(ms) /\ x.Path = path
  BY OfPathIs
<1>5. ASSUME NEW path
      PROVE  /\ pks(path) \in Seq(PackageOf(id, path))
             /\ \A p : p \in ToSet(pks(path)) <=>
                  \E m \in ToSet(ms) : m.Path = path /\ p \in ToSet(m.Packages)
  BY PackagesJoined
<1> HIDE DEF paths, of, pks
<1>6. ASSUME NEW path
      PROVE  /\ mergePackages(pks(path)) \in Seq(PackageOf(id, path))
             /\ PackagesCover(mergePackages(pks(path)), pks(path))
  BY <1>5, PackagesMerged
<1>7. ASSUME NEW path \in ToSet(paths) PROVE new(path) \in ModuleOf(id)
  <2>1. path \in DOMAIN Rank
    BY <1>3, Elements
  <2>2. PICK m \in ToSet(ms) : m.Path = path
    BY <1>3
  <2>3. of(path) # <<>>
    BY <1>4, <2>2, Elements
  <2>4. of(path)[1] \in ToSet(of(path))
    <3>1. 1 \in DOMAIN of(path)
      BY <1>4, <2>3
    <3> QED BY <1>4, <3>1, Elements
  <2>5. of(path)[1] \in ModuleOf(id) /\ of(path)[1].Path = path
    BY <1>2, <1>4, <2>4
  <2>6. mergePackages(pks(path)) # <<>>
    <3>1. m.Packages \in Seq(PackageOf(id, path)) /\ m.Packages # <<>>
      BY <1>2, <2>2 DEF ModuleOf
    <3>2. PICK p : p \in ToSet(m.Packages)
      BY <3>1, Elements
    <3>3. p \in ToSet(pks(path))
      BY <1>5, <2>2, <3>2
    <3>4. ToSet(mergePackages(pks(path))) # {}
      BY <1>6, <3>3 DEF PackagesCover
    <3> QED BY <1>6, <3>4, Elements
  <2>7. mergePackages(pks(path)) \in Seq(AnyPackage)
    <3>1. PackageOf(id, path) \subseteq AnyPackage
      BY DEF PackageOf
    <3>2. Seq(PackageOf(id, path)) \subseteq Seq(AnyPackage)
      BY <3>1
    <3> QED BY <1>6, <3>2
  <2>8. /\ of(path)[1].FoundVersion \in {Versions[p] : p \in DOMAIN Rank}
        /\ of(path)[1].FixedVersion \in {latestFixed(vv.OSV.Affected) : vv \in Findings}
        /\ of(path)[1].FoundVersion = Versions[path]
        /\ IsFixOf(of(path)[1].FixedVersion, id, path)
    BY <2>5 DEF ModuleOf, AnyModule
  <2>9. new(path) \in AnyModule
    BY <2>1, <2>7, <2>8 DEF AnyModule
  <2> QED BY <1>6, <2>6, <2>8, <2>9 DEF ModuleOf
<1>8. mergeModules(ms) \in Seq(ModuleOf(id))
  <2>1. DOMAIN paths = 1 .. Len(paths) /\ Len(paths) \in Nat
        /\ \A i \in DOMAIN paths : paths[i] \in ToSet(paths)
    BY <1>3, Elements
  <2> HIDE DEF new
  <2>2. mergeModules(ms) \in [1 .. Len(paths) -> ModuleOf(id)]
    BY <1>1, <1>7, <2>1
  <2> QED BY <2>1, <2>2
<1>9. ASSUME NEW m \in ToSet(ms)
      PROVE  \E n \in ToSet(mergeModules(ms)) :
               n.Path = m.Path /\ PackagesCover(n.Packages, m.Packages)
  <2>1. m.Path \in ToSet(paths)
    BY <1>3
  <2>2. new(m.Path) \in ToSet(mergeModules(ms))
    <3> HIDE DEF new
    <3> QED BY <1>1, <2>1 DEF ToSet
  <2>3. ToSet(m.Packages) \subseteq ToSet(pks(m.Path))
    BY <1>5
  <2>4. PackagesCover(mergePackages(pks(m.Path)), m.Packages)
    BY <1>6, <2>3 DEF PackagesCover
  <2> QED BY <2>2, <2>4
<1> QED BY <1>8, <1>9 DEF ModulesCover

-----------------------------------------------------------------------------
(* The vulnerabilities.                                                    *)

AnyVuln == [OSV : {vv.OSV : vv \in Findings}, Modules : Seq(AnyModule)]

\* Vulnerabilities as far as the findings justify them.
Justified ==
  {v \in AnyVuln : v.Modules \in Seq(ModuleOf(v.OSV.ID)) /\ v.Modules # <<>>}

VulnsCover(ws, vs) ==
  \A v \in ToSet(vs) : \E w \in ToSet(ws) :
    w.OSV.ID = v.OSV.ID /\ ModulesCover(w.Modules, v.Modules)

\* The latest identifier comes first.
Latest(vs) == \A i, j \in DOMAIN vs : i < j => vs[i].OSV.ID > vs[j].OSV.ID

LEMMA LatestFirst ==
  ASSUME NEW N \in SUBSET Nat, IsFiniteSet(N)
  PROVE  /\ Sorted(N, LAMBDA a, b : a > b) \in Seq(N)
         /\ ToSet(Sorted(N, LAMBDA a, b : a > b)) = N
         /\ \A i, j \in DOMAIN Sorted(N, LAMBDA a, b : a > b) :
              i < j => Sorted(N, LAMBDA a, b : a > b)[i] > Sorted(N, LAMBDA a, b : a > b)[j]
<1> DEFINE R == {e \in N \X N : e[1] > e[2]}
           n == Cardinality(N)
           Down(t) == \A i, j \in DOMAIN t : i < j => t[i] > t[j]
           s == Sorted(N, LAMBDA a, b : a > b)
<1>1. \A a, b \in N : <<a, b>> \in R <=> a > b
  OBVIOUS
<1>2. /\ \A x, y \in N : x # y => <<x, y>> \in R \/ <<y, x>> \in R
      /\ \A x, y \in N : ~(<<x, y>> \in R /\ <<y, x>> \in R)
      /\ \A x, y, z \in N : <<x, y>> \in R /\ <<y, z>> \in R => <<x, z>> \in R
  BY <1>1
<1> HIDE DEF R
<1>3. \E t \in [1 .. n -> N] : InOrder(t, R) /\ \A x \in N : \E k \in DOMAIN t : t[k] = x
  BY <1>2, Listable
<1>4. s = CHOOSE t \in [1 .. n -> N] : Down(t)
  BY Zenon DEF Sorted
<1>5. \E t \in [1 .. n -> N] : Down(t)
  BY <1>1, <1>3 DEF InOrder
<1> HIDE DEF s
<1>6. s \in [1 .. n -> N] /\ Down(s)
  <2> HIDE DEF Down
  <2> QED BY <1>4, <1>5
<1>7. \A i, j \in 1 .. n : i < j => s[i] # s[j]
  <2> SUFFICES ASSUME NEW i \in 1 .. n, NEW j \in 1 .. n, i < j PROVE s[i] # s[j]
    OBVIOUS
  <2>1. s[i] \in Nat /\ s[j] \in Nat /\ s[i] > s[j]
    BY <1>6
  <2> QED BY <2>1
<1>8. s \in Seq(N) /\ ToSet(s) = N
  BY <1>6, <1>7, ListsAll
<1> QED BY <1>6, <1>8 DEF s

LEMMA OfIDIs ==
  ASSUME NEW vs \in Seq(Justified), NEW id
  PROVE  /\ OfID(vs, id) \in Seq(Justified)
         /\ \A v : v \in ToSet(OfID(vs, id)) <=> v \in ToSet(vs) /\ v.OSV.ID = id
<1> DEFINE A == {v \in Justified : v.OSV.ID = id}
<1>1. \A i \in DOMAIN vs : vs[i] \in Justified
  OBVIOUS
<1>2. OfID(vs, id) = Keep(vs, A)
  BY <1>1 DEF OfID, Select, Concat, Keep
<1>3. Keep(vs, A) \in Seq(Justified)
      /\ \A v : v \in ToSet(Keep(vs, A)) <=> v \in ToSet(vs) /\ v \in A
  <2> HIDE DEF A
  <2> QED BY Kept
<1>4. ToSet(vs) \subseteq Justified
  BY Elements
<1> QED BY <1>2, <1>3, <1>4

LEMMA ModulesJoined ==
  ASSUME NEW vs \in Seq(Justified), NEW id
  PROVE  /\ ModulesOf(vs, id) \in Seq(ModuleOf(id))
         /\ \A m : m \in ToSet(ModulesOf(vs, id)) <=>
              \E v \in ToSet(vs) : v.OSV.ID = id /\ m \in ToSet(v.Modules)
<1> DEFINE q == OfID(vs, id)
           S == {v \in Justified : v.OSV.ID = id}
           g == [v \in S |-> v.Modules]
<1>1. q \in Seq(Justified) /\ \A v : v \in ToSet(q) <=> v \in ToSet(vs) /\ v.OSV.ID = id
  BY OfIDIs
<1>2. q \in Seq(S)
  <2>1. ToSet(q) \subseteq S
    BY <1>1, Elements
  <2> HIDE DEF q, S
  <2> QED BY <1>1, <2>1, Subsequences
<1> HIDE DEF q
<1>3. g \in [S -> Seq(ModuleOf(id))]
  BY DEF Justified
<1>4. \A i \in DOMAIN q : q[i] \in S
  BY <1>2
<1>5. Concat(q, LAMBDA v : v.Modules) = FlattenSeq([i \in DOMAIN q |-> g[q[i]]])
  BY <1>4 DEF Concat
<1>6. \A v \in ToSet(q) : g[v] = v.Modules
  BY <1>2, Elements
<1> HIDE DEF g, S
<1>7. /\ FlattenSeq([i \in DOMAIN q |-> g[q[i]]]) \in Seq(ModuleOf(id))
      /\ \A x : x \in ToSet(FlattenSeq([i \in DOMAIN q |-> g[q[i]]])) <=>
                  \E e \in ToSet(q) : x \in ToSet(g[e])
  BY <1>2, <1>3, Joined
<1> QED BY <1>1, <1>5, <1>6, <1>7 DEF q, ModulesOf

LEMMA VulnsMerged ==
  ASSUME NEW vs \in Seq(Justified), \A vv \in Findings : vv.OSV.ID \in Nat
  PROVE  /\ merge(vs) \in Seq(Justified) /\ Latest(merge(vs))
         /\ VulnsCover(merge(vs), vs)
<1> DEFINE N == {vs[i].OSV.ID : i \in DOMAIN vs}
           ids == Sorted(N, LAMBDA a, b : a > b)
           mods(id) == ModulesOf(vs, id)
           new(id) == [OSV |-> Last(OfID(vs, id)).OSV, Modules |-> mergeModules(mods(id))]
<1>1. merge(vs) = [i \in DOMAIN ids |-> new(ids[i])]
  BY Zenon DEF merge
<1>2. ToSet(vs) \subseteq Justified /\ DOMAIN vs = 1 .. Len(vs) /\ Len(vs) \in Nat
      /\ \A i \in DOMAIN vs : vs[i] \in Justified
  BY Elements
<1>3. \A id : id \in N <=> \E v \in ToSet(vs) : v.OSV.ID = id
  BY DEF ToSet
<1>4. N \in SUBSET Nat
  <2>1. \A v \in Justified : v.OSV.ID \in Nat
    BY DEF Justified, AnyVuln
  <2> QED BY <1>2, <2>1
<1>5. IsFiniteSet(N)
  <2> DEFINE f == [i \in DOMAIN vs |-> vs[i].OSV.ID]
  <2>1. f \in Surjection(DOMAIN vs, N)
    BY DEF Surjection
  <2>2. IsFiniteSet(DOMAIN vs)
    <3>1. IsFiniteSet(1 .. Len(vs))
      BY <1>2, FS_Interval
    <3> QED BY <1>2, <3>1
  <2> HIDE DEF f, N
  <2> QED BY <2>1, <2>2, FS_Surjection
<1> HIDE DEF N
<1>6. ids \in Seq(N) /\ ToSet(ids) = N
      /\ \A i, j \in DOMAIN ids : i < j => ids[i] > ids[j]
  BY <1>4, <1>5, LatestFirst
<1>7. ASSUME NEW id
      PROVE  /\ mods(id) \in Seq(ModuleOf(id))
             /\ \A m : m \in ToSet(mods(id)) <=>
                  \E v \in ToSet(vs) : v.OSV.ID = id /\ m \in ToSet(v.Modules)
  BY ModulesJoined
<1> HIDE DEF ids, mods
<1>8. ASSUME NEW id
      PROVE  mergeModules(mods(id)) \in Seq(ModuleOf(id))
             /\ ModulesCover(mergeModules(mods(id)), mods(id))
  BY <1>7, ModulesMerged
<1>9. ASSUME NEW id \in N PROVE new(id) \in Justified /\ new(id).OSV.ID = id
  <2> DEFINE q == OfID(vs, id)
  <2>1. PICK v \in ToSet(vs) : v.OSV.ID = id
    BY <1>3
  <2>2. q \in Seq(Justified) /\ \A u : u \in ToSet(q) <=> u \in ToSet(vs) /\ u.OSV.ID = id
    BY OfIDIs
  <2> HIDE DEF q
  <2>3. q # <<>>
    BY <2>1, <2>2, Elements
  <2>4. Last(q) \in ToSet(q)
    <3>1. Len(q) \in DOMAIN q
      BY <2>2, <2>3
    <3> QED BY <2>2, <3>1, Elements DEF Last
  <2>5. Last(q) \in Justified /\ Last(q).OSV.ID = id
    BY <1>2, <2>2, <2>4
  <2>6. mergeModules(mods(id)) # <<>>
    <3>1. v.Modules \in Seq(ModuleOf(id)) /\ v.Modules # <<>>
      BY <1>2, <2>1 DEF Justified
    <3>2. PICK m : m \in ToSet(v.Modules)
      BY <3>1, Elements
    <3>3. m \in ToSet(mods(id))
      BY <1>7, <2>1, <3>2
    <3>4. ToSet(mergeModules(mods(id))) # {}
      BY <1>8, <3>3 DEF ModulesCover
    <3> QED BY <1>8, <3>4, Elements
  <2>7. mergeModules(mods(id)) \in Seq(AnyModule)
    <3>1. ModuleOf(id) \subseteq AnyModule
      BY DEF ModuleOf
    <3>2. Seq(ModuleOf(id)) \subseteq Seq(AnyModule)
      BY <3>1
    <3> QED BY <1>8, <3>2
  <2>8. Last(q).OSV \in {vv.OSV : vv \in Findings}
    BY <2>5 DEF Justified, AnyVuln
  <2>9. new(id) \in AnyVuln
    BY <2>7, <2>8 DEF AnyVuln, q
  <2>10. new(id).OSV.ID = id /\ new(id).Modules = mergeModules(mods(id))
    BY <2>5 DEF q
  <2> QED BY <1>8, <2>6, <2>9, <2>10 DEF Justified
<1>10. DOMAIN ids = 1 .. Len(ids) /\ Len(ids) \in Nat /\ \A i \in DOMAIN ids : ids[i] \in N
  BY <1>6
<1>11. merge(vs) \in Seq(Justified)
  <2> HIDE DEF new
  <2>1. merge(vs) \in [1 .. Len(ids) -> Justified]
    BY <1>1, <1>9, <1>10
  <2> QED BY <1>10, <2>1
<1>12. Latest(merge(vs))
  <2>1. DOMAIN merge(vs) = DOMAIN ids /\ \A i \in DOMAIN ids : merge(vs)[i].OSV.ID = ids[i]
    <3> HIDE DEF new
    <3> QED BY <1>1, <1>9, <1>10
  <2> QED BY <1>6, <2>1 DEF Latest
<1>13. ASSUME NEW v \in ToSet(vs)
       PROVE  \E w \in ToSet(merge(vs)) :
                w.OSV.ID = v.OSV.ID /\ ModulesCover(w.Modules, v.Modules)
  <2>1. v.OSV.ID \in N
    BY <1>3
  <2>2. new(v.OSV.ID) \in ToSet(merge(vs))
    <3> HIDE DEF new
    <3> QED BY <1>1, <1>6, <2>1 DEF ToSet
  <2>3. ToSet(v.Modules) \subseteq ToSet(mods(v.OSV.ID))
    BY <1>7
  <2>4. ModulesCover(mergeModules(mods(v.OSV.ID)), v.Modules)
    BY <1>8, <2>3 DEF ModulesCover
  <2>5. new(v.OSV.ID).Modules = mergeModules(mods(v.OSV.ID))
    OBVIOUS
  <2> HIDE DEF new
  <2> QED BY <1>9, <2>1, <2>2, <2>4, <2>5
<1> QED BY <1>11, <1>12, <1>13 DEF VulnsCover

\* What FoundAssumption says of a finding.
LEMMA FindingIs ==
  ASSUME found \in FoundLists, NEW vv \in Findings
  PROVE  /\ vv.OSV.ID \in Nat
         /\ vv.ModPath \in DOMAIN Rank /\ Versions[vv.ModPath] # 0
         /\ vv.PkgPath \in DOMAIN Rank /\ IsStack(vv.stack)
         /\ vv.stack # <<>> => /\ vv.stack[1].Package \in topPkgs
                               /\ vv.stack[Len(vv.stack)].Package = vv.PkgPath
<1>1. vv \in ToSet(found)
  BY DEF Findings
<1>2. vv.OSV.ID \in DOMAIN Affected
  BY <1>1, FoundAssumption
<1>3. vv.OSV.ID \in Nat
  BY <1>2, IDAssumption
<1> QED BY <1>1, <1>3, FoundAssumption

LEMMA SingleJustified ==
  ASSUME found \in FoundLists, NEW vv \in Findings
  PROVE  Single(vv) \in Justified
<1> DEFINE p == [Path |-> vv.PkgPath, CallStacks |-> callStacks(vv)]
           m == [Path |-> vv.ModPath, FoundVersion |-> Versions[vv.ModPath],
                 FixedVersion |-> latestFixed(vv.OSV.Affected), Packages |-> <<p>>]
           id == vv.OSV.ID
<1>1. vv.ModPath \in DOMAIN Rank /\ vv.PkgPath \in DOMAIN Rank
  BY FindingIs
<1>2. ToSet(callStacks(vv)) \subseteq AnyStack
  BY DEF AnyStack
<1>3. callStacks(vv) \in Seq(AnyStack)
  <2>1. callStacks(vv) \in Seq(ToSet(callStacks(vv)))
    <3>1. callStacks(vv) = <<>> \/ \E x : callStacks(vv) = <<x>>
      BY Zenon DEF callStacks
    <3>2. \A x : <<x>> \in Seq({x}) /\ ToSet(<<x>>) = {x}
      BY DEF ToSet
    <3>3. <<>> \in Seq(ToSet(<<>>))
      OBVIOUS
    <3>4. \A x : <<x>> \in Seq(ToSet(<<x>>))
      BY <3>2
    <3> QED BY <3>1, <3>3, <3>4, Zenon
  <2>2. Seq(ToSet(callStacks(vv))) \subseteq Seq(AnyStack)
    BY <1>2
  <2> QED BY <2>1, <2>2
<1>4. p \in AnyPackage
  BY <1>1, <1>3 DEF AnyPackage
<1>5. Finds(vv, id, vv.ModPath, vv.PkgPath)
  BY DEF Finds
<1>6. p \in PackageOf(id, vv.ModPath)
  BY <1>4, <1>5 DEF PackageOf, IsStackOf
<1> HIDE DEF p
<1>7. <<p>> \in Seq(AnyPackage) /\ <<p>> \in Seq(PackageOf(id, vv.ModPath)) /\ <<p>> # <<>>
  BY <1>4, <1>6
<1>8. latestFixed(vv.OSV.Affected) \in {latestFixed(uu.OSV.Affected) : uu \in Findings}
  OBVIOUS
<1>9. m \in AnyModule
  BY <1>1, <1>7, <1>8 DEF AnyModule
<1>10. m \in ModuleOf(id)
  <2>1. IsFixOf(m.FixedVersion, id, m.Path)
    BY DEF IsFixOf, fixOf
  <2> QED BY <1>7, <1>9, <2>1 DEF ModuleOf
<1>11. Single(vv) = [OSV |-> vv.OSV, Modules |-> <<m>>]
  BY Zenon DEF Single, p
<1> HIDE DEF m
<1>12. <<m>> \in Seq(AnyModule) /\ <<m>> \in Seq(ModuleOf(id)) /\ <<m>> # <<>>
  BY <1>9, <1>10
<1>13. Single(vv) \in AnyVuln
  BY <1>11, <1>12 DEF AnyVuln
<1>14. Single(vv).OSV = vv.OSV /\ Single(vv).Modules = <<m>>
  BY <1>11
<1>15. Single(vv).Modules \in Seq(ModuleOf(Single(vv).OSV.ID)) /\ Single(vv).Modules # <<>>
  BY <1>12, <1>14
<1> QED BY <1>13, <1>15 DEF Justified

LEMMA SinglesAre ==
  ASSUME found \in FoundLists
  PROVE  /\ found \in Seq(Findings) /\ Len(found) \in Nat
         /\ \A n \in 0 .. Len(found) :
              /\ Singles(n) \in Seq(Justified) /\ DOMAIN Singles(n) = 1 .. n
              /\ \A i \in 1 .. n : found[i] \in Findings /\ Singles(n)[i] = Single(found[i])
<1>1. found \in Seq(Findings) /\ Len(found) \in Nat
  BY FoundAssumption DEF Findings
<1>2. ASSUME NEW n \in 0 .. Len(found)
      PROVE  /\ Singles(n) \in Seq(Justified) /\ DOMAIN Singles(n) = 1 .. n
             /\ \A i \in 1 .. n : found[i] \in Findings /\ Singles(n)[i] = Single(found[i])
  <2>1. \A i \in 1 .. n : found[i] \in Findings
    BY <1>1
  <2>2. \A i \in 1 .. n : Single(found[i]) \in Justified
    BY <2>1, SingleJustified
  <2>3. Singles(n) \in [1 .. n -> Justified] /\ n \in Nat
    BY <2>2 DEF Singles
  <2> QED BY <2>1, <2>3 DEF Singles
<1> QED BY <1>1, <1>2

\* Every finding is in what merge returns.
Carries(v, m, p, vv) ==
  /\ v.OSV.ID = vv.OSV.ID /\ m \in ToSet(v.Modules) /\ m.Path = vv.ModPath
  /\ p \in ToSet(m.Packages) /\ p.Path = vv.PkgPath
  /\ ToSet(callStacks(vv)) \subseteq ToSet(p.CallStacks)

LEMMA AllMerged ==
  ASSUME found \in FoundLists
  PROVE  /\ Merged \in Seq(Justified) /\ Latest(Merged)
         /\ \A vv \in Findings : \E v \in ToSet(Merged) : \E m, p : Carries(v, m, p, vv)
<1> DEFINE vs == Singles(Len(found))
<1>1. /\ found \in Seq(Findings) /\ Len(found) \in Nat
      /\ vs \in Seq(Justified) /\ DOMAIN vs = 1 .. Len(found)
      /\ \A i \in 1 .. Len(found) : vs[i] = Single(found[i])
  BY SinglesAre
<1>2. Merged = merge(vs)
  BY DEF Merged
<1> HIDE DEF vs
<1>3. \A vv \in Findings : vv.OSV.ID \in Nat
  BY FindingIs
<1>4. merge(vs) \in Seq(Justified) /\ Latest(merge(vs)) /\ VulnsCover(merge(vs), vs)
  BY <1>1, <1>3, VulnsMerged
<1>5. ASSUME NEW vv \in Findings
      PROVE  \E v \in ToSet(merge(vs)) : \E m, p : Carries(v, m, p, vv)
  <2> DEFINE p0 == [Path |-> vv.PkgPath, CallStacks |-> callStacks(vv)]
             m0 == [Path |-> vv.ModPath, FoundVersion |-> Versions[vv.ModPath],
                    FixedVersion |-> latestFixed(vv.OSV.Affected), Packages |-> <<p0>>]
  <2>1. PICK i \in DOMAIN found : found[i] = vv
    BY DEF Findings, ToSet
  <2>2. Single(vv) \in ToSet(vs)
    <3>1. i \in 1 .. Len(found)
      BY <1>1
    <3> QED BY <1>1, <2>1, <3>1 DEF ToSet
  <2>3. Single(vv).OSV.ID = vv.OSV.ID /\ Single(vv).Modules = <<m0>>
    <3>1. Single(vv) = [OSV |-> vv.OSV, Modules |-> <<m0>>]
      BY Zenon DEF Single
    <3> HIDE DEF m0
    <3> QED BY <3>1
  <2>4. m0.Path = vv.ModPath /\ m0.Packages = <<p0>>
    OBVIOUS
  <2>5. p0.Path = vv.PkgPath /\ p0.CallStacks = callStacks(vv)
    OBVIOUS
  <2> HIDE DEF m0, p0
  <2>6. m0 \in ToSet(<<m0>>) /\ p0 \in ToSet(<<p0>>)
    BY DEF ToSet
  <2>7. PICK v \in ToSet(merge(vs)) :
          v.OSV.ID = vv.OSV.ID /\ ModulesCover(v.Modules, <<m0>>)
    BY <1>4, <2>2, <2>3 DEF VulnsCover
  <2>8. PICK m \in ToSet(v.Modules) : m.Path = vv.ModPath /\ PackagesCover(m.Packages, <<p0>>)
    BY <2>4, <2>6, <2>7 DEF ModulesCover
  <2>9. PICK p \in ToSet(m.Packages) :
          p.Path = vv.PkgPath /\ ToSet(callStacks(vv)) \subseteq ToSet(p.CallStacks)
    BY <2>5, <2>6, <2>8 DEF PackagesCover
  <2> QED BY <2>7, <2>8, <2>9 DEF Carries
<1> QED BY <1>2, <1>4, <1>5

-----------------------------------------------------------------------------
(* The messages.                                                           *)

LEMMA Gathering ==
  ASSUME NEW s, NEW v, NEW x, NEW w
  PROVE  /\ gathered([source |-> s, verbose |-> v, vulns |-> x], Config) =
              [source |-> source, verbose |-> verbose, vulns |-> x]
         /\ gathered([source |-> s, verbose |-> v, vulns |-> x], Progress) =
              [source |-> s, verbose |-> v, vulns |-> x]
         /\ gathered([source |-> s, verbose |-> v, vulns |-> x], Vulnerability(w)) =
              [source |-> s, verbose |-> v, vulns |-> Append(x, w)]
BY DEF gathered, Config, Progress, Vulnerability

LEMMA GatheringMore ==
  ASSUME NEW k, NEW w
  PROVE  /\ gathered(Gathered(k), Progress) = Gathered(k)
         /\ gathered(Gathered(k), Vulnerability(w)) =
              [source |-> source, verbose |-> verbose,
               vulns |-> Append(SubSeq(vulns, 1, k), w)]
BY DEF gathered, Gathered, Progress, Vulnerability

LEMMA Writing ==
  /\ written(Config) = <<Config>> /\ written(Progress) = <<Progress>>
  /\ \A w : written(Vulnerability(w)) = <<>>
BY DEF written, Config, Progress, Vulnerability

LEMMA StreamIs ==
  ASSUME NEW k \in Nat
  PROVE  /\ Stream(0) = <<Config, Progress>>
         /\ Len(Stream(k)) = k + 2
         /\ Stream(k)[1] = Config /\ Stream(k)[2] = Progress
         /\ \A i \in 3 .. k + 2 : Stream(k)[i] = Vulnerability(vulns[i - 2])
         /\ Stream(k + 1) = Stream(k) \o << Vulnerability(vulns[k + 1]) >>
<1> DEFINE two == <<Config, Progress>>
           ms(n) == [i \in 1 .. n |-> Vulnerability(vulns[i])]
           Msgs == {Config, Progress} \cup {Vulnerability(vulns[i]) : i \in 1 .. k + 1}
<1>1. two \in Seq(Msgs) /\ Len(two) = 2 /\ two[1] = Config /\ two[2] = Progress
  OBVIOUS
<1>2. /\ ms(0) \in Seq(Msgs) /\ Len(ms(0)) = 0 /\ ms(0) = <<>>
      /\ ms(k) \in Seq(Msgs) /\ Len(ms(k)) = k
      /\ ms(k + 1) \in Seq(Msgs) /\ Len(ms(k + 1)) = k + 1
  OBVIOUS
<1>3. \A i \in 1 .. k : ms(k)[i] = Vulnerability(vulns[i])
  OBVIOUS
<1>4. ms(k + 1) = ms(k) \o << Vulnerability(vulns[k + 1]) >>
  <2>1. << Vulnerability(vulns[k + 1]) >> \in Seq(Msgs)
    OBVIOUS
  <2> QED BY <1>2, <2>1
<1>5. Stream(0) = two \o ms(0) /\ Stream(k) = two \o ms(k) /\ Stream(k + 1) = two \o ms(k + 1)
  BY DEF Stream
<1> HIDE DEF two, ms, Msgs
<1>a. ASSUME NEW s \in Seq(Msgs), NEW t \in Seq(Msgs)
      PROVE  /\ s \o <<>> = s /\ Len(s \o t) = Len(s) + Len(t)
             /\ \A i \in 1 .. Len(s) : (s \o t)[i] = s[i]
             /\ \A i \in Len(s) + 1 .. Len(s) + Len(t) : (s \o t)[i] = t[i - Len(s)]
  OBVIOUS
<1>6. Stream(0) = two
  BY <1>1, <1>2, <1>5, <1>a
<1>b. /\ Len(two \o ms(k)) = Len(two) + Len(ms(k))
      /\ \A i \in 1 .. Len(two) : (two \o ms(k))[i] = two[i]
      /\ \A i \in Len(two) + 1 .. Len(two) + Len(ms(k)) : (two \o ms(k))[i] = ms(k)[i - Len(two)]
  <2>1. two \in Seq(Msgs) /\ ms(k) \in Seq(Msgs)
    BY <1>1, <1>2
  <2> QED BY <1>a, <2>1
<1>7. Len(Stream(k)) = k + 2 /\ Stream(k)[1] = Config /\ Stream(k)[2] = Progress
  <2>1. Len(two \o ms(k)) = 2 + k /\ (two \o ms(k))[1] = two[1] /\ (two \o ms(k))[2] = two[2]
    <3>1. 1 \in 1 .. Len(two) /\ 2 \in 1 .. Len(two)
      BY <1>1
    <3> QED BY <1>1, <1>2, <1>b, <3>1
  <2> QED BY <1>1, <1>5, <2>1
<1>8. ASSUME NEW i \in 3 .. k + 2 PROVE Stream(k)[i] = Vulnerability(vulns[i - 2])
  <2>1. i - 2 \in 1 .. k /\ i \in Len(two) + 1 .. Len(two) + Len(ms(k))
    BY <1>1, <1>2
  <2>2. Stream(k)[i] = ms(k)[i - 2]
    BY <1>1, <1>5, <1>b, <2>1
  <2> QED BY <1>3, <2>1, <2>2
<1>9. Stream(k + 1) = Stream(k) \o << Vulnerability(vulns[k + 1]) >>
  <2>1. \A x : <<x>> \in Seq({x})
    OBVIOUS
  <2> DEFINE one == << Vulnerability(vulns[k + 1]) >>
  <2>2. one \in Seq({Vulnerability(vulns[k + 1])})
    BY <2>1
  <2> DEFINE More == Msgs \cup {Vulnerability(vulns[k + 1])}
  <2>3. two \in Seq(More) /\ ms(k) \in Seq(More) /\ one \in Seq(More)
    <3>1. Seq(Msgs) \subseteq Seq(More) /\ Seq({Vulnerability(vulns[k + 1])}) \subseteq Seq(More)
      OBVIOUS
    <3> HIDE DEF one, More
    <3> QED BY <1>1, <1>2, <2>2, <3>1
  <2>4. ms(k + 1) = ms(k) \o one
    BY <1>4
  <2> HIDE DEF one, More
  <2>5. two \o (ms(k) \o one) = (two \o ms(k)) \o one
    BY <2>3
  <2> QED BY <1>5, <2>4, <2>5 DEF one
<1> QED BY <1>6, <1>7, <1>8, <1>9 DEF two

LEMMA Beginnings ==
  ASSUME NEW S, NEW s \in Seq(S)
  PROVE  /\ SubSeq(s, 1, Len(s)) = s /\ SubSeq(s, 1, 0) = <<>>
         /\ \A k \in 0 .. Len(s) - 1 : SubSeq(s, 1, k + 1) = Append(SubSeq(s, 1, k), s[k + 1])
<1>1. SubSeq(s, 1, Len(s)) = s
  OBVIOUS
<1>2. SubSeq(s, 1, 0) = <<>>
  OBVIOUS
<1>3. ASSUME NEW k \in 0 .. Len(s) - 1
      PROVE  SubSeq(s, 1, k + 1) = Append(SubSeq(s, 1, k), s[k + 1])
  OBVIOUS
<1> QED BY <1>1, <1>2, <1>3

\* The input stays, and what is made of it.
LEMMA SameInput ==
  ASSUME UNCHANGED input
  PROVE  /\ found' = found /\ source' = source /\ verbose' = verbose /\ json' = json
         /\ cut' = cut /\ Config' = Config
         /\ \A n : Singles(n)' = Singles(n)
         /\ Singles(next - 1)' = Singles(next' - 1)
         /\ Merged' = Merged
<1>1. found' = found /\ source' = source /\ verbose' = verbose /\ json' = json /\ cut' = cut
  BY DEF input
<1>2. Config' = Config
  BY <1>1 DEF Config
<1>3. ASSUME NEW n PROVE Singles(n)' = Singles(n)
  BY <1>1 DEF Singles, Single, callStacks
<1>4. Singles(next - 1)' = Singles(next' - 1)
  BY <1>1 DEF Singles, Single, callStacks
<1>5. Merged' = Merged
  BY <1>1 DEF Merged, Singles, Single, callStacks
<1> QED BY <1>1, <1>2, <1>3, <1>4, <1>5

LEMMA SameStream ==
  ASSUME UNCHANGED input, vulns' = vulns
  PROVE  /\ \A k : Stream(k)' = Stream(k)
         /\ Stream(IF json THEN next - 1 ELSE 0)' = Stream(IF json' THEN next' - 1 ELSE 0)
         /\ Stream(Len(vulns))' = Stream(Len(vulns))
         /\ \A k : Gathered(k)' = Gathered(k)
         /\ Gathered(next - 1)' = Gathered(next' - 1)
         /\ Gathered(Counted)' = Gathered(IF next' <= 3 THEN 0 ELSE next' - 3)
         /\ \A k : flushed(Gathered(k))' = flushed(Gathered(k))
         /\ flushed(Gathered(Len(vulns)))' = flushed(Gathered(Len(vulns)))
<1>1. source' = source /\ verbose' = verbose /\ Config' = Config
  BY SameInput
<1>2. /\ \A k : Stream(k)' = Stream(k)
      /\ Stream(IF json THEN next - 1 ELSE 0)' = Stream(IF json' THEN next' - 1 ELSE 0)
      /\ Stream(Len(vulns))' = Stream(Len(vulns))
  BY <1>1 DEF Stream, Vulnerability, Progress
<1>3. /\ \A k : Gathered(k)' = Gathered(k)
      /\ Gathered(next - 1)' = Gathered(next' - 1)
      /\ Gathered(Counted)' = Gathered(IF next' <= 3 THEN 0 ELSE next' - 3)
  BY <1>1 DEF Gathered, Counted
<1>4. /\ \A k : flushed(Gathered(k))' = flushed(Gathered(k))
      /\ flushed(Gathered(Len(vulns)))' = flushed(Gathered(Len(vulns)))
  BY <1>1 DEF Gathered, flushed
<1> QED BY <1>2, <1>3, <1>4

-----------------------------------------------------------------------------
(* ReportInv.                                                              *)

LEMMA InputInv ==
  ASSUME ReportInv, UNCHANGED input
  PROVE  /\ found' \in FoundLists /\ source' \in BOOLEAN /\ verbose' \in BOOLEAN
         /\ json' \in BOOLEAN /\ cut' \in Nat /\ (json' => cut' > 0)
BY SameInput DEF ReportInv

LEMMA ReportInit == Init => ReportInv
<1> SUFFICES ASSUME Init PROVE ReportInv
  OBVIOUS
<1>1. found \in FoundLists /\ source \in BOOLEAN /\ verbose \in BOOLEAN /\ json \in BOOLEAN
  BY DEF Init
<1>2. Len(found) \in Nat /\ Singles(0) \in Seq(Justified) /\ DOMAIN Singles(0) = 1 .. 0
  BY <1>1, SinglesAre
<1>3. cut \in Nat /\ (json => cut > 0)
  BY <1>2 DEF Init
<1>4. Singles(0) = <<>>
  BY <1>2
<1>5. Creating
  <2>1. pc = "config" /\ next = 1 /\ vulns = <<>> /\ out = <<>> /\ handler = NoHandler
        /\ exit = "running" /\ shown = <<>>
    BY DEF Init
  <2> QED BY <1>2, <1>4, <2>1 DEF Creating
<1>6. pc = "config"
  BY DEF Init
<1>7. Queueing /\ Reading /\ Ending
  BY <1>6 DEF Queueing, Reading, Ending
<1> QED BY <1>1, <1>3, <1>5, <1>6, <1>7 DEF ReportInv

LEMMA SendConfigStep ==
  ASSUME ReportInv, SendConfig
  PROVE  ReportInv'
<1>1. UNCHANGED input /\ pc = "config" /\ pc' = "progress" /\ Send(Config)
      /\ vulns' = vulns /\ next' = next /\ exit' = exit /\ shown' = shown
  BY DEF SendConfig
<1>2. /\ next \in 1 .. Len(found) + 1 /\ next = 1 /\ vulns = Singles(next - 1)
      /\ exit = "running" /\ shown = <<>> /\ out = <<>> /\ handler = NoHandler
  BY <1>1 DEF ReportInv, Creating
<1>3. /\ found' = found /\ source' = source /\ verbose' = verbose /\ json' = json
      /\ Config' = Config /\ \A n : Singles(n)' = Singles(n)
  BY <1>1, SameInput
<1>4. out' = <<Config>>
  BY <1>1, <1>2, Writing DEF Send
<1>5. handler' = IF json THEN NoHandler
                 ELSE [source |-> source, verbose |-> verbose, vulns |-> <<>>]
  <2>1. gathered(NoHandler, Config) = [source |-> source, verbose |-> verbose, vulns |-> <<>>]
    BY DEF gathered, Config, NoHandler
  <2> QED BY <1>1, <1>2, <2>1 DEF Send
<1>6. Creating'
  <2>1. vulns' = Singles(next - 1)'
    BY <1>1, <1>2, <1>3
  <2>2. NoHandler' = NoHandler
    BY DEF NoHandler
  <2> QED BY <1>1, <1>2, <1>3, <1>4, <1>5, <2>1, <2>2 DEF Creating
<1>7. Queueing' /\ Reading' /\ Ending'
  BY <1>1 DEF Queueing, Reading, Ending
<1> QED BY <1>1, <1>6, <1>7, InputInv DEF ReportInv

LEMMA SendProgressStep ==
  ASSUME ReportInv, SendProgress
  PROVE  ReportInv'
<1>1. UNCHANGED input /\ pc = "progress" /\ pc' = "create" /\ Send(Progress)
      /\ vulns' = vulns /\ next' = next /\ exit' = exit /\ shown' = shown
  BY DEF SendProgress
<1> DEFINE h == [source |-> source, verbose |-> verbose, vulns |-> <<>>]
<1>2. /\ next \in 1 .. Len(found) + 1 /\ next = 1 /\ vulns = Singles(next - 1)
      /\ exit = "running" /\ shown = <<>> /\ out = <<Config>>
      /\ handler = IF json THEN NoHandler ELSE h
  BY <1>1 DEF ReportInv, Creating
<1>3. /\ found' = found /\ source' = source /\ verbose' = verbose /\ json' = json
      /\ Config' = Config /\ Progress' = Progress /\ \A n : Singles(n)' = Singles(n)
  BY <1>1, SameInput DEF Progress
<1>4. out' = <<Config, Progress>>
  <2>1. out' = <<Config>> \o <<Progress>>
    BY <1>1, <1>2, Writing DEF Send
  <2>2. ASSUME NEW x, NEW y PROVE <<x>> \o <<y>> = <<x, y>>
    <3>1. <<x>> \in Seq({x, y}) /\ <<y>> \in Seq({x, y}) /\ <<x, y>> \in Seq({x, y})
      OBVIOUS
    <3>2. /\ <<x>> \o <<y>> \in Seq({x, y}) /\ Len(<<x>> \o <<y>>) = 2
          /\ (<<x>> \o <<y>>)[1] = x /\ (<<x>> \o <<y>>)[2] = y
      BY <3>1
    <3> DEFINE r == <<x>> \o <<y>>
    <3>3. r \in Seq({x, y}) /\ Len(r) = 2 /\ r[1] = x /\ r[2] = y
      BY <3>2
    <3> HIDE DEF r
    <3>4. r = <<x, y>>
      BY <3>3
    <3> QED BY <3>4 DEF r
  <2> QED BY <2>1, <2>2
<1>5. handler' = IF json THEN NoHandler ELSE h
  <2>1. gathered(h, Progress) = h
    BY Gathering
  <2> HIDE DEF h
  <2> QED BY <1>1, <1>2, <2>1 DEF Send
<1>6. Creating'
  <2>1. vulns' = Singles(next - 1)'
    BY <1>1, <1>2, <1>3
  <2>2. NoHandler' = NoHandler
    BY DEF NoHandler
  <2> QED BY <1>1, <1>2, <1>3, <1>4, <1>5, <2>1, <2>2 DEF Creating
<1>7. Queueing' /\ Reading' /\ Ending'
  BY <1>1 DEF Queueing, Reading, Ending
<1> QED BY <1>1, <1>6, <1>7, InputInv DEF ReportInv

LEMMA CreateStep ==
  ASSUME ReportInv, Create
  PROVE  ReportInv'
<1>1. /\ UNCHANGED input /\ pc = "create" /\ pc' = pc /\ next <= Len(found)
      /\ vulns' = Append(vulns, Single(found[next])) /\ next' = next + 1
      /\ out' = out /\ handler' = handler /\ exit' = exit /\ shown' = shown
  BY DEF Create
<1> DEFINE h == [source |-> source, verbose |-> verbose, vulns |-> <<>>]
<1>2. /\ next \in 1 .. Len(found) + 1 /\ vulns = Singles(next - 1)
      /\ exit = "running" /\ shown = <<>> /\ out = <<Config, Progress>>
      /\ handler = IF json THEN NoHandler ELSE h
  BY <1>1 DEF ReportInv, Creating
<1>3. /\ found' = found /\ source' = source /\ verbose' = verbose /\ json' = json
      /\ Config' = Config /\ Progress' = Progress /\ NoHandler' = NoHandler
      /\ \A n : Singles(n)' = Singles(n)
  BY <1>1, SameInput DEF Progress, NoHandler
<1>4. Len(found) \in Nat
      /\ \A n \in 0 .. Len(found) :
           /\ Singles(n) \in Seq(Justified) /\ DOMAIN Singles(n) = 1 .. n
           /\ \A i \in 1 .. n : Singles(n)[i] = Single(found[i])
  <2>1. found \in FoundLists
    BY DEF ReportInv
  <2> QED BY <2>1, SinglesAre
<1>5. vulns' = Singles(next)
  <2> DEFINE a == Singles(next - 1)
             b == Singles(next)
  <2>1. next - 1 \in 0 .. Len(found) /\ next \in 0 .. Len(found) /\ next \in Nat
        /\ next \in 1 .. next
    BY <1>1, <1>2, <1>4
  <2>2. a \in Seq(Justified) /\ DOMAIN a = 1 .. next - 1
        /\ \A i \in 1 .. next - 1 : a[i] = Single(found[i])
    BY <1>4, <2>1
  <2>3. b \in Seq(Justified) /\ DOMAIN b = 1 .. next
        /\ \A i \in 1 .. next : b[i] = Single(found[i])
    BY <1>4, <2>1
  <2> HIDE DEF a, b
  <2>4. Len(a) = next - 1 /\ Len(b) = next
    BY <2>1, <2>2, <2>3
  <2>5. Append(a, b[next]) = b
    BY <2>1, <2>2, <2>3, <2>4
  <2>6. b[next] = Single(found[next])
    BY <2>1, <2>3
  <2> QED BY <1>1, <1>2, <2>5, <2>6 DEF a, b
<1>6. Creating'
  <2>1. next' - 1 = next /\ next' \in 1 .. Len(found) + 1
    BY <1>1, <1>2, <1>4
  <2>2. vulns' = Singles(next - 1)'
    <3>1. Singles(next' - 1) = Singles(next)
      BY <2>1
    <3> QED BY <1>1, <1>5, <3>1, SameInput
  <2> QED BY <1>1, <1>2, <1>3, <2>1, <2>2 DEF Creating
<1>7. Queueing' /\ Reading' /\ Ending'
  BY <1>1 DEF Queueing, Reading, Ending
<1> QED BY <1>1, <1>6, <1>7, InputInv DEF ReportInv

LEMMA MergeStep ==
  ASSUME ReportInv, Merge
  PROVE  ReportInv'
<1>1. /\ UNCHANGED input /\ pc = "create" /\ pc' = "queue" /\ next > Len(found)
      /\ vulns' = merge(vulns) /\ next' = 1
      /\ out' = out /\ handler' = handler /\ exit' = exit /\ shown' = shown
  BY DEF Merge
<1> DEFINE h == [source |-> source, verbose |-> verbose, vulns |-> <<>>]
<1>2. /\ next \in 1 .. Len(found) + 1 /\ vulns = Singles(next - 1)
      /\ exit = "running" /\ shown = <<>> /\ out = <<Config, Progress>>
      /\ handler = IF json THEN NoHandler ELSE h
  BY <1>1 DEF ReportInv, Creating
<1>3. /\ found' = found /\ source' = source /\ verbose' = verbose /\ json' = json
      /\ Config' = Config /\ Progress' = Progress /\ NoHandler' = NoHandler
      /\ Merged' = Merged
  BY <1>1, SameInput DEF Progress, NoHandler
<1>4. found \in FoundLists /\ Len(found) \in Nat /\ Merged \in Seq(Justified)
  <2>1. found \in FoundLists
    BY DEF ReportInv
  <2> QED BY <2>1, SinglesAre, AllMerged
<1>5. vulns' = Merged
  <2>1. next - 1 = Len(found)
    BY <1>1, <1>2, <1>4
  <2> QED BY <1>1, <1>2, <2>1 DEF Merged
<1>6. Queueing'
  <2>1. next' \in 1 .. Len(vulns') + 1 /\ SubSeq(vulns', 1, 0) = <<>>
    BY <1>1, <1>4, <1>5
  <2>2. Stream(IF json THEN next - 1 ELSE 0)' = out'
    <3>1. (IF json' THEN next' - 1 ELSE 0) = 0
      BY <1>1
    <3>2. \A F : <<Config, Progress>> \o [i \in 1 .. 0 |-> F[i]] = <<Config, Progress>>
      OBVIOUS
    <3>3. Stream(IF json THEN next - 1 ELSE 0)' =
            <<Config', Progress'>> \o [i \in 1 .. 0 |-> Vulnerability(vulns'[i])]
      BY <3>1 DEF Stream, Vulnerability
    <3> QED BY <1>1, <1>2, <1>3, <3>2, <3>3
  <2>3. Gathered(next - 1)' = [source |-> source', verbose |-> verbose', vulns |-> <<>>]
    BY <1>1, <2>1 DEF Gathered
  <2> QED BY <1>1, <1>2, <1>3, <2>1, <2>2, <2>3 DEF Queueing
<1>7. Creating' /\ Reading' /\ Ending'
  BY <1>1, <1>3, <1>5 DEF Creating, Reading, Ending
<1> QED BY <1>1, <1>6, <1>7, InputInv DEF ReportInv

LEMMA QueueStep ==
  ASSUME ReportInv, Queue
  PROVE  ReportInv'
<1>1. /\ UNCHANGED input /\ pc = "queue" /\ pc' = pc /\ next <= Len(vulns)
      /\ vulns' = vulns /\ next' = next + 1 /\ Send(Vulnerability(vulns[next]))
      /\ exit' = exit /\ shown' = shown
  BY DEF Queue
<1>2. /\ next \in 1 .. Len(vulns) + 1 /\ exit = "running" /\ shown = <<>>
      /\ out = Stream(IF json THEN next - 1 ELSE 0)
      /\ handler = IF json THEN NoHandler ELSE Gathered(next - 1)
      /\ vulns = Merged
  BY <1>1 DEF ReportInv, Queueing, Ending
<1>3. Merged' = Merged /\ json' = json /\ NoHandler' = NoHandler
  BY <1>1, SameInput DEF NoHandler
<1>4. vulns \in Seq(Justified) /\ Len(vulns) \in Nat
  <2>1. found \in FoundLists
    BY DEF ReportInv
  <2> QED BY <1>2, <2>1, AllMerged
<1>5. next - 1 \in Nat /\ (next - 1) + 1 = next /\ next' - 1 = next
      /\ next - 1 \in 0 .. Len(vulns) - 1 /\ next' \in 1 .. Len(vulns') + 1
  BY <1>1, <1>2, <1>4
<1>6. out' = Stream(IF json THEN next - 1 ELSE 0)'
  <2>1. Stream(IF json THEN next - 1 ELSE 0)' = Stream(IF json' THEN next' - 1 ELSE 0)
    BY <1>1, SameStream
  <2>2. CASE json
    <3>1. out' = Stream(next - 1) \o << Vulnerability(vulns[next]) >>
      BY <1>1, <1>2, <2>2 DEF Send
    <3>2. Stream((next - 1) + 1) = Stream(next - 1) \o << Vulnerability(vulns[(next - 1) + 1]) >>
      BY <1>5, StreamIs
    <3>3. out' = Stream(next)
      BY <1>5, <3>1, <3>2
    <3>4. (IF json' THEN next' - 1 ELSE 0) = next
      BY <1>3, <1>5, <2>2
    <3> QED BY <2>1, <3>3, <3>4
  <2>3. CASE ~json
    <3>1. out' = Stream(0) \o <<>>
      BY <1>1, <1>2, <2>3, Writing DEF Send
    <3>2. Stream(0) = <<Config, Progress>>
      BY <1>5, StreamIs
    <3>3. out' = Stream(0)
      BY <3>1, <3>2
    <3>4. (IF json' THEN next' - 1 ELSE 0) = 0
      BY <1>3, <2>3
    <3> QED BY <2>1, <3>3, <3>4
  <2> QED BY <2>2, <2>3
<1>7. handler' = IF json' THEN NoHandler' ELSE Gathered(next - 1)'
  <2>1. CASE json
    BY <1>1, <1>2, <1>3, <2>1 DEF Send
  <2>2. CASE ~json
    <3>1. Gathered(next - 1)' = Gathered(next' - 1)
      BY <1>1, SameStream
    <3>2. handler' = gathered(Gathered(next - 1), Vulnerability(vulns[next]))
      BY <1>1, <1>2, <2>2 DEF Send
    <3>3. SubSeq(vulns, 1, (next - 1) + 1) = Append(SubSeq(vulns, 1, next - 1), vulns[(next - 1) + 1])
      BY <1>4, <1>5, Beginnings
    <3>4. gathered(Gathered(next - 1), Vulnerability(vulns[next])) =
            [source |-> source, verbose |-> verbose,
             vulns |-> Append(SubSeq(vulns, 1, next - 1), vulns[next])]
      BY GatheringMore
    <3>5. Gathered(next) = [source |-> source, verbose |-> verbose,
                            vulns |-> Append(SubSeq(vulns, 1, next - 1), vulns[next])]
      BY <1>5, <3>3 DEF Gathered
    <3>6. Gathered(next' - 1) = Gathered(next)
      BY <1>5
    <3> QED BY <1>3, <2>2, <3>1, <3>2, <3>4, <3>5, <3>6
  <2> QED BY <2>1, <2>2
<1>8. Queueing'
  BY <1>1, <1>2, <1>5, <1>6, <1>7 DEF Queueing
<1>9. Creating' /\ Reading' /\ Ending'
  BY <1>1, <1>2, <1>3 DEF Creating, Reading, Ending
<1> QED BY <1>1, <1>8, <1>9, InputInv DEF ReportInv

LEMMA FlushStep ==
  ASSUME ReportInv, Flush
  PROVE  ReportInv'
<1> DEFINE called == \E i \in DOMAIN vulns : IsCalled(vulns[i])
<1>1. /\ UNCHANGED input /\ pc = "queue" /\ pc' = (IF json THEN "read" ELSE "done")
      /\ next > Len(vulns) /\ vulns' = vulns /\ next' = 1 /\ shown' = shown
      /\ out' = (IF json THEN out ELSE Append(out, flushed(handler)))
      /\ handler' = [handler EXCEPT !.vulns = <<>>]
      /\ exit' = (IF called THEN "ErrVulnerabilitiesFound" ELSE "nil")
  BY DEF Flush
<1>2. /\ next \in 1 .. Len(vulns) + 1 /\ exit = "running" /\ shown = <<>>
      /\ out = Stream(IF json THEN next - 1 ELSE 0)
      /\ handler = IF json THEN NoHandler ELSE Gathered(next - 1)
      /\ vulns = Merged
  BY <1>1 DEF ReportInv, Queueing, Ending
<1>3. /\ Merged' = Merged /\ json' = json /\ NoHandler' = NoHandler
      /\ Config' = Config /\ Progress' = Progress
  BY <1>1, SameInput DEF NoHandler, Progress
<1>4. vulns \in Seq(Justified) /\ Len(vulns) \in Nat
  <2>1. found \in FoundLists
    BY DEF ReportInv
  <2> QED BY <1>2, <2>1, AllMerged
<1>5. next - 1 = Len(vulns)
  BY <1>1, <1>2, <1>4
<1>6. /\ Stream(0)' = Stream(0) /\ Stream(Len(vulns))' = Stream(Len(vulns))
      /\ flushed(Gathered(Len(vulns)))' = flushed(Gathered(Len(vulns)))
  BY <1>1, SameStream
<1>7. /\ exit' \in {"nil", "ErrVulnerabilitiesFound"}
      /\ (exit' = "nil") <=> \A i \in DOMAIN vulns' : ~IsCalled(vulns'[i])
  <2>1. (exit' = "nil") <=> ~called
    BY <1>1
  <2>2. ~called <=> \A i \in DOMAIN vulns' : ~IsCalled(vulns'[i])
    BY <1>1
  <2> QED BY <1>1, <2>1, <2>2
<1>8. CASE json
  <2>1. out' = Stream(Len(vulns))
    BY <1>1, <1>2, <1>5, <1>8
  <2>2. Len(out') = Len(vulns) + 2
    BY <1>4, <2>1, StreamIs
  <2>3. handler' = NoHandler
    BY <1>1, <1>2, <1>8 DEF NoHandler
  <2>4. \A x, y : SubSeq(<<x, y>>, 1, 0) = <<>>
    OBVIOUS
  <2>5. next' \in 1 .. Len(out') + 1
    BY <1>1, <1>4, <2>2
  <2>6. shown' = SubSeq(<<Config', Progress'>>, 1, 0) /\ next' - 1 = 0 /\ next' <= 3
    BY <1>1, <1>2, <2>4
  <2>7. Reading'
    BY <1>1, <1>3, <1>8, <2>3, <2>5, <2>6 DEF Reading
  <2>8. Ending'
    BY <1>1, <1>2, <1>3, <1>6, <1>7, <1>8, <2>1 DEF Ending
  <2>9. Creating' /\ Queueing'
    BY <1>1, <1>8 DEF Creating, Queueing
  <2> QED BY <1>1, <1>8, <2>7, <2>8, <2>9, InputInv DEF ReportInv
<1>9. CASE ~json
  <2>1. out = Stream(0) /\ out' = Append(Stream(0), flushed(Gathered(Len(vulns))))
    BY <1>1, <1>2, <1>5, <1>9
  <2>2. ASSUME NEW x PROVE Append(Stream(0), x) = Stream(0) \o <<x>>
    <3>1. Stream(0) = <<Config, Progress>>
      BY <1>4, StreamIs
    <3>2. \A a, b : <<a, b>> \in Seq({a, b, x}) /\ <<x>> \in Seq({a, b, x})
      OBVIOUS
    <3>3. Stream(0) \in Seq({Config, Progress, x}) /\ <<x>> \in Seq({Config, Progress, x})
      BY <3>1, <3>2
    <3> QED BY <3>3
  <2>3. out' = Stream(0) \o << flushed(Gathered(Len(vulns))) >>
    BY <2>1, <2>2
  <2>4. Ending'
    BY <1>1, <1>2, <1>3, <1>6, <1>7, <1>9, <2>3 DEF Ending
  <2>5. Creating' /\ Queueing' /\ Reading'
    BY <1>1, <1>9 DEF Creating, Queueing, Reading
  <2> QED BY <1>1, <1>9, <2>4, <2>5, InputInv DEF ReportInv
<1> QED BY <1>8, <1>9

\* What the reader of a stream writes, up to the report.
LEMMA ShownGrows ==
  ASSUME NEW x, NEW y
  PROVE  /\ SubSeq(<<x, y>>, 1, 0) = <<>> /\ SubSeq(<<x, y>>, 1, 1) = <<x>>
         /\ SubSeq(<<x, y>>, 1, 2) = <<x, y>>
         /\ <<>> \o <<x>> = <<x>> /\ <<x>> \o <<y>> = <<x, y>> /\ <<x, y>> \o <<>> = <<x, y>>
<1>1. <<x>> \in Seq({x, y}) /\ <<y>> \in Seq({x, y}) /\ <<x, y>> \in Seq({x, y})
  OBVIOUS
<1>2. <<>> \o <<x>> = <<x>> /\ <<x, y>> \o <<>> = <<x, y>>
  BY <1>1
<1>3. <<x>> \o <<y>> = <<x, y>>
  <2> DEFINE r == <<x>> \o <<y>>
  <2>1. r \in Seq({x, y}) /\ Len(r) = 2 /\ r[1] = x /\ r[2] = y
    BY <1>1
  <2> HIDE DEF r
  <2>2. r = <<x, y>>
    BY <2>1
  <2> QED BY <2>2 DEF r
<1>4. SubSeq(<<x, y>>, 1, 0) = <<>> /\ SubSeq(<<x, y>>, 1, 2) = <<x, y>>
  <2>1. Len(<<x, y>>) = 2
    OBVIOUS
  <2> QED BY <1>1, <2>1, Beginnings
<1>5. SubSeq(<<x, y>>, 1, 1) = <<x>>
  <2> DEFINE r == SubSeq(<<x, y>>, 1, 1)
  <2>1. r \in Seq({x, y}) /\ Len(r) = 1 /\ r[1] = x
    BY <1>1
  <2> HIDE DEF r
  <2>2. r = <<x>>
    BY <2>1
  <2> QED BY <2>2 DEF r
<1> QED BY <1>2, <1>3, <1>4, <1>5

LEMMA DecodeStep ==
  ASSUME ReportInv, Decode
  PROVE  ReportInv'
<1> DEFINE two  == <<Config, Progress>>
           upto == IF next <= 3 THEN next - 1 ELSE 2
<1>1. /\ UNCHANGED input /\ pc = "read" /\ pc' = pc /\ next <= Len(out)
      /\ shown' = shown \o written(out[next]) /\ handler' = gathered(handler, out[next])
      /\ next' = next + 1 /\ vulns' = vulns /\ out' = out /\ exit' = exit
  BY DEF Decode
<1>2. /\ json /\ next \in 1 .. Len(out) + 1 /\ shown = SubSeq(two, 1, upto)
      /\ handler = (IF next = 1 THEN NoHandler ELSE Gathered(Counted))
      /\ vulns = Merged /\ out = Stream(Len(vulns))
  BY <1>1 DEF ReportInv, Reading, Ending
<1>3. /\ json' = json /\ Config' = Config /\ Progress' = Progress
  BY <1>1, SameInput DEF Progress
<1>4. vulns \in Seq(Justified) /\ Len(vulns) \in Nat
  <2>1. found \in FoundLists
    BY DEF ReportInv
  <2> QED BY <1>2, <2>1, AllMerged
<1>5. /\ Len(out) = Len(vulns) + 2 /\ out[1] = Config /\ out[2] = Progress
      /\ \A i \in 3 .. Len(vulns) + 2 : out[i] = Vulnerability(vulns[i - 2])
  BY <1>2, <1>4, StreamIs
<1>6. next \in Nat /\ next \in 1 .. Len(vulns) + 2
  BY <1>1, <1>2, <1>4, <1>5
<1>7. /\ shown' = SubSeq(two, 1, IF next' <= 3 THEN next' - 1 ELSE 2)
      /\ handler' = Gathered(IF next' <= 3 THEN 0 ELSE next' - 3)
  <2>0. SubSeq(two, 1, 0) = <<>> /\ SubSeq(two, 1, 1) = <<Config>> /\ SubSeq(two, 1, 2) = two
        /\ <<>> \o <<Config>> = <<Config>> /\ <<Config>> \o <<Progress>> = two /\ two \o <<>> = two
    BY ShownGrows
  <2> HIDE DEF two
  <2>1. CASE next = 1
    <3>1. upto = 0 /\ next' = 2 /\ next' <= 3 /\ next' - 1 = 1
      BY <1>1, <2>1
    <3>2. shown = <<>> /\ out[next] = Config /\ handler = NoHandler
      BY <1>2, <1>5, <2>0, <2>1
    <3>3. gathered(NoHandler, Config) = [source |-> source, verbose |-> verbose, vulns |-> <<>>]
      BY DEF gathered, Config, NoHandler
    <3>4. Gathered(0) = [source |-> source, verbose |-> verbose, vulns |-> <<>>]
      BY <1>4, Beginnings DEF Gathered
    <3> QED BY <1>1, <2>0, <3>1, <3>2, <3>3, <3>4, Writing
  <2>2. CASE next = 2
    <3>1. upto = 1 /\ next' = 3 /\ next' <= 3 /\ next' - 1 = 2
      BY <1>1, <2>2
    <3>2. shown = <<Config>> /\ out[next] = Progress /\ handler = Gathered(0)
      BY <1>2, <1>5, <2>0, <2>2 DEF Counted
    <3> QED BY <1>1, <2>0, <3>1, <3>2, GatheringMore, Writing
  <2>3. CASE next > 2
    <3>1. /\ next - 3 \in 0 .. Len(vulns) - 1 /\ next \in 3 .. Len(vulns) + 2
          /\ ~(next' <= 3) /\ next' - 3 = (next - 3) + 1 /\ next - 2 = (next - 3) + 1
      BY <1>1, <1>4, <1>6, <2>3
    <3>2. upto = 2 /\ Counted = next - 3
      BY <1>6, <2>3 DEF Counted
    <3>3. shown = two /\ out[next] = Vulnerability(vulns[(next - 3) + 1])
          /\ handler = Gathered(next - 3)
      <4>1. out[next] = Vulnerability(vulns[next - 2])
        BY <1>5, <3>1
      <4>2. handler = Gathered(Counted)
        BY <1>2, <2>3
      <4> QED BY <1>2, <2>0, <3>1, <3>2, <4>1, <4>2
    <3>4. Gathered((next - 3) + 1) =
            [source |-> source, verbose |-> verbose,
             vulns |-> Append(SubSeq(vulns, 1, next - 3), vulns[(next - 3) + 1])]
      BY <1>4, <3>1, Beginnings DEF Gathered
    <3>5. handler' = Gathered((next - 3) + 1)
      BY <1>1, <3>3, <3>4, GatheringMore
    <3>6. shown' = two
      BY <1>1, <2>0, <3>3, Writing
    <3> QED BY <2>0, <3>1, <3>5, <3>6
  <2> QED BY <1>6, <2>1, <2>2, <2>3
<1>8. Reading'
  <2>1. Gathered(Counted)' = Gathered(IF next' <= 3 THEN 0 ELSE next' - 3)
    BY <1>1, SameStream
  <2>2. next' \in 1 .. Len(out') + 1 /\ next' # 1
    BY <1>1, <1>5, <1>6
  <2> QED BY <1>2, <1>3, <1>7, <2>1, <2>2 DEF Reading
<1>9. Ending'
  <2>1. Merged' = Merged /\ Stream(Len(vulns))' = Stream(Len(vulns))
    BY <1>1, SameInput, SameStream
  <2>2. exit \in {"nil", "ErrVulnerabilitiesFound"}
        /\ ((exit = "nil") <=> \A i \in DOMAIN vulns : ~IsCalled(vulns[i]))
    BY <1>1 DEF ReportInv, Ending
  <2> QED BY <1>1, <1>2, <2>1, <2>2 DEF Ending
<1>10. Creating' /\ Queueing'
  BY <1>1 DEF Creating, Queueing
<1> QED BY <1>1, <1>8, <1>9, <1>10, InputInv DEF ReportInv

LEMMA FlushReadStep ==
  ASSUME ReportInv, FlushRead
  PROVE  ReportInv'
<1> DEFINE two == <<Config, Progress>>
           j   == IF next <= 3 THEN next - 1 ELSE 2
<1>1. /\ UNCHANGED input /\ pc = "read" /\ pc' = "done" /\ (next > Len(out) \/ next > cut)
      /\ shown' = Append(shown, flushed(handler))
      /\ vulns' = vulns /\ out' = out /\ exit' = exit
  BY DEF FlushRead
<1>2. /\ json /\ next \in 1 .. Len(out) + 1 /\ shown = SubSeq(two, 1, j)
      /\ handler = (IF next = 1 THEN NoHandler ELSE Gathered(Counted))
      /\ vulns = Merged /\ out = Stream(Len(vulns)) /\ cut \in Nat /\ cut > 0
      /\ exit \in {"nil", "ErrVulnerabilitiesFound"}
      /\ ((exit = "nil") <=> \A i \in DOMAIN vulns : ~IsCalled(vulns[i]))
  BY <1>1 DEF ReportInv, Reading, Ending
<1>3. /\ json' = json /\ cut' = cut /\ Merged' = Merged
      /\ SubSeq(<<Config, Progress>>, 1, j)' = SubSeq(<<Config', Progress'>>, 1, j')
      /\ Config' = Config /\ Progress' = Progress
  BY <1>1, SameInput DEF Progress
<1>4. vulns \in Seq(Justified) /\ Len(vulns) \in Nat
  <2>1. found \in FoundLists
    BY DEF ReportInv
  <2> QED BY <1>2, <2>1, AllMerged
<1>5. Len(out) = Len(vulns) + 2
  BY <1>2, <1>4, StreamIs
<1>6. /\ next \in 2 .. Len(vulns) + 3 /\ j \in 0 .. 2 /\ Counted \in 0 .. Len(vulns)
      /\ (cut >= Len(out) => Counted = Len(vulns) /\ j = 2)
  <2>1. next # 1
    BY <1>1, <1>2, <1>4, <1>5
  <2>2. next \in 2 .. Len(vulns) + 3
    BY <1>2, <1>4, <1>5, <2>1
  <2>3. cut >= Len(out) => next = Len(vulns) + 3
    BY <1>1, <1>2, <1>4, <1>5, <2>2
  <2> QED BY <1>4, <2>2, <2>3 DEF Counted
<1>7. shown' = SubSeq(two, 1, j) \o << flushed(Gathered(Counted)) >>
  <2>1. ASSUME NEW a, NEW b, NEW x, NEW i \in 0 .. 2
        PROVE  Append(SubSeq(<<a, b>>, 1, i), x) = SubSeq(<<a, b>>, 1, i) \o <<x>>
    <3>1. <<a, b>> \in Seq({a, b, x}) /\ <<x>> \in Seq({a, b, x})
      OBVIOUS
    <3>2. SubSeq(<<a, b>>, 1, i) \in Seq({a, b, x})
      <4>1. \/ SubSeq(<<a, b>>, 1, i) = <<>> \/ SubSeq(<<a, b>>, 1, i) = <<a>>
            \/ SubSeq(<<a, b>>, 1, i) = <<a, b>>
        <5>1. i = 0 \/ i = 1 \/ i = 2
          OBVIOUS
        <5> QED BY <5>1, ShownGrows
      <4>2. <<a>> \in Seq({a, b, x}) /\ <<>> \in Seq({a, b, x})
        OBVIOUS
      <4> QED BY <3>1, <4>1, <4>2
    <3> DEFINE s == SubSeq(<<a, b>>, 1, i)
    <3> HIDE DEF s
    <3>3. s \in Seq({a, b, x})
      BY <3>2 DEF s
    <3>4. Append(s, x) = s \o <<x>>
      BY <3>1, <3>3
    <3> QED BY <3>4 DEF s
  <2>2. handler = Gathered(Counted)
    BY <1>2, <1>6
  <2> HIDE DEF j
  <2>3. Append(SubSeq(two, 1, j), flushed(Gathered(Counted))) =
          SubSeq(two, 1, j) \o << flushed(Gathered(Counted)) >>
    BY <1>6, <2>1
  <2> HIDE DEF two
  <2> QED BY <1>1, <1>2, <2>2, <2>3
<1>8. Ending'
  <2>1. /\ Stream(Len(vulns))' = Stream(Len(vulns))
        /\ \A k : flushed(Gathered(k))' = flushed(Gathered(k))
    BY <1>1, SameStream
  <2>2. \E k \in 0 .. Len(vulns) : \E i \in 0 .. 2 :
          /\ shown' = SubSeq(<<Config', Progress'>>, 1, i) \o << flushed(Gathered(k))' >>
          /\ cut >= Len(out) => k = Len(vulns) /\ i = 2
    <3> HIDE DEF j
    <3> QED BY <1>3, <1>6, <1>7, <2>1
  <2> QED BY <1>1, <1>2, <1>3, <2>1, <2>2 DEF Ending
<1>9. Creating' /\ Queueing' /\ Reading'
  BY <1>1 DEF Creating, Queueing, Reading
<1> QED BY <1>1, <1>8, <1>9, InputInv DEF ReportInv

LEMMA SameReport ==
  ASSUME ReportInv, UNCHANGED vars
  PROVE  ReportInv'
<1>1. /\ UNCHANGED input /\ pc' = pc /\ vulns' = vulns /\ next' = next /\ out' = out
      /\ handler' = handler /\ exit' = exit /\ shown' = shown
  BY DEF vars
<1>2. /\ found' = found /\ source' = source /\ verbose' = verbose /\ json' = json
      /\ cut' = cut /\ Config' = Config /\ Progress' = Progress /\ NoHandler' = NoHandler
      /\ Merged' = Merged /\ Singles(next - 1)' = Singles(next' - 1)
  BY <1>1, SameInput DEF Progress, NoHandler
<1>3. /\ Stream(IF json THEN next - 1 ELSE 0)' = Stream(IF json' THEN next' - 1 ELSE 0)
      /\ Stream(Len(vulns))' = Stream(Len(vulns)) /\ Stream(0)' = Stream(0)
      /\ Gathered(next - 1)' = Gathered(next' - 1)
      /\ Gathered(Counted)' = Gathered(IF next' <= 3 THEN 0 ELSE next' - 3)
      /\ \A k : flushed(Gathered(k))' = flushed(Gathered(k))
      /\ flushed(Gathered(Len(vulns)))' = flushed(Gathered(Len(vulns)))
  BY <1>1, SameStream
<1>4. Creating'
  <2>1. Creating
    BY DEF ReportInv
  <2> QED BY <1>1, <1>2, <2>1 DEF Creating
<1>5. Queueing'
  <2>1. Queueing
    BY DEF ReportInv
  <2>2. Stream(IF json' THEN next' - 1 ELSE 0) = Stream(IF json THEN next - 1 ELSE 0)
        /\ Gathered(next' - 1) = Gathered(next - 1)
    BY <1>1, <1>2
  <2> QED BY <1>1, <1>2, <1>3, <2>1, <2>2 DEF Queueing
<1>6. Reading'
  <2>1. Reading
    BY DEF ReportInv
  <2>2. Gathered(IF next' <= 3 THEN 0 ELSE next' - 3) = Gathered(Counted)
    BY <1>1 DEF Counted
  <2> QED BY <1>1, <1>2, <1>3, <2>1, <2>2 DEF Reading
<1>7. Ending'
  <2>1. Ending
    BY DEF ReportInv
  <2> QED BY <1>1, <1>2, <1>3, <2>1 DEF Ending
<1>8. pc' \in {"config", "progress", "create", "queue", "read", "done"}
  BY <1>1 DEF ReportInv
<1> QED BY <1>1, <1>4, <1>5, <1>6, <1>7, <1>8, InputInv DEF ReportInv

LEMMA ReportStep ==
  ReportInv /\ [Next]_vars => ReportInv'
<1> SUFFICES ASSUME ReportInv, [Next]_vars PROVE ReportInv'
  OBVIOUS
<1>1. CASE SendConfig
  BY <1>1, SendConfigStep
<1>2. CASE SendProgress
  BY <1>2, SendProgressStep
<1>3. CASE Create
  BY <1>3, CreateStep
<1>4. CASE Merge
  BY <1>4, MergeStep
<1>5. CASE Queue
  BY <1>5, QueueStep
<1>6. CASE Flush
  BY <1>6, FlushStep
<1>7. CASE Decode
  BY <1>7, DecodeStep
<1>8. CASE FlushRead
  BY <1>8, FlushReadStep
<1>9. CASE Done
  BY <1>9, SameReport DEF Done
<1>10. CASE UNCHANGED vars
  BY <1>10, SameReport
<1> QED BY <1>1, <1>2, <1>3, <1>4, <1>5, <1>6, <1>7, <1>8, <1>9, <1>10 DEF Next

\* What was built, written and gathered is what the statements up to the next
\* one make of the findings.
THEOREM ReportCorrect == Spec => []ReportInv
<1> QED BY ReportInit, ReportStep, PTL DEF Spec

-----------------------------------------------------------------------------
(* What a text consists of.                                                *)

Shows(x, s) == ~s \/ IsCalled(x)
InfoOf(x, v, s) ==
  [ID |-> x.OSV.ID, Module |-> createTmplVulnInfo(x, v, s).Modules[1]]

LEMMA InfoIs ==
  ASSUME NEW x, NEW v, NEW s
  PROVE  /\ createTmplVulnInfo(x, v, s).ID = x.OSV.ID
         /\ createTmplVulnInfo(x, v, s).Affected <=> Shows(x, s)
         /\ createTmplVulnInfo(x, v, s).Modules = tmplModules(x, v, s)
<1> DEFINE b == ~s \/ IsCalled(x)
<1>1. createTmplVulnInfo(x, v, s) =
        [ID |-> x.OSV.ID, Affected |-> b, Modules |-> tmplModules(x, v, s)]
  BY Zenon DEF createTmplVulnInfo
<1>2. b <=> Shows(x, s)
  BY DEF Shows
<1> HIDE DEF b
<1> QED BY <1>1, <1>2

LEMMA TextIs ==
  ASSUME found \in FoundLists, NEW vs \in Seq(Justified), NEW v, NEW s
  PROVE  /\ \A e : e \in ToSet(Text(vs, v, s).affected) <=>
              \E x \in ToSet(vs) : Shows(x, s) /\ e = createTmplVulnInfo(x, v, s)
         /\ \A e : e \in ToSet(Text(vs, v, s).informational) <=>
              \E x \in ToSet(vs) : ~Shows(x, s) /\ e = InfoOf(x, v, s)
         /\ Text(vs, v, s).AffectedCount = 0 <=> \A x \in ToSet(vs) : ~Shows(x, s)
         /\ Latest(vs) => /\ Descending(Text(vs, v, s).affected)
                          /\ Descending(Text(vs, v, s).informational)
<1> DEFINE info(x) == createTmplVulnInfo(x, v, s)
           I == {info(x) : x \in Justified}
           infos == [i \in DOMAIN vs |-> info(vs[i])]
           shown1(e) == [ID |-> e.ID, Module |-> e.Modules[1]]
           rest(e) == IF e.Affected THEN <<>> ELSE << shown1(e) >>
           T == {shown1(e) : e \in I}
           A == {e \in I : e.Affected}
           R == {e \in I \X I : e[1].ID > e[2].ID}
           Q == {e \in T \X T : e[1].ID > e[2].ID}
           ss == [i \in DOMAIN infos |-> rest(infos[i])]
           C == {i \in DOMAIN infos : infos[i].Affected}
<1>1. /\ Text(vs, v, s).affected = Select(infos, LAMBDA i : i.Affected)
      /\ Text(vs, v, s).informational = Concat(infos, LAMBDA i :
           IF i.Affected THEN <<>> ELSE << [ID |-> i.ID, Module |-> i.Modules[1]] >>)
      /\ Text(vs, v, s).AffectedCount = Cardinality(C)
  BY DEF Text
<1>2. DOMAIN vs = 1 .. Len(vs) /\ Len(vs) \in Nat /\ \A i \in DOMAIN vs : vs[i] \in Justified
  OBVIOUS
<1>3. \A x \in Justified : info(x).ID = x.OSV.ID /\ (info(x).Affected <=> Shows(x, s))
                           /\ shown1(info(x)) = InfoOf(x, v, s) /\ x.OSV.ID \in Nat
  <2>1. \A vv \in Findings : vv.OSV.ID \in Nat
    BY FindingIs
  <2>2. \A x \in Justified : x.OSV.ID \in Nat
    BY <2>1 DEF Justified, AnyVuln
  <2> QED BY <2>2, InfoIs DEF InfoOf
<1> HIDE DEF info
<1>4. infos \in [1 .. Len(vs) -> I] /\ DOMAIN infos = DOMAIN vs
      /\ \A i \in DOMAIN vs : infos[i] = info(vs[i])
  BY <1>2
<1>5. infos \in Seq(I)
  BY <1>2, <1>4
<1> HIDE DEF infos
<1>6. \A e : e \in ToSet(infos) <=> \E x \in ToSet(vs) : e = info(x)
  BY <1>4 DEF ToSet
<1>7. \A i \in DOMAIN infos : infos[i] \in I
  BY <1>5
<1>8. Text(vs, v, s).affected = Keep(infos, A)
  BY <1>1, <1>7 DEF Select, Concat, Keep
<1>9. Text(vs, v, s).informational = FlattenSeq(ss)
  BY <1>1 DEF Concat
<1>10. ToSet(vs) \subseteq Justified
  BY Elements
<1>11. ASSUME NEW e
       PROVE  e \in ToSet(Keep(infos, A)) <=> \E x \in ToSet(vs) : Shows(x, s) /\ e = info(x)
  <2>1. e \in ToSet(Keep(infos, A)) <=> e \in ToSet(infos) /\ e \in A
    <3> HIDE DEF A, I
    <3> QED BY <1>5, Kept
  <2> QED BY <1>3, <1>6, <1>10, <2>1
<1>12. \A e \in I : rest(e) \in Seq(T)
                    /\ \A x : Has(rest(e), x) <=> ~e.Affected /\ x = shown1(e)
  <2> SUFFICES ASSUME NEW e \in I
               PROVE  rest(e) \in Seq(T) /\ \A x : Has(rest(e), x) <=> ~e.Affected /\ x = shown1(e)
    OBVIOUS
  <2>1. shown1(e) \in T
    OBVIOUS
  <2> HIDE DEF shown1, T
  <2>2. \A x, y : Has(<<y>>, x) <=> x = y
    BY DEF Has
  <2>3. \A x : ~Has(<<>>, x)
    BY DEF Has
  <2> QED BY <2>1, <2>2, <2>3
<1> HIDE DEF rest
<1>13. ss \in Seq(Seq(T)) /\ DOMAIN ss = DOMAIN infos
       /\ \A i \in DOMAIN infos : \A x : Has(ss[i], x) <=> ~infos[i].Affected /\ x = shown1(infos[i])
  <2>1. DOMAIN infos = 1 .. Len(vs)
    BY <1>2, <1>4
  <2>2. ss \in [1 .. Len(vs) -> Seq(T)]
    <3> HIDE DEF T, I
    <3> QED BY <1>7, <1>12, <2>1
  <2>3. ss \in Seq(Seq(T))
    <3> HIDE DEF ss, T
    <3> QED BY <1>2, <2>2
  <2> QED BY <1>7, <1>12, <2>3
<1> HIDE DEF ss
<1>14. ASSUME NEW e
       PROVE  e \in ToSet(FlattenSeq(ss)) <=>
                \E x \in ToSet(vs) : ~Shows(x, s) /\ e = InfoOf(x, v, s)
  <2>1. e \in ToSet(FlattenSeq(ss)) <=> \E i \in DOMAIN ss : e \in ToSet(ss[i])
    <3> HIDE DEF T
    <3> QED BY <1>13, Flattened
  <2>2. \A i \in DOMAIN ss : e \in ToSet(ss[i]) <=> Has(ss[i], e)
    BY DEF ToSet, Has
  <2>3. e \in ToSet(FlattenSeq(ss)) <=>
          \E i \in DOMAIN infos : ~infos[i].Affected /\ e = shown1(infos[i])
    BY <1>13, <2>1, <2>2
  <2> HIDE DEF shown1
  <2>4. e \in ToSet(FlattenSeq(ss)) <=>
          \E i \in DOMAIN vs : ~Shows(vs[i], s) /\ e = InfoOf(vs[i], v, s)
    BY <1>2, <1>3, <1>4, <2>3
  <2> QED BY <2>4 DEF ToSet
<1>15. Text(vs, v, s).AffectedCount = 0 <=> \A x \in ToSet(vs) : ~Shows(x, s)
  <2>1. IsFiniteSet(C)
    <3>1. IsFiniteSet(1 .. Len(vs))
      BY <1>2, FS_Interval
    <3>2. C \subseteq 1 .. Len(vs)
      BY <1>2, <1>4
    <3> HIDE DEF C
    <3> QED BY <3>1, <3>2, FS_Subset
  <2>2. Cardinality(C) = 0 <=> C = {}
    <3> HIDE DEF C
    <3> QED BY <2>1, FS_EmptySet
  <2>3. C = {} <=> \A i \in DOMAIN vs : ~Shows(vs[i], s)
    BY <1>2, <1>3, <1>4
  <2> HIDE DEF C
  <2> QED BY <1>1, <2>2, <2>3 DEF ToSet
<1>16. ASSUME Latest(vs)
       PROVE  Descending(Keep(infos, A)) /\ Descending(FlattenSeq(ss))
  <2>1. \A i, j \in DOMAIN infos : i < j => infos[i].ID > infos[j].ID
    <3>1. \A i \in DOMAIN vs : infos[i].ID = vs[i].OSV.ID
      BY <1>2, <1>3, <1>4
    <3> QED BY <1>4, <1>16, <3>1 DEF Latest
  <2>2. InOrder(infos, R)
    BY <1>7, <2>1 DEF InOrder
  <2>3. InOrder(Keep(infos, A), R)
    <3> HIDE DEF A, R, I
    <3> QED BY <1>5, <2>2, Kept
  <2>4. Descending(Keep(infos, A))
    BY <2>3 DEF InOrder, Descending
  <2>5. \A i \in DOMAIN ss : InOrder(ss[i], Q)
    <3> SUFFICES ASSUME NEW i \in DOMAIN infos PROVE InOrder(ss[i], Q)
      BY <1>13
    <3>1. ss[i] = rest(infos[i])
      BY DEF ss
    <3>2. \A x : InOrder(<<x>>, Q) /\ InOrder(<<>>, Q)
      BY DEF InOrder
    <3> QED BY <3>1, <3>2 DEF rest
  <2>6. ASSUME NEW i \in DOMAIN ss, NEW j \in DOMAIN ss, i < j, NEW x, NEW y,
               Has(ss[i], x), Has(ss[j], y)
        PROVE  <<x, y>> \in Q
    <3>1. x = shown1(infos[i]) /\ y = shown1(infos[j]) /\ infos[i].ID > infos[j].ID
          /\ infos[i] \in I /\ infos[j] \in I
      BY <1>7, <1>13, <2>1, <2>6
    <3>2. x \in T /\ y \in T /\ x.ID = infos[i].ID /\ y.ID = infos[j].ID
      BY <3>1
    <3> HIDE DEF T
    <3> QED BY <3>1, <3>2
  <2>7. InOrder(FlattenSeq(ss), Q)
    <3> HIDE DEF Q, T
    <3> QED BY <1>13, <2>5, <2>6, FlattenedInOrder
  <2>8. Descending(FlattenSeq(ss))
    BY <2>7 DEF InOrder, Descending
  <2> QED BY <2>4, <2>8
<1> QED BY <1>8, <1>9, <1>11, <1>14, <1>15, <1>16 DEF info

-----------------------------------------------------------------------------
(* The reader of a stream.                                                 *)

LEMMA LastIs ==
  ASSUME NEW S, NEW s \in Seq(S), NEW x
  PROVE  Last(s \o <<x>>) = x
<1>1. s \o <<x>> \in Seq(S \cup {x}) /\ Len(s \o <<x>>) = Len(s) + 1
      /\ (s \o <<x>>)[Len(s) + 1] = x
  <2>1. s \in Seq(S \cup {x}) /\ <<x>> \in Seq(S \cup {x})
    OBVIOUS
  <2> QED BY <2>1
<1> QED BY <1>1 DEF Last

(***************************************************************************)
(* ReportInv implies that a reader of the JSON stream shows what the       *)
(* handler for text shows, or a part of it.                                *)
(***************************************************************************)
LEMMA ReplayShown == ReportInv => ReplayAgrees
<1> SUFFICES ASSUME ReportInv, pc = "done", json PROVE ReplayAgrees
  BY DEF ReplayAgrees
<1> DEFINE two == <<Config, Progress>>
           all == Text(vulns, verbose, source)
<1>1. PICK k \in 0 .. Len(vulns) : \E j \in 0 .. 2 :
        /\ shown = SubSeq(two, 1, j) \o << flushed(Gathered(k)) >>
        /\ cut >= Len(out) => k = Len(vulns) /\ j = 2
  BY DEF ReportInv, Ending
<1>2. PICK j \in 0 .. 2 :
        /\ shown = SubSeq(two, 1, j) \o << flushed(Gathered(k)) >>
        /\ cut >= Len(out) => k = Len(vulns) /\ j = 2
  BY <1>1
<1>3. found \in FoundLists /\ vulns \in Seq(Justified) /\ Len(vulns) \in Nat
  <2>1. found \in FoundLists /\ vulns = Merged
    BY DEF ReportInv, Ending
  <2> QED BY <2>1, AllMerged
<1> DEFINE ws == SubSeq(vulns, 1, k)
           part == Text(ws, verbose, source)
<1>4. flushed(Gathered(k)) = [kind |-> "report", text |-> part]
  BY DEF flushed, Gathered
<1>5. Last(shown).text = part
  <2>1. SubSeq(two, 1, j) = <<>> \/ SubSeq(two, 1, j) = <<Config>> \/ SubSeq(two, 1, j) = two
    <3>1. j = 0 \/ j = 1 \/ j = 2
      OBVIOUS
    <3> QED BY <3>1, ShownGrows
  <2>2. SubSeq(two, 1, j) \in Seq({Config, Progress})
    <3>1. \A a, b : <<>> \in Seq({a, b}) /\ <<a>> \in Seq({a, b}) /\ <<a, b>> \in Seq({a, b})
      OBVIOUS
    <3> QED BY <2>1, <3>1
  <2> HIDE DEF two, part
  <2>3. Last(shown) = [kind |-> "report", text |-> part]
    BY <1>2, <1>4, <2>2, LastIs
  <2> QED BY <2>3
<1>6. ws \in Seq(Justified) /\ ToSet(ws) \subseteq ToSet(vulns)
  <2>1. ws \in Seq(Justified) /\ Len(ws) = k
        /\ \A i \in 1 .. k : ws[i] = vulns[i] /\ i \in DOMAIN vulns
    BY <1>3
  <2> HIDE DEF ws
  <2>2. DOMAIN ws = 1 .. k
    BY <2>1
  <2> QED BY <2>1, <2>2 DEF ToSet
<1>7. ASSUME cut >= Len(out)
      PROVE  shown = <<Config, Progress, [kind |-> "report", text |-> all]>>
  <2>1. k = Len(vulns) /\ j = 2
    BY <1>2, <1>7
  <2>2. ws = vulns
    BY <1>3, <2>1, Beginnings
  <2>3. SubSeq(two, 1, j) = two
    BY <2>1, ShownGrows
  <2>4. shown = two \o << [kind |-> "report", text |-> all] >>
    BY <1>2, <1>4, <2>2, <2>3
  <2>5. ASSUME NEW a, NEW b, NEW c PROVE <<a, b>> \o <<c>> = <<a, b, c>>
    <3> DEFINE r == <<a, b>> \o <<c>>
    <3>1. r \in Seq({a, b, c}) /\ Len(r) = 3 /\ r[1] = a /\ r[2] = b /\ r[3] = c
      <4>1. <<a, b>> \in Seq({a, b, c}) /\ <<c>> \in Seq({a, b, c})
        OBVIOUS
      <4> QED BY <4>1
    <3> HIDE DEF r
    <3>2. r = <<a, b, c>>
      BY <3>1
    <3> QED BY <3>2 DEF r
  <2> HIDE DEF all
  <2> QED BY <2>4, <2>5
<1>8. /\ ToSet(part.affected) \subseteq ToSet(all.affected)
      /\ ToSet(part.informational) \subseteq ToSet(all.informational)
  <2>1. \A e : e \in ToSet(all.affected) <=> \E x \in ToSet(vulns) :
          Shows(x, source) /\ e = createTmplVulnInfo(x, verbose, source)
    BY <1>3, TextIs
  <2> DEFINE rest(us) == Text(us, verbose, source).informational
  <2>2. ASSUME NEW us \in Seq(Justified)
        PROVE  \A e : e \in ToSet(rest(us)) <=> \E x \in ToSet(us) :
                 ~Shows(x, source) /\ e = InfoOf(x, verbose, source)
    BY <1>3, TextIs
  <2> HIDE DEF ws
  <2>3. \A e : e \in ToSet(part.affected) <=> \E x \in ToSet(ws) :
          Shows(x, source) /\ e = createTmplVulnInfo(x, verbose, source)
    BY <1>3, <1>6, TextIs
  <2>4. rest(ws) = part.informational /\ rest(vulns) = all.informational
    OBVIOUS
  <2> HIDE DEF part, all, rest
  <2>5. ToSet(part.affected) \subseteq ToSet(all.affected)
    BY <1>6, <2>1, <2>3
  <2>6. ToSet(rest(ws)) \subseteq ToSet(rest(vulns))
    BY <1>3, <1>6, <2>2
  <2> QED BY <2>4, <2>5, <2>6
<1> HIDE DEF part, ws
<1> QED BY <1>5, <1>7, <1>8 DEF ReplayAgrees

\* A reader of the JSON stream shows what the text handler would have shown,
\* or a part of that if the stream ends early.
THEOREM ReplayCorrect == Spec => []ReplayAgrees
<1> QED BY ReportCorrect, ReplayShown, PTL

-----------------------------------------------------------------------------
(* The sections.                                                           *)

LEMMA OneEach ==
  ASSUME found \in FoundLists, NEW x \in ToSet(Merged), NEW y \in ToSet(Merged),
         x.OSV.ID = y.OSV.ID
  PROVE  x = y
<1>1. Merged \in Seq(Justified) /\ Latest(Merged)
  BY AllMerged
<1>2. \A v \in Justified : v.OSV.ID \in Nat
  <2>1. \A vv \in Findings : vv.OSV.ID \in Nat
    BY FindingIs
  <2> QED BY <2>1 DEF Justified, AnyVuln
<1>3. PICK i \in DOMAIN Merged : Merged[i] = x
  BY DEF ToSet
<1>4. PICK j \in DOMAIN Merged : Merged[j] = y
  BY DEF ToSet
<1>5. DOMAIN Merged \subseteq Nat /\ x \in Justified /\ y \in Justified
  BY <1>1, Elements
<1>6. ~(i < j)
  <2> SUFFICES ASSUME i < j PROVE FALSE
    OBVIOUS
  <2>1. x.OSV.ID > y.OSV.ID
    BY <1>1, <1>3, <1>4 DEF Latest
  <2> QED BY <1>2, <1>5, <2>1
<1>7. ~(j < i)
  <2> SUFFICES ASSUME j < i PROVE FALSE
    OBVIOUS
  <2>1. y.OSV.ID > x.OSV.ID
    BY <1>1, <1>3, <1>4 DEF Latest
  <2> QED BY <1>2, <1>5, <2>1
<1>8. i = j
  BY <1>5, <1>6, <1>7
<1> QED BY <1>3, <1>4, <1>8

LEMMA AffectingIs ==
  ASSUME NEW vv
  PROVE  ToSet(callStacks(vv)) # {} <=> IsAffecting(vv)
<1>1. ASSUME NEW y PROVE ToSet(<<y>>) # {}
  BY DEF ToSet
<1>2. ToSet(<<>>) = {}
  BY DEF ToSet
<1>3. ~source => \E y : callStacks(vv) = <<y>>
  BY Zenon DEF callStacks
<1>4. source /\ vv.stack = <<>> => callStacks(vv) = <<>>
  BY Zenon DEF callStacks
<1>5. source /\ vv.stack # <<>> => \E y : callStacks(vv) = <<y>>
  BY Zenon DEF callStacks
<1> QED BY <1>1, <1>2, <1>3, <1>4, <1>5 DEF IsAffecting

\* The modules and the packages of a vulnerability that was merged.
LEMMA MergedParts ==
  ASSUME found \in FoundLists, NEW x \in ToSet(Merged)
  PROVE  /\ x \in Justified /\ x.Modules \in Seq(ModuleOf(x.OSV.ID)) /\ x.Modules # <<>>
         /\ \A m \in ToSet(x.Modules) :
              /\ m \in ModuleOf(x.OSV.ID)
              /\ m.Packages \in Seq(PackageOf(x.OSV.ID, m.Path)) /\ m.Packages # <<>>
              /\ \A p \in ToSet(m.Packages) : p \in PackageOf(x.OSV.ID, m.Path)
<1>1. x \in Justified
  BY AllMerged, Elements
<1>2. x.Modules \in Seq(ModuleOf(x.OSV.ID)) /\ x.Modules # <<>>
  BY <1>1 DEF Justified
<1>3. ASSUME NEW m \in ToSet(x.Modules)
      PROVE  /\ m \in ModuleOf(x.OSV.ID)
             /\ m.Packages \in Seq(PackageOf(x.OSV.ID, m.Path)) /\ m.Packages # <<>>
  <2>1. m \in ModuleOf(x.OSV.ID)
    BY <1>2, Elements
  <2> QED BY <2>1 DEF ModuleOf
<1>4. ASSUME NEW m \in ToSet(x.Modules), NEW p \in ToSet(m.Packages)
      PROVE  p \in PackageOf(x.OSV.ID, m.Path)
  BY <1>3, Elements
<1> QED BY <1>1, <1>2, <1>3, <1>4

LEMMA CalledIs ==
  ASSUME found \in FoundLists, NEW x \in ToSet(Merged)
  PROVE  /\ IsCalled(x) <=> \E vv \in Findings : vv.OSV.ID = x.OSV.ID /\ IsAffecting(vv)
         /\ \E vv \in Findings : vv.OSV.ID = x.OSV.ID
         /\ ~source => IsCalled(x)
<1>1. IsCalled(x) <=>
        \E m \in ToSet(x.Modules) : \E p \in ToSet(m.Packages) : p.CallStacks # <<>>
  BY DEF IsCalled, ToSet
<1>2. ASSUME NEW vv \in Findings, vv.OSV.ID = x.OSV.ID, IsAffecting(vv)
      PROVE  IsCalled(x)
  <2>1. PICK v \in ToSet(Merged) : \E m, p : Carries(v, m, p, vv)
    BY AllMerged
  <2>2. PICK m, p : Carries(v, m, p, vv)
    BY <2>1
  <2>3. v = x
    BY <1>2, <2>2, OneEach DEF Carries
  <2>4. ToSet(p.CallStacks) # {}
    BY <1>2, <2>2, AffectingIs DEF Carries
  <2>5. p.CallStacks # <<>>
    BY <2>4 DEF ToSet
  <2> QED BY <1>1, <2>2, <2>3, <2>5 DEF Carries
<1>3. ASSUME IsCalled(x)
      PROVE  \E vv \in Findings : vv.OSV.ID = x.OSV.ID /\ IsAffecting(vv)
  <2>1. PICK m \in ToSet(x.Modules) : \E p \in ToSet(m.Packages) : p.CallStacks # <<>>
    BY <1>1, <1>3
  <2>2. PICK p \in ToSet(m.Packages) : p.CallStacks # <<>>
    BY <2>1
  <2>3. p \in PackageOf(x.OSV.ID, m.Path)
    BY MergedParts
  <2>4. p.CallStacks \in Seq(AnyStack)
    BY <2>3 DEF PackageOf, AnyPackage
  <2>5. PICK cs : cs \in ToSet(p.CallStacks)
    BY <2>2, <2>4, Elements
  <2>6. IsStackOf(cs, x.OSV.ID, m.Path, p.Path)
    BY <2>3, <2>5 DEF PackageOf
  <2>7. PICK vv : Finds(vv, x.OSV.ID, m.Path, p.Path) /\ cs \in ToSet(callStacks(vv))
    BY <2>6 DEF IsStackOf
  <2>8. IsAffecting(vv)
    BY <2>7, AffectingIs
  <2> QED BY <2>7, <2>8 DEF Finds
<1>4. PICK vv \in Findings : vv.OSV.ID = x.OSV.ID
  <2>1. PICK m : m \in ToSet(x.Modules)
    BY MergedParts, Elements
  <2>2. PICK p : p \in ToSet(m.Packages)
    BY <2>1, MergedParts, Elements
  <2>3. p \in PackageOf(x.OSV.ID, m.Path)
    BY <2>1, <2>2, MergedParts
  <2> QED BY <2>3 DEF PackageOf, Finds
<1>5. ASSUME ~source PROVE IsCalled(x)
  <2>1. IsAffecting(vv)
    BY <1>5 DEF IsAffecting
  <2> QED BY <1>2, <1>4, <2>1
<1> QED BY <1>2, <1>3, <1>4, <1>5

\* The text that is written at the end of a scan.
LEMMA TheText ==
  ASSUME ReportInv, DoneText
  PROVE  /\ found \in FoundLists /\ vulns = Merged
         /\ vulns \in Seq(Justified) /\ Latest(vulns)
         /\ text = Text(vulns, verbose, source)
         /\ exit = "nil" <=> \A i \in DOMAIN vulns : ~IsCalled(vulns[i])
<1>1. pc = "done" /\ ~json
  BY DEF DoneText
<1>2. /\ found \in FoundLists /\ vulns = Merged
      /\ (exit = "nil" <=> \A i \in DOMAIN vulns : ~IsCalled(vulns[i]))
      /\ out = Stream(0) \o << flushed(Gathered(Len(vulns))) >>
  BY <1>1 DEF ReportInv, Ending
<1>3. vulns \in Seq(Justified) /\ Latest(vulns)
  BY <1>2, AllMerged
<1>4. SubSeq(vulns, 1, Len(vulns)) = vulns
  BY <1>3, Beginnings
<1>5. flushed(Gathered(Len(vulns))) = [kind |-> "report", text |-> Text(vulns, verbose, source)]
  BY <1>4 DEF flushed, Gathered
<1>6. Stream(0) \in Seq({Config, Progress})
  <2>1. \A a, b : <<a, b>> \in Seq({a, b})
    OBVIOUS
  <2> QED BY <2>1, StreamIs
<1>7. Last(out) = flushed(Gathered(Len(vulns)))
  BY <1>2, <1>6, LastIs
<1> QED BY <1>2, <1>3, <1>5, <1>7 DEF text

(***************************************************************************)
(* ReportInv implies that an entry is in one section, once, among the      *)
(* affected exactly if one of its findings affects the user, and that the  *)
(* sentence at the beginning and the exit status agree.                    *)
(***************************************************************************)
LEMMA SectionsShown == ReportInv => SectionsExact
<1> SUFFICES ASSUME ReportInv, DoneText PROVE SectionsExact
  BY DEF SectionsExact
<1>1. /\ found \in FoundLists /\ vulns = Merged
      /\ vulns \in Seq(Justified) /\ Latest(vulns)
      /\ text = Text(vulns, verbose, source)
      /\ exit = "nil" <=> \A i \in DOMAIN vulns : ~IsCalled(vulns[i])
  BY TheText
<1>2. ASSUME NEW x \in ToSet(vulns)
      PROVE  /\ Shows(x, source) <=> IsCalled(x)
             /\ IsCalled(x) <=> \E vv \in Findings : vv.OSV.ID = x.OSV.ID /\ IsAffecting(vv)
             /\ \E vv \in Findings : vv.OSV.ID = x.OSV.ID
  BY <1>1, CalledIs DEF Shows
<1>3. \A vv \in Findings : \E x \in ToSet(vulns) : x.OSV.ID = vv.OSV.ID
  <2> SUFFICES ASSUME NEW vv \in Findings PROVE \E x \in ToSet(vulns) : x.OSV.ID = vv.OSV.ID
    OBVIOUS
  <2>1. PICK v \in ToSet(Merged) : \E m, p : Carries(v, m, p, vv)
    BY <1>1, AllMerged
  <2> QED BY <1>1, <2>1 DEF Carries
<1>4. ASSUME NEW e
      PROVE  e \in ToSet(text.affected) <=> \E x \in ToSet(vulns) :
               IsCalled(x) /\ e = createTmplVulnInfo(x, verbose, source)
  <2>1. e \in ToSet(text.affected) <=> \E x \in ToSet(vulns) :
          Shows(x, source) /\ e = createTmplVulnInfo(x, verbose, source)
    BY <1>1, TextIs
  <2> QED BY <1>2, <2>1
<1>5. ASSUME NEW e
      PROVE  e \in ToSet(text.informational) <=> \E x \in ToSet(vulns) :
               ~IsCalled(x) /\ e = InfoOf(x, verbose, source)
  <2>1. e \in ToSet(text.informational) <=> \E x \in ToSet(vulns) :
          ~Shows(x, source) /\ e = InfoOf(x, verbose, source)
    BY <1>1, TextIs
  <2> QED BY <1>2, <2>1
<1>6. \A x : createTmplVulnInfo(x, verbose, source).ID = x.OSV.ID
             /\ InfoOf(x, verbose, source).ID = x.OSV.ID
  BY InfoIs DEF InfoOf
<1>7. (text.AffectedCount = 0) <=> (exit = "nil")
  <2>1. text.AffectedCount = 0 <=> \A x \in ToSet(vulns) : ~Shows(x, source)
    BY <1>1, TextIs
  <2>2. (\A x \in ToSet(vulns) : ~IsCalled(x)) <=> \A i \in DOMAIN vulns : ~IsCalled(vulns[i])
    BY DEF ToSet
  <2> QED BY <1>1, <1>2, <2>1, <2>2
<1>8. {e.ID : e \in ToSet(text.affected)} = AffectingIDs
  <2>1. ASSUME NEW id
        PROVE  id \in AffectingIDs <=> \E vv \in Findings : vv.OSV.ID = id /\ IsAffecting(vv)
    BY DEF AffectingIDs, IDsOf
  <2>2. ASSUME NEW id
        PROVE  id \in {e.ID : e \in ToSet(text.affected)} <=>
                 \E x \in ToSet(vulns) : IsCalled(x) /\ id = x.OSV.ID
    <3>1. id \in {e.ID : e \in ToSet(text.affected)} <=> \E e \in ToSet(text.affected) : e.ID = id
      OBVIOUS
    <3>2. ASSUME NEW e \in ToSet(text.affected), e.ID = id
          PROVE  \E x \in ToSet(vulns) : IsCalled(x) /\ id = x.OSV.ID
      <4>1. PICK x \in ToSet(vulns) : IsCalled(x) /\ e = createTmplVulnInfo(x, verbose, source)
        BY <1>4, <3>2
      <4>2. e.ID = x.OSV.ID
        BY <1>6, <4>1
      <4> QED BY <3>2, <4>1, <4>2
    <3>3. ASSUME NEW x \in ToSet(vulns), IsCalled(x), id = x.OSV.ID
          PROVE  \E e \in ToSet(text.affected) : e.ID = id
      BY <1>4, <1>6, <3>3
    <3> QED BY <3>1, <3>2, <3>3
  <2>3. ASSUME NEW id
        PROVE  (\E x \in ToSet(vulns) : IsCalled(x) /\ id = x.OSV.ID) <=>
                 \E vv \in Findings : vv.OSV.ID = id /\ IsAffecting(vv)
    BY <1>2, <1>3
  <2> QED BY <2>1, <2>2, <2>3
<1>9. {e.ID : e \in ToSet(text.informational)} = IDsOf(Findings) \ AffectingIDs
  <2>1. ASSUME NEW id
        PROVE  id \in IDsOf(Findings) \ AffectingIDs <=>
                 /\ \E vv \in Findings : vv.OSV.ID = id
                 /\ ~ \E vv \in Findings : vv.OSV.ID = id /\ IsAffecting(vv)
    BY DEF AffectingIDs, IDsOf
  <2>2. ASSUME NEW id
        PROVE  id \in {e.ID : e \in ToSet(text.informational)} <=>
                 \E x \in ToSet(vulns) : ~IsCalled(x) /\ id = x.OSV.ID
    <3>1. id \in {e.ID : e \in ToSet(text.informational)} <=> \E e \in ToSet(text.informational) : e.ID = id
      OBVIOUS
    <3>2. ASSUME NEW e \in ToSet(text.informational), e.ID = id
          PROVE  \E x \in ToSet(vulns) : ~IsCalled(x) /\ id = x.OSV.ID
      <4>1. PICK x \in ToSet(vulns) : ~IsCalled(x) /\ e = InfoOf(x, verbose, source)
        BY <1>5, <3>2
      <4>2. e.ID = x.OSV.ID
        BY <1>6, <4>1
      <4> QED BY <3>2, <4>1, <4>2
    <3>3. ASSUME NEW x \in ToSet(vulns), ~IsCalled(x), id = x.OSV.ID
          PROVE  \E e \in ToSet(text.informational) : e.ID = id
      BY <1>5, <1>6, <3>3
    <3> QED BY <3>1, <3>2, <3>3
  <2>3. ASSUME NEW id
        PROVE  (\E x \in ToSet(vulns) : ~IsCalled(x) /\ id = x.OSV.ID) <=>
                 /\ \E vv \in Findings : vv.OSV.ID = id
                 /\ ~ \E vv \in Findings : vv.OSV.ID = id /\ IsAffecting(vv)
    BY <1>2, <1>3
  <2> QED BY <2>1, <2>2, <2>3
<1>10. Descending(text.affected) /\ Descending(text.informational)
  BY <1>1, TextIs
<1> QED BY <1>7, <1>8, <1>9, <1>10 DEF SectionsExact

\* The sections and the exit status agree with each other and with the
\* findings of the scan.
THEOREM SectionsCorrect == Spec => []SectionsExact
<1> QED BY ReportCorrect, SectionsShown, PTL

-----------------------------------------------------------------------------
(* The summaries.                                                          *)

LEMMA Extremes ==
  ASSUME NEW n \in Nat, NEW I \in SUBSET (1 .. n)
  PROVE  /\ I = {} => lowest(I) = 0 /\ highest(I) = 0
         /\ I # {} => /\ lowest(I) \in I /\ \A j \in I : j <= lowest(I)
                      /\ highest(I) \in I /\ \A j \in I : highest(I) <= j
<1>1. I = {} => lowest(I) = 0 /\ highest(I) = 0
  BY DEF lowest, highest
<1>2. ASSUME I # {} PROVE \E m \in I : \A j \in I : m <= j
  <2>1. I \in SUBSET Nat
    OBVIOUS
  <2> QED BY <1>2, <2>1, Least
<1>3. ASSUME I # {} PROVE \E m \in I : \A j \in I : j <= m
  <2> DEFINE S == {n - i : i \in I}
  <2>1. S \in SUBSET Nat /\ S # {}
    <3>1. PICK i0 \in I : TRUE
      BY <1>3
    <3>2. \A i \in I : n - i \in Nat
      OBVIOUS
    <3>3. n - i0 \in S
      BY <3>1
    <3> QED BY <3>2, <3>3
  <2>2. PICK m \in S : \A k \in S : m <= k
    <3> HIDE DEF S
    <3> QED BY <2>1, Least
  <2>3. PICK i \in I : m = n - i
    BY <2>2
  <2>4. ASSUME NEW j \in I PROVE j <= i
    <3>1. n - j \in S /\ i \in Int /\ j \in Int
      OBVIOUS
    <3>2. n - i <= n - j
      BY <2>2, <2>3, <3>1
    <3> QED BY <3>1, <3>2
  <2> QED BY <2>4
<1>4. I # {} => lowest(I) \in I /\ \A j \in I : j <= lowest(I)
  BY <1>3 DEF lowest
<1>5. I # {} => highest(I) \in I /\ \A j \in I : highest(I) <= j
  BY <1>2 DEF highest
<1> QED BY <1>1, <1>4, <1>5

\* A frame and the function that created it.
LEMMA FrameIs ==
  ASSUME NEW frames, IsStack(frames), NEW i \in DOMAIN frames
  PROVE  /\ i \in Nat /\ i >= 1 /\ i <= Len(frames) /\ Len(frames) \in Nat
         /\ DOMAIN frames = 1 .. Len(frames)
         /\ creatorName(frames[i]).Package = frames[i].Package
         /\ ~creatorName(frames[i]).anonymous
         /\ Names(frames[i], frames[i])
         /\ frames[i].anonymous => Names(creatorName(frames[i]), frames[i])
<1>1. /\ frames \in Seq({frames[k] : k \in DOMAIN frames})
      /\ frames[i] \in [Package : {frames[i].Package}, Function : {frames[i].Function},
                        anonymous : BOOLEAN]
  BY DEF IsStack
<1>2. Len(frames) \in Nat /\ DOMAIN frames = 1 .. Len(frames)
  BY <1>1
<1>3. /\ creatorName(frames[i]).Package = frames[i].Package
      /\ ~creatorName(frames[i]).anonymous
  BY <1>1 DEF creatorName
<1> QED BY <1>2, <1>3 DEF Names

LEMMA TopIs ==
  ASSUME NEW frames, IsStack(frames), InTop(frames) # {}
  PROVE  LET top == summarizeTop(frames)
             end == LastTop(frames)
         IN  /\ top.iTopEnd = end /\ end \in InTop(frames)
             /\ \A j \in InTop(frames) : j <= end
             /\ top.iTop \in InTop(frames) /\ Names(top.topFunc, frames[top.iTop])
             /\ ~top.topFunc.anonymous /\ top.topFunc.Package \in topPkgs
             /\ Names(top.topEndFunc, frames[end])
             /\ ~top.topEndFunc.anonymous /\ top.topEndFunc.Package \in topPkgs
             /\ \A i \in top.iTop + 1 .. end :
                  frames[i].Package \in topPkgs => frames[i].anonymous
<1> DEFINE end   == LastTop(frames)
           anon  == frames[end].anonymous
           func  == IF anon THEN creatorName(frames[end]) ELSE frames[end]
           I     == Named(frames, InTop(frames))
           named == lowest(I)
           at    == IF anon /\ named # 0 THEN named ELSE end
           tf    == IF at = end THEN func ELSE frames[at]
<1>1. summarizeTop(frames) = [iTop |-> at, iTopEnd |-> end, topEndFunc |-> func, topFunc |-> tf]
  BY Zenon DEF summarizeTop, LastTop, FuncName, isAnonymousFunction
<1>2. /\ Len(frames) \in Nat /\ DOMAIN frames = 1 .. Len(frames)
      /\ InTop(frames) \in SUBSET (1 .. Len(frames)) /\ I \in SUBSET InTop(frames)
      /\ \A i \in InTop(frames) : i \in DOMAIN frames /\ frames[i].Package \in topPkgs
      /\ \A i \in I : ~frames[i].anonymous
      /\ \A i \in InTop(frames) : i \in I \/ frames[i].anonymous
  <2>1. \E i : i \in DOMAIN frames
    BY DEF InTop
  <2>2. Len(frames) \in Nat /\ DOMAIN frames = 1 .. Len(frames)
    BY <2>1, FrameIs
  <2> QED BY <2>2 DEF InTop, Named, isAnonymousFunction
<1> HIDE DEF I
<1>3. end \in InTop(frames) /\ \A j \in InTop(frames) : j <= end
  BY <1>2, Extremes DEF LastTop
<1>4. /\ I = {} => named = 0
      /\ I # {} => named \in I /\ \A j \in I : j <= named
  <2>1. I \in SUBSET (1 .. Len(frames))
    BY <1>2
  <2> QED BY <1>2, <2>1, Extremes
<1> HIDE DEF end, named
<1>5. end \in DOMAIN frames /\ frames[end].Package \in topPkgs /\ end \in Nat
  BY <1>2, <1>3
<1>6. Names(func, frames[end]) /\ ~func.anonymous /\ func.Package \in topPkgs
  BY <1>5, FrameIs
<1>7. named # 0 => named \in I /\ named \in DOMAIN frames /\ named \in Nat
  BY <1>2, <1>4
<1>8. at \in InTop(frames)
  BY <1>2, <1>3, <1>7
<1>9. Names(tf, frames[at]) /\ ~tf.anonymous /\ tf.Package \in topPkgs
  <2>1. CASE at = end
    BY <1>6, <2>1
  <2>2. CASE at # end
    <3>1. at = named /\ named # 0
      BY <2>2
    <3>2. Names(frames[named], frames[named]) /\ ~frames[named].anonymous
          /\ frames[named].Package \in topPkgs
      BY <1>2, <1>7, <3>1, FrameIs
    <3> HIDE DEF at
    <3> QED BY <2>2, <3>1, <3>2
  <2> QED BY <2>1, <2>2
<1>10. ASSUME NEW i \in at + 1 .. end, frames[i].Package \in topPkgs
       PROVE  frames[i].anonymous
  <2>1. at \in Nat /\ i \in Nat /\ at >= 1 /\ i > at /\ i <= end
    BY <1>2, <1>5, <1>8
  <2>2. at = named /\ named # 0
    BY <1>5, <2>1
  <2>3. i \in DOMAIN frames
    BY <1>2, <1>5, <2>1
  <2>4. i \in InTop(frames)
    BY <1>10, <2>3 DEF InTop
  <2>5. i \notin I
    BY <1>4, <1>7, <2>1, <2>2
  <2>6. i \in I \/ frames[i].anonymous
    BY <1>2, <2>4
  <2> QED BY <2>5, <2>6
<1> HIDE DEF at, func, tf
<1> QED BY <1>1, <1>3, <1>6, <1>8, <1>9, <1>10 DEF end

LEMMA VulnIs ==
  ASSUME NEW frames, IsStack(frames), NEW k \in Nat, NEW pkg, InPkg(frames, k + 1, pkg) # {}
  PROVE  LET w == summarizeVuln(frames, k, pkg)
         IN  /\ w.iVulnStart \in DOMAIN frames /\ w.iVulnStart >= k + 1
             /\ frames[w.iVulnStart].Package = pkg
             /\ Names(w.vulnStartFunc, frames[w.iVulnStart])
             /\ ~w.vulnStartFunc.anonymous /\ w.vulnStartFunc.Package = pkg
             /\ ~w.vulnFunc.anonymous
             /\ \E j \in DOMAIN frames :
                  /\ j >= w.iVulnStart /\ frames[j].Package = pkg
                  /\ Names(w.vulnFunc, frames[j])
<1> DEFINE J     == InPkg(frames, k + 1, pkg)
           start == highest(J)
           anon  == frames[start].anonymous
           func  == IF anon THEN creatorName(frames[start]) ELSE frames[start]
           I     == Named(frames, InPkg(frames, start, pkg))
           named == highest(I)
           vf    == IF anon /\ named # 0 THEN frames[named] ELSE func
<1>1. summarizeVuln(frames, k, pkg) =
        [iVulnStart |-> start, vulnStartFunc |-> func, vulnFunc |-> vf]
  BY Zenon DEF summarizeVuln, FuncName, isAnonymousFunction
<1>2. /\ Len(frames) \in Nat /\ DOMAIN frames = 1 .. Len(frames)
      /\ J \in SUBSET (1 .. Len(frames)) /\ I \in SUBSET (1 .. Len(frames))
      /\ \A i \in J : i \in DOMAIN frames /\ i >= k + 1 /\ frames[i].Package = pkg
      /\ \A i \in I : /\ i \in DOMAIN frames /\ i >= start /\ frames[i].Package = pkg
                      /\ ~frames[i].anonymous
  <2>1. \E i : i \in DOMAIN frames
    BY DEF InPkg
  <2>2. Len(frames) \in Nat /\ DOMAIN frames = 1 .. Len(frames)
    BY <2>1, FrameIs
  <2> QED BY <2>2 DEF InPkg, Named, isAnonymousFunction
<1> HIDE DEF I, J
<1>3. start \in J
  BY <1>2, Extremes DEF J
<1>4. (I = {} => named = 0) /\ (I # {} => named \in I)
  BY <1>2, Extremes
<1> HIDE DEF start, named
<1>5. start \in DOMAIN frames /\ start >= k + 1 /\ frames[start].Package = pkg
  BY <1>2, <1>3
<1>6. Names(func, frames[start]) /\ ~func.anonymous /\ func.Package = pkg
  BY <1>5, FrameIs
<1>7. ~vf.anonymous /\ \E j \in DOMAIN frames :
        j >= start /\ frames[j].Package = pkg /\ Names(vf, frames[j])
  <2>1. CASE anon /\ named # 0
    <3>1. named \in I
      BY <1>4, <2>1
    <3>2. /\ named \in DOMAIN frames /\ named >= start /\ frames[named].Package = pkg
          /\ ~frames[named].anonymous
      BY <1>2, <3>1
    <3>3. Names(frames[named], frames[named])
      BY <3>2, FrameIs
    <3> QED BY <2>1, <3>2, <3>3
  <2>2. CASE ~(anon /\ named # 0)
    <3>1. vf = func
      BY <2>2
    <3>2. start >= start
      BY <1>2, <1>5
    <3> HIDE DEF vf, func
    <3> QED BY <1>5, <1>6, <3>1, <3>2
  <2> QED BY <2>1, <2>2
<1> HIDE DEF func, vf
<1> QED BY <1>1, <1>5, <1>6, <1>7

\* The summary of a call stack is true of it.
LEMMA SummaryIs ==
  ASSUME NEW frames, IsStack(frames), frames # <<>>, frames[1].Package \in topPkgs
  PROVE  IF frames[Len(frames)].Package \in topPkgs
         THEN summarizeCallStack(frames) = NoSummary
         ELSE TrueOf(summarizeCallStack(frames), frames)
<1> DEFINE n    == Len(frames)
           pkg  == frames[n].Package
           end  == LastTop(frames)
           top  == summarizeTop(frames)
           vuln == summarizeVuln(frames, end, pkg)
           tf   == top.topFunc
           vf   == vuln.vulnFunc
           line(fs) == [at |-> top.iTop, funcs |-> fs]
<1>1. /\ n \in Nat /\ n >= 1 /\ DOMAIN frames = 1 .. n
      /\ 1 \in DOMAIN frames /\ n \in DOMAIN frames
  <2>1. frames \in Seq({frames[k] : k \in DOMAIN frames})
    BY DEF IsStack
  <2> QED BY <2>1
<1>2. 1 \in InTop(frames) /\ InTop(frames) \subseteq 1 .. n
  BY <1>1 DEF InTop
<1>3. /\ top.iTopEnd = end /\ end \in InTop(frames)
      /\ \A j \in InTop(frames) : j <= end
      /\ top.iTop \in InTop(frames) /\ Names(tf, frames[top.iTop])
      /\ ~tf.anonymous /\ tf.Package \in topPkgs
      /\ Names(top.topEndFunc, frames[end])
      /\ ~top.topEndFunc.anonymous /\ top.topEndFunc.Package \in topPkgs
      /\ \A i \in top.iTop + 1 .. end :
           frames[i].Package \in topPkgs => frames[i].anonymous
  BY <1>2, TopIs
<1>4. summarizeCallStack(frames) =
        IF frames = <<>> \/ InTop(frames) = {} THEN NoSummary
        ELSE IF InPkg(frames, end + 1, pkg) = {} THEN NoSummary
        ELSE IF tf # top.topEndFunc THEN line(<<tf, top.topEndFunc, vf>>)
        ELSE IF vuln.iVulnStart # end + 1 THEN line(<<tf, frames[end + 1], vf>>)
        ELSE IF vuln.vulnStartFunc # vf THEN line(<<tf, vuln.vulnStartFunc, vf>>)
        ELSE line(<<tf, vf>>)
  <2>1. top.iTopEnd = end
    BY <1>3
  <2> HIDE DEF end
  <2> QED BY <2>1 DEF summarizeCallStack, FuncName
<1> HIDE DEF top
<1>5. end \in Nat /\ end >= 1 /\ end <= n /\ end \in DOMAIN frames
  BY <1>1, <1>2, <1>3
<1>6. CASE pkg \in topPkgs
  <2>1. n \in InTop(frames)
    BY <1>1, <1>6 DEF InTop
  <2>2. n <= end
    BY <1>3, <2>1
  <2>3. InPkg(frames, end + 1, pkg) = {}
    BY <1>1, <1>5, <2>2 DEF InPkg
  <2> QED BY <1>4, <1>6, <2>3
<1>7. CASE pkg \notin topPkgs
  <2>1. end < n
    <3>1. n \notin InTop(frames)
      BY <1>7 DEF InTop
    <3> QED BY <1>1, <1>3, <1>5, <3>1
  <2>2. n \in InPkg(frames, end + 1, pkg)
    BY <1>1, <1>5, <2>1 DEF InPkg
  <2>3. /\ vuln.iVulnStart \in DOMAIN frames /\ vuln.iVulnStart >= end + 1
        /\ frames[vuln.iVulnStart].Package = pkg
        /\ Names(vuln.vulnStartFunc, frames[vuln.iVulnStart])
        /\ ~vuln.vulnStartFunc.anonymous /\ vuln.vulnStartFunc.Package = pkg
        /\ ~vf.anonymous
        /\ \E j \in DOMAIN frames :
             j >= vuln.iVulnStart /\ frames[j].Package = pkg /\ Names(vf, frames[j])
    <3> HIDE DEF end
    <3> QED BY <1>5, <2>2, VulnIs
  <2> HIDE DEF vuln
  <2>4. PICK j \in DOMAIN frames :
          j >= vuln.iVulnStart /\ frames[j].Package = pkg /\ Names(vf, frames[j])
    BY <2>3
  <2> DEFINE start == vuln.iVulnStart
  <2>5. start \in Nat /\ start >= end + 1 /\ j \in Nat /\ j >= start /\ j <= n
    BY <1>1, <2>3, <2>4
  <2>6. end + 1 \in DOMAIN frames /\ frames[end + 1].Package \notin topPkgs
    <3>1. end + 1 \in DOMAIN frames
      BY <1>1, <1>5, <2>1
    <3>2. end + 1 \notin InTop(frames)
      BY <1>3, <1>5
    <3> QED BY <3>1, <3>2 DEF InTop
  <2>7. ASSUME NEW g, NEW i \in {end, end + 1}, Names(g, frames[i]), g # tf
        PROVE  TrueOf(line(<<tf, g, vf>>), frames)
    <3> DEFINE s == line(<<tf, g, vf>>)
    <3>1. /\ s.at = top.iTop /\ Len(s.funcs) = 3 /\ DOMAIN s.funcs = 1 .. 3
          /\ s.funcs[1] = tf /\ s.funcs[2] = g /\ s.funcs[3] = vf
      OBVIOUS
    <3> HIDE DEF s, tf, vf, end, pkg
    <3>2. /\ i \in end .. n /\ j \in i .. n /\ i <= end + 1 /\ j > end
      BY <1>1, <1>5, <2>1, <2>5
    <3>4. ~s.funcs[1].anonymous /\ ~s.funcs[3].anonymous
      BY <1>3, <2>3, <3>1
    <3>5. \E a \in end .. Len(frames) : \E b \in a .. Len(frames) :
            /\ a <= end + 1 /\ Names(s.funcs[2], frames[a])
            /\ b > end /\ frames[b].Package = frames[Len(frames)].Package
            /\ Names(s.funcs[3], frames[b])
            /\ s.funcs[2] # s.funcs[1]
      BY <2>4, <2>7, <3>1, <3>2 DEF pkg
    <3> HIDE DEF n
    <3>6. TrueOf(s, frames)
      BY <1>3, <3>1, <3>4, <3>5 DEF TrueOf, end
    <3> QED BY <3>6 DEF s
  <2>8. CASE tf # top.topEndFunc
    <3>1. TrueOf(line(<<tf, top.topEndFunc, vf>>), frames)
      BY <1>3, <2>7, <2>8
    <3> QED BY <1>2, <1>4, <1>7, <2>2, <2>8, <3>1
  <2>9. CASE tf = top.topEndFunc /\ start # end + 1
    <3>1. Names(frames[end + 1], frames[end + 1]) /\ frames[end + 1] # tf
      BY <1>3, <2>6, FrameIs
    <3>2. TrueOf(line(<<tf, frames[end + 1], vf>>), frames)
      BY <2>7, <3>1
    <3> QED BY <1>2, <1>4, <1>7, <2>2, <2>9, <3>2
  <2>10. CASE tf = top.topEndFunc /\ start = end + 1 /\ vuln.vulnStartFunc # vf
    <3>1. vuln.vulnStartFunc # tf /\ Names(vuln.vulnStartFunc, frames[end + 1])
      BY <1>3, <1>7, <2>3, <2>10
    <3>2. TrueOf(line(<<tf, vuln.vulnStartFunc, vf>>), frames)
      BY <2>3, <2>7, <3>1
    <3> QED BY <1>2, <1>4, <1>7, <2>2, <2>10, <3>2
  <2>11. CASE tf = top.topEndFunc /\ start = end + 1 /\ vuln.vulnStartFunc = vf
    <3> DEFINE s == line(<<tf, vf>>)
    <3>1. /\ s.at = top.iTop /\ Len(s.funcs) = 2 /\ DOMAIN s.funcs = 1 .. 2
          /\ s.funcs[1] = tf /\ s.funcs[2] = vf
      OBVIOUS
    <3>2. /\ end + 1 > end /\ frames[end + 1].Package = pkg /\ Names(vf, frames[end + 1])
      BY <1>5, <2>3, <2>11
    <3> HIDE DEF s, tf, vf, end
    <3>4. ~s.funcs[1].anonymous /\ ~s.funcs[2].anonymous
      BY <1>3, <2>3, <3>1
    <3>5. TrueOf(s, frames)
      BY <1>3, <3>1, <3>2, <3>4 DEF TrueOf, end
    <3>6. summarizeCallStack(frames) = s
      BY <1>2, <1>4, <2>2, <2>11 DEF s
    <3> QED BY <1>7, <3>5, <3>6
  <2> QED BY <2>8, <2>9, <2>10, <2>11
<1> QED BY <1>6, <1>7

(***************************************************************************)
(* ReportInv implies that each call stack of a result is that of a finding *)
(* in its package, with a summary that is true of it.                      *)
(***************************************************************************)
LEMMA SummariesShown == ReportInv => SummariesTrue
<1> SUFFICES ASSUME ReportInv, NEW i \in DOMAIN vulns, NEW m \in ToSet(vulns[i].Modules),
                    NEW p \in ToSet(m.Packages), NEW cs \in ToSet(p.CallStacks)
             PROVE  IF cs.Frames = <<>> \/ p.Path \in topPkgs THEN cs.Summary = NoSummary
                    ELSE TrueOf(cs.Summary, cs.Frames)
  BY DEF SummariesTrue
<1>1. found \in FoundLists /\ Len(found) \in Nat
  BY SinglesAre DEF ReportInv
<1>2. vulns \in Seq(Justified)
  <2>1. CASE pc \in {"config", "progress", "create"}
    <3>1. next \in 1 .. Len(found) + 1 /\ vulns = Singles(next - 1)
      BY <2>1 DEF ReportInv, Creating
    <3>2. next - 1 \in 0 .. Len(found)
      BY <1>1, <3>1
    <3> QED BY <1>1, <3>1, <3>2, SinglesAre
  <2>2. CASE pc \in {"queue", "read", "done"}
    BY <1>1, <2>2, AllMerged DEF ReportInv, Ending
  <2> QED BY <2>1, <2>2 DEF ReportInv
<1> DEFINE id == vulns[i].OSV.ID
<1>3. vulns[i].Modules \in Seq(ModuleOf(id))
  BY <1>2 DEF Justified
<1>4. m \in ModuleOf(id)
  BY <1>3, Elements
<1>5. m.Packages \in Seq(PackageOf(id, m.Path))
  BY <1>4 DEF ModuleOf
<1>6. p \in PackageOf(id, m.Path)
  BY <1>5, Elements
<1>7. IsStackOf(cs, id, m.Path, p.Path)
  BY <1>6 DEF PackageOf
<1>8. PICK vv : Finds(vv, id, m.Path, p.Path) /\ cs \in ToSet(callStacks(vv))
  BY <1>7 DEF IsStackOf
<1>9. vv \in Findings /\ vv.PkgPath = p.Path
  BY <1>8 DEF Finds
<1>10. /\ IsStack(vv.stack)
       /\ vv.stack # <<>> => /\ vv.stack[1].Package \in topPkgs
                             /\ vv.stack[Len(vv.stack)].Package = p.Path
  BY <1>1, <1>9, FindingIs
<1> DEFINE b == [Symbol |-> vv.Symbol, Frames |-> <<>>, Summary |-> NoSummary]
           c == [Symbol |-> vv.Symbol, Frames |-> vv.stack,
                 Summary |-> summarizeCallStack(vv.stack)]
<1>11. cs = b \/ (vv.stack # <<>> /\ cs = c)
  <2>1. callStacks(vv) = IF ~source THEN <<b>> ELSE IF vv.stack = <<>> THEN <<>> ELSE <<c>>
    BY Zenon DEF callStacks
  <2> HIDE DEF b, c
  <2>2. \A y, z : y \in ToSet(<<z>>) => y = z
    BY DEF ToSet
  <2>3. \A y : y \notin ToSet(<<>>)
    BY DEF ToSet
  <2> QED BY <1>8, <2>1, <2>2, <2>3
<1>12. CASE cs = b
  BY <1>12
<1>13. CASE vv.stack # <<>> /\ cs = c
  <2>1. cs.Frames = vv.stack /\ cs.Summary = summarizeCallStack(vv.stack)
    BY <1>13
  <2>2. IF p.Path \in topPkgs THEN summarizeCallStack(vv.stack) = NoSummary
        ELSE TrueOf(summarizeCallStack(vv.stack), vv.stack)
    BY <1>10, <1>13, SummaryIs
  <2> HIDE DEF c
  <2> QED BY <1>13, <2>1, <2>2
<1> QED BY <1>11, <1>12, <1>13

\* The summaries are true of the call stacks they stand for.
THEOREM SummariesCorrect == Spec => []SummariesTrue
<1> QED BY ReportCorrect, SummariesShown, PTL

-----------------------------------------------------------------------------
(* The modules that are shown for a vulnerability.                         *)

AnyBlock(v, s) == UNION {ToSet(blocks(p, v, s)) : p \in AnyPackage}
AnyRow(osv, v, s) ==
  {createTmplModule(m, path, osv, st) :
     m \in AnyModule, path \in DOMAIN Rank, st \in Seq(AnyBlock(v, s))}

\* The name under which package p of module m is shown.
NameOf(m, p) == IF m.Path = Std THEN p.Path ELSE m.Path

\* The row shows package p of module m.
RowShows(t, m, p, v, s) ==
  /\ t.Module = NameOf(m, p)
  /\ t.Found = moduleVersionString(NameOf(m, p), m.FoundVersion)
  /\ t.Fixed = moduleVersionString(NameOf(m, p), m.FixedVersion)
  /\ t.Stacks \in Seq(AnyBlock(v, s))
  /\ ToSet(blocks(p, v, s)) \subseteq ToSet(t.Stacks)
  /\ ~s => t.Stacks = <<>>

LEMMA BlocksAre ==
  ASSUME NEW p \in AnyPackage, NEW v, NEW s
  PROVE  /\ blocks(p, v, s) \in Seq(AnyBlock(v, s))
         /\ ~s => blocks(p, v, s) = <<>>
         /\ s /\ p.CallStacks # <<>> => /\ v  => [stacks |-> p.CallStacks] \in ToSet(blocks(p, v, s))
                                        /\ ~v => [summaries |-> {p.CallStacks[i].Summary : i \in DOMAIN p.CallStacks}]
                                                   \in ToSet(blocks(p, v, s))
<1> DEFINE a == [stacks |-> p.CallStacks]
           b == [summaries |-> {p.CallStacks[i].Summary : i \in DOMAIN p.CallStacks}]
<1>1. blocks(p, v, s) = IF ~s \/ p.CallStacks = <<>> THEN <<>> ELSE IF v THEN <<a>> ELSE <<b>>
  BY Zenon DEF blocks
<1> HIDE DEF a, b
<1>2. \A y : <<y>> \in Seq({y}) /\ ToSet(<<y>>) = {y}
  BY DEF ToSet
<1>3. blocks(p, v, s) \in Seq(AnyBlock(v, s))
  <2>1. ToSet(blocks(p, v, s)) \subseteq AnyBlock(v, s)
    BY DEF AnyBlock
  <2>2. \E S : blocks(p, v, s) \in Seq(S)
    <3>1. blocks(p, v, s) = <<>> \/ blocks(p, v, s) = <<a>> \/ blocks(p, v, s) = <<b>>
      BY <1>1
    <3>2. <<>> \in Seq({})
      OBVIOUS
    <3>3. blocks(p, v, s) \in Seq({}) \/ blocks(p, v, s) \in Seq({a}) \/ blocks(p, v, s) \in Seq({b})
      BY <1>2, <3>1, <3>2
    <3> QED BY <3>3
  <2>3. PICK S : blocks(p, v, s) \in Seq(S)
    BY <2>2
  <2> QED BY <2>1, <2>3, Subsequences
<1> QED BY <1>1, <1>2, <1>3 DEF a, b

LEMMA RowIs ==
  ASSUME NEW m, NEW path, NEW osv, NEW st
  PROVE  /\ createTmplModule(m, path, osv, st).Module = path
         /\ createTmplModule(m, path, osv, st).Found = moduleVersionString(path, m.FoundVersion)
         /\ createTmplModule(m, path, osv, st).Fixed = moduleVersionString(path, m.FixedVersion)
         /\ createTmplModule(m, path, osv, st).Stacks = st
BY DEF createTmplModule

LEMMA ExercisedAre ==
  ASSUME NEW m \in AnyModule
  PROVE  /\ Exercised(m) \in Seq(AnyPackage)
         /\ \A p : p \in ToSet(Exercised(m)) <=> p \in ToSet(m.Packages) /\ p.CallStacks # <<>>
<1> DEFINE A == {p \in AnyPackage : p.CallStacks # <<>>}
<1>1. m.Packages \in Seq(AnyPackage)
  BY DEF AnyModule
<1>2. \A i \in DOMAIN m.Packages : m.Packages[i] \in AnyPackage
  BY <1>1
<1>3. Exercised(m) = Keep(m.Packages, A)
  BY <1>2 DEF Exercised, Select, Concat, Keep
<1>4. /\ Keep(m.Packages, A) \in Seq(AnyPackage)
      /\ \A p : p \in ToSet(Keep(m.Packages, A)) <=> p \in ToSet(m.Packages) /\ p \in A
  <2> HIDE DEF A
  <2> QED BY <1>1, Kept
<1>5. ToSet(m.Packages) \subseteq AnyPackage
  BY <1>1, Elements
<1> QED BY <1>3, <1>4, <1>5

\* The blocks of the packages of a module.
LEMMA BlocksJoined ==
  ASSUME NEW m \in AnyModule, NEW v, NEW s
  PROVE  /\ Concat(Exercised(m), LAMBDA p : blocks(p, v, s)) \in Seq(AnyBlock(v, s))
         /\ \A x : x \in ToSet(Concat(Exercised(m), LAMBDA p : blocks(p, v, s))) <=>
              \E p \in ToSet(m.Packages) : p.CallStacks # <<>> /\ x \in ToSet(blocks(p, v, s))
<1> DEFINE q == Exercised(m)
           g == [p \in AnyPackage |-> blocks(p, v, s)]
<1>1. q \in Seq(AnyPackage)
      /\ \A p : p \in ToSet(q) <=> p \in ToSet(m.Packages) /\ p.CallStacks # <<>>
  BY ExercisedAre
<1> HIDE DEF q
<1>2. g \in [AnyPackage -> Seq(AnyBlock(v, s))]
  BY BlocksAre
<1>3. \A i \in DOMAIN q : q[i] \in AnyPackage
  BY <1>1
<1>4. Concat(q, LAMBDA p : blocks(p, v, s)) = FlattenSeq([i \in DOMAIN q |-> g[q[i]]])
  BY <1>3 DEF Concat
<1>5. \A p \in ToSet(q) : g[p] = blocks(p, v, s)
  BY <1>1, Elements
<1> HIDE DEF g
<1>6. /\ FlattenSeq([i \in DOMAIN q |-> g[q[i]]]) \in Seq(AnyBlock(v, s))
      /\ \A x : x \in ToSet(FlattenSeq([i \in DOMAIN q |-> g[q[i]]])) <=>
                  \E e \in ToSet(q) : x \in ToSet(g[e])
  BY <1>1, <1>2, Joined
<1> QED BY <1>1, <1>4, <1>5, <1>6 DEF q

\* A row for each package of the standard library.
LEMMA StdRows ==
  ASSUME NEW m \in AnyModule, m.Packages # <<>>, m.Path = Std, NEW osv, NEW v, NEW s, NEW y
  PROVE  /\ stdModules(m, osv, v, s, y) \in Seq(AnyRow(osv, v, s))
         /\ \A t \in ToSet(stdModules(m, osv, v, s, y)) :
              \E p \in ToSet(m.Packages) : t.Module = NameOf(m, p)
         /\ \A p \in ToSet(m.Packages) : (s => p.CallStacks # <<>>) =>
              \E t \in ToSet(stdModules(m, osv, v, s, y)) : RowShows(t, m, p, v, s)
<1> DEFINE ps == IF s THEN Exercised(m) ELSE m.Packages
           tm(p) == createTmplModule(m, p.Path, osv, blocks(p, v, s))
           new == [i \in DOMAIN ps |-> tm(ps[i])]
           res == stdModules(m, osv, v, s, y)
<1>1. res = IF ps = <<>> /\ y = <<>> THEN << tm(m.Packages[1]) >> ELSE new
  BY Zenon DEF stdModules
<1>2. m.Packages \in Seq(AnyPackage)
  BY DEF AnyModule
<1>3. ps \in Seq(AnyPackage) /\ ToSet(ps) \subseteq ToSet(m.Packages)
      /\ \A p \in ToSet(m.Packages) : (s => p.CallStacks # <<>>) => p \in ToSet(ps)
  <2>1. CASE s
    BY <2>1, ExercisedAre
  <2>2. CASE ~s
    BY <1>2, <2>2
  <2> QED BY <2>1, <2>2
<1> HIDE DEF ps
<1>4. ASSUME NEW p \in AnyPackage
      PROVE  tm(p) \in AnyRow(osv, v, s) /\ tm(p).Module = NameOf(m, p)
             /\ RowShows(tm(p), m, p, v, s)
  <2>1. p.Path \in DOMAIN Rank
    BY DEF AnyPackage
  <2>2. blocks(p, v, s) \in Seq(AnyBlock(v, s)) /\ (~s => blocks(p, v, s) = <<>>)
    BY BlocksAre
  <2>3. tm(p) \in AnyRow(osv, v, s)
    BY <2>1, <2>2 DEF AnyRow
  <2>4. /\ tm(p).Module = p.Path /\ tm(p).Found = moduleVersionString(p.Path, m.FoundVersion)
        /\ tm(p).Fixed = moduleVersionString(p.Path, m.FixedVersion)
        /\ tm(p).Stacks = blocks(p, v, s)
    BY RowIs
  <2> HIDE DEF tm
  <2>5. NameOf(m, p) = p.Path
    BY DEF NameOf
  <2> QED BY <2>2, <2>3, <2>4, <2>5 DEF RowShows
<1>5. m.Packages[1] \in AnyPackage /\ m.Packages[1] \in ToSet(m.Packages)
  <2>1. 1 \in DOMAIN m.Packages
    BY <1>2
  <2> QED BY <1>2, <2>1, Elements
<1> HIDE DEF tm
<1>6. DOMAIN ps = 1 .. Len(ps) /\ Len(ps) \in Nat
      /\ \A i \in DOMAIN ps : ps[i] \in AnyPackage /\ ps[i] \in ToSet(ps)
  BY <1>3, Elements
<1>7. new \in Seq(AnyRow(osv, v, s)) /\ ToSet(new) = {tm(p) : p \in ToSet(ps)}
  <2>1. new \in [1 .. Len(ps) -> AnyRow(osv, v, s)]
    BY <1>4, <1>6
  <2>2. ToSet(new) = {tm(p) : p \in ToSet(ps)}
    BY DEF ToSet
  <2> HIDE DEF new
  <2> QED BY <1>6, <2>1, <2>2
<1>8. CASE ps = <<>> /\ y = <<>>
  <2>1. res = << tm(m.Packages[1]) >>
    BY <1>1, <1>8
  <2>2. \A z \in AnyRow(osv, v, s) : <<z>> \in Seq(AnyRow(osv, v, s)) /\ ToSet(<<z>>) = {z}
    BY DEF ToSet
  <2>3. res \in Seq(AnyRow(osv, v, s)) /\ ToSet(res) = {tm(m.Packages[1])}
    BY <1>4, <1>5, <2>1, <2>2
  <2>4. ToSet(ps) = {}
    BY <1>8 DEF ToSet
  <2> QED BY <1>3, <1>4, <1>5, <2>3, <2>4
<1>9. CASE ~(ps = <<>> /\ y = <<>>)
  <2>1. res \in Seq(AnyRow(osv, v, s)) /\ ToSet(res) = {tm(p) : p \in ToSet(ps)}
    BY <1>1, <1>7, <1>9
  <2>2. ToSet(ps) \subseteq AnyPackage
    BY <1>3, Elements
  <2> HIDE DEF res
  <2>3. ASSUME NEW t \in ToSet(res)
        PROVE  \E p \in ToSet(m.Packages) : t.Module = NameOf(m, p)
    BY <1>3, <1>4, <2>1, <2>2
  <2>4. ASSUME NEW p \in ToSet(m.Packages), s => p.CallStacks # <<>>
        PROVE  \E t \in ToSet(res) : RowShows(t, m, p, v, s)
    <3>1. p \in ToSet(ps)
      BY <1>3, <2>4
    <3>2. tm(p) \in ToSet(res)
      BY <2>1, <3>1
    <3> QED BY <1>4, <2>2, <3>1, <3>2
  <2> QED BY <2>1, <2>3, <2>4 DEF res
<1> QED BY <1>8, <1>9

\* One row for another module.
LEMMA RowsAre ==
  ASSUME NEW m \in AnyModule, m.Packages # <<>>, NEW osv, NEW v, NEW s, NEW y
  PROVE  /\ rows(m, osv, v, s, y) \in Seq(AnyRow(osv, v, s))
         /\ \A t \in ToSet(rows(m, osv, v, s, y)) :
              \E p \in ToSet(m.Packages) : t.Module = NameOf(m, p)
         /\ \A p \in ToSet(m.Packages) : (s => p.CallStacks # <<>>) =>
              \E t \in ToSet(rows(m, osv, v, s, y)) : RowShows(t, m, p, v, s)
<1>1. CASE m.Path = Std
  <2>1. rows(m, osv, v, s, y) = stdModules(m, osv, v, s, y)
    BY <1>1 DEF rows
  <2> DEFINE res == stdModules(m, osv, v, s, y)
  <2>2. res \in Seq(AnyRow(osv, v, s))
    BY <1>1, StdRows
  <2>3. \A t \in ToSet(res) : \E p \in ToSet(m.Packages) : t.Module = NameOf(m, p)
    BY <1>1, StdRows
  <2>4. \A p \in ToSet(m.Packages) : (s => p.CallStacks # <<>>) =>
          \E t \in ToSet(res) : RowShows(t, m, p, v, s)
    BY <1>1, StdRows
  <2>5. rows(m, osv, v, s, y) = res
    BY <2>1
  <2> HIDE DEF res
  <2> QED BY <2>2, <2>3, <2>4, <2>5
<1>2. CASE m.Path # Std
  <2> DEFINE st == Concat(Exercised(m), LAMBDA p : blocks(p, v, s))
             t == createTmplModule(m, m.Path, osv, st)
             res == rows(m, osv, v, s, y)
  <2>1. res = <<t>>
    BY <1>2, Zenon DEF rows
  <2>2. st \in Seq(AnyBlock(v, s))
        /\ \A x : x \in ToSet(st) <=>
             \E p \in ToSet(m.Packages) : p.CallStacks # <<>> /\ x \in ToSet(blocks(p, v, s))
    BY BlocksJoined
  <2> HIDE DEF st
  <2>3. m.Path \in DOMAIN Rank /\ m.Packages \in Seq(AnyPackage)
    BY DEF AnyModule
  <2>4. t \in AnyRow(osv, v, s)
    BY <2>2, <2>3 DEF AnyRow
  <2>5. /\ t.Module = m.Path /\ t.Found = moduleVersionString(m.Path, m.FoundVersion)
        /\ t.Fixed = moduleVersionString(m.Path, m.FixedVersion)
        /\ t.Stacks = st
    BY RowIs
  <2> HIDE DEF t
  <2>6. res \in Seq(AnyRow(osv, v, s)) /\ ToSet(res) = {t}
    <3>1. \A z \in AnyRow(osv, v, s) : <<z>> \in Seq(AnyRow(osv, v, s)) /\ ToSet(<<z>>) = {z}
      BY DEF ToSet
    <3> QED BY <2>1, <2>4, <3>1
  <2>7. ASSUME NEW p PROVE NameOf(m, p) = m.Path
    BY <1>2 DEF NameOf
  <2>8. \E p : p \in ToSet(m.Packages)
    BY <2>3, Elements
  <2>9. ToSet(m.Packages) \subseteq AnyPackage
    BY <2>3, Elements
  <2>10. ~s => st = <<>>
    <3> SUFFICES ASSUME ~s PROVE st = <<>>
      OBVIOUS
    <3>1. \A p \in ToSet(m.Packages) : ToSet(blocks(p, v, s)) = {}
      <4>1. \A p \in AnyPackage : blocks(p, v, s) = <<>>
        BY BlocksAre
      <4>2. ToSet(<<>>) = {}
        BY DEF ToSet
      <4> QED BY <2>9, <4>1, <4>2
    <3>2. ToSet(st) = {}
      BY <2>2, <3>1
    <3> QED BY <2>2, <3>2, Elements
  <2>11. ASSUME NEW p \in ToSet(m.Packages), s => p.CallStacks # <<>>
         PROVE  RowShows(t, m, p, v, s)
    <3>1. ToSet(blocks(p, v, s)) \subseteq ToSet(st)
      <4>1. CASE s
        BY <2>2, <2>11, <4>1
      <4>2. CASE ~s
        <5>1. blocks(p, v, s) = <<>>
          BY <2>9, <4>2, BlocksAre
        <5> QED BY <5>1 DEF ToSet
      <4> QED BY <4>1, <4>2
    <3> QED BY <2>2, <2>5, <2>7, <2>10, <3>1 DEF RowShows
  <2> HIDE DEF res
  <2>12. \A x \in ToSet(res) : \E p \in ToSet(m.Packages) : x.Module = NameOf(m, p)
    BY <2>5, <2>6, <2>7, <2>8
  <2>13. \A p \in ToSet(m.Packages) : (s => p.CallStacks # <<>>) =>
           \E x \in ToSet(res) : RowShows(x, m, p, v, s)
    BY <2>6, <2>11
  <2> QED BY <2>6, <2>12, <2>13 DEF res
<1> QED BY <1>1, <1>2

\* The loop of tmplModules: each turn adds the rows of one module.
AddsRows(f, x, v, s) ==
  /\ f[0] = <<>> /\ tmplModules(x, v, s) = f[Len(x.Modules)]
  /\ \A i \in 1 .. Len(x.Modules) :
       f[i] = f[i - 1] \o rows(x.Modules[i], x.OSV, v, s, f[i - 1])

LEMMA LoopOfRows ==
  ASSUME NEW x, x.Modules \in Seq(AnyModule), NEW v, NEW s,
         \A m \in ToSet(x.Modules) : m.Packages # <<>>
  PROVE  \E f \in [0 .. Len(x.Modules) -> Seq(AnyRow(x.OSV, v, s))] : AddsRows(f, x, v, s)
<1> DEFINE n == Len(x.Modules)
           X == Seq(AnyRow(x.OSV, v, s))
           more(i, y) == rows(x.Modules[i], x.OSV, v, s, y)
           E(f) == [i \in 0 .. n |-> IF i = 0 THEN <<>> ELSE f[i - 1] \o more(i, f[i - 1])]
           tms == CHOOSE f : f = E(f)
           step == [i \in 1 .. n |-> [y \in X |-> y \o more(i, y)]]
<1>0. n \in Nat /\ <<>> \in X
  OBVIOUS
<1>1. \A i \in 1 .. n : \A y : more(i, y) \in X
  <2> SUFFICES ASSUME NEW i \in 1 .. n, NEW y PROVE more(i, y) \in X
    OBVIOUS
  <2>1. x.Modules[i] \in AnyModule /\ x.Modules[i] \in ToSet(x.Modules)
    BY Elements
  <2> QED BY <2>1, RowsAre
<1> HIDE DEF n, X, more
<1>2. \A i \in 1 .. n : \A y \in X : y \o more(i, y) \in X
  <2> SUFFICES ASSUME NEW i \in 1 .. n, NEW y \in X PROVE y \o more(i, y) \in X
    OBVIOUS
  <2>1. more(i, y) \in X
    BY <1>1
  <2> DEFINE z == more(i, y)
  <2> HIDE DEF z
  <2>2. z \in X
    BY <2>1 DEF z
  <2>3. y \o z \in X
    BY <2>2 DEF X
  <2> QED BY <2>3 DEF z
<1>3. step \in [1 .. n -> [X -> X]]
  BY <1>2
<1>4. PICK f \in [0 .. n -> X] : IsLoop(f, n, <<>>, step)
  <2> HIDE DEF step
  <2> QED BY <1>0, <1>3, Iterates
<1>5. f = E(f)
  <2>1. ASSUME NEW i \in 1 .. n PROVE f[i] = f[i - 1] \o more(i, f[i - 1])
    <3>1. i - 1 \in 0 .. n
      BY <1>0
    <3>2. f[i - 1] \in X
      BY <3>1
    <3> QED BY <1>4, <3>2 DEF IsLoop
  <2>2. \A i \in 0 .. n : i = 0 \/ i \in 1 .. n
    BY <1>0
  <2> QED BY <1>4, <2>1, <2>2 DEF IsLoop
<1>6. tms = E(tms)
  <2> HIDE DEF E
  <2> QED BY <1>5
<1>7. tmplModules(x, v, s) = tms[n]
  BY Zenon DEF tmplModules, n, more
<1> HIDE DEF tms
<1>8. tms[0] = <<>> /\ DOMAIN tms = 0 .. n
  <2>1. 0 \in 0 .. n
    BY <1>0
  <2> QED BY <1>6, <2>1
<1>9. ASSUME NEW i \in 1 .. n PROVE tms[i] = tms[i - 1] \o more(i, tms[i - 1])
  <2>1. i \in 0 .. n /\ i # 0
    BY <1>0
  <2> QED BY <1>6, <2>1
<1>10. 0 .. n \subseteq {i \in 0 .. n : tms[i] \in X}
  <2> DEFINE S == {i \in 0 .. n : tms[i] \in X}
  <2>1. 0 \in S
    BY <1>0, <1>8
  <2>2. ASSUME NEW i \in 0 .. n - 1, i \in S PROVE i + 1 \in S
    <3>1. i + 1 \in 1 .. n /\ (i + 1) - 1 = i /\ i + 1 \in 0 .. n
      BY <1>0
    <3>2. tms[i + 1] = tms[i] \o more(i + 1, tms[i])
      BY <1>9, <3>1
    <3>3. tms[i] \in X
      BY <2>2
    <3> QED BY <1>2, <3>1, <3>2, <3>3
  <2> HIDE DEF S
  <2>3. 0 .. n \subseteq S
    BY <1>0, <2>1, <2>2, Upwards
  <2> QED BY <2>3 DEF S
<1>11. tms \in [0 .. n -> X]
  <2>1. tms = [i \in 0 .. n |-> tms[i]]
    BY <1>6
  <2> QED BY <1>10, <2>1
<1>12. AddsRows(tms, x, v, s)
  BY <1>7, <1>8, <1>9 DEF AddsRows, n, more
<1> QED BY <1>11, <1>12 DEF n, X

\* What is shown for a vulnerability are the rows of its modules.
LEMMA RowsShown ==
  ASSUME NEW x, x.Modules \in Seq(AnyModule), NEW v, NEW s,
         \A m \in ToSet(x.Modules) : m.Packages # <<>>
  PROVE  /\ \A t \in ToSet(tmplModules(x, v, s)) : \E m \in ToSet(x.Modules) : \E y :
              t \in ToSet(rows(m, x.OSV, v, s, y))
         /\ \A m \in ToSet(x.Modules) : \E y :
              ToSet(rows(m, x.OSV, v, s, y)) \subseteq ToSet(tmplModules(x, v, s))
<1> DEFINE n  == Len(x.Modules)
           T  == AnyRow(x.OSV, v, s)
<1>0. PICK f \in [0 .. n -> Seq(T)] : AddsRows(f, x, v, s)
  BY LoopOfRows
<1>1. /\ f[0] = <<>> /\ tmplModules(x, v, s) = f[n]
      /\ \A i \in 1 .. n : f[i] = f[i - 1] \o rows(x.Modules[i], x.OSV, v, s, f[i - 1])
  BY <1>0 DEF AddsRows
<1> DEFINE ss == [i \in 1 .. n |-> rows(x.Modules[i], x.OSV, v, s, f[i - 1])]
<1>2. n \in Nat /\ DOMAIN x.Modules = 1 .. n
  OBVIOUS
<1>3. \A i \in 1 .. n : x.Modules[i] \in AnyModule /\ x.Modules[i] \in ToSet(x.Modules)
  BY <1>2, Elements
<1>4. ss \in [1 .. n -> Seq(T)]
  BY <1>3, RowsAre
<1>5. /\ ss \in Seq(Seq(T)) /\ Len(ss) = n
      /\ \A i \in 1 .. n : ss[i] = rows(x.Modules[i], x.OSV, v, s, f[i - 1])
  <2>1. \A i \in 1 .. n : ss[i] = rows(x.Modules[i], x.OSV, v, s, f[i - 1])
    OBVIOUS
  <2> HIDE DEF ss, n, T
  <2>2. ss \in Seq(Seq(T)) /\ Len(ss) = n
    BY <1>2, <1>4
  <2> QED BY <2>1, <2>2
<1> HIDE DEF ss, T, n
<1>6. IsConcat(f, ss)
  BY <1>1, <1>5 DEF IsConcat
<1>7. \A t : Has(f[n], t) <=> \E i \in 1 .. n : Has(ss[i], t)
  <2>1. \A k \in 0 .. Len(ss) : \A t : Has(f[k], t) <=> \E i \in 1 .. k : Has(ss[i], t)
    BY <1>1, <1>5, <1>6, FlattenUpTo
  <2>2. n \in 0 .. Len(ss)
    BY <1>2, <1>5
  <2> QED BY <1>5, <2>1, <2>2
<1>8. \A q, t : t \in ToSet(q) <=> Has(q, t)
  BY DEF ToSet, Has
<1>9. ASSUME NEW t \in ToSet(tmplModules(x, v, s))
      PROVE  \E m \in ToSet(x.Modules) : \E y : t \in ToSet(rows(m, x.OSV, v, s, y))
  <2>1. PICK i \in 1 .. n : Has(ss[i], t)
    BY <1>1, <1>7, <1>8
  <2> QED BY <1>3, <1>5, <1>8, <2>1
<1>10. ASSUME NEW m \in ToSet(x.Modules)
       PROVE  \E y : ToSet(rows(m, x.OSV, v, s, y)) \subseteq ToSet(tmplModules(x, v, s))
  <2>1. PICK i \in 1 .. n : x.Modules[i] = m
    BY <1>2 DEF ToSet
  <2>2. ToSet(ss[i]) \subseteq ToSet(tmplModules(x, v, s))
    BY <1>1, <1>7, <1>8
  <2> QED BY <1>5, <2>1, <2>2
<1> QED BY <1>9, <1>10

\* The call stack of a finding is in the blocks of a row for its package.
LEMMA BlocksShow ==
  ASSUME NEW vv, IsAffecting(vv), NEW m, NEW p \in AnyPackage, p.CallStacks # <<>>,
         ToSet(callStacks(vv)) \subseteq ToSet(p.CallStacks),
         NEW t, RowShows(t, m, p, verbose, source)
  PROVE  ShownIn(t.Stacks, vv)
<1> DEFINE c == [Symbol |-> vv.Symbol, Frames |-> vv.stack,
                 Summary |-> summarizeCallStack(vv.stack)]
           a == [stacks |-> p.CallStacks]
           b == [summaries |-> {p.CallStacks[i].Summary : i \in DOMAIN p.CallStacks}]
<1>1. CASE ~source
  BY <1>1 DEF RowShows, ShownIn
<1>2. CASE source
  <2>1. callStacks(vv) = <<c>>
    BY <1>2, Zenon DEF callStacks, IsAffecting
  <2>2. c \in ToSet(p.CallStacks)
    <3> HIDE DEF c
    <3>1. c \in ToSet(<<c>>)
      BY DEF ToSet
    <3> QED BY <2>1, <3>1
  <2>3. /\ verbose => a \in ToSet(blocks(p, verbose, source))
        /\ ~verbose => b \in ToSet(blocks(p, verbose, source))
    BY <1>2, BlocksAre
  <2>4. ToSet(blocks(p, verbose, source)) \subseteq ToSet(t.Stacks)
    BY DEF RowShows
  <2>5. CASE verbose
    <3>1. PICK i \in DOMAIN t.Stacks : t.Stacks[i] = a
      BY <2>3, <2>4, <2>5 DEF ToSet
    <3>2. t.Stacks[i].stacks = p.CallStacks
      BY <3>1
    <3>3. c.Symbol = vv.Symbol /\ c.Frames = vv.stack
      OBVIOUS
    <3> HIDE DEF c
    <3>4. \E k \in DOMAIN t.Stacks : \E cs \in ToSet(t.Stacks[k].stacks) :
            cs.Symbol = vv.Symbol /\ cs.Frames = vv.stack
      BY <2>2, <3>1, <3>2, <3>3
    <3> QED BY <1>2, <2>5, <3>4, Zenon DEF ShownIn
  <2>6. CASE ~verbose
    <3>1. PICK i \in DOMAIN t.Stacks : t.Stacks[i] = b
      BY <2>3, <2>4, <2>6 DEF ToSet
    <3>2. t.Stacks[i].summaries = {p.CallStacks[k].Summary : k \in DOMAIN p.CallStacks}
      BY <3>1
    <3>3. c.Summary = summarizeCallStack(vv.stack)
      OBVIOUS
    <3> HIDE DEF c
    <3>4. summarizeCallStack(vv.stack) \in {p.CallStacks[k].Summary : k \in DOMAIN p.CallStacks}
      BY <2>2, <3>3 DEF ToSet
    <3>5. \E k \in DOMAIN t.Stacks : summarizeCallStack(vv.stack) \in t.Stacks[k].summaries
      BY <3>2, <3>4
    <3> QED BY <1>2, <2>6, <3>5, Zenon DEF ShownIn
  <2> QED BY <2>5, <2>6
<1> QED BY <1>1, <1>2

-----------------------------------------------------------------------------
(* Validation.                                                             *)

\* What stands for one finding in the list that is validated and merged.
LEMMA SingleIs ==
  ASSUME NEW vv
  PROVE  /\ Single(vv).OSV = vv.OSV
         /\ \E m \in ToSet(Single(vv).Modules) :
              m.Path = vv.ModPath /\ m.FixedVersion = fixOf(vv)
<1> DEFINE p == [Path |-> vv.PkgPath, CallStacks |-> callStacks(vv)]
           m == [Path |-> vv.ModPath, FoundVersion |-> Versions[vv.ModPath],
                 FixedVersion |-> latestFixed(vv.OSV.Affected), Packages |-> <<p>>]
<1>1. Single(vv) = [OSV |-> vv.OSV, Modules |-> <<m>>]
  BY Zenon DEF Single
<1>2. m.Path = vv.ModPath /\ m.FixedVersion = fixOf(vv)
  BY DEF fixOf
<1> HIDE DEF m
<1>3. m \in ToSet(<<m>>)
  BY DEF ToSet
<1> QED BY <1>1, <1>2, <1>3

LEMMA MergeValidates ==
  ASSUME ReportInv, Merge
  PROVE  Validated'
<1>1. found \in FoundLists /\ found' = found /\ pc = "create" /\ next > Len(found)
  BY DEF ReportInv, Merge, input
<1>2. next \in 1 .. Len(found) + 1 /\ vulns = Singles(next - 1)
  BY <1>1 DEF ReportInv, Creating
<1>3. /\ Len(found) \in Nat /\ found \in Seq(Findings)
      /\ Singles(Len(found)) \in Seq(Justified) /\ DOMAIN Singles(Len(found)) = 1 .. Len(found)
      /\ \A i \in 1 .. Len(found) : Singles(Len(found))[i] = Single(found[i])
  BY <1>1, SinglesAre
<1>4. next - 1 = Len(found)
  BY <1>1, <1>2, <1>3
<1>5. /\ vulns \in Seq(Justified) /\ DOMAIN vulns = 1 .. Len(found)
      /\ \A i \in 1 .. Len(found) : vulns[i] = Single(found[i])
  BY <1>2, <1>3, <1>4
<1>6. ASSUME NEW u \in Findings, NEW v \in Findings,
             u.OSV.ID = v.OSV.ID, u.ModPath = v.ModPath
      PROVE  fixOf(u) = fixOf(v)
  <2> DEFINE ms == ModulesOf(vulns, u.OSV.ID)
  <2>1. ASSUME NEW w \in Findings
        PROVE  \E i \in DOMAIN vulns : vulns[i] = Single(w)
    <3>1. PICK i \in DOMAIN found : found[i] = w
      BY DEF Findings, ToSet
    <3>2. i \in 1 .. Len(found)
      BY <1>3
    <3> QED BY <1>5, <3>1, <3>2
  <2>2. ASSUME NEW w \in Findings, w.OSV.ID = u.OSV.ID
        PROVE  \E k \in DOMAIN ms : ms[k].Path = w.ModPath /\ ms[k].FixedVersion = fixOf(w)
    <3>1. PICK m \in ToSet(Single(w).Modules) : m.Path = w.ModPath /\ m.FixedVersion = fixOf(w)
      BY SingleIs
    <3>2. Single(w) \in ToSet(vulns) /\ Single(w).OSV.ID = u.OSV.ID
      BY <2>1, <2>2, SingleIs DEF ToSet
    <3>3. m \in ToSet(ms)
      BY <1>5, <3>1, <3>2, ModulesJoined
    <3> QED BY <3>1, <3>3 DEF ToSet
  <2>3. PICK i \in DOMAIN vulns : vulns[i] = Single(u)
    BY <2>1
  <2>4. validateModuleVersions(ms)
    BY <2>3, SingleIs DEF Merge
  <2> HIDE DEF ms
  <2>5. PICK j \in DOMAIN ms : ms[j].Path = u.ModPath /\ ms[j].FixedVersion = fixOf(u)
    BY <2>2
  <2>6. PICK k \in DOMAIN ms : ms[k].Path = v.ModPath /\ ms[k].FixedVersion = fixOf(v)
    BY <1>6, <2>2
  <2> QED BY <1>6, <2>4, <2>5, <2>6 DEF validateModuleVersions
<1>7. Findings' = Findings
  BY <1>1 DEF Findings
<1> QED BY <1>6, <1>7 DEF Validated, fixOf, latestFixed

LEMMA ValidStep ==
  ReportInv /\ Validated /\ [Next]_vars => Validated'
<1> SUFFICES ASSUME ReportInv, Validated, [Next]_vars PROVE Validated'
  OBVIOUS
<1>1. CASE Merge
  BY <1>1, MergeValidates
<1>2. CASE ~Merge
  <2>1. /\ found' = found
        /\ pc' \in {"queue", "read", "done"} => pc \in {"queue", "read", "done"}
    <3>1. CASE UNCHANGED vars \/ Done
      BY <3>1 DEF vars, input, Done
    <3>2. CASE ~(UNCHANGED vars \/ Done)
      BY <1>2, <3>2 DEF Next, SendConfig, SendProgress, Create, Queue, Flush, Decode,
         FlushRead, input
    <3> QED BY <3>1, <3>2
  <2>2. Findings' = Findings
    BY <2>1 DEF Findings
  <2> QED BY <2>1, <2>2 DEF Validated, fixOf, latestFixed
<1> QED BY <1>1, <1>2

LEMMA ValidCorrect == Spec => []Validated
<1>1. Init => Validated
  BY DEF Init, Validated
<1> QED BY <1>1, ReportCorrect, ValidStep, PTL DEF Spec

\* A finding in what was merged: its module, its package, and its versions.
LEMMA FoundAgain ==
  ASSUME ReportInv, Validated, pc = "done", NEW vv \in Findings
  PROVE  \E x \in ToSet(vulns) : \E m, p :
           /\ Carries(x, m, p, vv) /\ p \in AnyPackage
           /\ m.FoundVersion = Versions[vv.ModPath] /\ m.FixedVersion = fixOf(vv)
<1>1. found \in FoundLists /\ vulns = Merged
  BY DEF ReportInv, Ending
<1>2. PICK x \in ToSet(Merged) : \E m, p : Carries(x, m, p, vv)
  BY <1>1, AllMerged
<1>3. PICK m, p : Carries(x, m, p, vv)
  BY <1>2
<1>4. /\ x.OSV.ID = vv.OSV.ID /\ m \in ToSet(x.Modules) /\ m.Path = vv.ModPath
      /\ p \in ToSet(m.Packages)
  BY <1>3 DEF Carries
<1>5. m \in ModuleOf(x.OSV.ID) /\ p \in PackageOf(x.OSV.ID, m.Path)
  BY <1>1, <1>4, MergedParts
<1>6. /\ m.FoundVersion = Versions[vv.ModPath] /\ p \in AnyPackage
      /\ IsFixOf(m.FixedVersion, vv.OSV.ID, vv.ModPath)
  BY <1>4, <1>5 DEF ModuleOf, PackageOf
<1>7. m.FixedVersion = fixOf(vv)
  BY <1>6 DEF IsFixOf, Validated
<1> QED BY <1>1, <1>3, <1>6, <1>7

\* The call stack of an affecting finding, among those of its package.
LEMMA StackIs ==
  ASSUME NEW vv, IsAffecting(vv)
  PROVE  \E cs \in ToSet(callStacks(vv)) :
           cs.Symbol = vv.Symbol /\ cs.Frames = IF source THEN vv.stack ELSE <<>>
<1> DEFINE b == [Symbol |-> vv.Symbol, Frames |-> <<>>, Summary |-> NoSummary]
           c == [Symbol |-> vv.Symbol, Frames |-> vv.stack,
                 Summary |-> summarizeCallStack(vv.stack)]
<1>1. callStacks(vv) = IF source THEN <<c>> ELSE <<b>>
  BY Zenon DEF callStacks, IsAffecting
<1>2. /\ b.Symbol = vv.Symbol /\ b.Frames = <<>>
      /\ c.Symbol = vv.Symbol /\ c.Frames = vv.stack
  OBVIOUS
<1> HIDE DEF b, c
<1>3. b \in ToSet(<<b>>) /\ c \in ToSet(<<c>>)
  BY DEF ToSet
<1> QED BY <1>1, <1>2, <1>3

\* Each finding is in a message of the JSON stream.
LEMMA MessagesCarry ==
  ASSUME ReportInv, Validated, pc = "done", json, NEW vv \in Findings
  PROVE  \E i \in DOMAIN out : out[i].kind = "vulnerability" /\ Carried(out[i].vuln, vv)
<1>0. PICK x \in ToSet(vulns) : \E m, p :
        /\ Carries(x, m, p, vv)
        /\ m.FoundVersion = Versions[vv.ModPath] /\ m.FixedVersion = fixOf(vv)
  BY FoundAgain
<1>1. PICK m, p :
        /\ Carries(x, m, p, vv)
        /\ m.FoundVersion = Versions[vv.ModPath] /\ m.FixedVersion = fixOf(vv)
  BY <1>0
<1>2. Carried(x, vv)
  <2>1. /\ x.OSV.ID = vv.OSV.ID /\ m \in ToSet(x.Modules) /\ m.Path = vv.ModPath
        /\ p \in ToSet(m.Packages) /\ p.Path = vv.PkgPath
        /\ ToSet(callStacks(vv)) \subseteq ToSet(p.CallStacks)
    BY <1>1 DEF Carries
  <2>2. IsAffecting(vv) => \E cs \in ToSet(p.CallStacks) :
          cs.Symbol = vv.Symbol /\ cs.Frames = IF source THEN vv.stack ELSE <<>>
    BY <2>1, StackIs
  <2> QED BY <1>1, <2>1, <2>2 DEF Carried
<1>3. out = Stream(Len(vulns)) /\ vulns \in Seq(Justified)
  BY AllMerged DEF ReportInv, Ending
<1>4. PICK k \in 1 .. Len(vulns) : vulns[k] = x
  BY <1>3 DEF ToSet
<1>5. k + 2 \in DOMAIN out /\ out[k + 2] = Vulnerability(x)
  <2> DEFINE msgs == [i \in 1 .. Len(vulns) |-> Vulnerability(vulns[i])]
  <2>1. Len(vulns) \in Nat
    BY <1>3
  <2>2. out = <<Config, Progress>> \o msgs
    BY <1>3 DEF Stream
  <2>3. \A a, b : Len(<<a, b>>) = 2 /\ <<a, b>> \in Seq({a, b})
    OBVIOUS
  <2>4. msgs[k] = Vulnerability(x) /\ DOMAIN msgs = 1 .. Len(vulns)
    BY <1>4
  <2>5. \E S : msgs \in Seq(S)
    <3>1. \E T : msgs \in [1 .. Len(vulns) -> T]
      <4>1. msgs \in [1 .. Len(vulns) -> {Vulnerability(vulns[i]) : i \in 1 .. Len(vulns)}]
        OBVIOUS
      <4> QED BY <4>1
    <3> HIDE DEF msgs
    <3> QED BY <2>1, <3>1
  <2> HIDE DEF msgs
  <2>6. PICK S : msgs \in Seq(S)
    BY <2>5
  <2>7. /\ <<Config, Progress>> \in Seq(S \cup {Config, Progress})
        /\ msgs \in Seq(S \cup {Config, Progress})
    <3>1. \A T : Seq(S) \subseteq Seq(S \cup T)
      OBVIOUS
    <3>2. \A a, b : <<a, b>> \in Seq(S \cup {a, b})
      OBVIOUS
    <3> QED BY <2>6, <3>1, <3>2
  <2>8. 2 + k \in DOMAIN out /\ out[2 + k] = msgs[k]
    BY <2>2, <2>3, <2>4, <2>7, Concatenated
  <2>9. 2 + k = k + 2
    BY <1>4
  <2> QED BY <2>4, <2>8, <2>9
<1>6. out[k + 2].kind = "vulnerability" /\ out[k + 2].vuln = x
  BY <1>5 DEF Vulnerability
<1> QED BY <1>2, <1>5, <1>6

(***************************************************************************)
(* ReportInv and the validation imply that each finding that affects the   *)
(* user is shown with its versions and its call stack, that each module    *)
(* that is shown has a finding, and that the JSON stream has them all.     *)
(***************************************************************************)
LEMMA AllShown == ReportInv /\ Validated => FindingsShown
<1> SUFFICES ASSUME ReportInv, Validated, pc = "done"
             PROVE  IF json
                    THEN \A vv \in Findings : \E i \in DOMAIN out :
                           out[i].kind = "vulnerability" /\ Carried(out[i].vuln, vv)
                    ELSE /\ \A vv \in Findings : IsAffecting(vv) => ShownInText(vv)
                         /\ \A e \in ToSet(text.affected) : \A m \in ToSet(e.Modules) :
                              \E vv \in Findings : e.ID = vv.OSV.ID /\ m.Module = shownAs(vv)
  BY DEF FindingsShown
<1>a. CASE json
  BY <1>a, MessagesCarry
<1>b. CASE ~json
  <2>1. /\ found \in FoundLists /\ vulns = Merged /\ vulns \in Seq(Justified)
        /\ text = Text(vulns, verbose, source)
    BY <1>b, TheText DEF DoneText
  <2>2. ASSUME NEW x \in ToSet(vulns)
        PROVE  /\ x.Modules \in Seq(AnyModule)
               /\ \A m \in ToSet(x.Modules) : m \in AnyModule /\ m.Packages # <<>>
    <3>1. x.Modules \in Seq(ModuleOf(x.OSV.ID))
          /\ \A m \in ToSet(x.Modules) : m \in ModuleOf(x.OSV.ID) /\ m.Packages # <<>>
      BY <2>1, MergedParts
    <3>2. ModuleOf(x.OSV.ID) \subseteq AnyModule
      BY DEF ModuleOf
    <3>3. Seq(ModuleOf(x.OSV.ID)) \subseteq Seq(AnyModule)
      BY <3>2
    <3> QED BY <3>1, <3>2, <3>3
  <2>3. \A e : e \in ToSet(text.affected) <=> \E x \in ToSet(vulns) :
          Shows(x, source) /\ e = createTmplVulnInfo(x, verbose, source)
    BY <2>1, TextIs
  <2>4. ASSUME NEW vv \in Findings, IsAffecting(vv)
        PROVE  ShownInText(vv)
    <3>1. PICK x \in ToSet(vulns) : \E m, p :
            /\ Carries(x, m, p, vv) /\ p \in AnyPackage
            /\ m.FoundVersion = Versions[vv.ModPath] /\ m.FixedVersion = fixOf(vv)
      BY FoundAgain
    <3>2. PICK m, p :
            /\ Carries(x, m, p, vv) /\ p \in AnyPackage
            /\ m.FoundVersion = Versions[vv.ModPath] /\ m.FixedVersion = fixOf(vv)
      BY <3>1
    <3>3. /\ x \in ToSet(vulns) /\ x.OSV.ID = vv.OSV.ID /\ m \in ToSet(x.Modules)
          /\ m.Path = vv.ModPath /\ p \in ToSet(m.Packages) /\ p.Path = vv.PkgPath
          /\ ToSet(callStacks(vv)) \subseteq ToSet(p.CallStacks)
      BY <2>1, <3>2 DEF Carries
    <3>4. p.CallStacks # <<>>
      <4>1. ToSet(p.CallStacks) # {}
        BY <2>4, <3>3, AffectingIs
      <4> QED BY <4>1 DEF ToSet
    <3> DEFINE e == createTmplVulnInfo(x, verbose, source)
    <3>6. Shows(x, source)
      BY <2>1, <2>4, <3>3, CalledIs DEF Shows
    <3>7. e.ID = vv.OSV.ID /\ e.Modules = tmplModules(x, verbose, source)
      BY <3>3, InfoIs
    <3> HIDE DEF e
    <3>8. e \in ToSet(text.affected)
      BY <2>3, <3>3, <3>6 DEF e
    <3>9. PICK y : ToSet(rows(m, x.OSV, verbose, source, y)) \subseteq ToSet(e.Modules)
      BY <2>2, <3>3, <3>7, RowsShown
    <3>10. PICK t \in ToSet(rows(m, x.OSV, verbose, source, y)) :
             RowShows(t, m, p, verbose, source)
      BY <2>2, <3>3, <3>4, RowsAre
    <3>11. ShownIn(t.Stacks, vv)
      BY <2>4, <3>2, <3>3, <3>4, <3>10, BlocksShow
    <3>12. NameOf(m, p) = shownAs(vv)
      BY <3>3 DEF NameOf, shownAs
    <3>13. /\ t.Module = shownAs(vv) /\ t.Found = <<shownAs(vv), Versions[vv.ModPath]>>
           /\ t.Fixed = moduleVersionString(shownAs(vv), fixOf(vv))
      <4>1. Versions[vv.ModPath] # 0
        BY <2>1, FindingIs
      <4>2. t.Module = NameOf(m, p)
            /\ t.Found = moduleVersionString(NameOf(m, p), m.FoundVersion)
            /\ t.Fixed = moduleVersionString(NameOf(m, p), m.FixedVersion)
        BY <3>10 DEF RowShows
      <4>3. t.Found = <<shownAs(vv), Versions[vv.ModPath]>>
        BY <3>2, <3>12, <4>1, <4>2 DEF moduleVersionString
      <4> QED BY <3>2, <3>12, <4>2, <4>3
    <3>14. t \in ToSet(e.Modules)
      BY <3>9, <3>10
    <3> QED BY <3>7, <3>8, <3>11, <3>13, <3>14 DEF ShownInText
  <2>5. ASSUME NEW e \in ToSet(text.affected), NEW t \in ToSet(e.Modules)
        PROVE  \E vv \in Findings : e.ID = vv.OSV.ID /\ t.Module = shownAs(vv)
    <3>1. PICK x \in ToSet(vulns) : e = createTmplVulnInfo(x, verbose, source)
      BY <2>3
    <3>2. e.ID = x.OSV.ID /\ e.Modules = tmplModules(x, verbose, source)
      BY <3>1, InfoIs
    <3>3. PICK m \in ToSet(x.Modules) : \E y : t \in ToSet(rows(m, x.OSV, verbose, source, y))
      BY <2>2, <3>2, RowsShown
    <3>4. PICK y : t \in ToSet(rows(m, x.OSV, verbose, source, y))
      BY <3>3
    <3>5. PICK p \in ToSet(m.Packages) : t.Module = NameOf(m, p)
      BY <2>2, <3>4, RowsAre
    <3>6. p \in PackageOf(x.OSV.ID, m.Path)
      BY <2>1, MergedParts
    <3>7. PICK vv : Finds(vv, x.OSV.ID, m.Path, p.Path)
      BY <3>6 DEF PackageOf
    <3>8. vv \in Findings /\ vv.OSV.ID = x.OSV.ID /\ NameOf(m, p) = shownAs(vv)
      BY <3>7 DEF Finds, NameOf, shownAs
    <3> QED BY <3>2, <3>5, <3>8
  <2> QED BY <1>b, <2>4, <2>5

<1> QED BY <1>a, <1>b

\* Merging loses no finding and mixes up no two, and what is shown was found.
THEOREM FindingsCorrect == Spec => []FindingsShown
<1> QED BY ReportCorrect, ValidCorrect, AllShown, PTL
=============================================================================
