---------------------------- MODULE VersionRange ----------------------------
(***************************************************************************)
(* Whether a version of a module is in the ranges of an entry, and which   *)
(* fix is reported: affectsSemver and containsSemver                       *)
(* (src/internal/vulncheck/semver.go) and latestFixed                      *)
(* (src/internal/scan/util.go).                                            *)
(*                                                                         *)
(* A version is its rank in the order of semver.Compare.  The prefixes v   *)
(* and go do not count, CanonicalizeSemverPrefix strips them; rank 0 is    *)
(* that of all strings that are no semantic version, "(devel)" and the     *)
(* missing field of an event among them.  Zero is no rank: it stands for   *)
(* the text "0" of an introduction, which is before all versions, where    *)
(* the rank of v0.0.0 has those of pseudo-versions below it.               *)
(***************************************************************************)
EXTENDS Naturals, Sequences

CONSTANTS
  Version,    \* ranks of semantic versions
  Zero,       \* the text "0"
  RangeLists  \* the lists of ranges an entry may have for a module

Event == [Introduced : Version \cup {0, Zero}, Fixed : Version \cup {0}]

ASSUME VersionAssumption == Version \subseteq Nat \ {0} /\ Zero \in Nat \ (Version \cup {0})
ASSUME RangesAssumption ==
  \A rs \in RangeLists :
    rs \in Seq([Type : {"SEMVER", "OTHER"}, Events : Seq(Event)])

VARIABLES
  ranges,   \* the list; the events of a range are sorted in place
  given,    \* input: the list as it was
  v,        \* input: the version of the module
  phase,    \* "range", "sort", "walk" or "done"
  r,        \* the current range
  k,        \* the event of it that is looked at next
  affected, \* the variable of containsSemver
  semverRangePresent,
  answer    \* what affectsSemver returned

input == <<given, v>>
vars  == <<ranges, input, phase, r, k, affected, semverRangePresent, answer>>

Init ==
  /\ given \in RangeLists
  /\ v \in Version \cup {0}
  /\ ranges = given
  /\ phase = "range" /\ r = 1 /\ k = 1
  /\ affected = FALSE /\ semverRangePresent = FALSE /\ answer = FALSE

events == ranges[r].Events

Answer(b) ==
  /\ phase' = "done" /\ answer' = b
  /\ UNCHANGED <<ranges, input, r, k, affected>>

-----------------------------------------------------------------------------
(* affectsSemver                                                           *)

\* No range contains the version: all versions are affected if there is no
\* range, or none of the type SEMVER.
NoneContains ==
  /\ phase = "range" /\ r > Len(ranges)
  /\ Answer(~semverRangePresent)
  /\ UNCHANGED semverRangePresent

OtherType ==
  /\ phase = "range" /\ r <= Len(ranges) /\ ranges[r].Type # "SEMVER"
  /\ r' = r + 1
  /\ UNCHANGED <<ranges, input, phase, k, affected, semverRangePresent, answer>>

\* A range without events contains every version.
NoEvents ==
  /\ phase = "range" /\ r <= Len(ranges) /\ ranges[r].Type = "SEMVER"
  /\ events = <<>>
  /\ Answer(TRUE)
  /\ semverRangePresent' = TRUE

-----------------------------------------------------------------------------
(* containsSemver                                                          *)

EnterRange ==
  /\ phase = "range" /\ r <= Len(ranges) /\ ranges[r].Type = "SEMVER"
  /\ events # <<>>
  /\ semverRangePresent' = TRUE
  /\ phase' = "sort" /\ k' = 2 /\ affected' = FALSE
  /\ UNCHANGED <<ranges, input, r, answer>>

\* The version an event is compared by.
at(e) == IF e.Fixed # 0 THEN e.Fixed ELSE e.Introduced

\* The order of the sort, in which "0" is first.
less(e1, e2) ==
  \/ e1.Introduced = Zero
  \/ e2.Introduced # Zero /\ at(e1) < at(e2)

\* s with its element i moved before element j.
MoveBefore(s, i, j) ==
  [n \in DOMAIN s |-> IF n = j THEN s[i]
                      ELSE IF n > j /\ n <= i THEN s[n - 1] ELSE s[n]]

\* Bug: the events are taken as they come.
InsertNot ==
  /\ phase = "sort" /\ k <= Len(events)
  /\ k' = k + 1
  /\ UNCHANGED <<ranges, input, phase, r, affected, semverRangePresent, answer>>

\* sort.SliceStable, which sorts up to 20 events by insertion: event k goes
\* down as long as it is less than the one before it.
Insert ==
  /\ phase = "sort" /\ k <= Len(events)
  /\ \E j \in 1 .. k :
       /\ \A i \in j .. k - 1 : less(events[k], events[i])
       /\ j > 1 => ~less(events[k], events[j - 1])
       /\ ranges' = [ranges EXCEPT ![r].Events = MoveBefore(@, k, j)]
  /\ k' = k + 1
  /\ UNCHANGED <<input, phase, r, affected, semverRangePresent, answer>>

Sorted ==
  /\ phase = "sort" /\ k > Len(events)
  /\ phase' = "walk" /\ k' = 1
  /\ UNCHANGED <<ranges, input, r, affected, semverRangePresent, answer>>

\* A turn of the loop over the events.
Walk ==
  /\ phase = "walk" /\ k <= Len(events)
  /\ LET e == events[k]
     IN  affected' =
           CASE ~affected /\ e.Introduced # 0 ->
                  e.Introduced = Zero \/ v >= e.Introduced
             [] affected /\ e.Fixed # 0 -> v < e.Fixed
             [] OTHER -> affected
  /\ k' = k + 1
  /\ UNCHANGED <<ranges, input, phase, r, semverRangePresent, answer>>

\* Back in affectsSemver.
Contained ==
  /\ phase = "walk" /\ k > Len(events) /\ affected
  /\ Answer(TRUE)
  /\ UNCHANGED semverRangePresent

NotContained ==
  /\ phase = "walk" /\ k > Len(events) /\ ~affected
  /\ phase' = "range" /\ r' = r + 1
  /\ UNCHANGED <<ranges, input, k, affected, semverRangePresent, answer>>

Done == phase = "done" /\ UNCHANGED vars

Next ==
  \/ NoneContains \/ OtherType \/ NoEvents
  \/ EnterRange \/ Insert \/ Sorted \/ Walk \/ Contained \/ NotContained
  \/ Done

Spec == Init /\ [][Next]_vars

-----------------------------------------------------------------------------
(* latestFixed                                                             *)

SemverEvents(rs) ==
  UNION {{rs[i].Events[j] : j \in DOMAIN rs[i].Events} :
           i \in {n \in DOMAIN rs : rs[n].Type = "SEMVER"}}

fixes(rs) == {e.Fixed : e \in SemverEvents(rs)} \ {0}

\* Bug: the comparison is the wrong way round.
latestFixedLess(rs) ==
  IF fixes(rs) = {} THEN 0 ELSE CHOOSE f \in fixes(rs) : \A g \in fixes(rs) : f <= g

\* The latest of the fixes, 0 if there is none.
latestFixed(rs) ==
  IF fixes(rs) = {} THEN 0 ELSE CHOOSE f \in fixes(rs) : \A g \in fixes(rs) : g <= f

-----------------------------------------------------------------------------
(* What the ranges mean, without an order of the events.                   *)

\* Where an event is on the line of versions; "0" is before all of them.
pos(e) == IF e.Introduced = Zero THEN 0 ELSE at(e)

EventSet(rg) == {rg.Events[j] : j \in DOMAIN rg.Events}

\* "exactly one of Introduced or Fixed fields is set" (semver.go:42), and no
\* two events are at the same place.
WellFormed(rg) ==
  /\ \A e \in EventSet(rg) : (e.Introduced = 0) # (e.Fixed = 0)
  /\ \A i, j \in DOMAIN rg.Events : i # j => pos(rg.Events[i]) # pos(rg.Events[j])

\* x is at or after an introduction with no fix between the two.
In(x, rg) ==
  \E e \in EventSet(rg) :
    /\ e.Introduced # 0 /\ pos(e) <= x
    /\ \A f \in EventSet(rg) : f.Fixed # 0 /\ pos(e) < f.Fixed => x < f.Fixed

SemverRanges(rs) == {rs[i] : i \in {n \in DOMAIN rs : rs[n].Type = "SEMVER"}}

AffectedBy(x, rs) ==
  \/ SemverRanges(rs) = {}
  \/ \E rg \in SemverRanges(rs) : rg.Events = <<>> \/ In(x, rg)

AllWellFormed == \A rg \in SemverRanges(given) : WellFormed(rg)

\* Every introduction has a fix after it.
Closed(rg) ==
  rg.Events # <<>> /\ \A e \in EventSet(rg) : e.Introduced # 0 =>
    \E f \in EventSet(rg) : f.Fixed # 0 /\ pos(e) < f.Fixed

(***************************************************************************)
(* A version is found to be affected exactly if it lies in one of the      *)
(* ranges, in whatever order their events are listed: sorting them puts    *)
(* "0" before pseudo-versions, which are below v0.0.0, and loses none.     *)
(***************************************************************************)
AffectsExact ==
  phase = "done" /\ AllWellFormed => (answer <=> AffectedBy(v, given))

(***************************************************************************)
(* The fix that is shown for an affected version helps: it is a later      *)
(* version and is not affected itself, unless some introduction has no fix *)
(* at all.  It is computed after the events were sorted in place.          *)
(***************************************************************************)
FixHelps ==
  phase = "done" /\ AllWellFormed /\ answer
    /\ SemverRanges(given) # {} /\ (\A rg \in SemverRanges(given) : Closed(rg))
  => LET f == latestFixed(ranges)
     IN  f > v /\ ~AffectedBy(f, given)

-----------------------------------------------------------------------------
(* The inductive invariant.                                                *)

TypeOK ==
  /\ given \in RangeLists /\ v \in Version \cup {0}
  /\ ranges \in Seq([Type : {"SEMVER", "OTHER"}, Events : Seq(Event)])
  /\ phase \in {"range", "sort", "walk", "done"}
  /\ r \in Nat \ {0} /\ k \in Nat \ {0}
  /\ affected \in BOOLEAN /\ semverRangePresent \in BOOLEAN /\ answer \in BOOLEAN

\* Sorting loses no event and adds none.
Permuted ==
  /\ DOMAIN ranges = DOMAIN given
  /\ \A i \in DOMAIN given :
       /\ ranges[i].Type = given[i].Type
       /\ EventSet(ranges[i]) = EventSet(given[i])
       /\ WellFormed(given[i]) => WellFormed(ranges[i])

\* The first n events are in the order of their positions.
Ordered(n) == \A i, j \in 1 .. n : i < j => pos(events[i]) < pos(events[j])

\* v is in the range as far as its first n events tell.
InFirst(n) ==
  \E i \in 1 .. n :
    /\ events[i].Introduced # 0 /\ pos(events[i]) <= v
    /\ \A j \in 1 .. n :
         events[j].Fixed # 0 /\ pos(events[i]) < events[j].Fixed => v < events[j].Fixed

\* The current range is sorted up to k, and then looked at up to k.
Looking ==
  phase \in {"sort", "walk"} =>
    /\ r \in DOMAIN ranges /\ ranges[r].Type = "SEMVER" /\ events # <<>>
    /\ k <= Len(events) + 1
    /\ WellFormed(ranges[r]) =>
         IF phase = "sort" THEN k >= 2 /\ Ordered(k - 1) /\ ~affected
         ELSE Ordered(Len(events)) /\ (affected <=> InFirst(k - 1))

\* No range before the current one contains v, and they have been counted.
PassedBy(n) ==
  \A i \in 1 .. n : given[i].Type = "SEMVER" =>
    given[i].Events # <<>> /\ (WellFormed(given[i]) => ~In(v, given[i]))
Counted(n) == semverRangePresent <=> \E i \in 1 .. n : given[i].Type = "SEMVER"
Passed ==
  phase # "done" =>
    /\ r <= Len(given) + 1 /\ PassedBy(r - 1)
    /\ Counted(IF phase = "range" THEN r - 1 ELSE r)

RangeInv == TypeOK /\ Permuted /\ Looking /\ Passed /\ AffectsExact
=============================================================================
