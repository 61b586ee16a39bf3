----------------------------- MODULE StdVersion -----------------------------
(***************************************************************************)
(* The version of the standard library: Source and Binary turn the Go      *)
(* version of a build into a semantic version (GoTagToSemver,              *)
(* src/internal/semver/semver.go), the ranges are asked about it, and      *)
(* createSourceResult turns versions back into Go tags (semverToGoTag,     *)
(* src/internal/scan/stdlib.go).                                           *)
(*                                                                         *)
(* A tag is a record of the parts that tagRegexp names, a semantic version *)
(* one of the parts that semver.Compare looks at.  Tags are those of Go 1: *)
(* there are none with another major version, and a tag has no field for   *)
(* it.                                                                     *)
(***************************************************************************)
EXTENDS VersionRange

CONSTANTS
  SemverOf,   \* SemverOf[x]: the semantic version with rank x
  Tag,        \* the Go versions of builds
  None        \* no version; the patch version of a tag without one

VARIABLE gover   \* input: the Go version, None if the module is another one

stdVars == <<vars, gover>>

\* A tag: kind "go1" or "go1.0", "tag" for what tagRegexp matches, "other".
GoTag(minor, patch, pre, n) ==
  [kind |-> "tag", minor |-> minor, patch |-> patch, pre |-> pre, n |-> n]
Other(kind) == [GoTag(0, None, "none", 0) EXCEPT !.kind = kind]

Semver(major, minor, patch, pre, n) ==
  [major |-> major, minor |-> minor, patch |-> patch, pre |-> pre, n |-> n]

\* The number of a prerelease is 0 if there is no prerelease.
Semvers ==
  {s \in [major : Nat, minor : Nat, patch : Nat,
           pre : {"beta", "pre", "rc", "none"}, n : Nat] :
     s.pre = "none" => s.n = 0}

\* The names of prereleases in the order of their letters, "none" is no prerelease.
preRank == [p \in {"beta", "pre", "rc", "none"} |->
              CASE p = "beta" -> 1 [] p = "pre" -> 2 [] p = "rc" -> 3 [] OTHER -> 4]

\* semver.Compare(a, b) < 0
Precedes(a, b) ==
  \/ a.major < b.major
  \/ a.major = b.major /\ a.minor < b.minor
  \/ a.major = b.major /\ a.minor = b.minor /\ a.patch < b.patch
  \/ /\ a.major = b.major /\ a.minor = b.minor /\ a.patch = b.patch
     /\ \/ preRank[a.pre] < preRank[b.pre]
        \/ a.pre = b.pre /\ a.n < b.n

ASSUME SemverAssumption ==
  /\ SemverOf \in [Version -> Semvers]
  /\ \A x, y \in Version : x < y <=> Precedes(SemverOf[x], SemverOf[y])

-----------------------------------------------------------------------------
\* Bug: the prerelease is dropped.
GoTagToSemverRelease(tag) ==
  CASE tag.kind = "go1" -> Semver(1, 0, 0, "none", 0)
    [] tag.kind \in {"go1.0", "other"} -> None
    [] OTHER -> Semver(1, tag.minor, IF tag.patch = None THEN 0 ELSE tag.patch, "none", 0)

\* A prerelease of the form "-pre4" has its own hyphen.
GoTagToSemver(tag) ==
  CASE tag.kind = "go1" -> Semver(1, 0, 0, "none", 0)
    [] tag.kind \in {"go1.0", "other"} -> None
    [] OTHER -> Semver(1, tag.minor, IF tag.patch = None THEN 0 ELSE tag.patch,
                       IF tag.pre = "-pre" THEN "pre" ELSE tag.pre, tag.n)

\* The text "pre4" is no prerelease of a tag.  None is the text of what is no
\* semantic version.
semverToGoTag(s) ==
  CASE s = None -> Other("invalid semver")
    [] s.major = 0 /\ s.minor = 0 /\ s.patch = 0 -> Other("master")
    [] s = Semver(1, 0, 0, "none", 0) -> Other("go1")
    [] OTHER -> GoTag(s.minor, IF s.patch = 0 THEN None ELSE s.patch, s.pre, s.n)

\* Tags are of the two forms, and their semantic versions have ranks.
ASSUME TagAssumption ==
  /\ None \notin Nat /\ None \notin Semvers
  /\ \A t \in Tag :
       \/ \E kind \in {"go1", "go1.0", "other"} : t = Other(kind)
       \/ /\ t.minor \in Nat /\ t.patch \in Nat \cup {None}
          /\ t.pre \in {"beta", "rc", "-pre", "none"}
          /\ t.n \in Nat /\ (t.pre = "none" => t.n = 0)
          /\ t = GoTag(t.minor, t.patch, t.pre, t.n)
  /\ \A t \in Tag : GoTagToSemver(t) # None =>
       \E x \in Version : SemverOf[x] = GoTagToSemver(t)

\* The rank of a semantic version.
Rank(s) == IF s = None THEN 0 ELSE CHOOSE x \in Version : SemverOf[x] = s

StdInit ==
  /\ gover \in Tag \cup {None}
  /\ gover # None => v = Rank(GoTagToSemver(gover))
  /\ Init

\* A version that is not available is not asked about: filter leaves the
\* entry out.
Unavailable == gover # None /\ v = 0

Filter ==
  /\ Unavailable /\ phase = "range"
  /\ phase' = "skipped"
  /\ UNCHANGED <<ranges, input, r, k, affected, semverRangePresent, answer, gover>>

Ask == ~Unavailable /\ Next /\ UNCHANGED gover

Skipped == phase = "skipped" /\ UNCHANGED stdVars

StdNext == Filter \/ Ask \/ Skipped

StdSpec == StdInit /\ [][StdNext]_stdVars

-----------------------------------------------------------------------------
\* The tags of Go releases and of their betas and candidates; go1 had none.
Released(t) ==
  \/ t.kind = "go1"
  \/ /\ t.kind = "tag" /\ t.pre \in {"none", "beta", "rc"}
     /\ (t.pre # "none" => t.patch = None) /\ t.patch # 0
     /\ (t.minor = 0 => t.patch # None)

\* The order in which Go releases appear: go1, then by minor version the
\* betas, the candidates, the release and its patches.
stage(t) == CASE t.pre = "beta" -> 1 [] t.pre = "rc" -> 2
              [] t.pre = "none" /\ t.patch = None -> 3 [] OTHER -> 4
number(t) == IF t.patch = None THEN t.n ELSE t.patch
Before(t, u) ==
  \/ t.kind = "go1" /\ u.kind = "tag"
  \/ /\ t.kind = "tag" /\ u.kind = "tag"
     /\ \/ t.minor < u.minor
        \/ t.minor = u.minor /\ stage(t) < stage(u)
        \/ t.minor = u.minor /\ stage(t) = stage(u) /\ number(t) < number(u)

tagOf(x) == semverToGoTag(SemverOf[x])

\* x is before all releases: "0", v0.0.0 or a pseudo-version.
BeforeGo1(x) == x = Zero \/ SemverOf[x].major = 0

\* Tag t appeared at or after an introduction and before the next fix.
ReleasedIn(t, rg) ==
  \E e \in EventSet(rg) :
    /\ e.Introduced # 0
    /\ BeforeGo1(e.Introduced) \/ ~Before(t, tagOf(e.Introduced))
    /\ \A f \in EventSet(rg) : f.Fixed # 0 =>
         IF BeforeGo1(f.Fixed) THEN pos(e) > f.Fixed
         ELSE pos(e) < f.Fixed => Before(t, tagOf(f.Fixed))

\* The events of a range are at releases of Go 1, or before all of them.
BetweenReleases(rg) ==
  /\ rg.Events # <<>>
  /\ \A e \in EventSet(rg) :
       \/ BeforeGo1(at(e))
       \/ SemverOf[at(e)].major = 1 /\ Released(tagOf(at(e)))

(***************************************************************************)
(* A Go release is reported under the tag it was built from, and as        *)
(* affected exactly if it was released between an introduction and its     *)
(* fix, as these are shown in tags: neither of the two conversions mixes   *)
(* up betas, candidates, first releases and patches.                       *)
(***************************************************************************)
ReleasesExact ==
  phase \in {"done", "skipped"} /\ AllWellFormed /\ gover # None /\ Released(gover) =>
    /\ phase = "done" /\ tagOf(v) = gover
    /\ SemverRanges(given) # {} /\ (\A rg \in SemverRanges(given) : BetweenReleases(rg))
       => (answer <=> \E rg \in SemverRanges(given) : ReleasedIn(gover, rg))

-----------------------------------------------------------------------------
\* The inductive invariant: that of VersionRange, or the version is not
\* available and nothing is asked.
StdInv ==
  /\ gover \in Tag \cup {None}
  /\ gover # None => v = Rank(GoTagToSemver(gover))
  /\ v \in Version \cup {0}
  /\ IF phase = "skipped" THEN Unavailable ELSE RangeInv
=============================================================================
