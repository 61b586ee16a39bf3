----------------------------- MODULE MCDatabase -----------------------------
(***************************************************************************)
(* The two things a scan does with the database: it reads the entries of   *)
(* its modules (VulnDB), and it asks the ranges of one of them about a     *)
(* version (StdVersion).  Neither looks at the state of the other, so a    *)
(* behaviour is one of the two and the other part stays at rest.           *)
(*                                                                         *)
(* Reading: two modules of the program and one that only the database      *)
(* knows; two publications, so that one can fall between, or into, the     *)
(* reads.                                                                  *)
(*                                                                         *)
(* Ranges: ten versions, a pseudo-version and v0.0.0, Go 1.0.0 and its     *)
(* first patch, and of Go 1.9 a beta, a -pre, two candidates, the first    *)
(* release and its first patch.  Up to three events in any order in one    *)
(* range, up to two of four versions in each of two ranges, the first of   *)
(* which may be of another type.  Further Go versions are go1.0, one that  *)
(* is not a tag, the first release written with .0 and a prerelease -pre.  *)
(***************************************************************************)
EXTENDS VulnDB, StdVersion, SequencesExt

CONSTANTS a, b, other

MCModule == {a, b, other}
MCWanted == {a, b}

MCZero == 11   \* no rank
MCSemverOf ==
  << Semver(0, 0, 0, "pre", 1), Semver(0, 0, 0, "none", 0), Semver(1, 0, 0, "none", 0),
     Semver(1, 0, 1, "none", 0), Semver(1, 9, 0, "beta", 1), Semver(1, 9, 0, "pre", 4),
     Semver(1, 9, 0, "rc", 2), Semver(1, 9, 0, "rc", 10), Semver(1, 9, 0, "none", 0),
     Semver(1, 9, 1, "none", 0) >>
MCVersion == DOMAIN MCSemverOf
MCTag ==
  {GoTag(0, 1, "none", 0), GoTag(9, None, "beta", 1), GoTag(9, None, "rc", 2),
   GoTag(9, None, "rc", 10), GoTag(9, None, "none", 0), GoTag(9, 1, "none", 0), GoTag(9, 0, "none", 0),
   GoTag(9, None, "-pre", 4), Other("go1"), Other("go1.0"), Other("other")}

\* Exactly one field of an event is set.
MCEvent == [Introduced : {0}, Fixed : MCVersion]
             \cup [Introduced : MCVersion \cup {MCZero}, Fixed : {0}]
Few == {e \in MCEvent : {e.Introduced, e.Fixed} \subseteq {0, 7, 9, 10, MCZero}}
Lists(n, es) == [Type : {"SEMVER"}, Events : SeqOf(es, n)]
MCRangeLists ==
  {<<>>} \cup {<<x>> : x \in Lists(3, MCEvent)}
    \cup {<<x, y>> : x, y \in Lists(2, Few)}
    \cup {<<[Type |-> "OTHER", Events |-> <<e>>], y>> : e \in Few, y \in Lists(1, Few)}
    \cup {<<[Type |-> "OTHER", Events |-> <<e>>]>> : e \in Few}

VARIABLE part   \* "reading" or "ranges"

\* The versions of other modules are the same: one tag for each is enough.
Ranges ==
  /\ part = "ranges"
  /\ StdInit /\ (gover = None => v \in {0, 1, 2, 6})
Reading ==
  /\ part = "reading"
  /\ StdInit /\ given = <<>> /\ gover = None /\ v = 0

MCInit == DBInit /\ (Ranges \/ Reading)

\* Everything is read and published.
Ended == DBNext \/ UNCHANGED dbVars

MCNext ==
  \/ part = "ranges" /\ StdNext /\ UNCHANGED <<dbVars, part>>
  \/ part = "reading" /\ Ended /\ UNCHANGED <<stdVars, part>>

MCSpec == MCInit /\ [][MCNext]_<<dbVars, stdVars, part>>
=============================================================================
