--------------------------- MODULE MCGovulncheck ---------------------------
(***************************************************************************)
(* A program of two modules: one can be vulnerable without the other, and  *)
(* a fetch or a write can fail or be cancelled between the two.            *)
(***************************************************************************)
EXTENDS Govulncheck, TLC

CONSTANTS m1, m2

MCModule == {m1, m2}

\* For the runs that check invariants alone.
MCSymmetry == Permutations(MCModule)
=============================================================================
