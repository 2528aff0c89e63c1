----------------------------- MODULE MCDreamRun -----------------------------
(***************************************************************************)
(* Instances of DreamRun: one session log of one or two events, which is   *)
(* enough to have one event published and one not, a gap, and up to two    *)
(* names for proposals, which is enough for a second proposal that starts  *)
(* after the first was merged.                                             *)
(***************************************************************************)
EXTENDS DreamRun, TLC

CONSTANTS s1, g1, b1, b2

\* Nothing tells the names of proposals apart.
BranchSymmetry == Permutations(Branch)
=============================================================================
