------------------------------ MODULE MCGovernance ------------------------------
(***************************************************************************)
(* Instances of Governance.                                                *)
(***************************************************************************)
EXTENDS Governance, TLC

\* What happens after a race is not what reviews and the guard promise.
Clean == breach = {}

\* Bound: while a review is run by hand, only reviews have put commits on main.
DesksApart ==
  (\E w \in Desk, n \in Pull : ~At(w, n, "idle")) => \A i \in DOMAIN main : main[i].by # "human"
=============================================================================
