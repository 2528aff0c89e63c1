------------------------------- MODULE MCMemory -------------------------------
(*****************************************************************************)
(* An instance of Memory.                                                    *)
(*****************************************************************************)
EXTENDS Memory, TLC

CONSTANTS m1, m2, n1, n2

Acts == [Store |-> 3, Actions |-> 3, Across |-> 7, Projected |-> 3, Backups |-> 5, Versions |-> 4]
Opposed == {{n1, n2}}

Alike == Permutations({m1, m2})

\* Bound: what follows a breach that a part does not promise to withstand is left out.
Unbroken ==
  /\ which = "Store" => Store!Clean
  /\ which = "Actions" => Actions!Withstood
=============================================================================
