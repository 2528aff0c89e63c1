------------------------------ MODULE MCContext -------------------------------
(*****************************************************************************)
(* An instance of Context.                                                   *)
(*****************************************************************************)
EXTENDS Context, TLC

CONSTANTS m1, m2

Acts == [Shown |-> 4, Captured |-> 2, Gate |-> 5, Clones |-> 1, Reports |-> 3, Queue |-> 4,
         Remote |-> 4, Vectors |-> 3]

\* The transcripts' names have 1 and 2 characters of an id, and the second record of one is refused.
ShortNames == [t \in {1, 2} |-> t]
SecondIsSecret == [t \in {1, 2} |-> IF t = 1 THEN 2 ELSE 0]

\* The contents of facts that the review tells apart.
Plain == [strength |-> 3, confidence |-> 9, text |-> 1, source |-> "extraction", user |-> FALSE,
          principle |-> FALSE, conflict |-> FALSE, superseded |-> FALSE, valid |-> TRUE]
Contents ==
  {Plain, [Plain EXCEPT !.text = 2], [Plain EXCEPT !.strength = 2, !.principle = TRUE],
   [Plain EXCEPT !.user = TRUE, !.source = "promotion"], [Plain EXCEPT !.conflict = TRUE],
   [Plain EXCEPT !.strength = 2, !.superseded = TRUE, !.confidence = 7],
   [Plain EXCEPT !.valid = FALSE]}

OneProvider == <<"groq">>

Alike == Permutations({m1, m2})

\* Bound: once InjectionLog has taken three acts, no two of its hooks overlap.
Calm ==
  which = "Shown" => v13 <= 3 \/ Cardinality({p \in Proc : v6[p] # "idle"}) <= 1
=============================================================================
