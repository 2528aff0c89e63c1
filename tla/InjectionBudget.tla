---------------------------- MODULE InjectionBudget ----------------------------
(***************************************************************************)
(* What goes into one injected block (src/umx/inject.py, budget.py,        *)
(* chronicles.py): the other sections take their tokens first, then facts  *)
(* are packed greedily by score per token, thinned to a number, rendered   *)
(* at a disclosure level each, and demoted or dropped until they fit.      *)
(* Facts are numbered by packing score, the lowest first.                  *)
(***************************************************************************)
EXTENDS Integers, FiniteSets, FiniteSetsExt, SequencesExt

CONSTANTS
  Fact,       \* the candidates, numbers
  MaxTokens,  \* max_tokens of the call
  MaxFacts,   \* inject.max_concurrent_facts
  Slack,      \* tokens that inject.disclosure_slack_pct keeps free
  MaxText,    \* bound: tokens of a fact's text
  Pointer,    \* bound: tokens that a pointer may take
  MaxSection  \* bound: tokens of a section

VARIABLES
  text,     \* text[f]: tokens of the fact's text
  pointer,  \* pointer[f]: tokens of its topic, id and trace
  always,   \* facts that must be there: strong user facts, open tasks, handed-off facts
  stage,
  fixed,    \* tokens of conventions, hot summary, procedures and hints
  extra,    \* tokens of the context layers and of the artifacts, which the facts do not give up
  procs,    \* number of procedures, of a token each
  budget,   \* tokens left for facts
  selected, level,
  packed, dropped \* ghosts: what enforce_budget chose; what did not fit when rendered

inputs == <<text, pointer, always>>
sections == <<fixed, extra, procs, budget>>
vars == <<inputs, stage, sections, selected, level, packed, dropped>>

Level == {"l0", "l1", "l2"}
\* A pointer may be dearer than the fact.
Cost(f, l) ==
  CASE l = "l0" -> pointer[f] [] l = "l1" -> text[f] + 1 [] l = "l2" -> text[f] + 2
Tokens(chosen, at) == MapThenSumSet(LAMBDA f : Cost(f, at[f]), chosen)
Lowest(facts) == CHOOSE f \in facts : \A g \in facts : f <= g
Highest(facts) == CHOOSE f \in facts : \A g \in facts : g <= f
Movable == selected \ always

TypeOK ==
  /\ text \in [Fact -> 1 .. MaxText] /\ pointer \in [Fact -> Pointer]
  /\ always \subseteq Fact
  /\ stage \in {"sections", "pack", "crowd", "levels", "disclose", "fit", "done"}
  /\ {fixed, extra, budget} \subseteq Nat /\ procs \in 0 .. 1
  /\ selected \subseteq Fact /\ packed \subseteq Fact /\ dropped \subseteq Fact
  /\ level \in [Fact -> Level]

Init ==
  /\ text \in [Fact -> 1 .. MaxText] /\ pointer \in [Fact -> Pointer]
  /\ always \in SUBSET Fact
  /\ stage = "sections"
  /\ fixed = 0 /\ extra = 0 /\ procs = 0 /\ budget = 0
  /\ selected = {} /\ level = [f \in Fact |-> "l1"] /\ packed = {} /\ dropped = {}

Room(n) == IF n < 0 THEN 0 ELSE n
Size == 0 .. MaxSection

\* What is used after taking, in turn, each thing that still fits.
Fitting(used, costs, room) ==
  FoldLeft(LAMBDA u, cost : IF u + cost <= room THEN u + cost ELSE u, used, costs)

\* _select_procedures.
Procedures(costs, room) == Fitting(0, costs, room)

\* select_context_layers: the digest whatever it costs, the others if they fit beside it.
Layers(digest, others, room) == Fitting(digest, others, room)

\* _select_reasoning_artifacts.
Artifacts(costs, room) == Fitting(0, costs, room)

\* Conventions and hot summary, procedures, layers, artifacts, hints if they fit.  The facts
\* get what the first two and the hints leave, at least one token.
Sections ==
  /\ stage = "sections"
  /\ \E summary \in Size, matched \in {<<>>, <<1>>}, digest \in Size, other \in Size,
        artifact \in {0, 1}, hints \in {0, 1} :
       LET procedures == Procedures(matched, Room(MaxTokens - summary))
           room == Room(MaxTokens - summary - procedures)
           layers == Layers(digest, <<other>>, room)
           artifacts == Artifacts(<<artifact>>, Room(room - layers))
       IN
         /\ hints <= Room(Room(room - layers) - artifacts)
         /\ fixed' = summary + procedures + hints
         /\ extra' = layers + artifacts /\ procs' = procedures
         /\ budget' = Room(MaxTokens - fixed' - 1) + 1
  /\ stage' = "pack"
  /\ UNCHANGED <<inputs, selected, level, packed, dropped>>

\* estimate_fact_tokens of each: the text alone, not the line that will be rendered.
TextOf(chosen) == MapThenSumSet(LAMBDA f : text[f], chosen)

\* enforce_budget comes to the facts that must be there by strength, which may be against
\* their score, then to the others by their score.
Before(g, f, reversed) ==
  IF f \in always THEN g \in always /\ (IF reversed THEN g < f ELSE g > f)
  ELSE g \in always \/ g > f

\* Taken is each fact that fits beside those taken before it, by the tokens of their texts.
Greedy(chosen, reversed) ==
  \A f \in Fact :
    f \in chosen <=> TextOf({g \in chosen : Before(g, f, reversed)}) + text[f] <= budget

Pack ==
  /\ stage = "pack"
  /\ \E reversed \in BOOLEAN : selected' \in {chosen \in SUBSET Fact : Greedy(chosen, reversed)}
  /\ packed' = selected'
  /\ stage' = "crowd"
  /\ UNCHANGED <<inputs, sections, level, dropped>>

\* Too many facts and procedures: the lowest go, but not those that must be there.
Crowd ==
  /\ stage = "crowd"
  /\ IF procs + Cardinality(selected) > MaxFacts /\ Movable # {}
     THEN selected' = selected \ {Lowest(Movable)} /\ UNCHANGED stage
     ELSE stage' = "levels" /\ UNCHANGED selected
  /\ UNCHANGED <<inputs, sections, level, packed, dropped>>

\* Fragile, conflicting or explicitly expanded facts are shown in detail.
Levels ==
  /\ stage = "levels"
  /\ \E detailed \in SUBSET selected :
       level' = [f \in Fact |-> IF f \in detailed THEN "l2" ELSE "l1"]
  /\ stage' = "disclose"
  /\ UNCHANGED <<inputs, sections, selected, packed, dropped>>

\* _disclosure_levels: pointers instead of facts, lowest first, until some slack is left.
Disclose ==
  /\ stage = "disclose"
  /\ LET total == Tokens(selected, level)
         plain == {f \in Movable : level[f] = "l1"}
     IN IF plain # {} /\ (total > budget \/ budget - total < Slack)
        THEN level' = [level EXCEPT ![Lowest(plain)] = "l0"] /\ UNCHANGED stage
        ELSE stage' = "fit" /\ UNCHANGED level
  /\ UNCHANGED <<inputs, sections, selected, packed, dropped>>

Lower(l) == IF l = "l2" THEN "l1" ELSE "l0"

\* _enforce_rendered_budget: demoted, lowest first, and then dropped, lowest first.
Fit ==
  /\ stage = "fit"
  /\ LET demotable == {f \in Movable : level[f] # "l0"}
     IN \/ /\ Tokens(selected, level) <= budget \/ Movable = {}
           /\ stage' = "done" /\ UNCHANGED <<selected, level, dropped>>
        \/ /\ Tokens(selected, level) > budget /\ demotable # {}
           /\ LET f == Lowest(demotable) IN level' = [level EXCEPT ![f] = Lower(@)]
           /\ UNCHANGED <<selected, dropped, stage>>
        \/ /\ Tokens(selected, level) > budget /\ demotable = {} /\ Movable # {}
           /\ selected' = selected \ {Lowest(Movable)}
           /\ dropped' = dropped \union {Lowest(Movable)}
           /\ UNCHANGED <<level, stage>>
  /\ UNCHANGED <<inputs, sections, packed>>

Next == Sections \/ Pack \/ Crowd \/ Levels \/ Disclose \/ Fit

Spec == Init /\ [][Next]_vars

-----------------------------------------------------------------------------
(* Properties.                                                              *)

\* The rendered facts fit the tokens that the facts have, or only facts that must be there
\* are left; none of those that was packed is lost or reduced to a pointer; and of the facts
\* that were dropped, all pointers, the last would not have fitted beside what stayed
\* (inject.py:545, budget.py:60).  An earlier one, whose pointer is cheaper, might have.
FactsFit ==
  stage = "done" =>
    /\ Tokens(selected, level) <= budget \/ Movable = {}
    /\ packed \intersect always \subseteq selected
    /\ \A f \in selected \intersect always : level[f] # "l0"
    /\ \A f \in dropped : level[f] = "l0"
    /\ dropped # {} => Tokens(selected \union {Highest(dropped)}, level) > budget
=============================================================================
