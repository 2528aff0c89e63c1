---------------------------- MODULE ProposalReview ----------------------------
(***************************************************************************)
(* What a proposal says of itself and how its review decides               *)
(* (src/umx/governance.py, dream/pipeline.py review_pr, dream/providers.py *)
(* and dream/l2_review.py): a builder makes a change and labels it; the    *)
(* review derives labels anew from what the branch changes against         *)
(* origin/main, asks the providers it can use one after the other, and     *)
(* falls back to rules.  Extraction of facts from a session asks providers *)
(* in the same way and falls back to the native extractor.                 *)
(***************************************************************************)
EXTENDS Integers, FiniteSets, FiniteSetsExt, Sequences, SequencesExt

CONSTANTS
  Fact,      \* fact identifiers
  Version,   \* the contents a fact can have
  Rotation,  \* dream.provider_rotation
  Registered \* providers with a session extractor; none is built in

VARIABLES
  main,     \* main[f]: the fact on origin/main, or Absent
  pull,     \* the proposal: what made it, its labels and its branch
  packet,   \* what the reviewers are given
  settings, \* configuration and environment of the command
  stage,    \* proposal, changed, asking, settled
  plan,     \* providers still to ask
  failed,   \* providers that could not answer
  result,   \* the decision and who made it
  merit     \* ghost: whether the change is harmless, whether its builder asked for people

change == <<main, pull, packet>>
vars == <<change, settings, stage, plan, failed, result, merit>>

Absent == [strength |-> 0]
Tree == [Fact -> Version \union {Absent}]
Nothing == [f \in Fact |-> Absent]
Facts(tree) == {f \in Fact : tree[f] # Absent}
Contents(tree, chosen) == {tree[f] : f \in chosen}

Provider == {"anthropic", "nvidia", "claude-cli", "groq", "local"}
ApiKeys == {"anthropic", "nvidia", "groq"} \* PROVIDER_API_ENV_VARS
Reviewers == {"anthropic", "nvidia", "claude-cli"}
Action == {"approve", "reject", "escalate"}
None == "none"

Settings == [job : {"review", "extract"}, asked : {None, "claude-cli", "anthropic", "nobody"},
             paid : {None, "anthropic", "groq"}, paidKey : BOOLEAN,
             keys : SUBSET ApiKeys, local : BOOLEAN]
NoSettings == [job |-> "review", asked |-> None, paid |-> None, paidKey |-> FALSE,
               keys |-> {}, local |-> FALSE]
NoLabels == [types |-> {}, confidence |-> None, global |-> FALSE, human |-> FALSE]
NoPull == [labels |-> NoLabels, branch |-> Nothing, tombs |-> FALSE, other |-> FALSE]
NoPacket == [labels |-> NoLabels, strong |-> FALSE, conflict |-> FALSE, invalid |-> FALSE]
NoResult == [action |-> None, by |-> None]

TypeOK ==
  /\ main \in Tree /\ pull.branch \in Tree
  /\ {pull.tombs, pull.other, packet.strong, packet.conflict, packet.invalid} \subseteq BOOLEAN
  /\ settings \in Settings /\ stage \in {"proposal", "changed", "asking", "settled"}
  /\ ToSet(plan) \subseteq Provider /\ failed \subseteq Provider
  /\ result.action \in Action \union {None, "error"}
  /\ result.by \in Provider \union {None, "rules", "native"}
  /\ {merit.safe, merit.people} \subseteq BOOLEAN

Init ==
  /\ main \in Tree /\ pull = NoPull /\ packet = NoPacket /\ settings = NoSettings
  /\ stage = "proposal" /\ plan = <<>> /\ failed = {} /\ result = NoResult
  /\ merit = [safe |-> TRUE, people |-> FALSE]

----------------------------------------------------------------------------
(* Labels. *)

\* Average confidence of the facts, in tenths, rounded down.
Average(tree, chosen) ==
  IF chosen = {} THEN 0
  ELSE MapThenSumSet(LAMBDA f : tree[f].confidence, chosen) \div Cardinality(chosen)

Types(versions) ==
  LET found == {v.source : v \in versions}
               \union (IF \E v \in versions : v.principle THEN {"principle"} ELSE {})
               \union (IF \E v \in versions : v.superseded THEN {"supersession"} ELSE {})
  IN IF found = {} THEN {"extraction"} ELSE found

Confidence(average) ==
  IF average >= 8 THEN "confidence:high" ELSE IF average >= 5 THEN "confidence:medium" ELSE "confidence:low"

Classified(tree, chosen) ==
  [types |-> Types(Contents(tree, chosen)), confidence |-> Confidence(Average(tree, chosen)),
   global |-> \E v \in Contents(tree, chosen) : v.user, human |-> FALSE]

\* What each builder puts on its proposal.  Where types are dropped, deletion takes their
\* place, except on a rollback.
Deletion(labels) == [labels EXCEPT !.types = {"deletion"}]
ForPeople(labels) == [labels EXCEPT !.human = TRUE]

Open(labels, branch, tombs, other) ==
  /\ stage = "proposal" /\ stage' = "changed"
  /\ pull' = [labels |-> labels, branch |-> branch, tombs |-> tombs, other |-> other]
  /\ UNCHANGED <<main, packet, settings, plan, failed, result, merit>>

\* A dream adds facts and rewrites, supersedes or drops others.
Dream ==
  \E branch \in Tree :
    LET new == {f \in Facts(branch) : branch[f] # main[f]} IN
      Open(Classified(branch, new), branch, FALSE, FALSE)

\* A lint report is a file of its own, outside the fact directories.
Lint ==
  Open([types |-> {"lint"}, confidence |-> "confidence:medium", global |-> FALSE, human |-> TRUE],
       main, FALSE, TRUE)

\* Facts that are derived from the sessions and not there, and facts there that are not derived.
Derived == [Fact \ Facts(main) -> Version \union {Absent}]
Corrected(gone, fresh) ==
  [f \in Fact |-> IF f \in gone THEN Absent ELSE IF f \in DOMAIN fresh THEN fresh[f] ELSE main[f]]
Rederive ==
  \E gone \in SUBSET Facts(main), fresh \in Derived :
    LET branch == Corrected(gone, fresh)
        added == Facts(branch) \ Facts(main)
        plain == Classified(branch, added)
        lost == Classified(main, gone)
    IN
      /\ gone \union added # {}
      /\ Open(IF gone = {} THEN plain
              ELSE [types |-> {"deletion"} \union IF added = {} THEN {} ELSE plain.types,
                    confidence |-> IF added = {} THEN lost.confidence ELSE plain.confidence,
                    global |-> plain.global \/ lost.global, human |-> FALSE],
              branch, gone # {}, FALSE)

\* A statement of several projects becomes a fact of the user.
Promote ==
  \E f \in Fact \ Facts(main), v \in {w \in Version : w.user} :
    Open([types |-> {"promotion"}, confidence |-> "confidence:medium", global |-> TRUE, human |-> TRUE],
         [main EXCEPT ![f] = v], FALSE, FALSE)

\* One fact or all facts of a topic.
Forget ==
  \E gone \in SUBSET Facts(main) :
    /\ gone # {}
    /\ Open(ForPeople(Deletion(Classified(main, gone))),
            [f \in Fact |-> IF f \in gone THEN Absent ELSE main[f]], TRUE, FALSE)

\* Facts of an earlier tombstone proposal come back and their tombstones go.
RollBack ==
  \E back \in SUBSET (Fact \ Facts(main)) : \E past \in [back -> Version] :
    LET branch == [f \in Fact |-> IF f \in back THEN past[f] ELSE main[f]] IN
      /\ back # {}
      /\ Open(ForPeople([Classified(branch, back) EXCEPT !.types = {}]), branch, TRUE, FALSE)

----------------------------------------------------------------------------
(* The change, as review_pr sees it. *)

Changed == {f \in Facts(pull.branch) : pull.branch[f] # main[f]}
Gone == Facts(main) \ Facts(pull.branch)
Strong(v) == v.strength >= 3

\* A strong fact gets another text, strength or source.
RewritesStrong(old, new) ==
  Strong(old) /\ \/ old.text # new.text \/ old.strength # new.strength \/ old.source # new.source
RetiresStrong(old, new) == Strong(old) /\ new.superseded /\ ~old.superseded

Destructive ==
  \/ pull.tombs
  \/ Gone # {}
  \/ \E f \in Changed \intersect Facts(main) :
       RewritesStrong(main[f], pull.branch[f]) \/ RetiresStrong(main[f], pull.branch[f])

\* The labels of the review are those of the facts that stay, or else of those that go; the
\* labels on the pull request, human-review among them, play no part.
Packet ==
  LET told == IF Changed # {} THEN Classified(pull.branch, Changed) ELSE Classified(main, Gone) IN
    [labels |-> IF Destructive THEN [told EXCEPT !.types = @ \union {"deletion"}] ELSE told,
     strong |-> \E f \in Gone : Strong(main[f]),
     conflict |-> \E f \in Changed : pull.branch[f].conflict,
     invalid |-> \E f \in Changed : ~pull.branch[f].valid]

\* The rules that decide when no model did.
Escalates(p) ==
  \/ p.labels.global \/ p.labels.types \intersect {"principle", "deletion"} # {}
  \/ p.strong \/ p.conflict
ByRules(p) ==
  IF p.invalid THEN "reject"
  ELSE IF Escalates(p) \/ p.labels.confidence # "confidence:high" THEN "escalate" ELSE "approve"

\* Ghost, by another way than the labels: every fact of main stays, the strong ones as they
\* are, and what is new or rewritten is a valid fact of the project that contradicts nothing
\* and is no principle.
Kept(old, new) ==
  Strong(old) => /\ new.text = old.text /\ new.strength = old.strength
                 /\ new.superseded => old.superseded
Harmless(v) == v.valid /\ ~v.user /\ ~v.principle /\ ~v.conflict
Safe ==
  /\ \A f \in Facts(main) : f \in Facts(pull.branch) /\ Kept(main[f], pull.branch[f])
  /\ \A f \in Facts(pull.branch) : pull.branch[f] = main[f] \/ Harmless(pull.branch[f])

----------------------------------------------------------------------------
(* Whom to ask. *)

\* _provider_key: a paid key serves only the paid provider; the CLI has no key of its own.
HasKey(s, p) ==
  IF p = "local" THEN s.local ELSE (p = s.paid /\ s.paidKey) \/ p \in s.keys
Usable(s, known, p) == HasKey(s, p) \/ p \in known

\* What a list keeps of S, in its order.
Only(list, S) ==
  LET at == {i \in DOMAIN list : list[i] \in S}
      Place(k) == CHOOSE i \in at : Cardinality({j \in at : j <= i}) = k
  IN [k \in 1 .. Cardinality(at) |-> list[Place(k)]]

Plan(s, known) ==
  LET paid == IF s.paid # None /\ Usable(s, known, s.paid) THEN <<s.paid>> ELSE <<>>
      rotated == Only(Rotation, {p \in ToSet(Rotation) : Usable(s, known, p)} \ {s.paid})
  IN paid \o rotated \o IF s.local THEN <<"local">> ELSE <<>>

\* The provider nobody may stand in for: the one the caller names, or the paid one when it
\* can review.
Required(s) == IF s.asked # None THEN s.asked ELSE IF s.paid \in Reviewers THEN s.paid ELSE None
Preferred(s) ==
  IF "nvidia" \in s.keys THEN "nvidia" ELSE IF "anthropic" \in s.keys THEN "anthropic" ELSE None

ReviewPlan(s) ==
  LET others == Plan(s, Reviewers) IN
    IF Required(s) # None
    THEN <<Required(s)>> \o Only(others, ToSet(others) \ {Required(s)})
    ELSE IF Preferred(s) # None /\ Preferred(s) \notin ToSet(others) THEN <<Preferred(s)>> \o others
    ELSE others

Payload(action, by) == [action |-> action, by |-> by]

Settle(action, by) == stage' = "settled" /\ result' = Payload(action, by)

\* The review reads the change, its own settings and the environment.  A report or any other
\* file beside the facts goes to people without being read.
Look ==
  /\ stage = "changed"
  /\ settings' \in {s \in Settings : s.job = "review"}
  /\ IF pull.other
     THEN Settle("escalate", "rules") /\ UNCHANGED <<packet, plan>>
     ELSE IF Changed \union Gone = {}
     THEN /\ IF pull.tombs THEN Settle("escalate", "rules") ELSE Settle(None, None)
          /\ UNCHANGED <<packet, plan>>
     ELSE IF settings'.asked = "nobody" \* a name no reviewer has
     THEN Settle("error", None) /\ UNCHANGED <<packet, plan>>
     ELSE /\ stage' = "asking" /\ packet' = Packet /\ plan' = ReviewPlan(settings')
          /\ UNCHANGED result
  /\ merit' = [safe |-> Safe, people |-> pull.labels.human]
  /\ main' = Nothing /\ pull' = NoPull \* what follows has only the packet
  /\ UNCHANGED failed

\* A dream reads a session.
ReadSession ==
  /\ stage = "proposal"
  /\ \E s \in Settings :
       /\ s.job = "extract" /\ s.asked = None
       /\ settings' = s /\ plan' = Plan(s, Registered)
  /\ stage' = "asking" /\ main' = Nothing
  /\ UNCHANGED <<pull, packet, failed, result, merit>>

\* What keeps a provider from being asked: nobody wrote its adapter, or a key is missing.  A
\* reviewer without an API variable needs no key, an extractor always does.
Known(p) == IF settings.job = "review" THEN p \in Reviewers ELSE p \in Registered
NeedsKey(p) == p # "local" /\ (settings.job = "extract" \/ p \in ApiKeys)
CanAsk(p) == Known(p) /\ (NeedsKey(p) => HasKey(settings, p))
Must_Never(p) == FALSE
Must(p) == settings.job = "review" /\ p = Required(settings)

\* A provider answers.  An answer that does not parse, or notes a fact the review does not
\* have, is a failure.
Answer ==
  /\ stage = "asking" /\ plan # <<>> /\ CanAsk(Head(plan))
  /\ IF settings.job = "extract" THEN Settle("approve", Head(plan))
     ELSE \E action \in Action : Settle(action, Head(plan))
  /\ UNCHANGED <<change, settings, plan, failed, merit>>

\* It cannot be asked, does not answer, or answers nonsense.  The provider that must review
\* ends the command; any other gives way to the next.
NoAnswer ==
  /\ stage = "asking" /\ plan # <<>>
  /\ failed' = failed \union {Head(plan)} /\ plan' = Tail(plan)
  /\ IF Must(Head(plan)) THEN Settle("error", None) ELSE UNCHANGED <<stage, result>>
  /\ UNCHANGED <<change, settings, merit>>

FallBack ==
  /\ stage = "asking" /\ plan = <<>>
  /\ IF settings.job = "extract" THEN Settle("approve", "native") ELSE Settle(ByRules(packet), "rules")
  /\ UNCHANGED <<change, settings, plan, failed, merit>>

Next ==
  \/ Dream \/ Lint \/ Rederive \/ Promote \/ Forget \/ RollBack
  \/ Look \/ ReadSession \/ Answer \/ NoAnswer \/ FallBack
Spec == Init /\ [][Next]_vars

----------------------------------------------------------------------------
\* A change that the rules approve on their own is harmless (generate_l2_review after
\* review_pr's delta).
RulesApproveOnlySafe == result = [action |-> "approve", by |-> "rules"] => merit.safe

\* A proposal whose builder asked for people is never approved by the rules, though the rules
\* do not read its labels (governance.py builders against review_pr's own classification).
PeopleAreAsked == result = [action |-> "approve", by |-> "rules"] => ~merit.people

\* Nobody decides in place of the reviewer the caller or the configuration names, and the
\* rules decide only after everybody in the plan failed (providers.py run_l2_review_with_providers).
NamedReviewerDecides ==
  packet # NoPacket /\ result.by # None =>
    /\ Required(settings) # None => result.by = Required(settings)
    /\ result.by = "rules" => failed = ToSet(ReviewPlan(settings))
=============================================================================
