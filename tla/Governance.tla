------------------------------- MODULE Governance -------------------------------
(***************************************************************************)
(* Governed changes on GitHub: the L2 review of a pull request             *)
(* (review_pr in src/umx/dream/pipeline.py, labels of src/umx/governance.py *)
(* through src/umx/github_ops.py), run by a workflow or by hand, and the   *)
(* main guard, both deployed by src/umx/actions.py.  A review is a series  *)
(* of calls to GitHub; humans label, push, merge and close at any time,    *)
(* and any call may fail.  The guard looks at every push to main, after it *)
(* has happened, and reverts what no approved pull request brought.        *)
(*                                                                         *)
(* GitHub runs one review workflow of a pull request and one guard at a    *)
(* time; a newer event replaces a waiting one, and cancels a running       *)
(* review.  A review run by hand on somebody's machine is outside of that: *)
(* it goes on beside the workflow's, and beside those of other machines.   *)
(***************************************************************************)
EXTENDS Integers, Sequences, FiniteSets

CONSTANTS
  Pull,      \* pull requests
  Desk,      \* machines on which reviews are run by hand
  MaxActs    \* bound: acts of humans and failures in one behaviour

ASSUME ActsAreBounded == MaxActs \in Nat
ASSUME DesksAreNoWorkflow == "workflow" \notin Desk

Reviewer == Desk \union {"workflow"}

VARIABLES
  loud,     \* what a workflow does on GitHub starts workflows, as if a human had done it
  state,    \* state[n]: none, open, merged or closed
  branch,   \* branch[n]: what the commits of its branch contain
  labels,   \* labels[n]
  queued,   \* queued[n]: the head of the event whose review waits, or 0
  review,   \* review[w][n]: the review of n that w runs
  main,     \* the commits of main
  waiting,  \* the push whose guard waits: <<before, after>>, or << >>
  guard,    \* the guard that runs
  acts,
  consent,  \* ghost: pull requests that a human approved and nobody has turned down since
  settled,  \* ghost: pull requests whose last event has been reviewed, labels and all
  cut,      \* ghost: pull requests of which a workflow's review broke off with no event waiting
  vetted,   \* ghost: commits of main that a guard found approved
  breach    \* ghost: the races that happened

github == <<loud, state, branch, labels>>
ghost == <<consent, settled, cut, vetted, breach>>
vars == <<github, queued, review, main, waiting, guard, acts, ghost>>

Lifecycle == {"extraction", "reviewed", "approved"}
Label == Lifecycle \union {"human-review", "deletion"}
\* New facts; facts removed or strong ones rewritten; files that are no facts; the
\* provenance that a review stamps on facts.
Kind == {"new", "destructive", "foreign", "stamp"}
Review == [pc : {"idle", "start", "stamp", "reread", "edit", "gate", "merge", "close",
                 "read", "again", "demote"},
           seen : Nat, mine : Nat, read : SUBSET Label, desired : SUBSET Label, force : BOOLEAN]
NoReview == [pc |-> "idle", seen |-> 0, mine |-> 0, read |-> {}, desired |-> {}, force |-> FALSE]
\* A commit of main: who put it there, what it undoes, and how far back its push went.
Commit == [pr : Pull \union {0}, facts : BOOLEAN, by : {"human", "gate", "override", "guard"},
           seen : Nat, content : Seq(Kind), undo : SUBSET Nat, base : Nat,
           approved : BOOLEAN]

TypeOK ==
  /\ loud \in BOOLEAN
  /\ state \in [Pull -> {"none", "open", "merged", "closed"}]
  /\ branch \in [Pull -> Seq(Kind)]
  /\ labels \in [Pull -> SUBSET Label]
  /\ queued \in [Pull -> Nat]
  /\ review \in [Reviewer -> [Pull -> Review]]
  /\ main \in Seq(Commit)
  /\ waiting = << >> \/ waiting \in Nat \X Nat
  /\ guard.pc \in {"idle", "look", "push"} /\ guard.revert \subseteq 1 .. guard.after
  /\ guard.before <= guard.after /\ guard.after <= Len(main)
  /\ acts \in 0 .. MaxActs
  /\ consent \subseteq Pull /\ settled \subseteq Pull /\ cut \subseteq Pull
  /\ vetted \subseteq DOMAIN main
  /\ breach \subseteq {"raced", "late", "replaced", "outrun", "respun", "failed", "disowned"}
  /\ \A n \in Pull :
       /\ queued[n] <= Len(branch[n])
       /\ \A w \in Reviewer : review[w][n].pc # "idle" => review[w][n].seen \in 1 .. Len(branch[n])

NoGuard == [pc |-> "idle", before |-> 0, after |-> 0, revert |-> {}]

Init ==
  /\ loud \in BOOLEAN
  /\ state = [n \in Pull |-> "none"] /\ branch = [n \in Pull |-> << >>]
  /\ labels = [n \in Pull |-> {}] /\ queued = [n \in Pull |-> 0]
  /\ review = [w \in Reviewer |-> [n \in Pull |-> NoReview]]
  /\ main = << >> /\ waiting = << >> /\ guard = NoGuard
  /\ acts = 0 /\ consent = {} /\ settled = {} /\ cut = {} /\ vetted = {} /\ breach = {}

Act == acts < MaxActs /\ acts' = acts + 1
Blame(bad, kind) == breach' = IF bad THEN breach \union {kind} ELSE breach

\* Mutant: the head that is to come.
Trigger_NextHead(n, head) ==
  /\ queued' = [queued EXCEPT ![n] = head + 1]
  /\ settled' = settled \ {n}

\* An event of the kinds the review workflow listens to.
Trigger(n, head) ==
  /\ queued' = [queued EXCEPT ![n] = head]
  /\ settled' = settled \ {n}

\* What a review does is an event, or is not: always by hand, perhaps by a workflow.
Audible(w) == loud \/ w # "workflow"

Notify(w, n, head) ==
  IF Audible(w) THEN Trigger(n, head) ELSE UNCHANGED <<queued, settled>>

-----------------------------------------------------------------------------
(* Pull requests, and what humans do with them.                             *)

\* create_pr, with the labels of a proposal.
Open(n, kind) ==
  /\ state[n] = "none" /\ kind \in {"new", "destructive"}
  /\ state' = [state EXCEPT ![n] = "open"]
  /\ branch' = [branch EXCEPT ![n] = <<kind>>]
  /\ labels' = [labels EXCEPT ![n] = {"extraction"} \union IF kind = "new" THEN {} ELSE {"deletion"}]
  /\ Trigger(n, 1)
  /\ UNCHANGED <<loud, review, main, waiting, guard, acts, consent, cut, vetted, breach>>

PushBranch(n, kind) ==
  /\ state[n] = "open" /\ kind # "stamp" /\ Act
  /\ branch' = [branch EXCEPT ![n] = Append(@, kind)]
  /\ Trigger(n, Len(branch'[n]))
  /\ UNCHANGED <<loud, state, labels, review, main, waiting, guard, consent, cut, vetted, breach>>

Approve(n) ==
  /\ state[n] \in {"open", "merged"} /\ "approved" \notin labels[n] /\ Act
  /\ labels' = [labels EXCEPT ![n] = @ \union {"approved"}]
  /\ consent' = consent \union {n}
  /\ Trigger(n, Len(branch[n]))
  /\ UNCHANGED <<loud, state, branch, review, main, waiting, guard, cut, vetted, breach>>

\* Commits of main that no guard has looked at yet.
Unseen(n) == \E i \in DOMAIN main : main[i].pr = n /\ main[i].approved /\ i \notin vetted

\* Reviews that are about to set labels from what they read, and to merge.
Writing(n) == {w \in Reviewer : review[w][n].pc \in {"edit", "demote"}}
Merging(n) == {w \in Reviewer : review[w][n].pc = "merge"}

\* The races of labels that change: with reviews that write, with reviews that have seen the
\* approval and merge, with the guard that has not seen it yet.
Disturb(n, writing) ==
  LET withdrawn == "approved" \in labels[n] \ labels'[n] IN
  breach' = breach \union (IF labels'[n] # labels[n] /\ writing # {} THEN {"raced"} ELSE {})
                   \union (IF withdrawn /\ Merging(n) # {} THEN {"late"} ELSE {})
                   \union (IF withdrawn /\ Unseen(n) THEN {"disowned"} ELSE {})

\* A label is taken away, which triggers no review.
Unlabel(n, l) ==
  /\ state[n] \in {"open", "merged"} /\ l \in labels[n] \intersect {"approved", "human-review"} /\ Act
  /\ labels' = [labels EXCEPT ![n] = @ \ {l}]
  /\ consent' = IF l = "approved" THEN consent \ {n} ELSE consent
  /\ settled' = settled \ {n}
  /\ Disturb(n, Writing(n))
  /\ UNCHANGED <<loud, state, branch, queued, review, main, waiting, guard, cut, vetted>>

Close(n) ==
  /\ state[n] = "open" /\ Act
  /\ state' = [state EXCEPT ![n] = "closed"]
  /\ UNCHANGED <<loud, branch, labels, queued, review, main, waiting, guard, ghost>>

\* A push to main.  The guard of an earlier push that has not begun is dropped.
PushMain(commits, starts) ==
  /\ main' = main \o commits
  /\ IF starts
     THEN waiting' = <<Len(main), Len(main) + Len(commits)>> /\ Blame(waiting # << >>, "replaced")
     ELSE UNCHANGED <<waiting, breach>>

Squash(n, by, seen) ==
  [pr |-> n, facts |-> TRUE, by |-> by, seen |-> seen, content |-> branch[n],
   undo |-> {}, base |-> 0, approved |-> "approved" \in labels[n]]

\* A human merges on GitHub.  In both governed modes nothing stops them.
MergeByHand(n) ==
  /\ state[n] = "open" /\ Act
  /\ state' = [state EXCEPT ![n] = "merged"]
  /\ PushMain(<<Squash(n, "human", 0)>>, TRUE)
  /\ UNCHANGED <<loud, branch, labels, queued, review, guard, consent, settled, cut, vetted>>

\* umx sync, a hook or a human pushes commits, with facts or without.
PushDirectly(facts) ==
  /\ Act
  /\ PushMain([i \in DOMAIN facts |->
       [pr |-> 0, facts |-> facts[i], by |-> "human", seen |-> 0, content |-> << >>,
        undo |-> {}, base |-> 0, approved |-> FALSE]], TRUE)
  /\ UNCHANGED <<github, queued, review, guard, consent, settled, cut, vetted>>

-----------------------------------------------------------------------------
(* The review.                                                              *)

At(w, n, pc) == review[w][n].pc = pc
Set(w, n, r) == review' = [review EXCEPT ![w][n] = r]
Goto(w, n, pc) == Set(w, n, [review[w][n] EXCEPT !.pc = pc])
EndReview(w, n) == Set(w, n, NoReview)
Settle(w, n) == settled' = IF w = "workflow" /\ queued[n] = 0 THEN settled \union {n} ELSE settled

\* The workflow starts, on the head of its event.
StartReview(n) ==
  /\ At("workflow", n, "idle") /\ queued[n] # 0
  /\ Set("workflow", n, [NoReview EXCEPT !.pc = "start", !.seen = queued[n], !.mine = queued[n]])
  /\ queued' = [queued EXCEPT ![n] = 0]
  /\ UNCHANGED <<github, main, waiting, guard, acts, ghost>>

\* umx dream --tier l2, with --force perhaps: the head as it is now.
ReviewByHand(w, n, force) ==
  /\ At(w, n, "idle") /\ state[n] = "open" /\ Act
  /\ Set(w, n, [NoReview EXCEPT !.pc = "start", !.seen = Len(branch[n]), !.mine = Len(branch[n]),
                               !.force = force])
  /\ UNCHANGED <<github, queued, main, waiting, guard, ghost>>

BreaksOff(w, n) ==
  IF w # "workflow" THEN Act /\ UNCHANGED cut
  ELSE IF queued[n] # 0 THEN UNCHANGED <<acts, cut>>
  ELSE Act /\ cut' = cut \union {n}

\* Mutant: the waiting event is cancelled too.
CancelReview_All(w, n) ==
  /\ ~At(w, n, "idle")
  /\ queued' = [queued EXCEPT ![n] = 0]
  /\ BreaksOff(w, n)
  /\ EndReview(w, n)
  /\ UNCHANGED <<github, main, waiting, guard, consent, settled, vetted, breach>>

\* The workflow's is cancelled by the next event; each may fail between any two steps.
CancelReview(w, n) ==
  /\ ~At(w, n, "idle")
  /\ BreaksOff(w, n)
  /\ EndReview(w, n)
  /\ UNCHANGED <<github, queued, main, waiting, guard, consent, settled, vetted, breach>>

\* _review_label_transition.
Transition(current, managed, human, preserve) ==
  LET life == IF preserve /\ "approved" \in current THEN "approved" ELSE "reviewed"
      kept == (managed \ Lifecycle) \ {"human-review"}
  IN  kept \union {life} \union IF human /\ life # "approved" THEN {"human-review"} ELSE {}

Has(w, n, kind) == \E i \in 1 .. review[w][n].seen : branch[n][i] = kind
Managed(w, n) == IF Has(w, n, "destructive") THEN {"deletion"} ELSE {}

Action == {"approve", "reject", "escalate"}

\* parse_l2_review_response: a model may answer anything of the right form.
ByModel(w, n) == Action

\* generate_l2_review: broken conventions, then what is destructive or of global impact.
ByRules(w, n) == IF Has(w, n, "destructive") THEN {"reject", "escalate"} ELSE Action

\* The diff against main is read and judged, by a model or by rules; files that hold no
\* facts are for humans.
Decide(w, n, action) ==
  /\ At(w, n, "start")
  /\ IF Has(w, n, "foreign") THEN action = "escalate"
     ELSE action \in ByModel(w, n) \union ByRules(w, n)
  /\ CASE action = "approve" -> Goto(w, n, IF Has(w, n, "new") THEN "stamp" ELSE "reread")
       [] action = "reject" -> Goto(w, n, "close")
       [] action = "escalate" -> Goto(w, n, "read")
  /\ UNCHANGED <<github, queued, main, waiting, guard, acts, ghost>>

\* New facts that no review has stamped.
Unstamped(w, n) ==
  \E i \in 1 .. review[w][n].seen :
    branch[n][i] = "new" /\ \A j \in i .. review[w][n].seen : branch[n][j] # "stamp"

\* _stamp_review_provenance, and the push, which needs the branch as it was.
Stamp(w, n) ==
  /\ At(w, n, "stamp")
  /\ IF state[n] # "open" \/ Len(branch[n]) # review[w][n].seen
     THEN /\ EndReview(w, n)
          /\ cut' = IF w = "workflow" /\ queued[n] = 0 THEN cut \union {n} ELSE cut
          /\ UNCHANGED <<branch, queued, settled>>
     ELSE /\ UNCHANGED cut
          /\ IF Unstamped(w, n)
             THEN /\ branch' = [branch EXCEPT ![n] = Append(@, "stamp")]
                  /\ Set(w, n, [review[w][n] EXCEPT !.pc = "reread", !.mine = @ + 1])
                  /\ Notify(w, n, Len(branch'[n]))
             ELSE Goto(w, n, "reread") /\ UNCHANGED <<branch, queued, settled>>
  /\ UNCHANGED <<loud, state, labels, main, waiting, guard, acts, consent, vetted, breach>>

\* Labels are read, and set from what was read.
Reread(w, n) ==
  /\ At(w, n, "reread")
  /\ Set(w, n, [review[w][n] EXCEPT !.pc = "edit", !.read = labels[n],
               !.desired = Transition(labels[n], Managed(w, n), FALSE, TRUE)])
  /\ UNCHANGED <<github, queued, main, waiting, guard, acts, ghost>>

\* Mutant: what should go is left on.
Reconcile_OnlyAdds(w, n) == labels[n] \union (review[w][n].desired \ review[w][n].read)

\* reconcile_governance_label_set and gh pr edit.
Reconcile(w, n) ==
  (labels[n] \union (review[w][n].desired \ review[w][n].read)) \ (review[w][n].read \ review[w][n].desired)

\* The last label of a series that is added starts a review of the head as it is then.
Labelled(w, n) ==
  IF labels'[n] \subseteq labels[n] THEN UNCHANGED queued /\ Settle(w, n)
  ELSE IF Audible(w) THEN Trigger(n, Len(branch[n]))
  ELSE UNCHANGED queued /\ Settle(w, n)

Edit(w, n) ==
  /\ At(w, n, "edit")
  /\ labels' = [labels EXCEPT ![n] = Reconcile(w, n)]
  /\ Labelled(w, n)
  /\ Disturb(n, Writing(n) \ {w})
  /\ Set(w, n, [review[w][n] EXCEPT !.pc = "gate", !.read = {}, !.desired = {}])
  /\ UNCHANGED <<loud, state, branch, main, waiting, guard, acts, consent, cut, vetted>>

\* Mutant: that a review took place is taken for an approval.
Gate_ReviewedWillDo(w, n) ==
  /\ At(w, n, "gate")
  /\ IF "reviewed" \in labels[n] \/ review[w][n].force THEN Goto(w, n, "merge") ELSE EndReview(w, n)
  /\ UNCHANGED <<github, queued, main, waiting, guard, acts, ghost>>

\* Labels are read again: approved, or merged by force, or left open.
Gate(w, n) ==
  /\ At(w, n, "gate")
  /\ IF "approved" \in labels[n] THEN Set(w, n, [review[w][n] EXCEPT !.pc = "merge", !.force = FALSE])
     ELSE IF review[w][n].force THEN Goto(w, n, "merge") ELSE EndReview(w, n)
  /\ UNCHANGED <<github, queued, main, waiting, guard, acts, ghost>>

\* Mutant: the head is not compared.
Merge_AnyHead(w, n) ==
  /\ At(w, n, "merge")
  /\ IF state[n] = "open"
     THEN /\ state' = [state EXCEPT ![n] = "merged"]
          /\ PushMain(<<Squash(n, IF review[w][n].force THEN "override" ELSE "gate",
                              review[w][n].seen)>>, Audible(w))
     ELSE UNCHANGED <<state, main, waiting, breach>>
  /\ EndReview(w, n)
  /\ UNCHANGED <<loud, branch, labels, queued, guard, acts, consent, settled, cut, vetted>>

\* gh pr merge --match-head-commit.
Merge(w, n) ==
  /\ At(w, n, "merge")
  /\ IF state[n] = "open" /\ Len(branch[n]) = review[w][n].mine
     THEN /\ state' = [state EXCEPT ![n] = "merged"]
          /\ PushMain(<<Squash(n, IF review[w][n].force THEN "override" ELSE "gate",
                              review[w][n].seen)>>, Audible(w))
     ELSE UNCHANGED <<state, main, waiting, breach>>
  /\ EndReview(w, n)
  /\ UNCHANGED <<loud, branch, labels, queued, guard, acts, consent, settled, cut, vetted>>

Reject(w, n) ==
  /\ At(w, n, "close")
  /\ state' = [state EXCEPT ![n] = IF @ = "open" THEN "closed" ELSE @]
  /\ EndReview(w, n)
  /\ UNCHANGED <<loud, branch, labels, queued, main, waiting, guard, acts, ghost>>

\* Escalation: labels are read for what they should be, and again for the changes.
ReadLabels(w, n) ==
  /\ At(w, n, "read")
  /\ Set(w, n, [review[w][n] EXCEPT !.pc = "again",
               !.desired = Transition(labels[n], IF Has(w, n, "foreign") THEN labels[n]
                                                 ELSE Managed(w, n), TRUE, FALSE)])
  /\ UNCHANGED <<github, queued, main, waiting, guard, acts, ghost>>

ReadAgain(w, n) ==
  /\ At(w, n, "again")
  /\ Set(w, n, [review[w][n] EXCEPT !.pc = "demote", !.read = labels[n]])
  /\ UNCHANGED <<github, queued, main, waiting, guard, acts, ghost>>

Demote(w, n) ==
  /\ At(w, n, "demote")
  /\ labels' = [labels EXCEPT ![n] = Reconcile(w, n)]
  /\ consent' = IF "approved" \in labels'[n] THEN consent ELSE consent \ {n}
  /\ Labelled(w, n)
  /\ Disturb(n, Writing(n) \ {w})
  /\ EndReview(w, n)
  /\ UNCHANGED <<loud, state, branch, main, waiting, guard, acts, cut, vetted>>

-----------------------------------------------------------------------------
(* The main guard.                                                          *)

StartGuard ==
  /\ guard.pc = "idle" /\ waiting # << >>
  /\ guard' = [NoGuard EXCEPT !.pc = "look", !.before = waiting[1], !.after = waiting[2]]
  /\ waiting' = << >>
  /\ UNCHANGED <<github, queued, review, main, acts, ghost>>

\* The push is the guard's own revert and restores the tree it names.
OwnRevert ==
  LET c == main[guard.after] IN
  c.by = "guard" /\ guard.before = guard.after - 1 /\ c.undo = c.base + 1 .. guard.before

Authorized(c) == c.pr # 0 /\ state[c.pr] = "merged" /\ "approved" \in labels[c.pr]
Pushed == {i \in guard.before + 1 .. guard.after : main[i].facts}

\* Mutant: only the last commit of a push is looked at.
GuardLooks_AtHead ==
  /\ guard.pc = "look"
  /\ LET bad == {i \in Pushed : i = guard.after /\ ~Authorized(main[i])} IN
     IF bad = {} THEN guard' = NoGuard ELSE guard' = [guard EXCEPT !.pc = "push", !.revert = bad]
  /\ vetted' = vetted \union {i \in Pushed : Authorized(main[i])}
  /\ UNCHANGED <<github, queued, review, main, waiting, acts, consent, settled, cut, breach>>

\* Every commit of the push that changes facts needs a merged pull request that is
\* approved now.
GuardLooks ==
  /\ guard.pc = "look"
  /\ LET bad == {i \in Pushed : ~Authorized(main[i])} IN
     IF OwnRevert \/ bad = {} THEN guard' = NoGuard
     ELSE guard' = [guard EXCEPT !.pc = "push", !.revert = bad]
  /\ vetted' = vetted \union {i \in Pushed : Authorized(main[i])}
  /\ UNCHANGED <<github, queued, review, main, waiting, acts, consent, settled, cut, breach>>

\* The reverts are committed together and pushed, unless main has moved.  The record of
\* it in the processing log stays in the checkout: git commit has no -a.
GuardPushes ==
  /\ guard.pc = "push"
  /\ IF Len(main) = guard.after
     THEN /\ main' = Append(main, [pr |-> 0, facts |-> TRUE, by |-> "guard", seen |-> 0, content |-> << >>,
                                   undo |-> guard.revert, base |-> guard.before,
                                   approved |-> FALSE])
          /\ waiting' = IF loud THEN <<guard.after, guard.after + 1>> ELSE waiting
          /\ Blame(\E i \in guard.revert : main[i].by = "guard", "respun")
     ELSE /\ Blame(TRUE, "outrun")
          /\ UNCHANGED <<main, waiting>>
  /\ guard' = NoGuard
  /\ UNCHANGED <<github, queued, review, acts, consent, settled, cut, vetted>>

\* GitHub does not answer, or git revert conflicts.
GuardFails ==
  /\ guard.pc # "idle" /\ Act
  /\ guard' = NoGuard
  /\ Blame(TRUE, "failed")
  /\ UNCHANGED <<github, queued, review, main, waiting, consent, settled, cut, vetted>>

-----------------------------------------------------------------------------
\* Bound: with a governed file, and with another commit after it.
Pushes == {<<TRUE>>, <<TRUE, FALSE>>}

Human(n) ==
  \/ \E kind \in Kind : Open(n, kind) \/ PushBranch(n, kind)
  \/ Approve(n) \/ (\E l \in Label : Unlabel(n, l))
  \/ Close(n) \/ MergeByHand(n)
  \/ \E w \in Desk, force \in BOOLEAN : ReviewByHand(w, n, force)

\* The steps of a review that is not cancelled.
Reviewing(w, n) ==
  \/ w = "workflow" /\ StartReview(n)
  \/ \E action \in Action : Decide(w, n, action)
  \/ Stamp(w, n) \/ Reread(w, n) \/ Edit(w, n) \/ Gate(w, n) \/ Merge(w, n)
  \/ Reject(w, n) \/ ReadLabels(w, n) \/ ReadAgain(w, n) \/ Demote(w, n)

Guarding == StartGuard \/ GuardLooks \/ GuardPushes

Next ==
  \/ \E n \in Pull : Human(n) \/ \E w \in Reviewer : Reviewing(w, n) \/ CancelReview(w, n)
  \/ \E facts \in Pushes : PushDirectly(facts)
  \/ Guarding \/ GuardFails

\* GitHub runs what it has queued.  Nothing is assumed of a review run by hand.
Fairness == WF_vars(Guarding) /\ \A n \in Pull : WF_vars(Reviewing("workflow", n))
Spec == Init /\ [][Next]_vars /\ Fairness

-----------------------------------------------------------------------------
(* Properties.                                                              *)

\* What a review merges is what it judged, and its own stamp, whatever is pushed to the
\* branch meanwhile (pipeline.py:1329, 1434).
MergedAsReviewed ==
  \A i \in DOMAIN main : main[i].by \in {"gate", "override"} =>
    \/ Len(main[i].content) = main[i].seen
    \/ Len(main[i].content) = main[i].seen + 1 /\ main[i].content[Len(main[i].content)] = "stamp"

\* Only a human's approval, not withdrawn and not turned down by a later escalation, lets
\* a review merge without an override (governance.py:217, pipeline.py:1381): short of one
\* withdrawn, by a human or by another review's escalation, after the gate has seen it.
ApprovalIsHuman ==
  [][\A n \in Pull : /\ Len(main') > Len(main) /\ main'[Len(main')].pr = n
                     /\ main'[Len(main')].by = "gate" /\ breach' = {}
                     => n \in consent]_vars

Agree(n) ==
  /\ Cardinality(labels[n] \intersect Lifecycle) = 1
  /\ ~({"approved", "human-review"} \subseteq labels[n])

\* A workflow's review that was not overtaken leaves one lifecycle label and no approval next
\* to a request for one, which governance-health calls drift (governance_health.py:111), and
\* so it stays whatever reviews are run by hand beside it.
LabelsAgree == breach = {} => \A n \in settled : state[n] = "open" => Agree(n)

\* A commit is in effect until a revert in effect undoes it.
InEffect ==
  LET eff[i \in 1 .. Len(main)] == ~\E j \in i + 1 .. Len(main) : i \in main[j].undo /\ eff[j]
  IN  {i \in 1 .. Len(main) : eff[i]}

\* The invariant behind MainIsGoverned, short of races.  A commit is undone by a later
\* one; only guards undo, and never a guard's commit nor one merged with an approval.
Undone(i) == \E j \in i + 1 .. Len(main) : i \in main[j].undo

GuardsUndo ==
  /\ \A j \in DOMAIN main : main[j].by # "guard" => main[j].undo = {}
  /\ \A j \in DOMAIN main : \A i \in main[j].undo :
       i \in 1 .. j - 1 /\ main[i].by # "guard" /\ ~(main[i].pr # 0 /\ main[i].approved)
  /\ guard.pc = "push" =>
       \A i \in guard.revert : ~(main[i].pr # 0 /\ main[i].approved)

\* Facts on main that no guard found approved are undone, or a guard is about to see or
\* to undo them, or a quiet review merged them.
Ahead(i) ==
  \/ waiting # << >> /\ i \in waiting[1] + 1 .. waiting[2]
  \/ guard.pc = "look" /\ i \in guard.before + 1 .. guard.after
  \/ guard.pc = "push" /\ i \in guard.revert

EachIsLookedAt ==
  \A i \in DOMAIN main : main[i].facts /\ main[i].by # "guard" =>
    i \in vetted \/ Undone(i) \/ Ahead(i) \/ (~loud /\ main[i].by = "gate")

\* Guards look at pushes in their order, and at each once.
InOrder ==
  /\ guard.pc = "look" => vetted \subseteq 1 .. guard.before
  /\ waiting # << >> => /\ vetted \subseteq 1 .. waiting[1]
                        /\ guard.pc # "idle" => guard.after <= waiting[1]

\* The approval a pull request was merged with is there when the guard comes to look.
ApprovalsLast ==
  \A i \in DOMAIN main : main[i].pr # 0 =>
    /\ state[main[i].pr] = "merged"
    /\ main[i].approved /\ i \notin vetted => "approved" \in labels[main[i].pr]

\* A review keeps the approval it read, and only one by hand overrides.
ReviewsKeepApproval ==
  \A w \in Reviewer, n \in Pull :
    /\ review[w][n].pc = "edit" /\ "approved" \in review[w][n].read => "approved" \in review[w][n].desired
    /\ review[w][n].force => w # "workflow"

GuardInv ==
  /\ InOrder /\ ReviewsKeepApproval
  /\ breach = {} => GuardsUndo /\ EachIsLookedAt /\ ApprovalsLast

\* When the guard has nothing to do, facts on main came by an approved pull request.
GuardKeepsMain ==
  breach = {} /\ guard.pc = "idle" /\ waiting = << >> =>
    \A i \in InEffect : main[i].facts /\ main[i].by # "guard" =>
      i \in vetted \/ (~loud /\ main[i].by = "gate")

\* What was merged with an approval stays on main (docs/governance-tutorial.md:58).
ApprovedMergesStay ==
  breach = {} => \A i \in DOMAIN main : main[i].pr # 0 /\ main[i].approved => i \in InEffect

\* Both: short of the races that breach names, main is what pull requests with an approval
\* made it (README.md:425).
MainIsGoverned == GuardKeepsMain /\ ApprovedMergesStay

\* The last event of a pull request that stays open is reviewed to the end, labels
\* included, unless that review itself fails: events that come during a review, and
\* cancel it, are not lost (actions.py:192).
EventsAreReviewed ==
  \A n \in Pull : queued[n] # 0 ~> n \in settled \union cut \/ state[n] # "open" \/ breach # {}

\* Refuted: a pull request that a human approves is merged, unless the approval is
\* withdrawn or turned down (PRODUCTION_PLAN.md:336).
ApprovedMerges ==
  \A n \in Pull : n \in consent /\ state[n] = "open" ~> n \notin consent \/ state[n] # "open"
=============================================================================
