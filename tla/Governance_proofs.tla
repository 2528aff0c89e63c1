---------------------------- MODULE Governance_proofs ----------------------------
(***************************************************************************)
(* What Governance guarantees for any pull requests and any number of acts *)
(* of humans and failures.                                                 *)
(***************************************************************************)
EXTENDS Governance, FiniteSetTheorems, SequenceTheorems, TLAPS

Guard == [pc : {"idle", "look", "push"}, before : Nat, after : Nat, revert : SUBSET Nat]

\* The push that waits for a guard is on main.
WaitingFits ==
  \/ waiting = << >>
  \/ \E before, after \in Nat : waiting = <<before, after>> /\ before <= after /\ after <= Len(main)

\* TypeOK, the fields of a guard, and no commits on the branch of a pull request to come.
TypeInv ==
  /\ TypeOK
  /\ guard \in Guard
  /\ WaitingFits
  /\ \A n \in Pull : state[n] = "none" <=> Len(branch[n]) = 0

LEMMA WaitingStays ==
  ASSUME TypeInv, UNCHANGED <<waiting, main>>
  PROVE  WaitingFits' /\ (waiting' = << >> \/ waiting' \in Nat \X Nat)
  BY DEF TypeInv, TypeOK, WaitingFits

\* Each review of a pull request is on commits of its branch.
SeenFits == \A v \in Reviewer, m \in Pull : review[v][m].pc # "idle" => review[v][m].seen \in 1 .. Len(branch[m])

LEMMA NoReviewType == NoReview \in Review
  BY DEF NoReview, Review

LEMMA NoGuardType == NoGuard \in Guard
  BY DEF NoGuard, Guard

\* What the labels become is a set of labels.
LEMMA LabelTypes ==
  ASSUME TypeOK, NEW w \in Reviewer, NEW n \in Pull
  PROVE  /\ Reconcile(w, n) \subseteq Label
         /\ Managed(w, n) \subseteq Label
         /\ \A current, managed \in SUBSET Label, human, preserve \in BOOLEAN :
              Transition(current, managed, human, preserve) \subseteq Label
<1>1. review[w][n] \in Review /\ labels[n] \subseteq Label
  BY DEF TypeOK
<1>2. Reconcile(w, n) \subseteq Label
  BY <1>1 DEF Reconcile, Review
<1>3. Managed(w, n) \subseteq Label
  BY DEF Managed, Label
<1>4. \A current, managed \in SUBSET Label, human, preserve \in BOOLEAN :
        Transition(current, managed, human, preserve) \subseteq Label
  BY DEF Transition, Label, Lifecycle
<1> QED
  BY <1>2, <1>3, <1>4

\* A squashed pull request is a commit.
LEMMA SquashType ==
  ASSUME TypeOK, NEW n \in Pull, NEW by \in {"human", "gate", "override", "guard"}, NEW seen \in Nat
  PROVE  Squash(n, by, seen) \in Commit
<1>1. branch[n] \in Seq(Kind)
  BY DEF TypeOK
<1>2. ("approved" \in labels[n]) \in BOOLEAN
  OBVIOUS
<1> QED
  BY <1>1, <1>2 DEF Squash, Commit

\* A push makes main longer and puts the new commits last.
LEMMA PushMainTypes ==
  ASSUME TypeOK, NEW c \in Seq(Commit), NEW starts \in BOOLEAN, PushMain(c, starts)
  PROVE  /\ main' \in Seq(Commit) /\ Len(main') = Len(main) + Len(c)
         /\ \A i \in DOMAIN main : i \in DOMAIN main' /\ main'[i] = main[i]
         /\ \A i \in DOMAIN c : main'[Len(main) + i] = c[i]
         /\ waiting' = waiting \/ waiting' = <<Len(main), Len(main) + Len(c)>>
         /\ breach \subseteq breach' /\ breach' \subseteq breach \union {"replaced"}
<1>1. main \in Seq(Commit)
  BY DEF TypeOK
<1>2. main' = main \o c
  BY DEF PushMain
<1> QED
  BY <1>1, <1>2 DEF PushMain, Blame
\* main grows; guards, and what they vetted, stay within it.
LEMMA MainGrows ==
  ASSUME TypeInv, NEW c \in Seq(Commit), NEW starts \in BOOLEAN, PushMain(c, starts), UNCHANGED <<guard, vetted>>
  PROVE  /\ main' \in Seq(Commit) /\ Len(main) <= Len(main') /\ DOMAIN main \subseteq DOMAIN main'
         /\ vetted' \subseteq DOMAIN main' /\ guard'.after <= Len(main')
         /\ WaitingFits'
         /\ breach' \subseteq {"raced", "late", "replaced", "outrun", "respun", "failed", "disowned"}
<1>1. /\ main' \in Seq(Commit) /\ Len(main') = Len(main) + Len(c)
      /\ \A i \in DOMAIN main : i \in DOMAIN main'
      /\ waiting' = waiting \/ waiting' = <<Len(main), Len(main) + Len(c)>>
      /\ breach' \subseteq breach \union {"replaced"}
  BY PushMainTypes DEF TypeInv
<1>2. Len(main) \in Nat /\ Len(c) \in Nat /\ guard.after \in Nat /\ guard.after <= Len(main)
  BY DEF TypeInv, TypeOK, Guard
<1>3. WaitingFits'
  BY <1>1, <1>2 DEF TypeInv, WaitingFits
<1> QED
  BY <1>1, <1>2, <1>3 DEF TypeInv, TypeOK

-----------------------------------------------------------------------------
\* One review moves; the others stay.
LEMMA ReviewMoves ==
  ASSUME TypeOK, NEW w \in Reviewer, NEW n \in Pull, NEW r \in Review, Set(w, n, r)
  PROVE  /\ review' \in [Reviewer -> [Pull -> Review]] /\ review'[w][n] = r
         /\ \A v \in Reviewer, m \in Pull : v # w \/ m # n => review'[v][m] = review[v][m]
<1>1. review \in [Reviewer -> [Pull -> Review]]
  BY DEF TypeOK
<1>2. review' = [review EXCEPT ![w] = [review[w] EXCEPT ![n] = r]]
  BY DEF Set
<1>3. [review[w] EXCEPT ![n] = r] \in [Pull -> Review]
  BY <1>1
<1> QED
  BY <1>1, <1>2, <1>3

\* A branch that grows by one commit.
LEMMA BranchGrows ==
  ASSUME TypeOK, NEW n \in Pull, NEW kind \in Kind, branch' = [branch EXCEPT ![n] = Append(@, kind)]
  PROVE  /\ branch' \in [Pull -> Seq(Kind)]
         /\ Len(branch'[n]) = Len(branch[n]) + 1 /\ branch'[n][Len(branch[n]) + 1] = kind
         /\ \A i \in 1 .. Len(branch[n]) : branch'[n][i] = branch[n][i]
         /\ \A m \in Pull : m # n => branch'[m] = branch[m]
<1>1. branch[n] \in Seq(Kind)
  BY DEF TypeOK
<1> QED
  BY <1>1 DEF TypeOK

\* Steps of a review that leave the guard and the branches alone.
LEMMA ReviewTypes ==
  ASSUME TypeInv, NEW w \in Reviewer, NEW n \in Pull, NEW r \in Review, Set(w, n, r),
         r.pc # "idle" => r.seen \in 1 .. Len(branch[n]),
         UNCHANGED <<loud, branch, guard>>,
         main' \in Seq(Commit), Len(main) <= Len(main'), DOMAIN main \subseteq DOMAIN main',
         state' \in [Pull -> {"none", "open", "merged", "closed"}],
         \A m \in Pull : state'[m] = "none" <=> state[m] = "none",
         labels' \in [Pull -> SUBSET Label],
         queued' \in [Pull -> Nat], \A m \in Pull : queued'[m] <= Len(branch[m]),
         WaitingFits',
         acts' \in 0 .. MaxActs, consent' \subseteq Pull, settled' \subseteq Pull, cut' \subseteq Pull,
         vetted' \subseteq DOMAIN main,
         breach' \subseteq {"raced", "late", "replaced", "outrun", "respun", "failed", "disowned"}
  PROVE  TypeInv'
<1>0. waiting' = << >> \/ waiting' \in Nat \X Nat
  BY DEF WaitingFits
<1>1. /\ review' \in [Reviewer -> [Pull -> Review]] /\ review'[w][n] = r
      /\ \A v \in Reviewer, m \in Pull : v # w \/ m # n => review'[v][m] = review[v][m]
  BY ReviewMoves DEF TypeInv
<1>2. (\A m \in Pull : queued'[m] <= Len(branch'[m])) /\ SeenFits'
  <2>1. \A v \in Reviewer, m \in Pull :
          review[v][m].pc # "idle" => review[v][m].seen \in 1 .. Len(branch[m])
    BY DEF TypeInv, TypeOK
  <2>2. branch' = branch
    OBVIOUS
  <2>3. ASSUME NEW v \in Reviewer, NEW m \in Pull, review'[v][m].pc # "idle"
        PROVE  review'[v][m].seen \in 1 .. Len(branch[m])
    <3>1. CASE v = w /\ m = n
      BY <1>1, <2>3, <3>1
    <3>2. CASE v # w \/ m # n
      BY <1>1, <2>1, <2>3, <3>2
    <3> QED
      BY <3>1, <3>2
  <2> QED
    BY <2>2, <2>3 DEF SeenFits
<1>3. /\ branch' = branch /\ guard' = guard /\ loud' = loud
      /\ \A m \in Pull : state'[m] = "none" <=> Len(branch'[m]) = 0
  BY DEF TypeInv
<1>4. /\ guard'.after <= Len(main') /\ guard'.after \in Nat /\ vetted' \subseteq DOMAIN main'
  <2>1. guard.after \in Nat /\ Len(main) \in Nat /\ Len(main') \in Nat /\ guard.after <= Len(main)
    BY DEF TypeInv, TypeOK, Guard
  <2> QED
    BY <1>3, <2>1
<1> QED
  BY <1>0, <1>1, <1>2, <1>3, <1>4, SMTT(40) DEF TypeInv, TypeOK, SeenFits

\* An event of a label is one of the head.
LEMMA LabelledTypes ==
  ASSUME TypeInv, NEW w \in Reviewer, NEW n \in Pull, Labelled(w, n)
  PROVE  /\ queued' \in [Pull -> Nat] /\ settled' \subseteq Pull
         /\ \A m \in Pull : queued'[m] <= Len(branch[m])
<1>1. queued \in [Pull -> Nat] /\ settled \subseteq Pull /\ Len(branch[n]) \in Nat
      /\ \A m \in Pull : queued[m] <= Len(branch[m])
  BY DEF TypeInv, TypeOK
<1>2. queued' = queued \/ queued' = [queued EXCEPT ![n] = Len(branch[n])]
  BY DEF Labelled, Trigger
<1>3. settled' \subseteq settled \union {n}
  BY DEF Labelled, Trigger, Settle
<1> QED
  BY <1>1, <1>2, <1>3

\* Steps of a review that change nothing on GitHub.
LEMMA QuietTypes ==
  ASSUME TypeInv, NEW w \in Reviewer, NEW n \in Pull, NEW r \in Review, Set(w, n, r),
         r.pc # "idle" => r.seen \in 1 .. Len(branch[n]),
         UNCHANGED <<loud, state, branch, labels, main, waiting, guard, consent, settled, vetted, breach>>,
         queued' \in [Pull -> Nat], \A m \in Pull : queued'[m] <= Len(branch[m]),
         acts' \in 0 .. MaxActs, cut' \subseteq Pull
  PROVE  TypeInv'
<1>1. /\ main' \in Seq(Commit) /\ Len(main) <= Len(main') /\ DOMAIN main \subseteq DOMAIN main'
      /\ vetted' \subseteq DOMAIN main
  BY DEF TypeInv, TypeOK
<1> QED
  BY <1>1, WaitingStays, ReviewTypes DEF TypeInv, TypeOK

\* The races of labels are named.
LEMMA DisturbTypes ==
  ASSUME TypeOK, NEW n \in Pull, NEW writing, Disturb(n, writing)
  PROVE  /\ breach \subseteq breach'
         /\ breach' \subseteq {"raced", "late", "replaced", "outrun", "respun", "failed", "disowned"}
         /\ labels'[n] # labels[n] /\ writing # {} => "raced" \in breach'
         /\ "approved" \in labels[n] \ labels'[n] /\ Merging(n) # {} => "late" \in breach'
         /\ "approved" \in labels[n] \ labels'[n] /\ Unseen(n) => "disowned" \in breach'
  BY DEF Disturb, TypeOK

LEMMA TypeStep == ASSUME TypeInv, [Next]_vars PROVE TypeInv'
<1> USE ActsAreBounded
<1>1. ASSUME NEW n \in Pull, NEW kind \in Kind, Open(n, kind) PROVE TypeInv'
  <2> USE <1>1 DEF Open
  <2>1. \A v \in Reviewer : review[v][n].pc = "idle"
    <3>1. Len(branch[n]) = 0
      BY DEF TypeInv
    <3>2. \A v \in Reviewer : review[v][n].pc # "idle" => review[v][n].seen \in 1 .. Len(branch[n])
      BY DEF TypeInv, TypeOK
    <3> QED
      BY <3>1, <3>2
  <2>2. <<kind>> \in Seq(Kind) /\ Len(<<kind>>) = 1
    BY DEF Kind
  <2>3. branch' \in [Pull -> Seq(Kind)] /\ branch'[n] = <<kind>>
        /\ \A m \in Pull : m # n => branch'[m] = branch[m]
    BY <2>2 DEF TypeInv, TypeOK
  <2>4. queued' \in [Pull -> Nat] /\ settled' \subseteq Pull /\ queued'[n] = 1
        /\ \A m \in Pull : m # n => queued'[m] = queued[m]
    BY DEF TypeInv, TypeOK, Trigger
  <2>5. labels' \in [Pull -> SUBSET Label]
    BY DEF TypeInv, TypeOK, Label, Lifecycle
  <2>6. (\A m \in Pull : queued'[m] <= Len(branch'[m])) /\ SeenFits'
    BY <2>1, <2>2, <2>3, <2>4 DEF TypeInv, TypeOK, SeenFits
  <2> QED
    BY <2>3, <2>4, <2>5, <2>6, WaitingStays DEF TypeInv, TypeOK, SeenFits
<1>2. ASSUME NEW n \in Pull, NEW kind \in Kind, PushBranch(n, kind) PROVE TypeInv'
  <2> USE <1>2 DEF PushBranch
  <2>1. /\ branch' \in [Pull -> Seq(Kind)]
        /\ Len(branch'[n]) = Len(branch[n]) + 1
        /\ \A m \in Pull : m # n => branch'[m] = branch[m]
    BY BranchGrows DEF TypeInv
  <2>2. Len(branch[n]) \in Nat
    BY DEF TypeInv, TypeOK
  <2>3. queued' \in [Pull -> Nat] /\ settled' \subseteq Pull /\ queued'[n] = Len(branch[n]) + 1
        /\ \A m \in Pull : m # n => queued'[m] = queued[m]
    BY <2>1, <2>2 DEF TypeInv, TypeOK, Trigger
  <2>4. (\A m \in Pull : queued'[m] <= Len(branch'[m])) /\ SeenFits'
    BY <2>1, <2>2, <2>3 DEF TypeInv, TypeOK, SeenFits
  <2> QED
    BY <2>1, <2>3, <2>4, WaitingStays, SMTT(40) DEF TypeInv, TypeOK, SeenFits, Act
<1>3. ASSUME NEW n \in Pull, Approve(n) PROVE TypeInv'
  <2>1. Len(branch[n]) \in Nat /\ "approved" \in Label
    BY DEF TypeInv, TypeOK, Label, Lifecycle
  <2> QED
    BY <1>3, <2>1, WaitingStays DEF Approve, Act, Trigger, TypeInv, TypeOK
<1>4. ASSUME NEW n \in Pull, NEW l \in Label, Unlabel(n, l) PROVE TypeInv'
  <2>1. breach' \subseteq {"raced", "late", "replaced", "outrun", "respun", "failed", "disowned"}
    BY <1>4, DisturbTypes DEF Unlabel, TypeInv
  <2> QED
    BY <1>4, <2>1, WaitingStays, SMTT(40) DEF Unlabel, Act, TypeInv, TypeOK
<1>5. ASSUME NEW n \in Pull, Close(n) PROVE TypeInv'
  BY <1>5, WaitingStays DEF Close, Act, TypeInv, TypeOK, ghost
<1>6. ASSUME NEW n \in Pull, MergeByHand(n) PROVE TypeInv'
  <2>1. <<Squash(n, "human", 0)>> \in Seq(Commit)
    BY SquashType DEF TypeInv
  <2>2. PushMain(<<Squash(n, "human", 0)>>, TRUE) /\ guard' = guard /\ vetted' = vetted
    BY <1>6 DEF MergeByHand
  <2>3. main' \in Seq(Commit) /\ Len(main) <= Len(main') /\ DOMAIN main \subseteq DOMAIN main'
        /\ vetted' \subseteq DOMAIN main' /\ guard'.after <= Len(main')
        /\ WaitingFits'
        /\ breach' \subseteq {"raced", "late", "replaced", "outrun", "respun", "failed", "disowned"}
    BY <2>1, <2>2, MainGrows
  <2> QED
    BY <1>6, <2>2, <2>3, SMTT(40) DEF MergeByHand, Act, TypeInv, TypeOK, WaitingFits
<1>7. ASSUME NEW facts \in Pushes, PushDirectly(facts) PROVE TypeInv'
  <2> DEFINE c == [i \in DOMAIN facts |->
                     [pr |-> 0, facts |-> facts[i], by |-> "human", seen |-> 0, content |-> << >>,
                      undo |-> {}, base |-> 0, approved |-> FALSE]]
  <2>1. facts \in Seq(BOOLEAN)
    <3>1. <<TRUE>> \in Seq(BOOLEAN) /\ <<TRUE, FALSE>> \in Seq(BOOLEAN)
      OBVIOUS
    <3> QED
      BY <3>1 DEF Pushes
  <2>2. \A i \in DOMAIN facts : c[i] \in Commit
    BY <2>1 DEF Commit
  <2>3. c \in Seq(Commit)
    BY <2>1, <2>2
  <2>4. PushMain(c, TRUE) /\ UNCHANGED <<github, queued, review, guard, consent, settled, cut, vetted>> /\ Act
    BY <1>7 DEF PushDirectly
  <2> HIDE DEF c
  <2>5. main' \in Seq(Commit) /\ Len(main) <= Len(main') /\ DOMAIN main \subseteq DOMAIN main'
        /\ vetted' \subseteq DOMAIN main' /\ guard'.after <= Len(main')
        /\ WaitingFits'
        /\ breach' \subseteq {"raced", "late", "replaced", "outrun", "respun", "failed", "disowned"}
    BY <2>3, <2>4, MainGrows
  <2> QED
    BY <2>4, <2>5 DEF Act, TypeInv, TypeOK, github, WaitingFits
<1>8. ASSUME NEW n \in Pull, StartReview(n) PROVE TypeInv'
  <2>0. "workflow" \in Reviewer
    BY DEF Reviewer
  <2> DEFINE r == [NoReview EXCEPT !.pc = "start", !.seen = queued[n], !.mine = queued[n]]
  <2>1. queued[n] \in Nat /\ queued[n] <= Len(branch[n]) /\ Len(branch[n]) \in Nat
    BY DEF TypeInv, TypeOK
  <2>2. r \in Review /\ r.seen = queued[n]
    BY <2>1 DEF NoReview, Review
  <2>3. Set("workflow", n, r) /\ queued[n] # 0 /\ queued' = [queued EXCEPT ![n] = 0]
        /\ UNCHANGED <<github, main, waiting, guard, acts, ghost>>
    BY <1>8 DEF StartReview
  <2> HIDE DEF r
  <2>4. r.seen \in 1 .. Len(branch[n])
    BY <2>1, <2>2, <2>3
  <2>5. queued' \in [Pull -> Nat] /\ \A m \in Pull : queued'[m] <= Len(branch[m])
    BY <2>1, <2>3 DEF TypeInv, TypeOK
  <2> QED
    BY <2>0, <2>2, <2>3, <2>4, <2>5, QuietTypes DEF github, ghost, TypeInv, TypeOK
<1>9. ASSUME NEW w \in Desk, NEW n \in Pull, NEW force \in BOOLEAN, ReviewByHand(w, n, force) PROVE TypeInv'
  <2> DEFINE r == [NoReview EXCEPT !.pc = "start", !.seen = Len(branch[n]), !.mine = Len(branch[n]),
                                   !.force = force]
  <2>1. Len(branch[n]) \in Nat
    BY DEF TypeInv, TypeOK
  <2>2. r \in Review /\ r.seen = Len(branch[n])
    BY <2>1 DEF NoReview, Review
  <2>3. Set(w, n, r) /\ state[n] = "open" /\ Act /\ UNCHANGED <<github, queued, main, waiting, guard, ghost>>
    BY <1>9 DEF ReviewByHand
  <2>7. w \in Reviewer
    BY DEF Reviewer
  <2> HIDE DEF r
  <2>4. Len(branch[n]) # 0
    BY <2>3 DEF TypeInv
  <2>5. r.seen \in 1 .. Len(branch[n])
    BY <2>1, <2>2, <2>4
  <2>6. acts' \in 0 .. MaxActs
    BY <2>3 DEF Act, TypeInv, TypeOK
  <2> QED
    BY <2>2, <2>3, <2>5, <2>6, <2>7, QuietTypes DEF github, ghost, TypeInv, TypeOK
<1>10. ASSUME NEW w \in Reviewer, NEW n \in Pull, CancelReview(w, n) PROVE TypeInv'
  <2>1. NoReview.pc = "idle" /\ Set(w, n, NoReview)
    BY <1>10 DEF CancelReview, NoReview, EndReview
  <2>2. acts' \in 0 .. MaxActs /\ cut' \subseteq Pull
    BY <1>10 DEF CancelReview, BreaksOff, Act, TypeInv, TypeOK
  <2>3. UNCHANGED <<github, queued, main, waiting, guard, consent, settled, vetted, breach>>
    BY <1>10 DEF CancelReview
  <2> QED
    BY <2>1, <2>2, <2>3, NoReviewType, QuietTypes DEF github, TypeInv, TypeOK
<1>11. ASSUME NEW w \in Reviewer, NEW n \in Pull, NEW action \in Action, Decide(w, n, action) PROVE TypeInv'
  <2> DEFINE r == [review[w][n] EXCEPT !.pc = CASE action = "approve" -> IF Has(w, n, "new") THEN "stamp" ELSE "reread"
                                         [] action = "reject" -> "close"
                                         [] action = "escalate" -> "read"]
  <2>1. review[w][n] \in Review /\ labels[n] \subseteq Label
    BY DEF TypeInv, TypeOK
  <2>2. r \in Review /\ r.seen = review[w][n].seen
    BY <2>1 DEF Review, Action
  <2>3. Set(w, n, r) /\ review[w][n].pc # "idle" /\ UNCHANGED <<github, queued, main, waiting, guard, acts, ghost>>
    BY <1>11 DEF Decide, At, Goto, Action
  <2> HIDE DEF r
  <2> QED
    BY <2>2, <2>3, QuietTypes DEF github, ghost, TypeInv, TypeOK
<1>13. ASSUME NEW w \in Reviewer, NEW n \in Pull, Reread(w, n) PROVE TypeInv'
  <2> DEFINE r == [review[w][n] EXCEPT !.pc = "edit", !.read = labels[n],
                             !.desired = Transition(labels[n], Managed(w, n), FALSE, TRUE)]
  <2>1. review[w][n] \in Review /\ labels[n] \subseteq Label
    BY DEF TypeInv, TypeOK
  <2>2. r \in Review /\ r.seen = review[w][n].seen
    BY <2>1, LabelTypes DEF Review, TypeInv
  <2>3. Set(w, n, r) /\ review[w][n].pc # "idle" /\ UNCHANGED <<github, queued, main, waiting, guard, acts, ghost>>
    BY <1>13 DEF Reread, At
  <2> HIDE DEF r
  <2> QED
    BY <2>2, <2>3, QuietTypes DEF github, ghost, TypeInv, TypeOK
<1>18. ASSUME NEW w \in Reviewer, NEW n \in Pull, ReadLabels(w, n) PROVE TypeInv'
  <2> DEFINE r == [review[w][n] EXCEPT !.pc = "again",
         !.desired = Transition(labels[n], IF Has(w, n, "foreign") THEN labels[n] ELSE Managed(w, n), TRUE, FALSE)]
  <2>1. review[w][n] \in Review /\ labels[n] \subseteq Label
    BY DEF TypeInv, TypeOK
  <2>2. r \in Review /\ r.seen = review[w][n].seen
    BY <2>1, LabelTypes DEF Review, TypeInv
  <2>3. Set(w, n, r) /\ review[w][n].pc # "idle" /\ UNCHANGED <<github, queued, main, waiting, guard, acts, ghost>>
    BY <1>18 DEF ReadLabels, At
  <2> HIDE DEF r
  <2> QED
    BY <2>2, <2>3, QuietTypes DEF github, ghost, TypeInv, TypeOK
<1>19. ASSUME NEW w \in Reviewer, NEW n \in Pull, ReadAgain(w, n) PROVE TypeInv'
  <2> DEFINE r == [review[w][n] EXCEPT !.pc = "demote", !.read = labels[n]]
  <2>1. review[w][n] \in Review /\ labels[n] \subseteq Label
    BY DEF TypeInv, TypeOK
  <2>2. r \in Review /\ r.seen = review[w][n].seen
    BY <2>1 DEF Review
  <2>3. Set(w, n, r) /\ review[w][n].pc # "idle" /\ UNCHANGED <<github, queued, main, waiting, guard, acts, ghost>>
    BY <1>19 DEF ReadAgain, At
  <2> HIDE DEF r
  <2> QED
    BY <2>2, <2>3, QuietTypes DEF github, ghost, TypeInv, TypeOK
<1>12. ASSUME NEW w \in Reviewer, NEW n \in Pull, Stamp(w, n) PROVE TypeInv'
  <2>1. review[w][n] \in Review /\ review[w][n].seen \in 1 .. Len(branch[n]) /\ Len(branch[n]) \in Nat
    BY <1>12 DEF Stamp, At, TypeInv, TypeOK
  <2>2. CASE state[n] # "open" \/ Len(branch[n]) # review[w][n].seen
    <3>1. Set(w, n, NoReview) /\ NoReview.pc = "idle" /\ cut' \subseteq Pull
      BY <1>12, <2>2 DEF Stamp, EndReview, NoReview, TypeInv, TypeOK
    <3> QED
      BY <1>12, <2>2, <3>1, NoReviewType, QuietTypes DEF Stamp, TypeInv, TypeOK
  <2>3. CASE state[n] = "open" /\ Len(branch[n]) = review[w][n].seen /\ Unstamped(w, n)
    <3> DEFINE r == [review[w][n] EXCEPT !.pc = "reread", !.mine = @ + 1]
    <3>1. r \in Review /\ r.seen = review[w][n].seen
      <4>1. review[w][n].mine + 1 \in Nat
        BY <2>1 DEF Review
      <4> QED
        BY <2>1, <4>1 DEF Review
    <3>2. /\ Set(w, n, r) /\ branch' = [branch EXCEPT ![n] = Append(@, "stamp")] /\ Notify(w, n, Len(branch'[n]))
          /\ UNCHANGED <<loud, state, labels, main, waiting, guard, acts, consent, cut, vetted, breach>>
      BY <1>12, <2>3 DEF Stamp
    <3> HIDE DEF r
    <3>3. /\ branch' \in [Pull -> Seq(Kind)] /\ Len(branch'[n]) = Len(branch[n]) + 1
          /\ \A m \in Pull : m # n => branch'[m] = branch[m]
      BY <3>2, BranchGrows DEF Kind, TypeInv
    <3>4. /\ queued' \in [Pull -> Nat] /\ settled' \subseteq Pull
          /\ queued'[n] \in {queued[n], Len(branch[n]) + 1}
          /\ \A m \in Pull : m # n => queued'[m] = queued[m]
      <4>1. /\ queued \in [Pull -> Nat] /\ settled \subseteq Pull
            /\ Len(branch'[n]) = Len(branch[n]) + 1 /\ Len(branch'[n]) \in Nat
        BY <2>1, <3>3 DEF TypeInv, TypeOK
      <4>2. CASE Trigger(n, Len(branch'[n]))
        BY <4>1, <4>2 DEF Trigger
      <4>3. CASE UNCHANGED <<queued, settled>>
        BY <4>1, <4>3
      <4> QED
        BY <3>2, <4>2, <4>3 DEF Notify
    <3>5. /\ review' \in [Reviewer -> [Pull -> Review]] /\ review'[w][n] = r
          /\ \A v \in Reviewer, m \in Pull : v # w \/ m # n => review'[v][m] = review[v][m]
      BY <3>1, <3>2, ReviewMoves DEF TypeInv
    <3>6. (\A m \in Pull : queued'[m] <= Len(branch'[m])) /\ SeenFits'
      <4>1. \A m \in Pull : queued[m] <= Len(branch[m]) /\ queued[m] \in Nat /\ Len(branch[m]) \in Nat
        BY DEF TypeInv, TypeOK
      <4>2. \A m \in Pull : Len(branch[m]) <= Len(branch'[m]) /\ Len(branch'[m]) \in Nat
        BY <3>3, <4>1
      <4>3. SeenFits
        BY DEF TypeInv, TypeOK, SeenFits
      <4>4. \A m \in Pull : queued'[m] <= Len(branch'[m])
        <5>1. queued'[n] <= Len(branch'[n])
          BY <3>3, <3>4, <4>1
        <5> QED
          BY <3>4, <4>1, <4>2, <5>1
      <4>5. review'[w][n].seen \in 1 .. Len(branch'[n])
        BY <2>1, <3>1, <3>5, <4>2
      <4>6. ASSUME NEW v \in Reviewer, NEW m \in Pull, review'[v][m].pc # "idle", v # w \/ m # n
            PROVE  review'[v][m].seen \in 1 .. Len(branch'[m])
        <5>1. review[v][m].seen \in 1 .. Len(branch[m]) /\ review'[v][m].seen = review[v][m].seen
          BY <3>5, <4>3, <4>6 DEF SeenFits
        <5> QED
          BY <4>1, <4>2, <5>1
      <4> QED
        BY <4>4, <4>5, <4>6 DEF SeenFits
    <3>7. \A m \in Pull : state'[m] = "none" <=> Len(branch'[m]) = 0
      BY <2>1, <2>3, <3>2, <3>3 DEF TypeInv
    <3> QED
      BY <3>2, <3>3, <3>4, <3>5, <3>6, <3>7, WaitingStays DEF TypeInv, TypeOK, SeenFits
  <2>4. CASE state[n] = "open" /\ Len(branch[n]) = review[w][n].seen /\ ~Unstamped(w, n)
    <3> DEFINE r == [review[w][n] EXCEPT !.pc = "reread"]
    <3>1. r \in Review /\ r.seen = review[w][n].seen
      BY <2>1 DEF Review
    <3>2. Set(w, n, r)
      BY <1>12, <2>4 DEF Stamp, Goto
    <3> HIDE DEF r
    <3> QED
      BY <1>12, <2>1, <2>4, <3>1, <3>2, QuietTypes DEF Stamp, TypeInv, TypeOK
  <2> QED
    BY <2>2, <2>3, <2>4
<1>14. ASSUME NEW w \in Reviewer, NEW n \in Pull, Edit(w, n) PROVE TypeInv'
  <2> DEFINE r == [review[w][n] EXCEPT !.pc = "gate", !.read = {}, !.desired = {}]
  <2>1. review[w][n] \in Review /\ review[w][n].seen \in 1 .. Len(branch[n]) /\ Len(branch[n]) \in Nat
    BY <1>14 DEF Edit, At, TypeInv, TypeOK
  <2>2. r \in Review /\ r.seen = review[w][n].seen /\ Set(w, n, r)
    BY <1>14, <2>1 DEF Edit, Review
  <2>3. labels' \in [Pull -> SUBSET Label]
    BY <1>14, LabelTypes DEF Edit, TypeInv, TypeOK
  <2>4. /\ queued' \in [Pull -> Nat] /\ settled' \subseteq Pull
        /\ \A m \in Pull : queued'[m] <= Len(branch[m])
    BY <1>14, <2>1, LabelledTypes DEF Edit
  <2>5. UNCHANGED <<loud, state, branch, main, waiting, guard, acts, consent, cut, vetted>>
    BY <1>14 DEF Edit
  <2>7. breach' \subseteq {"raced", "late", "replaced", "outrun", "respun", "failed", "disowned"}
    BY <1>14, DisturbTypes DEF Edit, TypeInv
  <2> HIDE DEF r
  <2>6. acts \in 0 .. MaxActs /\ consent \subseteq Pull /\ cut \subseteq Pull /\ vetted \subseteq DOMAIN main
        /\ main \in Seq(Commit) /\ WaitingFits
        /\ state \in [Pull -> {"none", "open", "merged", "closed"}]
        /\ Len(main) <= Len(main)
    BY DEF TypeInv, TypeOK
  <2> QED
    BY <2>1, <2>2, <2>3, <2>4, <2>5, <2>6, <2>7, ReviewTypes, WaitingStays
<1>15. ASSUME NEW w \in Reviewer, NEW n \in Pull, Gate(w, n) PROVE TypeInv'
  <2>1. review[w][n] \in Review /\ review[w][n].pc # "idle"
    BY <1>15 DEF Gate, At, TypeInv, TypeOK
  <2>2. PICK r \in Review : Set(w, n, r) /\ (r.pc # "idle" => r.seen = review[w][n].seen)
    <3> DEFINE gated == [review[w][n] EXCEPT !.pc = "merge", !.force = FALSE]
               forced == [review[w][n] EXCEPT !.pc = "merge"]
    <3>1. /\ gated \in Review /\ gated.seen = review[w][n].seen
          /\ forced \in Review /\ forced.seen = review[w][n].seen
      BY <2>1 DEF Review
    <3>2. NoReview \in Review /\ NoReview.pc = "idle"
      BY NoReviewType DEF NoReview
    <3>3. Set(w, n, gated) \/ Set(w, n, forced) \/ Set(w, n, NoReview)
      BY <1>15 DEF Gate, Goto, EndReview
    <3> HIDE DEF gated, forced
    <3> QED
      BY <3>1, <3>2, <3>3
  <2> QED
    BY <1>15, <2>1, <2>2, QuietTypes DEF Gate, github, ghost, TypeInv, TypeOK
<1>16. ASSUME NEW w \in Reviewer, NEW n \in Pull, Merge(w, n) PROVE TypeInv'
  <2>1. Set(w, n, NoReview) /\ NoReview.pc = "idle"
    BY <1>16 DEF Merge, EndReview, NoReview
  <2>2. UNCHANGED <<loud, branch, labels, queued, guard, acts, consent, settled, cut, vetted>>
    BY <1>16 DEF Merge
  <2>3. CASE state[n] = "open" /\ Len(branch[n]) = review[w][n].mine
    <3> DEFINE by == IF review[w][n].force THEN "override" ELSE "gate"
               starts == Audible(w)
               seen == review[w][n].seen
    <3>1. by \in {"human", "gate", "override", "guard"} /\ starts \in BOOLEAN /\ seen \in Nat
      BY DEF TypeInv, TypeOK, Review, Audible
    <3> HIDE DEF by, starts, seen
    <3>2. <<Squash(n, by, seen)>> \in Seq(Commit)
      BY <3>1, SquashType DEF TypeInv
    <3>3. state' = [state EXCEPT ![n] = "merged"] /\ PushMain(<<Squash(n, by, seen)>>, starts)
      BY <1>16, <2>3 DEF Merge, by, starts, seen
    <3>4. main' \in Seq(Commit) /\ Len(main) <= Len(main') /\ DOMAIN main \subseteq DOMAIN main'
          /\ WaitingFits'
          /\ breach' \subseteq {"raced", "late", "replaced", "outrun", "respun", "failed", "disowned"}
      BY <2>2, <3>1, <3>2, <3>3, MainGrows
    <3> QED
      BY <2>1, <2>2, <2>3, <3>3, <3>4, NoReviewType, ReviewTypes DEF TypeInv, TypeOK
  <2>4. CASE ~(state[n] = "open" /\ Len(branch[n]) = review[w][n].mine)
    BY <1>16, <2>1, <2>2, <2>4, NoReviewType, QuietTypes DEF Merge, TypeInv, TypeOK
  <2> QED
    BY <2>3, <2>4
<1>17. ASSUME NEW w \in Reviewer, NEW n \in Pull, Reject(w, n) PROVE TypeInv'
  <2>1. Set(w, n, NoReview) /\ NoReview.pc = "idle"
    BY <1>17 DEF Reject, EndReview, NoReview
  <2>2. UNCHANGED <<loud, branch, labels, queued, main, waiting, guard, acts, ghost>>
        /\ state' \in [Pull -> {"none", "open", "merged", "closed"}]
        /\ \A m \in Pull : state'[m] = "none" <=> state[m] = "none"
    BY <1>17 DEF Reject, TypeInv, TypeOK
  <2> QED
    <3>1. /\ acts \in 0 .. MaxActs /\ vetted \subseteq DOMAIN main /\ main \in Seq(Commit)
          /\ WaitingFits
          /\ labels \in [Pull -> SUBSET Label] /\ queued \in [Pull -> Nat]
          /\ \A m \in Pull : queued[m] <= Len(branch[m])
          /\ consent \subseteq Pull /\ settled \subseteq Pull /\ cut \subseteq Pull
          /\ breach \subseteq {"raced", "late", "replaced", "outrun", "respun", "failed", "disowned"}
          /\ Len(main) <= Len(main)
      BY DEF TypeInv, TypeOK
    <3> QED
      BY <2>1, <2>2, <3>1, NoReviewType, ReviewTypes, WaitingStays DEF ghost
<1>20. ASSUME NEW w \in Reviewer, NEW n \in Pull, Demote(w, n) PROVE TypeInv'
  <2>1. Set(w, n, NoReview) /\ NoReview.pc = "idle" /\ Len(branch[n]) \in Nat
    BY <1>20 DEF Demote, EndReview, NoReview, TypeInv, TypeOK
  <2>2. labels' \in [Pull -> SUBSET Label]
    BY <1>20, LabelTypes DEF Demote, TypeInv, TypeOK
  <2>3. /\ queued' \in [Pull -> Nat] /\ settled' \subseteq Pull
        /\ \A m \in Pull : queued'[m] <= Len(branch[m])
    BY <1>20, <2>1, LabelledTypes DEF Demote
  <2>4. /\ UNCHANGED <<loud, state, branch, main, waiting, guard, acts, cut, vetted>>
        /\ consent' \subseteq Pull
        /\ breach' \subseteq {"raced", "late", "replaced", "outrun", "respun", "failed", "disowned"}
    BY <1>20, DisturbTypes DEF Demote, TypeInv, TypeOK
  <2>5. /\ acts \in 0 .. MaxActs /\ vetted \subseteq DOMAIN main /\ main \in Seq(Commit)
        /\ WaitingFits
        /\ cut \subseteq Pull /\ state \in [Pull -> {"none", "open", "merged", "closed"}]
        /\ Len(main) <= Len(main)
    BY DEF TypeInv, TypeOK
  <2> QED
    BY <2>1, <2>2, <2>3, <2>4, <2>5, NoReviewType, ReviewTypes, WaitingStays
<1>21. CASE StartGuard
  <2>1. PICK before, after \in Nat : waiting = <<before, after>> /\ before <= after /\ after <= Len(main)
    BY <1>21 DEF StartGuard, TypeInv, WaitingFits
  <2>2. guard' = [pc |-> "look", before |-> before, after |-> after, revert |-> {}]
    BY <1>21, <2>1 DEF StartGuard, NoGuard
  <2>3. waiting' = << >> /\ UNCHANGED <<github, queued, review, main, acts, ghost>>
    BY <1>21 DEF StartGuard
  <2>4. guard' \in Guard /\ guard'.pc \in {"idle", "look", "push"} /\ guard'.revert \subseteq 1 .. guard'.after
        /\ guard'.before <= guard'.after /\ guard'.after <= Len(main) /\ WaitingFits'
    BY <2>1, <2>2, <2>3 DEF Guard, WaitingFits
  <2> QED
    BY <2>3, <2>4 DEF github, ghost, TypeInv, TypeOK
<1>22. CASE GuardLooks
  <2>1. Pushed \subseteq 1 .. guard.after /\ guard.after <= Len(main) /\ Len(main) \in Nat
        /\ guard.before \in Nat /\ guard.after \in Nat /\ DOMAIN main = 1 .. Len(main)
    BY DEF Pushed, Guard, TypeInv, TypeOK
  <2>2. Pushed \subseteq DOMAIN main
    BY <2>1
  <2>3. guard' = NoGuard \/ \E bad \in SUBSET Pushed : guard' = [guard EXCEPT !.pc = "push", !.revert = bad]
    BY <1>22 DEF GuardLooks
  <2>4. /\ guard' \in Guard /\ guard'.revert \subseteq 1 .. guard'.after
        /\ guard'.before <= guard'.after /\ guard'.after <= Len(main)
    <3>1. guard \in Guard /\ guard.before <= guard.after
      BY DEF TypeInv, TypeOK
    <3>2. CASE guard' = NoGuard
      BY <2>1, <3>2 DEF NoGuard, Guard
    <3>3. ASSUME NEW bad \in SUBSET Pushed, guard' = [guard EXCEPT !.pc = "push", !.revert = bad]
          PROVE  /\ guard' \in Guard /\ guard'.revert \subseteq 1 .. guard'.after
                 /\ guard'.before <= guard'.after /\ guard'.after <= Len(main)
      <4>1. bad \in SUBSET Nat /\ bad \subseteq 1 .. guard.after
        BY <2>1
      <4>2. /\ guard'.after = guard.after /\ guard'.before = guard.before /\ guard'.revert = bad
            /\ guard' \in Guard
        BY <3>1, <3>3, <4>1 DEF Guard
      <4> QED
        BY <2>1, <3>1, <4>1, <4>2
    <3> QED
      BY <2>3, <3>2, <3>3
  <2>5. vetted' \subseteq DOMAIN main
    BY <1>22, <2>2 DEF GuardLooks, TypeInv, TypeOK
  <2>6. guard'.pc \in {"idle", "look", "push"}
    BY <2>4 DEF Guard
  <2> QED
    BY <1>22, <2>4, <2>5, <2>6, WaitingStays DEF GuardLooks, github, TypeInv, TypeOK
<1>23. CASE GuardPushes
  <2> DEFINE c == [pr |-> 0, facts |-> TRUE, by |-> "guard", seen |-> 0, content |-> << >>,
                   undo |-> guard.revert, base |-> guard.before, approved |-> FALSE]
  <2>1. c \in Commit
    BY DEF Commit, Guard, TypeInv
  <2>2. main \in Seq(Commit) /\ guard.after \in Nat /\ guard.before \in Nat
    BY DEF Guard, TypeInv, TypeOK
  <2>3. main' = Append(main, c) \/ main' = main
    BY <1>23 DEF GuardPushes
  <2> HIDE DEF c
  <2>4. main' \in Seq(Commit) /\ DOMAIN main \subseteq DOMAIN main' /\ Len(main) <= Len(main')
    BY <2>1, <2>2, <2>3
  <2>5. WaitingFits' /\ (waiting' = << >> \/ waiting' \in Nat \X Nat)
    <3>1. WaitingFits /\ (waiting = << >> \/ waiting \in Nat \X Nat)
      BY DEF TypeInv, TypeOK
    <3>2. CASE waiting' = waiting
      BY <2>2, <2>4, <3>1, <3>2 DEF WaitingFits
    <3>3. CASE waiting' = <<guard.after, guard.after + 1>> /\ Len(main) = guard.after /\ main' = Append(main, c)
      <4>1. Len(main') = guard.after + 1
        BY <2>1, <2>2, <3>3
      <4> QED
        BY <2>2, <3>3, <4>1 DEF WaitingFits
    <3>4. Len(main) # guard.after => waiting' = waiting
      BY <1>23 DEF GuardPushes
    <3>5. Len(main) = guard.after =>
            /\ main' = Append(main, c)
            /\ waiting' = IF loud THEN <<guard.after, guard.after + 1>> ELSE waiting
      BY <1>23 DEF GuardPushes, c
    <3> QED
      BY <3>2, <3>3, <3>4, <3>5
  <2>6. breach' \subseteq {"raced", "late", "replaced", "outrun", "respun", "failed", "disowned"}
    BY <1>23 DEF GuardPushes, Blame, TypeInv, TypeOK
  <2>7. /\ guard' = NoGuard /\ NoGuard.pc = "idle" /\ NoGuard.revert = {}
        /\ NoGuard.before = 0 /\ NoGuard.after = 0
        /\ UNCHANGED <<github, queued, review, acts, consent, settled, cut, vetted>>
    BY <1>23 DEF GuardPushes, NoGuard
  <2>8. guard'.after <= Len(main') /\ vetted' \subseteq DOMAIN main'
    BY <2>4, <2>7 DEF TypeInv, TypeOK
  <2> QED
    BY <2>4, <2>5, <2>6, <2>7, <2>8, NoGuardType DEF github, TypeInv, TypeOK
<1>24. CASE GuardFails
  <2>1. /\ guard' = NoGuard /\ NoGuard.pc = "idle" /\ NoGuard.revert = {}
        /\ NoGuard.before = 0 /\ NoGuard.after = 0 /\ Len(main) \in Nat
    BY <1>24 DEF GuardFails, NoGuard, TypeInv, TypeOK
  <2> QED
    BY <1>24, <2>1, NoGuardType, WaitingStays DEF GuardFails, Act, Blame, github, TypeInv, TypeOK
<1>25. CASE UNCHANGED vars
  BY <1>25, WaitingStays DEF vars, github, ghost, TypeInv, TypeOK
<1> QED
  <2>1. ASSUME NEW n \in Pull, Human(n) PROVE TypeInv'
    BY <2>1, <1>1, <1>2, <1>3, <1>4, <1>5, <1>6, <1>9 DEF Human
  <2>2. ASSUME NEW w \in Reviewer, NEW n \in Pull, Reviewing(w, n) PROVE TypeInv'
    BY <2>2, <1>8, <1>11, <1>12, <1>13, <1>14, <1>15, <1>16, <1>17, <1>18, <1>19, <1>20 DEF Reviewing
  <2> QED
    BY <2>1, <2>2, <1>7, <1>10, <1>21, <1>22, <1>23, <1>24, <1>25 DEF Next, Guarding

LEMMA TypeInvHolds == Spec => []TypeInv
<1>1. Init => TypeInv
  BY NoReviewType, NoGuardType, ActsAreBounded DEF Init, TypeInv, TypeOK, NoReview, NoGuard, WaitingFits
<1>2. TypeInv /\ [Next]_vars => TypeInv'
  BY TypeStep
<1> QED
  BY <1>1, <1>2, PTL DEF Spec

\* Refs, labels, reviews and commits keep their form, whatever humans, reviews and the guard
\* do in whatever order.
THEOREM TypeCorrect == Spec => []TypeOK
<1>1. TypeInv => TypeOK
  BY DEF TypeInv
<1> QED
  BY <1>1, TypeInvHolds, PTL
-----------------------------------------------------------------------------
(* What a review merges, who approved it, and which labels it leaves.       *)

\* One lifecycle label, and no request for an approval next to one: Agree, as a predicate of
\* labels.
Coherent(l) ==
  /\ \E x \in Lifecycle : l \intersect Lifecycle = {x}
  /\ ~({"approved", "human-review"} \subseteq l)

\* What a review of n may merge is what it judged, perhaps with its stamp.
Judged(w, n) ==
  LET r == review[w][n] IN
  /\ r.pc \in {"start", "stamp"} => r.mine = r.seen
  /\ r.pc \in {"reread", "edit", "gate", "merge"} =>
       \/ r.mine = r.seen
       \/ r.mine = r.seen + 1 /\ r.mine <= Len(branch[n]) /\ branch[n][r.mine] = "stamp"

\* A review keeps the approval it read and gives none; what it merges without force a human
\* has approved, or had when the gate looked.
Consented(w, n) ==
  LET r == review[w][n] IN
  /\ r.pc = "edit" => ("approved" \in r.desired <=> "approved" \in r.read)
  /\ r.pc \in {"again", "demote"} => "approved" \notin r.desired
  /\ r.pc = "merge" /\ ~r.force => n \in consent \/ "late" \in breach

\* Labels that a review of n is about to set are coherent, and it knows what it replaces: all
\* that it read is still there, and, unless an event waits, a workflow's review has read all
\* that is there.
Knows(w, n) ==
  LET r == review[w][n] IN
  /\ r.pc \in {"edit", "again", "demote"} => Coherent(r.desired)
  /\ r.pc \in {"edit", "demote"} /\ "raced" \notin breach =>
       /\ r.read \subseteq labels[n]
       /\ w = "workflow" /\ queued[n] = 0 => labels[n] = r.read

RunInv(w, n) == Judged(w, n) /\ Consented(w, n) /\ Knows(w, n)

\* The approval on a pull request is a human's; labels that are settled are coherent.
LabelInv(n) ==
  /\ "approved" \in labels[n] <=> n \in consent
  /\ state[n] = "none" => n \notin consent
  /\ queued[n] # 0 => n \notin settled
  /\ "raced" \notin breach /\ n \in settled => Coherent(labels[n])

PullInv(n) == LabelInv(n) /\ \A w \in Reviewer : RunInv(w, n)
ReviewInv == \A n \in Pull : PullInv(n)

\* Nothing of m has changed, but perhaps it is no longer settled, and races happened.
Frame(m) ==
  /\ \A v \in Reviewer : review'[v][m] = review[v][m]
  /\ branch'[m] = branch[m] /\ labels'[m] = labels[m] /\ queued'[m] = queued[m]
  /\ m \in consent <=> m \in consent'
  /\ state'[m] = "none" => state[m] = "none"
  /\ m \in settled' => m \in settled
  /\ breach \subseteq breach'

LEMMA FrameKeeps == ASSUME NEW m \in Pull, PullInv(m), Frame(m) PROVE PullInv(m)'
<1>1. LabelInv(m)'
  BY DEF PullInv, LabelInv, Frame
<1>2. ASSUME NEW v \in Reviewer PROVE RunInv(v, m)'
  BY DEF PullInv, RunInv, Judged, Consented, Knows, Frame
<1> QED
  BY <1>1, <1>2 DEF PullInv

\* What other reviews of n do to one that stands still: commits may be added to the branch;
\* labels change only with a race on record if it was about to write, or are added to with an
\* event; and an approval goes only with a race on record if it was about to merge.
Aside(v, n) ==
  /\ review'[v][n] = review[v][n] /\ breach \subseteq breach'
  /\ Len(branch'[n]) \in Nat /\ Len(branch[n]) <= Len(branch'[n])
  /\ \A i \in 1 .. Len(branch[n]) : branch'[n][i] = branch[n][i]
  /\ \/ v \notin Writing(n) \/ "raced" \in breach'
     \/ labels'[n] = labels[n] /\ (v = "workflow" /\ queued'[n] = 0 => queued[n] = 0)
     \/ labels[n] \subseteq labels'[n] /\ (v = "workflow" => queued'[n] # 0)
  /\ v \in Merging(n) /\ n \in consent => n \in consent' \/ "late" \in breach'

LEMMA AsideKeeps ==
  ASSUME TypeInv, NEW v \in Reviewer, NEW n \in Pull, RunInv(v, n), Aside(v, n)
  PROVE  RunInv(v, n)'
<1>1. review[v][n] \in Review /\ Len(branch[n]) \in Nat
  BY DEF TypeInv, TypeOK
<1>2. Judged(v, n)'
  BY <1>1 DEF RunInv, Judged, Aside, Review
<1>3. Consented(v, n)'
  BY <1>1 DEF RunInv, Consented, Aside, Merging
<1>4. Knows(v, n)'
  BY <1>1 DEF RunInv, Knows, Aside, Writing
<1> QED
  BY <1>2, <1>3, <1>4 DEF RunInv

\* A step about n concerns no other pull request.
LEMMA OneStep ==
  ASSUME ReviewInv, NEW n \in Pull, PullInv(n)', \A m \in Pull : m # n => Frame(m)
  PROVE  ReviewInv'
  BY FrameKeeps DEF ReviewInv

\* A human's act about n: its reviews stand aside.
LEMMA HumanStep ==
  ASSUME TypeInv, ReviewInv, NEW n \in Pull, LabelInv(n)', \A v \in Reviewer : Aside(v, n),
         \A m \in Pull : m # n => Frame(m)
  PROVE  ReviewInv'
<1>1. ASSUME NEW v \in Reviewer PROVE RunInv(v, n)'
  BY AsideKeeps DEF ReviewInv, PullInv
<1> QED
  BY <1>1, OneStep DEF PullInv

\* A step of one review of n: the others stand aside.
LEMMA RunStep ==
  ASSUME TypeInv, ReviewInv, NEW w \in Reviewer, NEW n \in Pull, LabelInv(n)', RunInv(w, n)',
         \A v \in Reviewer : v # w => Aside(v, n), \A m \in Pull : m # n => Frame(m)
  PROVE  ReviewInv'
<1>1. ASSUME NEW v \in Reviewer, v # w PROVE RunInv(v, n)'
  BY <1>1, AsideKeeps DEF ReviewInv, PullInv
<1>2. \A v \in Reviewer : RunInv(v, n)'
  BY <1>1
<1> QED
  BY <1>2, OneStep DEF PullInv

\* One review is set; the others are as they were.
LEMMA OneIsSet ==
  ASSUME TypeInv, NEW w \in Reviewer, NEW n \in Pull, NEW r, Set(w, n, r)
  PROVE  /\ review'[w][n] = r
         /\ \A v \in Reviewer, m \in Pull : v # w \/ m # n => review'[v][m] = review[v][m]
<1>1. review \in [Reviewer -> [Pull -> Review]]
  BY DEF TypeInv, TypeOK
<1>2. review' = [review EXCEPT ![w] = [review[w] EXCEPT ![n] = r]]
  BY DEF Set
<1> QED
  BY <1>1, <1>2

\* The labels of a transition are coherent, and approve only what was approved.
LEMMA TransitionCoherent ==
  ASSUME NEW current \in SUBSET Label, NEW managed \in SUBSET Label,
         NEW human \in BOOLEAN, NEW preserve \in BOOLEAN
  PROVE  LET t == Transition(current, managed, human, preserve) IN
           /\ Coherent(t)
           /\ "approved" \in t <=> preserve /\ "approved" \in current
<1> DEFINE life == IF preserve /\ "approved" \in current THEN "approved" ELSE "reviewed"
           t == Transition(current, managed, human, preserve)
<1>1. t \intersect Lifecycle = {life} /\ life \in Lifecycle
  BY DEF Transition, Lifecycle
<1>2. "approved" \in t <=> life = "approved"
  BY DEF Transition, Lifecycle
<1>3. "human-review" \in t => life # "approved"
  BY DEF Transition, Lifecycle
<1>4. life = "approved" <=> preserve /\ "approved" \in current
  OBVIOUS
<1> HIDE DEF life, t
<1> QED
  BY <1>1, <1>2, <1>3, <1>4 DEF Coherent, t

\* What the labels of a review become: those that it wants, if it knew those that were there.
LEMMA ReconcileReplaces ==
  ASSUME TypeOK, NEW w \in Reviewer, NEW n \in Pull
  PROVE  /\ labels[n] = review[w][n].read => Reconcile(w, n) = review[w][n].desired
         /\ "approved" \in Reconcile(w, n) =>
              "approved" \in labels[n] \/ "approved" \in review[w][n].desired \ review[w][n].read
         /\ "approved" \in labels[n] =>
              "approved" \in Reconcile(w, n) \/ "approved" \in review[w][n].read \ review[w][n].desired
  BY DEF Reconcile

\* A review that adds no label leaves coherent ones coherent, if all that it read is there.
LEMMA NothingAdded ==
  ASSUME TypeOK, NEW w \in Reviewer, NEW n \in Pull, Coherent(labels[n]), Coherent(review[w][n].desired),
         review[w][n].read \subseteq labels[n], Reconcile(w, n) \subseteq labels[n]
  PROVE  Coherent(Reconcile(w, n))
<1> DEFINE d == review[w][n].desired
           r == review[w][n].read
           l == labels[n]
           new == Reconcile(w, n)
<1>1. PICK x \in Lifecycle : d \intersect Lifecycle = {x}
  BY DEF Coherent
<1>2. PICK y \in Lifecycle : l \intersect Lifecycle = {y}
  BY DEF Coherent
<1>3. new = (l \union (d \ r)) \ (r \ d)
  BY DEF Reconcile
<1> HIDE DEF d, r, new, l
<1>4. x \in new
  <2>1. x \in d
    BY <1>1
  <2>2. x \in r => x \in l
    BY DEF r, l
  <2> QED
    BY <1>3, <2>1, <2>2
<1>5. new \subseteq l
  BY DEF new, l
<1>6. new \intersect Lifecycle = {x}
  BY <1>1, <1>2, <1>4, <1>5
<1> QED
  BY <1>5, <1>6 DEF Coherent, new, l

\* After the labels are set, an event waits or they are settled.
LEMMA LabelledSettles ==
  ASSUME TypeInv, NEW w \in Reviewer, NEW n \in Pull, Labelled(w, n)
  PROVE  /\ \A m \in Pull : m # n => queued'[m] = queued[m] /\ (m \in settled' => m \in settled)
         /\ \/ queued'[n] = Len(branch[n]) /\ n \notin settled'
            \/ /\ queued'[n] = queued[n]
               /\ n \in settled' => n \in settled \/ (w = "workflow" /\ queued[n] = 0)
               /\ w # "workflow" => labels'[n] \subseteq labels[n]
<1>1. queued \in [Pull -> Nat]
  BY DEF TypeInv, TypeOK
<1>2. CASE Trigger(n, Len(branch[n]))
  BY <1>1, <1>2 DEF Trigger
<1>3. CASE UNCHANGED queued /\ Settle(w, n) /\ (w # "workflow" => labels'[n] \subseteq labels[n])
  BY <1>3 DEF Settle
<1> QED
  BY <1>2, <1>3 DEF Labelled, Audible

LEMMA InitIsReviewed == Init => ReviewInv
  BY DEF Init, ReviewInv, PullInv, LabelInv, RunInv, Judged, Consented, Knows, NoReview

-----------------------------------------------------------------------------
(* Every step keeps ReviewInv: first what humans do.                        *)

LEMMA OpenKeeps == ASSUME TypeInv, ReviewInv, NEW n \in Pull, NEW kind \in Kind, Open(n, kind) PROVE ReviewInv'
<1>1. /\ Len(branch[n]) = 0
      /\ \A v \in Reviewer : review[v][n].pc # "idle" => review[v][n].seen \in 1 .. Len(branch[n])
  BY DEF Open, TypeInv, TypeOK
<1>2. \A v \in Reviewer : review'[v][n].pc = "idle"
  BY <1>1 DEF Open
<1>3. /\ queued'[n] = 1 /\ n \notin settled' /\ n \notin consent' /\ state'[n] = "open"
      /\ labels'[n] = {"extraction"} \union IF kind = "new" THEN {} ELSE {"deletion"}
  BY DEF Open, Trigger, ReviewInv, PullInv, LabelInv, TypeInv, TypeOK
<1>4. LabelInv(n)'
  BY <1>3 DEF LabelInv
<1>5. ASSUME NEW v \in Reviewer PROVE RunInv(v, n)'
  BY <1>2 DEF RunInv, Judged, Consented, Knows
<1>6. \A m \in Pull : m # n => Frame(m)
  BY DEF Open, Trigger, Frame, TypeInv, TypeOK
<1> QED
  BY <1>4, <1>5, <1>6, OneStep DEF PullInv

LEMMA PushBranchKeeps ==
  ASSUME TypeInv, ReviewInv, NEW n \in Pull, NEW kind \in Kind, PushBranch(n, kind) PROVE ReviewInv'
<1>1. /\ Len(branch'[n]) = Len(branch[n]) + 1 /\ Len(branch[n]) \in Nat
      /\ \A i \in 1 .. Len(branch[n]) : branch'[n][i] = branch[n][i]
      /\ \A m \in Pull : m # n => branch'[m] = branch[m]
  BY BranchGrows DEF PushBranch, TypeInv, TypeOK
<1>2. LabelInv(n) /\ queued'[n] = Len(branch'[n]) /\ n \notin settled'
  BY DEF PushBranch, Trigger, ReviewInv, PullInv, TypeInv, TypeOK
<1>3. LabelInv(n)'
  BY <1>1, <1>2 DEF PushBranch, LabelInv
<1>4. \A v \in Reviewer : Aside(v, n)
  BY <1>1, <1>2 DEF PushBranch, Aside
<1>5. \A m \in Pull : m # n => Frame(m)
  BY <1>1 DEF PushBranch, Trigger, Frame, TypeInv, TypeOK
<1> QED
  BY <1>3, <1>4, <1>5, HumanStep

LEMMA ApproveKeeps == ASSUME TypeInv, ReviewInv, NEW n \in Pull, Approve(n) PROVE ReviewInv'
<1>1. /\ LabelInv(n) /\ queued'[n] = Len(branch[n]) /\ n \notin settled' /\ n \in consent'
      /\ Len(branch[n]) # 0 /\ Len(branch[n]) \in Nat /\ labels'[n] = labels[n] \union {"approved"}
  BY DEF Approve, Trigger, ReviewInv, PullInv, TypeInv, TypeOK
<1>2. LabelInv(n)'
  BY <1>1 DEF Approve, LabelInv
<1>3. \A v \in Reviewer : Aside(v, n)
  BY <1>1 DEF Approve, Aside
<1>4. \A m \in Pull : m # n => Frame(m)
  BY DEF Approve, Trigger, Frame, TypeInv, TypeOK
<1> QED
  BY <1>2, <1>3, <1>4, HumanStep

LEMMA UnlabelKeeps ==
  ASSUME TypeInv, ReviewInv, NEW n \in Pull, NEW l \in Label, Unlabel(n, l) PROVE ReviewInv'
<1>1. /\ LabelInv(n) /\ labels'[n] = labels[n] \ {l} /\ l \in labels[n] /\ n \notin settled'
      /\ Writing(n) # {} => "raced" \in breach'
      /\ l = "approved" /\ Merging(n) # {} => "late" \in breach'
      /\ breach \subseteq breach'
      /\ consent' = IF l = "approved" THEN consent \ {n} ELSE consent
      /\ UNCHANGED <<state, branch, queued, review>> /\ Len(branch[n]) \in Nat
  <2>1. /\ LabelInv(n) /\ l \in labels[n] /\ n \notin settled'
        /\ consent' = IF l = "approved" THEN consent \ {n} ELSE consent
        /\ UNCHANGED <<state, branch, queued, review>>
    BY DEF Unlabel, ReviewInv, PullInv
  <2>2. labels'[n] = labels[n] \ {l} /\ Len(branch[n]) \in Nat
    BY DEF Unlabel, TypeInv, TypeOK
  <2>3. TypeOK /\ Disturb(n, Writing(n))
    BY DEF Unlabel, TypeInv
  <2>4. /\ breach \subseteq breach'
        /\ labels'[n] # labels[n] /\ Writing(n) # {} => "raced" \in breach'
        /\ "approved" \in labels[n] \ labels'[n] /\ Merging(n) # {} => "late" \in breach'
    BY <2>3, DisturbTypes
  <2> QED
    BY <2>1, <2>2, <2>4
<1>2. LabelInv(n)'
  BY <1>1 DEF LabelInv
<1>3. \A v \in Reviewer : Aside(v, n)
  BY <1>1 DEF Aside
<1>4. \A m \in Pull : m # n => Frame(m)
  BY <1>1 DEF Unlabel, Frame, TypeInv, TypeOK
<1> QED
  BY <1>2, <1>3, <1>4, HumanStep

\* Merges and closings by hand, pushes to main and the guard touch no branch, label or review.
LEMMA ElsewhereKeeps ==
  ASSUME ReviewInv, UNCHANGED <<branch, labels, queued, review, consent, settled>>, breach \subseteq breach',
         \A m \in Pull : state'[m] = "none" => state[m] = "none"
  PROVE  ReviewInv'
  BY FrameKeeps DEF Frame, ReviewInv

-----------------------------------------------------------------------------
(* The steps of a review.                                                   *)

\* A step that only moves the review on, and what follows for the other reviews of the pull
\* request and for other pull requests.
LEMMA Moves ==
  ASSUME TypeInv, ReviewInv, NEW w \in Reviewer, NEW n \in Pull, NEW r, Set(w, n, r),
         UNCHANGED <<branch, labels, consent, settled>>, breach \subseteq breach',
         \A m \in Pull : state'[m] = "none" => state[m] = "none",
         \A m \in Pull : m # n => queued'[m] = queued[m],
         queued'[n] = queued[n] \/ (queued'[n] = 0 /\ w = "workflow")
  PROVE  /\ review'[w][n] = r /\ LabelInv(n)'
         /\ \A v \in Reviewer : v # w => Aside(v, n)
         /\ \A m \in Pull : m # n => Frame(m)
<1>1. /\ review'[w][n] = r
      /\ \A v \in Reviewer, m \in Pull : v # w \/ m # n => review'[v][m] = review[v][m]
  BY OneIsSet
<1>2. LabelInv(n)'
  BY DEF ReviewInv, PullInv, LabelInv
<1>3. Len(branch[n]) \in Nat
  BY DEF TypeInv, TypeOK
<1>4. \A v \in Reviewer : v # w => Aside(v, n)
  BY <1>1, <1>3 DEF Aside
<1>5. \A m \in Pull : m # n => Frame(m)
  BY <1>1 DEF Frame
<1> QED
  BY <1>1, <1>2, <1>4, <1>5

\* A review that is over is nobody's.
LEMMA EndKeeps ==
  ASSUME TypeInv, ReviewInv, NEW w \in Reviewer, NEW n \in Pull, EndReview(w, n),
         UNCHANGED <<branch, labels, queued, consent, settled>>, breach \subseteq breach',
         \A m \in Pull : state'[m] = "none" => state[m] = "none"
  PROVE  ReviewInv'
<1>1. Set(w, n, NoReview) /\ NoReview.pc = "idle"
  BY DEF EndReview, NoReview
<1>2. /\ review'[w][n] = NoReview /\ LabelInv(n)'
      /\ \A v \in Reviewer : v # w => Aside(v, n)
      /\ \A m \in Pull : m # n => Frame(m)
  BY <1>1, Moves
<1>3. RunInv(w, n)'
  BY <1>1, <1>2 DEF RunInv, Judged, Consented, Knows
<1> QED
  BY <1>2, <1>3, RunStep

LEMMA ReviewByHandKeeps ==
  ASSUME TypeInv, ReviewInv, NEW w \in Desk, NEW n \in Pull, NEW force \in BOOLEAN, ReviewByHand(w, n, force)
  PROVE  ReviewInv'
<1> DEFINE r == [NoReview EXCEPT !.pc = "start", !.seen = Len(branch[n]), !.mine = Len(branch[n]),
                                 !.force = force]
<1>1. r.pc = "start" /\ r.mine = r.seen /\ w \in Reviewer
  BY DEF NoReview, Reviewer
<1>2. Set(w, n, r) /\ UNCHANGED <<state, branch, labels, queued, consent, settled, breach>>
  BY DEF ReviewByHand, github, ghost
<1> HIDE DEF r
<1>3. /\ review'[w][n] = r /\ LabelInv(n)'
      /\ \A v \in Reviewer : v # w => Aside(v, n)
      /\ \A m \in Pull : m # n => Frame(m)
  BY <1>1, <1>2, Moves
<1>4. RunInv(w, n)'
  BY <1>1, <1>3 DEF RunInv, Judged, Consented, Knows
<1> QED
  BY <1>1, <1>3, <1>4, RunStep

LEMMA StartReviewKeeps == ASSUME TypeInv, ReviewInv, NEW n \in Pull, StartReview(n) PROVE ReviewInv'
<1> DEFINE r == [NoReview EXCEPT !.pc = "start", !.seen = queued[n], !.mine = queued[n]]
<1>1. r.pc = "start" /\ r.mine = r.seen /\ "workflow" \in Reviewer
  BY DEF NoReview, Reviewer
<1>2. /\ Set("workflow", n, r) /\ queued'[n] = 0 /\ \A m \in Pull : m # n => queued'[m] = queued[m]
      /\ UNCHANGED <<state, branch, labels, consent, settled, breach>>
  BY DEF StartReview, github, ghost, TypeInv, TypeOK
<1> HIDE DEF r
<1>3. /\ review'["workflow"][n] = r /\ LabelInv(n)'
      /\ \A v \in Reviewer : v # "workflow" => Aside(v, n)
      /\ \A m \in Pull : m # n => Frame(m)
  BY <1>1, <1>2, Moves
<1>4. RunInv("workflow", n)'
  BY <1>1, <1>3 DEF RunInv, Judged, Consented, Knows
<1> QED
  BY <1>1, <1>3, <1>4, RunStep

LEMMA DecideKeeps ==
  ASSUME TypeInv, ReviewInv, NEW w \in Reviewer, NEW n \in Pull, NEW action \in Action, Decide(w, n, action)
  PROVE  ReviewInv'
<1>1. PICK pc \in {"stamp", "reread", "close", "read"} : Goto(w, n, pc)
  BY DEF Decide, Action
<1> DEFINE r == [review[w][n] EXCEPT !.pc = pc]
<1>2. review[w][n] \in Review /\ review[w][n].pc = "start" /\ RunInv(w, n)
  BY DEF Decide, At, ReviewInv, PullInv, TypeInv, TypeOK
<1>3. r.pc = pc /\ r.mine = review[w][n].mine /\ r.seen = review[w][n].seen
  BY <1>2 DEF Review
<1>4. Set(w, n, r) /\ UNCHANGED <<state, branch, labels, queued, consent, settled, breach>>
  BY <1>1 DEF Goto, Decide, github, ghost
<1> HIDE DEF r
<1>5. /\ review'[w][n] = r /\ LabelInv(n)'
      /\ \A v \in Reviewer : v # w => Aside(v, n)
      /\ \A m \in Pull : m # n => Frame(m)
  BY <1>4, Moves
<1>6. RunInv(w, n)'
  BY <1>2, <1>3, <1>5 DEF RunInv, Judged, Consented, Knows
<1> QED
  BY <1>5, <1>6, RunStep

LEMMA StampKeeps ==
  ASSUME TypeInv, ReviewInv, NEW w \in Reviewer, NEW n \in Pull, Stamp(w, n) PROVE ReviewInv'
<1>1. review[w][n] \in Review /\ review[w][n].pc = "stamp" /\ PullInv(n) /\ RunInv(w, n) /\ Len(branch[n]) \in Nat
  BY DEF Stamp, At, ReviewInv, PullInv, TypeInv, TypeOK
<1>2. CASE state[n] # "open" \/ Len(branch[n]) # review[w][n].seen
  BY <1>2, EndKeeps DEF Stamp
<1>3. CASE state[n] = "open" /\ Len(branch[n]) = review[w][n].seen /\ Unstamped(w, n)
  <2> DEFINE r == [review[w][n] EXCEPT !.pc = "reread", !.mine = @ + 1]
  <2>1. r.pc = "reread" /\ r.seen = review[w][n].seen /\ r.mine = r.seen + 1
    BY <1>1 DEF RunInv, Judged, Review
  <2>2. /\ Set(w, n, r) /\ branch' = [branch EXCEPT ![n] = Append(@, "stamp")]
        /\ Notify(w, n, Len(branch'[n])) /\ UNCHANGED <<state, labels, consent, breach>>
    BY <1>3 DEF Stamp
  <2> HIDE DEF r
  <2>3. /\ Len(branch'[n]) = Len(branch[n]) + 1 /\ branch'[n][Len(branch[n]) + 1] = "stamp"
        /\ \A i \in 1 .. Len(branch[n]) : branch'[n][i] = branch[n][i]
        /\ \A m \in Pull : m # n => branch'[m] = branch[m]
    BY <2>2, BranchGrows DEF Kind, TypeInv
  <2>4. Len(branch'[n]) = r.mine /\ branch'[n][r.mine] = "stamp"
    BY <1>1, <1>3, <2>1, <2>3
  <2>5. /\ \A m \in Pull : m # n => queued'[m] = queued[m] /\ (m \in settled' => m \in settled)
        /\ \/ n \notin settled' /\ queued'[n] = Len(branch'[n])
           \/ queued'[n] = queued[n] /\ settled' = settled
    BY <2>2 DEF Notify, Trigger, TypeInv, TypeOK
  <2>6. /\ review'[w][n] = r
        /\ \A v \in Reviewer, m \in Pull : v # w \/ m # n => review'[v][m] = review[v][m]
    BY <2>2, OneIsSet
  <2>7. RunInv(w, n)'
    BY <2>1, <2>4, <2>6 DEF RunInv, Judged, Consented, Knows
  <2>8. LabelInv(n)'
    BY <1>1, <2>2, <2>5 DEF PullInv, LabelInv
  <2>9. \A v \in Reviewer : v # w => Aside(v, n)
    BY <1>1, <2>2, <2>3, <2>5, <2>6 DEF Aside
  <2>10. \A m \in Pull : m # n => Frame(m)
    BY <2>2, <2>3, <2>5, <2>6 DEF Frame
  <2> QED
    BY <2>7, <2>8, <2>9, <2>10, RunStep
<1>4. CASE state[n] = "open" /\ Len(branch[n]) = review[w][n].seen /\ ~Unstamped(w, n)
  <2> DEFINE r == [review[w][n] EXCEPT !.pc = "reread"]
  <2>1. r.pc = "reread" /\ r.seen = review[w][n].seen /\ r.mine = review[w][n].mine
    BY <1>1 DEF Review
  <2>2. Set(w, n, r) /\ UNCHANGED <<state, branch, labels, queued, consent, settled, breach>>
    BY <1>4 DEF Stamp, Goto
  <2> HIDE DEF r
  <2>3. /\ review'[w][n] = r /\ LabelInv(n)'
        /\ \A v \in Reviewer : v # w => Aside(v, n)
        /\ \A m \in Pull : m # n => Frame(m)
    BY <2>2, Moves
  <2>4. RunInv(w, n)'
    BY <1>1, <2>1, <2>3 DEF RunInv, Judged, Consented, Knows
  <2> QED
    BY <2>3, <2>4, RunStep
<1> QED
  BY <1>2, <1>3, <1>4

LEMMA RereadKeeps ==
  ASSUME TypeInv, ReviewInv, NEW w \in Reviewer, NEW n \in Pull, Reread(w, n) PROVE ReviewInv'
<1> DEFINE t == Transition(labels[n], Managed(w, n), FALSE, TRUE)
           r == [review[w][n] EXCEPT !.pc = "edit", !.read = labels[n], !.desired = t]
<1>1. review[w][n] \in Review /\ review[w][n].pc = "reread" /\ RunInv(w, n) /\ labels[n] \in SUBSET Label
  BY DEF Reread, At, ReviewInv, PullInv, TypeInv, TypeOK
<1>2. Coherent(t) /\ ("approved" \in t <=> "approved" \in labels[n])
  BY <1>1, LabelTypes, TransitionCoherent DEF TypeInv
<1> HIDE DEF t
<1>3. /\ r.pc = "edit" /\ r.seen = review[w][n].seen /\ r.mine = review[w][n].mine
      /\ r.read = labels[n] /\ r.desired = t
  BY <1>1 DEF Review
<1>4. Set(w, n, r) /\ UNCHANGED <<state, branch, labels, queued, consent, settled, breach>>
  BY DEF Reread, github, ghost, t
<1> HIDE DEF r
<1>5. /\ review'[w][n] = r /\ LabelInv(n)'
      /\ \A v \in Reviewer : v # w => Aside(v, n)
      /\ \A m \in Pull : m # n => Frame(m)
  BY <1>4, Moves
<1>6. RunInv(w, n)'
  BY <1>1, <1>2, <1>3, <1>4, <1>5 DEF RunInv, Judged, Consented, Knows
<1> QED
  BY <1>5, <1>6, RunStep

LEMMA ReviewedIsPushed ==
  ASSUME TypeInv, NEW w \in Reviewer, NEW n \in Pull, review[w][n].pc # "idle" PROVE Len(branch[n]) # 0
<1>1. review[w][n].seen \in 1 .. Len(branch[n])
  BY DEF TypeInv, TypeOK
<1> QED
  BY <1>1

\* A review that sets labels leaves them coherent if they are settled then, and the other
\* reviews of the pull request aside.
LEMMA WriteKeeps ==
  ASSUME TypeInv, ReviewInv, NEW w \in Reviewer, NEW n \in Pull, w \in Writing(n),
         labels' = [labels EXCEPT ![n] = Reconcile(w, n)], Labelled(w, n),
         Disturb(n, Writing(n) \ {w}), UNCHANGED <<state, branch>>,
         consent' = IF "approved" \in labels'[n] THEN consent ELSE consent \ {n},
         "approved" \in labels'[n] => "approved" \in labels[n],
         NEW r, Set(w, n, r)
  PROVE  /\ review'[w][n] = r /\ LabelInv(n)'
         /\ \A v \in Reviewer : v # w => Aside(v, n)
         /\ \A m \in Pull : m # n => Frame(m)
<1>1. /\ LabelInv(n) /\ Knows(w, n) /\ Len(branch[n]) \in Nat /\ Len(branch[n]) # 0
      /\ review[w][n].pc \in {"edit", "demote"}
  BY ReviewedIsPushed DEF Writing, ReviewInv, PullInv, RunInv, TypeInv, TypeOK
<1>2. labels'[n] = Reconcile(w, n) /\ \A m \in Pull : m # n => labels'[m] = labels[m]
  BY DEF TypeInv, TypeOK
<1>3. /\ breach \subseteq breach'
      /\ labels'[n] # labels[n] /\ Writing(n) \ {w} # {} => "raced" \in breach'
      /\ "approved" \in labels[n] \ labels'[n] /\ Merging(n) # {} => "late" \in breach'
  BY DisturbTypes DEF TypeInv
<1>4. /\ review'[w][n] = r
      /\ \A v \in Reviewer, m \in Pull : v # w \/ m # n => review'[v][m] = review[v][m]
  BY OneIsSet
<1>5. /\ \A m \in Pull : m # n => queued'[m] = queued[m] /\ (m \in settled' => m \in settled)
      /\ \/ queued'[n] = Len(branch[n]) /\ n \notin settled'
         \/ /\ queued'[n] = queued[n]
            /\ n \in settled' => n \in settled \/ (w = "workflow" /\ queued[n] = 0)
            /\ w # "workflow" => labels'[n] \subseteq labels[n]
  BY LabelledSettles
<1>6. ASSUME n \in settled', "raced" \notin breach' PROVE Coherent(labels'[n])
  <2>1. /\ Coherent(review[w][n].desired) /\ review[w][n].read \subseteq labels[n]
        /\ w = "workflow" /\ queued[n] = 0 => labels[n] = review[w][n].read
    BY <1>1, <1>3, <1>6 DEF Knows
  <2>2. CASE labels[n] = review[w][n].read
    BY <1>2, <2>1, <2>2, ReconcileReplaces DEF TypeInv
  <2>3. CASE labels'[n] \subseteq labels[n] /\ Coherent(labels[n])
    BY <1>2, <2>1, <2>3, NothingAdded DEF TypeInv
  <2>4. n \in settled => queued[n] = 0 /\ Coherent(labels[n])
    BY <1>1, <1>3, <1>6 DEF LabelInv
  <2> QED
    BY <1>5, <1>6, <2>1, <2>2, <2>3, <2>4
<1>7. "approved" \in labels'[n] <=> n \in consent'
  BY <1>1 DEF LabelInv
<1>8. LabelInv(n)'
  <2>1. state'[n] = "none" => n \notin consent'
    BY <1>1 DEF LabelInv
  <2>2. queued'[n] # 0 => n \notin settled'
    BY <1>1, <1>5 DEF LabelInv
  <2> QED
    BY <1>6, <1>7, <2>1, <2>2 DEF LabelInv
<1>9. ASSUME NEW v \in Reviewer, v # w PROVE Aside(v, n)
  <2>1. v \notin Writing(n) \/ "raced" \in breach' \/ labels'[n] = labels[n]
    BY <1>3, <1>9
  <2>2. queued'[n] = 0 => queued[n] = 0
    BY <1>1, <1>5
  <2>3. v \in Merging(n) /\ n \in consent => n \in consent' \/ "late" \in breach'
    BY <1>1, <1>3 DEF LabelInv
  <2> QED
    BY <1>1, <1>3, <1>4, <1>9, <2>1, <2>2, <2>3 DEF Aside
<1>10. ASSUME NEW m \in Pull, m # n PROVE Frame(m)
  BY <1>2, <1>3, <1>4, <1>5, <1>10 DEF Frame
<1> QED
  BY <1>4, <1>8, <1>9, <1>10

LEMMA EditKeeps ==
  ASSUME TypeInv, ReviewInv, NEW w \in Reviewer, NEW n \in Pull, Edit(w, n) PROVE ReviewInv'
<1> DEFINE r == [review[w][n] EXCEPT !.pc = "gate", !.read = {}, !.desired = {}]
<1>1. /\ review[w][n] \in Review /\ review[w][n].pc = "edit" /\ RunInv(w, n) /\ LabelInv(n)
  BY DEF Edit, At, ReviewInv, PullInv, TypeInv, TypeOK
<1>2. r.pc = "gate" /\ r.seen = review[w][n].seen /\ r.mine = review[w][n].mine
  BY <1>1 DEF Review
<1>3. /\ Set(w, n, r) /\ Labelled(w, n) /\ Disturb(n, Writing(n) \ {w})
      /\ UNCHANGED <<state, branch, consent>>
  BY DEF Edit
<1>4. labels' = [labels EXCEPT ![n] = Reconcile(w, n)] /\ labels'[n] = Reconcile(w, n)
  BY DEF Edit, TypeInv, TypeOK
<1> HIDE DEF r
<1>5. "approved" \in labels'[n] <=> "approved" \in labels[n]
  BY <1>1, <1>4, ReconcileReplaces DEF RunInv, Consented, TypeInv
<1>6. consent' = IF "approved" \in labels'[n] THEN consent ELSE consent \ {n}
  BY <1>1, <1>3, <1>5 DEF LabelInv
<1>7. w \in Writing(n)
  BY <1>1 DEF Writing
<1>8. /\ review'[w][n] = r /\ LabelInv(n)'
      /\ \A v \in Reviewer : v # w => Aside(v, n)
      /\ \A m \in Pull : m # n => Frame(m)
  BY <1>3, <1>4, <1>5, <1>6, <1>7, WriteKeeps
<1>9. RunInv(w, n)'
  BY <1>1, <1>2, <1>3, <1>8 DEF RunInv, Judged, Consented, Knows
<1> QED
  BY <1>8, <1>9, RunStep

LEMMA GateKeeps ==
  ASSUME TypeInv, ReviewInv, NEW w \in Reviewer, NEW n \in Pull, Gate(w, n) PROVE ReviewInv'
<1>1. /\ review[w][n] \in Review /\ review[w][n].pc = "gate" /\ RunInv(w, n) /\ LabelInv(n)
      /\ UNCHANGED <<state, branch, labels, queued, consent, settled, breach>>
  BY DEF Gate, At, github, ghost, ReviewInv, PullInv, TypeInv, TypeOK
<1>2. CASE EndReview(w, n)
  BY <1>1, <1>2, EndKeeps
<1>3. ASSUME NEW r, Set(w, n, r), r.pc = "merge", r.seen = review[w][n].seen, r.mine = review[w][n].mine,
             r.force \/ "approved" \in labels[n]
      PROVE  ReviewInv'
  <2>1. /\ review'[w][n] = r /\ LabelInv(n)'
        /\ \A v \in Reviewer : v # w => Aside(v, n)
        /\ \A m \in Pull : m # n => Frame(m)
    BY <1>1, <1>3, Moves
  <2>2. RunInv(w, n)'
    BY <1>1, <1>3, <2>1 DEF RunInv, Judged, Consented, Knows, LabelInv
  <2> QED
    BY <2>1, <2>2, RunStep
<1> DEFINE gated == [review[w][n] EXCEPT !.pc = "merge", !.force = FALSE]
           forced == [review[w][n] EXCEPT !.pc = "merge"]
<1>4. /\ gated.pc = "merge" /\ gated.seen = review[w][n].seen /\ gated.mine = review[w][n].mine
      /\ forced.pc = "merge" /\ forced.seen = review[w][n].seen /\ forced.mine = review[w][n].mine
      /\ forced.force = review[w][n].force
  BY <1>1 DEF Review
<1>5. \/ Set(w, n, gated) /\ "approved" \in labels[n]
      \/ Set(w, n, forced) /\ review[w][n].force
      \/ EndReview(w, n)
  BY Zenon DEF Gate, Goto
<1> HIDE DEF gated, forced
<1> QED
  BY <1>2, <1>3, <1>4, <1>5

LEMMA MergeKeeps ==
  ASSUME TypeInv, ReviewInv, NEW w \in Reviewer, NEW n \in Pull, Merge(w, n) PROVE ReviewInv'
<1>1. breach \subseteq breach' /\ \A m \in Pull : state'[m] = "none" => state[m] = "none"
  BY DEF Merge, PushMain, Blame, TypeInv, TypeOK
<1> QED
  BY <1>1, EndKeeps DEF Merge

LEMMA RejectKeeps ==
  ASSUME TypeInv, ReviewInv, NEW w \in Reviewer, NEW n \in Pull, Reject(w, n) PROVE ReviewInv'
<1>1. \A m \in Pull : state'[m] = "none" => state[m] = "none"
  BY DEF Reject, TypeInv, TypeOK
<1> QED
  BY <1>1, EndKeeps DEF Reject, ghost

LEMMA CancelReviewKeeps ==
  ASSUME TypeInv, ReviewInv, NEW w \in Reviewer, NEW n \in Pull, CancelReview(w, n) PROVE ReviewInv'
  BY EndKeeps DEF CancelReview, github

LEMMA ReadLabelsKeeps ==
  ASSUME TypeInv, ReviewInv, NEW w \in Reviewer, NEW n \in Pull, ReadLabels(w, n) PROVE ReviewInv'
<1> DEFINE managed == IF Has(w, n, "foreign") THEN labels[n] ELSE Managed(w, n)
           t == Transition(labels[n], managed, TRUE, FALSE)
           r == [review[w][n] EXCEPT !.pc = "again", !.desired = t]
<1>1. review[w][n] \in Review /\ review[w][n].pc = "read" /\ RunInv(w, n) /\ labels[n] \in SUBSET Label
  BY DEF ReadLabels, At, ReviewInv, PullInv, TypeInv, TypeOK
<1>2. managed \in SUBSET Label
  BY <1>1, LabelTypes DEF TypeInv
<1> HIDE DEF managed
<1>3. Coherent(t) /\ "approved" \notin t
  BY <1>1, <1>2, TransitionCoherent
<1> HIDE DEF t
<1>4. r.pc = "again" /\ r.desired = t
  BY <1>1 DEF Review
<1>5. Set(w, n, r) /\ UNCHANGED <<state, branch, labels, queued, consent, settled, breach>>
  BY DEF ReadLabels, github, ghost, t, managed
<1> HIDE DEF r
<1>6. /\ review'[w][n] = r /\ LabelInv(n)'
      /\ \A v \in Reviewer : v # w => Aside(v, n)
      /\ \A m \in Pull : m # n => Frame(m)
  BY <1>5, Moves
<1>7. RunInv(w, n)'
  BY <1>3, <1>4, <1>6 DEF RunInv, Judged, Consented, Knows
<1> QED
  BY <1>6, <1>7, RunStep

LEMMA ReadAgainKeeps ==
  ASSUME TypeInv, ReviewInv, NEW w \in Reviewer, NEW n \in Pull, ReadAgain(w, n) PROVE ReviewInv'
<1> DEFINE r == [review[w][n] EXCEPT !.pc = "demote", !.read = labels[n]]
<1>1. review[w][n] \in Review /\ review[w][n].pc = "again" /\ RunInv(w, n)
  BY DEF ReadAgain, At, ReviewInv, PullInv, TypeInv, TypeOK
<1>2. r.pc = "demote" /\ r.desired = review[w][n].desired /\ r.read = labels[n]
  BY <1>1 DEF Review
<1>3. Set(w, n, r) /\ UNCHANGED <<state, branch, labels, queued, consent, settled, breach>>
  BY DEF ReadAgain, github, ghost
<1> HIDE DEF r
<1>4. /\ review'[w][n] = r /\ LabelInv(n)'
      /\ \A v \in Reviewer : v # w => Aside(v, n)
      /\ \A m \in Pull : m # n => Frame(m)
  BY <1>3, Moves
<1>5. RunInv(w, n)'
  BY <1>1, <1>2, <1>3, <1>4 DEF RunInv, Judged, Consented, Knows
<1> QED
  BY <1>4, <1>5, RunStep

LEMMA DemoteKeeps ==
  ASSUME TypeInv, ReviewInv, NEW w \in Reviewer, NEW n \in Pull, Demote(w, n) PROVE ReviewInv'
<1>1. review[w][n].pc = "demote" /\ RunInv(w, n) /\ LabelInv(n)
  BY DEF Demote, At, ReviewInv, PullInv
<1>2. /\ Set(w, n, NoReview) /\ Labelled(w, n) /\ Disturb(n, Writing(n) \ {w})
      /\ UNCHANGED <<state, branch>> /\ NoReview.pc = "idle"
      /\ consent' = IF "approved" \in labels'[n] THEN consent ELSE consent \ {n}
  BY DEF Demote, EndReview, NoReview
<1>3. labels' = [labels EXCEPT ![n] = Reconcile(w, n)] /\ labels'[n] = Reconcile(w, n)
  BY DEF Demote, TypeInv, TypeOK
<1>4. "approved" \in labels'[n] => "approved" \in labels[n]
  BY <1>1, <1>3, ReconcileReplaces DEF RunInv, Consented, TypeInv
<1>5. w \in Writing(n)
  BY <1>1 DEF Writing
<1>6. /\ review'[w][n] = NoReview /\ LabelInv(n)'
      /\ \A v \in Reviewer : v # w => Aside(v, n)
      /\ \A m \in Pull : m # n => Frame(m)
  BY <1>2, <1>3, <1>4, <1>5, WriteKeeps
<1>7. RunInv(w, n)'
  BY <1>2, <1>6 DEF RunInv, Judged, Consented, Knows
<1> QED
  BY <1>6, <1>7, RunStep

-----------------------------------------------------------------------------
LEMMA ReviewStep == ASSUME TypeInv, ReviewInv, [Next]_vars PROVE ReviewInv'
<1>1. ASSUME NEW n \in Pull, Human(n) PROVE ReviewInv'
  <2>1. CASE Close(n)
    <3>1. \A m \in Pull : state'[m] = "none" => state[m] = "none"
      BY <2>1 DEF Close, TypeInv, TypeOK
    <3> QED
      BY <2>1, <3>1, ElsewhereKeeps DEF Close, ghost
  <2>2. CASE MergeByHand(n)
    <3>1. breach \subseteq breach' /\ \A m \in Pull : state'[m] = "none" => state[m] = "none"
      BY <2>2 DEF MergeByHand, PushMain, Blame, TypeInv, TypeOK
    <3> QED
      BY <2>2, <3>1, ElsewhereKeeps DEF MergeByHand
  <2> QED
    BY <1>1, <2>1, <2>2, OpenKeeps, PushBranchKeeps, ApproveKeeps, UnlabelKeeps, ReviewByHandKeeps DEF Human
<1>2. ASSUME NEW w \in Reviewer, NEW n \in Pull, Reviewing(w, n) PROVE ReviewInv'
  BY <1>2, StartReviewKeeps, DecideKeeps, StampKeeps, RereadKeeps, EditKeeps, GateKeeps, MergeKeeps,
     RejectKeeps, ReadLabelsKeeps, ReadAgainKeeps, DemoteKeeps DEF Reviewing
<1>3. ASSUME NEW facts \in Pushes, PushDirectly(facts) PROVE ReviewInv'
  <2>1. breach \subseteq breach'
    BY <1>3 DEF PushDirectly, PushMain, Blame
  <2> QED
    BY <1>3, <2>1, ElsewhereKeeps DEF PushDirectly, github
<1>4. CASE Guarding \/ GuardFails
  <2>1. UNCHANGED <<state, branch, labels, queued, review, consent, settled>>
    BY <1>4 DEF Guarding, StartGuard, GuardLooks, GuardPushes, GuardFails, github, ghost
  <2>2. breach \subseteq breach'
    BY <1>4 DEF Guarding, StartGuard, GuardLooks, GuardPushes, GuardFails, ghost, Blame
  <2> QED
    BY <2>1, <2>2, ElsewhereKeeps
<1>5. CASE UNCHANGED vars
  BY <1>5, ElsewhereKeeps DEF vars, github, ghost
<1> QED
  BY <1>1, <1>2, <1>3, <1>4, <1>5, CancelReviewKeeps DEF Next

LEMMA ReviewInvHolds == Spec => []ReviewInv
<1>1. TypeInv /\ ReviewInv /\ [Next]_vars => ReviewInv'
  BY ReviewStep
<1> QED
  BY <1>1, InitIsReviewed, TypeInvHolds, PTL DEF Spec

\* When a workflow's review has nothing more to do for the last event of an open pull request,
\* the labels agree, whatever is reviewed by hand beside it, unless a label was changed while a
\* review set them (governance_health.py:111).
THEOREM SettledLabelsAgree == Spec => []LabelsAgree
<1>1. TypeInv /\ ReviewInv => LabelsAgree
  <2> SUFFICES ASSUME ReviewInv, breach = {}, NEW n \in Pull, n \in settled PROVE Agree(n)
    BY DEF LabelsAgree, TypeInv, TypeOK
  <2>1. Coherent(labels[n])
    BY DEF ReviewInv, PullInv, LabelInv
  <2>2. PICK x \in Lifecycle : labels[n] \intersect Lifecycle = {x}
    BY <2>1 DEF Coherent
  <2>3. Cardinality({x}) = 1
    BY FS_Singleton
  <2> QED
    BY <2>1, <2>2, <2>3 DEF Coherent, Agree
<1> QED
  BY <1>1, ReviewInvHolds, TypeInvHolds, PTL

-----------------------------------------------------------------------------
(* What main gets.                                                          *)

\* One commit that a review merges.
LEMMA MergeAppends ==
  ASSUME TypeInv, NEW w \in Reviewer, NEW n \in Pull, Merge(w, n)
  PROVE  \/ main' = main
         \/ /\ Len(branch[n]) = review[w][n].mine /\ review[w][n].pc = "merge"
            /\ Len(main') = Len(main) + 1 /\ \A i \in DOMAIN main : main'[i] = main[i]
            /\ main'[Len(main')].pr = n
            /\ main'[Len(main')].content = branch[n] /\ main'[Len(main')].seen = review[w][n].seen
            /\ main'[Len(main')].by = IF review[w][n].force THEN "override" ELSE "gate"
<1>1. CASE state[n] = "open" /\ Len(branch[n]) = review[w][n].mine
  <2> DEFINE by == IF review[w][n].force THEN "override" ELSE "gate"
             c == Squash(n, by, review[w][n].seen)
  <2>0. review[w][n].seen \in Nat
    BY DEF TypeInv, TypeOK, Review
  <2>1. /\ c.pr = n /\ c.content = branch[n] /\ c.seen = review[w][n].seen /\ c.by = by
        /\ by \in {"human", "gate", "override", "guard"} /\ c \in Commit
    BY <2>0, SquashType DEF Squash, TypeInv
  <2>2. PushMain(<<c>>, Audible(w)) /\ review[w][n].pc = "merge"
    BY <1>1 DEF Merge, At
  <2> HIDE DEF by, c
  <2>3. Audible(w) \in BOOLEAN /\ <<c>> \in Seq(Commit) /\ Len(<<c>>) = 1 /\ <<c>>[1] = c
        /\ 1 \in DOMAIN <<c>>
    BY <2>1 DEF Audible, TypeInv, TypeOK
  <2>4. /\ Len(main') = Len(main) + 1 /\ main'[Len(main) + 1] = c
        /\ \A i \in DOMAIN main : main'[i] = main[i]
    BY <2>2, <2>3, PushMainTypes DEF TypeInv
  <2> QED
    BY <1>1, <2>1, <2>2, <2>4 DEF by
<1> QED
  BY <1>1 DEF Merge

\* Commits that no review has merged.
Foreign(c) == c.by \notin {"gate", "override"}

\* Whatever else is pushed to main is no review's.
LEMMA OthersAppend ==
  ASSUME TypeInv, [Next]_vars, \A w \in Reviewer, n \in Pull : ~Merge(w, n)
  PROVE  /\ \A i \in DOMAIN main : main'[i] = main[i]
         /\ \A i \in DOMAIN main' : i \in DOMAIN main \/ Foreign(main'[i])
<1> USE DEF TypeInv
<1>1. main \in Seq(Commit)
  BY DEF TypeOK
<1>2. ASSUME NEW n \in Pull, MergeByHand(n)
      PROVE  /\ \A i \in DOMAIN main : main'[i] = main[i]
             /\ \A i \in DOMAIN main' : i \in DOMAIN main \/ Foreign(main'[i])
  <2> DEFINE c == Squash(n, "human", 0)
  <2>1. c \in Commit /\ Foreign(c) /\ PushMain(<<c>>, TRUE)
    BY <1>2, SquashType DEF MergeByHand, Squash, Foreign
  <2> HIDE DEF c
  <2>2. main' = Append(main, c)
    BY <1>1, <2>1 DEF PushMain
  <2> QED
    BY <1>1, <2>1, <2>2
<1>3. ASSUME NEW facts \in Pushes, PushDirectly(facts)
      PROVE  /\ \A i \in DOMAIN main : main'[i] = main[i]
             /\ \A i \in DOMAIN main' : i \in DOMAIN main \/ Foreign(main'[i])
  <2> DEFINE c(i) == [pr |-> 0, facts |-> facts[i], by |-> "human", seen |-> 0, content |-> << >>,
                      undo |-> {}, base |-> 0, approved |-> FALSE]
             s == [i \in DOMAIN facts |-> c(i)]
  <2>1. PushMain(s, TRUE)
    BY <1>3 DEF PushDirectly
  <2>2. facts \in Seq(BOOLEAN)
    <3>1. <<TRUE>> \in Seq(BOOLEAN) /\ <<TRUE, FALSE>> \in Seq(BOOLEAN)
      OBVIOUS
    <3> QED
      BY <3>1 DEF Pushes
  <2>3. \A i \in DOMAIN facts : c(i) \in Commit /\ Foreign(c(i))
    BY <2>2 DEF Commit, Foreign
  <2> HIDE DEF c
  <2>4. s \in Seq(Commit) /\ DOMAIN s = DOMAIN facts /\ \A i \in DOMAIN s : s[i] = c(i)
    BY <2>2, <2>3
  <2> HIDE DEF s
  <2>5. main' = main \o s
    BY <2>1 DEF PushMain
  <2>6. \A i \in DOMAIN s : Foreign(s[i])
    BY <2>3, <2>4
  <2> QED
    BY <1>1, <2>4, <2>5, <2>6
<1>4. CASE GuardPushes
  <2> DEFINE c == [pr |-> 0, facts |-> TRUE, by |-> "guard", seen |-> 0, content |-> << >>,
                   undo |-> guard.revert, base |-> guard.before, approved |-> FALSE]
  <2>1. c \in Commit /\ Foreign(c)
    BY DEF Commit, Guard, Foreign
  <2>2. main' = Append(main, c) \/ main' = main
    BY <1>4 DEF GuardPushes
  <2> HIDE DEF c
  <2> QED
    BY <1>1, <2>1, <2>2
<1>5. CASE main' = main
  BY <1>5
<1>6. main' # main => (\E n \in Pull : MergeByHand(n)) \/ (\E facts \in Pushes : PushDirectly(facts)) \/ GuardPushes
  <2>1. ASSUME NEW n \in Pull, Human(n), main' # main PROVE MergeByHand(n)
    BY <2>1 DEF Human, Open, PushBranch, Approve, Unlabel, Close, ReviewByHand
  <2>2. ASSUME NEW w \in Reviewer, NEW n \in Pull, Reviewing(w, n) \/ CancelReview(w, n) PROVE main' = main
    BY <2>2 DEF Reviewing, StartReview, Decide, Stamp, Reread, Edit, Gate, Reject, ReadLabels, ReadAgain,
       Demote, CancelReview
  <2>3. CASE Guarding \/ GuardFails
    BY <2>3 DEF Guarding, StartGuard, GuardLooks, GuardFails
  <2>4. CASE UNCHANGED vars
    BY <2>4 DEF vars
  <2> QED
    BY <2>1, <2>2, <2>3, <2>4 DEF Next
<1> QED
  BY <1>2, <1>3, <1>4, <1>5, <1>6

\* Every commit that a review merged is as long as what it judged, or has its stamp on top,
\* whatever is pushed to the branch between the calls (pipeline.py:1434).
THEOREM MergesAsReviewed == Spec => []MergedAsReviewed
<1> DEFINE Ok(c) == c.by \in {"gate", "override"} =>
                      \/ Len(c.content) = c.seen
                      \/ Len(c.content) = c.seen + 1 /\ c.content[Len(c.content)] = "stamp"
<1>1. Init => MergedAsReviewed
  BY DEF Init, MergedAsReviewed
<1>2. TypeInv /\ ReviewInv /\ MergedAsReviewed /\ [Next]_vars => MergedAsReviewed'
  <2> SUFFICES ASSUME TypeInv, ReviewInv, MergedAsReviewed, [Next]_vars PROVE MergedAsReviewed'
    OBVIOUS
  <2>1. \A i \in DOMAIN main : Ok(main[i])
    BY DEF MergedAsReviewed
  <2>2. ASSUME NEW w \in Reviewer, NEW n \in Pull, Merge(w, n) PROVE \A i \in DOMAIN main' : Ok(main'[i])
    <3>1. main' = main => \A i \in DOMAIN main' : Ok(main'[i])
      BY <2>1
    <3>2. ASSUME Len(branch[n]) = review[w][n].mine, review[w][n].pc = "merge",
                 Len(main') = Len(main) + 1, \A i \in DOMAIN main : main'[i] = main[i],
                 main'[Len(main')].content = branch[n], main'[Len(main')].seen = review[w][n].seen
          PROVE  \A i \in DOMAIN main' : Ok(main'[i])
      <4>1. Judged(w, n)
        BY DEF ReviewInv, PullInv, RunInv
      <4>2. Ok(main'[Len(main')])
        BY <3>2, <4>1 DEF Judged
      <4>3. main \in Seq(Commit) /\ main' \in Seq(Commit)
        BY TypeStep DEF TypeInv, TypeOK
      <4>4. DOMAIN main' = DOMAIN main \union {Len(main')}
        BY <3>2, <4>3
      <4> HIDE DEF Ok
      <4> QED
        BY <2>1, <3>2, <4>2, <4>4
    <3> HIDE DEF Ok
    <3> QED
      BY <2>2, <3>1, <3>2, MergeAppends
  <2>3. CASE \A w \in Reviewer, n \in Pull : ~Merge(w, n)
    <3>1. \A c : Foreign(c) => Ok(c)
      BY DEF Foreign
    <3> HIDE DEF Ok
    <3> QED
      <4>1. \A i \in DOMAIN main' : Ok(main'[i])
        BY <2>1, <2>3, <3>1, OthersAppend
      <4> QED
        BY <4>1 DEF MergedAsReviewed, Ok
  <2> QED
    BY <2>2, <2>3 DEF MergedAsReviewed
<1> QED
  BY <1>1, <1>2, TypeInvHolds, ReviewInvHolds, PTL DEF Spec

\* A review that merges without an override does so on an approval that a human gave and
\* nobody has withdrawn, if no race happened (governance.py:217).
THEOREM ApprovalsAreHuman == Spec => ApprovalIsHuman
<1> DEFINE A == \A n \in Pull : /\ Len(main') > Len(main) /\ main'[Len(main')].pr = n
                                /\ main'[Len(main')].by = "gate" /\ breach' = {}
                                => n \in consent
<1>1. TypeInv /\ ReviewInv /\ [Next]_vars => [A]_vars
  <2> SUFFICES ASSUME TypeInv, ReviewInv, [Next]_vars, NEW n \in Pull, Len(main') > Len(main),
                      main'[Len(main')].pr = n, main'[Len(main')].by = "gate", breach' = {}
               PROVE  n \in consent
    BY Zenon
  <2>1. main \in Seq(Commit) /\ main' \in Seq(Commit)
    BY TypeStep DEF TypeInv, TypeOK
  <2>2. Len(main') \in DOMAIN main' /\ Len(main') \notin DOMAIN main /\ main' # main
    BY <2>1
  <2>3. PICK w \in Reviewer, k \in Pull : Merge(w, k)
    BY <2>2, OthersAppend DEF Foreign
  <2>4. k = n /\ ~review[w][k].force /\ review[w][k].pc = "merge"
    BY <2>2, <2>3, MergeAppends
  <2>5. breach \subseteq breach'
    BY <2>3 DEF Merge, PushMain, Blame
  <2> QED
    BY <2>4, <2>5 DEF ReviewInv, PullInv, RunInv, Consented
<1> QED
  BY <1>1, TypeInvHolds, ReviewInvHolds, PTL DEF Spec, ApprovalIsHuman

-----------------------------------------------------------------------------
(* What the main guard keeps true of main.                                  *)

\* Races that happened stay on record.
LEMMA BreachGrows == ASSUME [Next]_vars PROVE breach \subseteq breach'
<1> USE DEF github, ghost
<1>1. ASSUME NEW n \in Pull, Human(n) PROVE breach \subseteq breach'
  BY <1>1 DEF Human, Open, PushBranch, Approve, Unlabel, Disturb, Close, MergeByHand,
              ReviewByHand, PushMain, Blame
<1>2. ASSUME NEW w \in Reviewer, NEW n \in Pull, Reviewing(w, n) \/ CancelReview(w, n) PROVE breach \subseteq breach'
  BY <1>2 DEF Reviewing, StartReview, Decide, Stamp, Reread, Edit, Gate, Merge, Reject,
              ReadLabels, ReadAgain, Demote, Disturb, CancelReview, PushMain, Blame
<1>3. ASSUME NEW facts \in Pushes, PushDirectly(facts) PROVE breach \subseteq breach'
  BY <1>3 DEF PushDirectly, PushMain, Blame
<1>4. CASE Guarding \/ GuardFails \/ UNCHANGED vars
  BY <1>4 DEF Guarding, StartGuard, GuardLooks, GuardPushes, GuardFails, Blame, vars
<1> QED
  BY <1>1, <1>2, <1>3, <1>4 DEF Next

-----------------------------------------------------------------------------
(* Reviews keep the approval they read.                                     *)

LEMMA ReviewSet ==
  ASSUME TypeInv, ReviewsKeepApproval, NEW w \in Reviewer, NEW n \in Pull, NEW r, Set(w, n, r),
         r.pc = "edit" /\ "approved" \in r.read => "approved" \in r.desired,
         r.force => w # "workflow"
  PROVE  ReviewsKeepApproval'
<1>1. /\ review'[w][n] = r
      /\ \A v \in Reviewer, m \in Pull : v # w \/ m # n => review'[v][m] = review[v][m]
  BY OneIsSet
<1> QED
  BY <1>1 DEF ReviewsKeepApproval

\* A step of a review that only moves it on, or ends it.
LEMMA ReviewMovesOn ==
  ASSUME TypeInv, ReviewsKeepApproval, NEW w \in Reviewer, NEW n \in Pull,
         EndReview(w, n) \/ \E pc : pc # "edit" /\ Goto(w, n, pc)
  PROVE  ReviewsKeepApproval'
<1>1. CASE EndReview(w, n)
  BY <1>1, ReviewSet DEF EndReview, NoReview
<1>2. ASSUME NEW pc, pc # "edit", Goto(w, n, pc) PROVE ReviewsKeepApproval'
  <2> DEFINE r == [review[w][n] EXCEPT !.pc = pc]
  <2>1. review[w][n] \in Review /\ (review[w][n].force => w # "workflow")
    BY DEF TypeInv, TypeOK, ReviewsKeepApproval
  <2>2. r.pc = pc /\ r.force = review[w][n].force
    BY <2>1 DEF Review
  <2>3. Set(w, n, r)
    BY <1>2 DEF Goto
  <2> HIDE DEF r
  <2> QED
    BY <1>2, <2>1, <2>2, <2>3, ReviewSet
<1> QED
  BY <1>1, <1>2

LEMMA ReviewsKeepStep ==
  ASSUME TypeInv, ReviewsKeepApproval, [Next]_vars
  PROVE  ReviewsKeepApproval'
<1>1. CASE review' = review
  BY <1>1 DEF ReviewsKeepApproval
<1>2. ASSUME NEW n \in Pull, Human(n) PROVE ReviewsKeepApproval'
  <2>1. ASSUME NEW w \in Desk, NEW force \in BOOLEAN, ReviewByHand(w, n, force) PROVE ReviewsKeepApproval'
    <3> DEFINE r == [NoReview EXCEPT !.pc = "start", !.seen = Len(branch[n]), !.mine = Len(branch[n]),
                                     !.force = force]
    <3>1. r.pc = "start" /\ Set(w, n, r) /\ w # "workflow" /\ w \in Reviewer
      BY <2>1, DesksAreNoWorkflow DEF ReviewByHand, NoReview, Reviewer
    <3> HIDE DEF r
    <3> QED
      BY <3>1, ReviewSet
  <2>2. CASE \A w \in Desk, force \in BOOLEAN : ~ReviewByHand(w, n, force)
    BY <1>1, <1>2, <2>2 DEF Human, Open, PushBranch, Approve, Unlabel, Close, MergeByHand
  <2> QED
    BY <2>1, <2>2
<1>3. ASSUME NEW w \in Reviewer, NEW n \in Pull, Reviewing(w, n) \/ CancelReview(w, n) PROVE ReviewsKeepApproval'
  <2>1. CASE w = "workflow" /\ StartReview(n)
    <3> DEFINE r == [NoReview EXCEPT !.pc = "start", !.seen = queued[n], !.mine = queued[n]]
    <3>1. r.pc = "start" /\ ~r.force /\ Set("workflow", n, r) /\ "workflow" \in Reviewer
      BY <2>1 DEF StartReview, NoReview, Reviewer
    <3> HIDE DEF r
    <3> QED
      BY <3>1, ReviewSet
  <2>2. CASE Stamp(w, n)
    <3>1. CASE EndReview(w, n) \/ Goto(w, n, "reread")
      BY <3>1, ReviewMovesOn
    <3>2. CASE Set(w, n, [review[w][n] EXCEPT !.pc = "reread", !.mine = @ + 1])
      <4> DEFINE r == [review[w][n] EXCEPT !.pc = "reread", !.mine = @ + 1]
      <4>1. review[w][n] \in Review /\ (review[w][n].force => w # "workflow")
        BY DEF TypeInv, TypeOK, ReviewsKeepApproval
      <4>2. r.pc = "reread" /\ r.force = review[w][n].force
        BY <4>1 DEF Review
      <4> HIDE DEF r
      <4> QED
        BY <3>2, <4>1, <4>2, ReviewSet DEF r
    <3> QED
      BY <2>2, <3>1, <3>2 DEF Stamp
  <2>3. CASE Reread(w, n)
    <3> DEFINE t == Transition(labels[n], Managed(w, n), FALSE, TRUE)
               r == [review[w][n] EXCEPT !.pc = "edit", !.read = labels[n], !.desired = t]
    <3>1. "approved" \in labels[n] => "approved" \in t
      BY LabelTypes, TransitionCoherent DEF TypeInv, TypeOK
    <3> HIDE DEF t
    <3>2. review[w][n] \in Review /\ (review[w][n].force => w # "workflow")
      BY DEF TypeInv, TypeOK, ReviewsKeepApproval
    <3>3. r.read = labels[n] /\ r.desired = t /\ r.force = review[w][n].force
      BY <3>2 DEF Review
    <3>4. Set(w, n, r)
      BY <2>3 DEF Reread, t
    <3> HIDE DEF r
    <3> QED
      BY <3>1, <3>2, <3>3, <3>4, ReviewSet
  <2>4. CASE Gate(w, n)
    <3>1. CASE EndReview(w, n) \/ Goto(w, n, "merge")
      BY <3>1, ReviewMovesOn
    <3>2. CASE Set(w, n, [review[w][n] EXCEPT !.pc = "merge", !.force = FALSE])
      <4> DEFINE r == [review[w][n] EXCEPT !.pc = "merge", !.force = FALSE]
      <4>1. r.pc = "merge" /\ ~r.force
        BY DEF TypeInv, TypeOK, Review
      <4> HIDE DEF r
      <4> QED
        BY <3>2, <4>1, ReviewSet DEF r
    <3> QED
      BY <2>4, <3>1, <3>2 DEF Gate
  <2>5. CASE ReadLabels(w, n) \/ ReadAgain(w, n)
    <3> DEFINE t == Transition(labels[n], IF Has(w, n, "foreign") THEN labels[n] ELSE Managed(w, n), TRUE, FALSE)
               x == [review[w][n] EXCEPT !.pc = "again", !.desired = t]
               y == [review[w][n] EXCEPT !.pc = "demote", !.read = labels[n]]
    <3> HIDE DEF t
    <3>1. review[w][n] \in Review /\ (review[w][n].force => w # "workflow")
      BY DEF TypeInv, TypeOK, ReviewsKeepApproval
    <3>2. /\ x.pc = "again" /\ x.force = review[w][n].force
          /\ y.pc = "demote" /\ y.force = review[w][n].force
      BY <3>1 DEF Review
    <3>3. Set(w, n, x) \/ Set(w, n, y)
      BY <2>5 DEF ReadLabels, ReadAgain, t
    <3> HIDE DEF x, y
    <3> QED
      BY <3>1, <3>2, <3>3, ReviewSet
  <2>6. ASSUME NEW action \in Action, Decide(w, n, action) PROVE ReviewsKeepApproval'
    <3>1. PICK pc \in {"stamp", "reread", "close", "read"} : Goto(w, n, pc)
      BY <2>6 DEF Decide, Action
    <3> QED
      BY <3>1, ReviewMovesOn
  <2>8. CASE Edit(w, n)
    <3> DEFINE r == [review[w][n] EXCEPT !.pc = "gate", !.read = {}, !.desired = {}]
    <3>1. review[w][n] \in Review /\ (review[w][n].force => w # "workflow")
      BY DEF TypeInv, TypeOK, ReviewsKeepApproval
    <3>2. r.pc = "gate" /\ r.force = review[w][n].force
      BY <3>1 DEF Review
    <3>3. Set(w, n, r)
      BY <2>8 DEF Edit
    <3> HIDE DEF r
    <3> QED
      BY <3>1, <3>2, <3>3, ReviewSet
  <2>7. CASE Merge(w, n) \/ Reject(w, n) \/ Demote(w, n) \/ CancelReview(w, n)
    <3>1. EndReview(w, n)
      BY <2>7 DEF Merge, Reject, Demote, CancelReview
    <3> QED
      BY <3>1, ReviewMovesOn
  <2> QED
    BY <1>3, <2>1, <2>2, <2>3, <2>4, <2>5, <2>6, <2>7, <2>8 DEF Reviewing
<1>4. ASSUME NEW facts \in Pushes, PushDirectly(facts) PROVE ReviewsKeepApproval'
  BY <1>1, <1>4 DEF PushDirectly
<1>5. CASE Guarding \/ GuardFails \/ UNCHANGED vars
  BY <1>1, <1>5 DEF Guarding, StartGuard, GuardLooks, GuardPushes, GuardFails, vars
<1> QED
  BY <1>2, <1>3, <1>4, <1>5 DEF Next

-----------------------------------------------------------------------------
(* Approvals last until the guard has looked.                               *)

\* An approval goes away by a human's hand or an escalation only, and a race is on
\* record when the guard has yet to look at what it let in.
LEMMA ApprovalLost ==
  ASSUME TypeInv, ReviewsKeepApproval, [Next]_vars, breach' = {},
         NEW n \in Pull, state[n] = "merged"
  PROVE  /\ state'[n] = "merged"
         /\ Unseen(n) /\ "approved" \in labels[n] => "approved" \in labels'[n]
<1> USE DEF github, ghost
<1>1. breach \subseteq breach' /\ breach = {}
  BY BreachGrows
<1>2. /\ state \in [Pull -> {"none", "open", "merged", "closed"}]
      /\ labels \in [Pull -> SUBSET Label]
  BY DEF TypeInv, TypeOK
<1>3. ASSUME NEW m \in Pull, Human(m)
      PROVE  /\ state'[n] = "merged"
             /\ Unseen(n) /\ "approved" \in labels[n] => "approved" \in labels'[n]
  <2>1. ASSUME NEW l \in Label, Unlabel(m, l)
        PROVE  /\ state'[n] = "merged"
               /\ Unseen(n) /\ "approved" \in labels[n] => "approved" \in labels'[n]
    <3>1. state' = state /\ labels' = [labels EXCEPT ![m] = @ \ {l}]
      BY <2>1 DEF Unlabel
    <3>2. l = "approved" /\ Unseen(m) => "disowned" \in breach'
      BY <1>2, <2>1, DisturbTypes DEF Unlabel, TypeInv
    <3>3. labels'[n] = IF n = m THEN labels[n] \ {l} ELSE labels[n]
      BY <1>2, <3>1
    <3> QED
      BY <3>1, <3>2, <3>3
  <2>2. ASSUME NEW kind \in Kind, Open(m, kind)
        PROVE  /\ state'[n] = "merged"
               /\ Unseen(n) /\ "approved" \in labels[n] => "approved" \in labels'[n]
    <3>1. m # n
      BY <2>2 DEF Open
    <3> QED
      BY <1>2, <2>2, <3>1 DEF Open
  <2>3. CASE Approve(m)
    BY <1>2, <2>3 DEF Approve
  <2>4. CASE Close(m) \/ MergeByHand(m)
    BY <1>2, <2>4 DEF Close, MergeByHand
  <2>5. CASE (\E kind \in Kind : PushBranch(m, kind)) \/ \E w \in Desk, force \in BOOLEAN : ReviewByHand(w, m, force)
    BY <2>5 DEF PushBranch, ReviewByHand
  <2> QED
    BY <1>3, <2>1, <2>2, <2>3, <2>4, <2>5 DEF Human
<1>4. ASSUME NEW w \in Reviewer, NEW m \in Pull, Reviewing(w, m) \/ CancelReview(w, m)
      PROVE  /\ state'[n] = "merged"
             /\ Unseen(n) /\ "approved" \in labels[n] => "approved" \in labels'[n]
  <2>1. CASE Edit(w, m)
    <3>1. review[w][m].pc = "edit" /\ state' = state /\ labels' = [labels EXCEPT ![m] = Reconcile(w, m)]
      BY <2>1 DEF Edit, At
    <3>2. "approved" \in labels[m] => "approved" \in Reconcile(w, m)
      BY <3>1 DEF Reconcile, ReviewsKeepApproval
    <3> QED
      BY <1>2, <3>1, <3>2
  <2>2. CASE Demote(w, m)
    <3>1. state' = state /\ labels' = [labels EXCEPT ![m] = Reconcile(w, m)]
      BY <2>2 DEF Demote
    <3>2. "approved" \in labels[m] \ labels'[m] /\ Unseen(m) => "disowned" \in breach'
      BY <2>2, DisturbTypes DEF Demote, TypeInv
    <3> QED
      BY <1>2, <3>1, <3>2
  <2>3. CASE Merge(w, m) \/ Reject(w, m)
    BY <1>2, <2>3 DEF Merge, Reject
  <2>4. CASE \/ StartReview(m) \/ (\E action \in Action : Decide(w, m, action)) \/ Stamp(w, m)
             \/ Reread(w, m) \/ Gate(w, m) \/ ReadLabels(w, m) \/ ReadAgain(w, m) \/ CancelReview(w, m)
    BY <2>4 DEF StartReview, Decide, Stamp, Reread, Gate, ReadLabels, ReadAgain, CancelReview
  <2> QED
    BY <1>4, <2>1, <2>2, <2>3, <2>4 DEF Reviewing
<1>5. CASE \/ (\E facts \in Pushes : PushDirectly(facts)) \/ Guarding \/ GuardFails
           \/ UNCHANGED vars
  BY <1>5 DEF PushDirectly, Guarding, StartGuard, GuardLooks, GuardPushes, GuardFails, vars
<1> QED
  BY <1>3, <1>4, <1>5 DEF Next

\* A commit of a pull request that was merged with an approval keeps what the guard
\* will ask for.
LEMMA OldApprovalsLast ==
  ASSUME TypeInv, ReviewsKeepApproval, [Next]_vars, breach' = {}, ApprovalsLast,
         NEW i \in DOMAIN main, main[i].pr # 0
  PROVE  /\ state'[main[i].pr] = "merged"
         /\ main[i].approved /\ i \notin vetted => "approved" \in labels'[main[i].pr]
<1>1. main[i] \in Commit
  BY DEF TypeInv, TypeOK
<1>2. main[i].pr \in Pull /\ state[main[i].pr] = "merged"
  BY <1>1 DEF Commit, ApprovalsLast
<1>3. main[i].approved /\ i \notin vetted => Unseen(main[i].pr) /\ "approved" \in labels[main[i].pr]
  BY DEF Unseen, ApprovalsLast
<1> QED
  BY <1>2, <1>3, ApprovalLost

-----------------------------------------------------------------------------
(* Pushes to main.                                                          *)

\* Main with commits on top: what was undone is, and the old commits are as they were.
LEMMA UndoneStays ==
  ASSUME TypeInv, NEW c \in Seq(Commit), main' = main \o c
  PROVE  /\ Len(main') = Len(main) + Len(c) /\ Len(main) \in Nat /\ Len(c) \in Nat
         /\ DOMAIN main = 1 .. Len(main) /\ DOMAIN main' = 1 .. Len(main')
         /\ \A i \in DOMAIN main : main'[i] = main[i]
         /\ \A i \in DOMAIN main' : i \in DOMAIN main \/ \E k \in DOMAIN c : main'[i] = c[k]
         /\ \A i \in DOMAIN main : Undone(i) => Undone(i)'
<1>1. main \in Seq(Commit)
  BY DEF TypeInv, TypeOK
<1>2. /\ Len(main') = Len(main) + Len(c) /\ Len(main) \in Nat /\ Len(c) \in Nat
      /\ DOMAIN main = 1 .. Len(main) /\ DOMAIN main' = 1 .. Len(main')
      /\ \A i \in DOMAIN main : main'[i] = main[i]
      /\ \A k \in DOMAIN c : main'[Len(main) + k] = c[k]
  BY <1>1
<1>3. ASSUME NEW i \in DOMAIN main', i \notin DOMAIN main
      PROVE  \E k \in DOMAIN c : main'[i] = c[k]
  <2>1. i - Len(main) \in DOMAIN c /\ i = Len(main) + (i - Len(main))
    BY <1>2, <1>3
  <2> QED
    BY <1>2, <2>1
<1>4. ASSUME NEW i \in DOMAIN main, Undone(i) PROVE Undone(i)'
  <2>1. PICK j \in i + 1 .. Len(main) : i \in main[j].undo
    BY <1>4 DEF Undone
  <2>2. j \in DOMAIN main /\ j \in i + 1 .. Len(main')
    BY <1>2, <2>1
  <2> QED
    BY <1>2, <2>1, <2>2 DEF Undone
<1> QED
  BY <1>2, <1>3, <1>4

LEMMA PairParts == \A a, b : <<a, b>>[1] = a /\ <<a, b>>[2] = b /\ <<a, b>> # << >>
  OBVIOUS

\* A push that the guard hears of, or of a quiet review's merge.
LEMMA PushKeeps ==
  ASSUME TypeInv, InOrder, NEW c \in Seq(Commit), NEW starts \in BOOLEAN, PushMain(c, starts),
         UNCHANGED <<guard, vetted, loud>>,
         \A k \in DOMAIN c : /\ c[k].by # "guard" /\ c[k].undo = {}
                             /\ starts \/ (~loud /\ c[k].by = "gate")
  PROVE  /\ InOrder'
         /\ breach' = {} /\ GuardsUndo => GuardsUndo'
         /\ breach' = {} /\ EachIsLookedAt => EachIsLookedAt'
<1>1. main' = main \o c
  BY DEF PushMain
<1>2. /\ Len(main') = Len(main) + Len(c) /\ Len(main) \in Nat /\ Len(c) \in Nat
      /\ DOMAIN main = 1 .. Len(main) /\ DOMAIN main' = 1 .. Len(main')
      /\ \A i \in DOMAIN main : main'[i] = main[i]
      /\ \A i \in DOMAIN main' : i \in DOMAIN main \/ \E k \in DOMAIN c : main'[i] = c[k]
      /\ \A i \in DOMAIN main : Undone(i) => Undone(i)'
  BY <1>1, UndoneStays
<1>3. /\ starts => waiting' = <<Len(main), Len(main')>> /\ (breach' = {} => waiting = << >>)
      /\ ~starts => waiting' = waiting
  BY <1>2 DEF PushMain, Blame
<1>4. /\ vetted \subseteq DOMAIN main /\ guard.after <= Len(main) /\ guard.after \in Nat
      /\ guard.revert \subseteq DOMAIN main
  <2>1. guard.after <= Len(main) /\ guard.after \in Nat /\ guard.revert \subseteq 1 .. guard.after
    BY DEF TypeInv, TypeOK, Guard
  <2>2. guard.revert \subseteq 1 .. Len(main)
    BY <1>2, <2>1
  <2> QED
    BY <1>2, <2>1, <2>2 DEF TypeInv, TypeOK
<1>5. InOrder'
  <2>1. CASE starts
    BY <1>2, <1>3, <1>4, <2>1 DEF InOrder
  <2>2. CASE ~starts
    BY <1>3, <2>2 DEF InOrder
  <2> QED
    BY <2>1, <2>2
<1>6. ASSUME breach' = {}, GuardsUndo PROVE GuardsUndo'
  <2>1. \A j \in DOMAIN main' : main'[j].by # "guard" => main'[j].undo = {}
    BY <1>2, <1>6 DEF GuardsUndo
  <2>2. ASSUME NEW j \in DOMAIN main', NEW i \in main'[j].undo
        PROVE  i \in 1 .. j - 1 /\ main'[i].by # "guard" /\ ~(main'[i].pr # 0 /\ main'[i].approved)
    <3>1. j \in DOMAIN main /\ i \in main[j].undo
      BY <1>2, <2>2
    <3>2. i \in 1 .. j - 1
      BY <1>6, <3>1 DEF GuardsUndo
    <3>3. i \in DOMAIN main
      BY <1>2, <3>1, <3>2
    <3> QED
      BY <1>2, <1>6, <3>1, <3>2, <3>3 DEF GuardsUndo
  <2>3. guard'.pc = "push" =>
          \A i \in guard'.revert : ~(main'[i].pr # 0 /\ main'[i].approved)
    BY <1>2, <1>4, <1>6 DEF GuardsUndo
  <2> QED
    BY <2>1, <2>2, <2>3 DEF GuardsUndo
<1>7. ASSUME breach' = {}, EachIsLookedAt PROVE EachIsLookedAt'
  <2> SUFFICES ASSUME NEW i \in DOMAIN main', main'[i].facts, main'[i].by # "guard"
               PROVE  (i \in vetted \/ Undone(i) \/ Ahead(i) \/ (~loud /\ main[i].by = "gate"))'
    BY DEF EachIsLookedAt
  <2>1. CASE i \in DOMAIN main
    <3>1. i \in vetted \/ Undone(i) \/ Ahead(i) \/ (~loud /\ main[i].by = "gate")
      BY <1>2, <1>7, <2>1 DEF EachIsLookedAt
    <3>2. Ahead(i) => Ahead(i)'
      BY <1>3, <1>7 DEF Ahead
    <3>3. main'[i] = main[i] /\ (Undone(i) => Undone(i)') /\ loud' = loud /\ vetted' = vetted
      BY <1>2, <2>1
    <3> QED
      BY <3>1, <3>2, <3>3
  <2>2. CASE i \notin DOMAIN main /\ starts
    <3>1. waiting'[1] = Len(main) /\ waiting'[2] = Len(main') /\ waiting' # << >>
      <4>1. waiting' = <<Len(main), Len(main')>>
        BY <1>3, <2>2
      <4> HIDE <1>3
      <4> QED
        BY <4>1, PairParts, Zenon
    <3>2. i \in waiting'[1] + 1 .. waiting'[2]
      BY <1>2, <2>2, <3>1
    <3> QED
      BY <3>1, <3>2 DEF Ahead
  <2>3. CASE i \notin DOMAIN main /\ ~starts
    <3>1. main'[i].by = "gate" /\ ~loud'
      BY <1>2, <2>3
    <3> QED
      BY <3>1
  <2> QED
    BY <2>1, <2>2, <2>3
<1> QED
  BY <1>5, <1>6, <1>7

\* A merge by a human, or by a review.
LEMMA SquashLands ==
  ASSUME TypeInv, NEW n \in Pull, NEW by \in {"human", "gate", "override"}, NEW starts \in BOOLEAN,
         state[n] = "open", state' = [state EXCEPT ![n] = "merged"],
         NEW seen \in Nat, PushMain(<<Squash(n, by, seen)>>, starts), UNCHANGED <<labels, guard, vetted, loud>>,
         starts \/ (~loud /\ by = "gate")
  PROVE  /\ InOrder => InOrder'
         /\ InOrder /\ breach' = {} /\ GuardsUndo => GuardsUndo'
         /\ InOrder /\ breach' = {} /\ EachIsLookedAt => EachIsLookedAt'
         /\ \A i \in DOMAIN main : i \in DOMAIN main' /\ main'[i] = main[i]
         /\ \A i \in DOMAIN main' : i \in DOMAIN main \/
              /\ state'[main'[i].pr] = "merged"
              /\ main'[i].approved => "approved" \in labels'[main'[i].pr]
<1> DEFINE c == Squash(n, by, seen)
<1>1. /\ c \in Commit /\ c.pr = n /\ c.by = by /\ c.undo = {} /\ c.by # "guard"
      /\ c.approved <=> "approved" \in labels[n]
  <2>1. c \in Commit
    BY SquashType DEF TypeInv
  <2> QED
    BY <2>1 DEF Squash
<1>2. PushMain(<<c>>, starts)
  OBVIOUS
<1> HIDE DEF c
<1>3. <<c>> \in Seq(Commit) /\ \A k \in DOMAIN <<c>> : <<c>>[k] = c
  BY <1>1
<1> DEFINE s == <<c>>
<1> HIDE DEF s
<1>4. s \in Seq(Commit) /\ (\A k \in DOMAIN s : s[k] = c) /\ PushMain(s, starts) /\ main' = main \o s
  BY <1>2, <1>3 DEF s, PushMain
<1>5. \A k \in DOMAIN s : /\ s[k].by # "guard" /\ s[k].undo = {}
                          /\ starts \/ (~loud /\ s[k].by = "gate")
  BY <1>1, <1>4
<1>6. /\ \A i \in DOMAIN main : i \in DOMAIN main' /\ main'[i] = main[i]
      /\ \A i \in DOMAIN main' : i \in DOMAIN main \/ \E k \in DOMAIN s : main'[i] = s[k]
  <2>1. /\ Len(main') = Len(main) + Len(s) /\ Len(main) \in Nat /\ Len(s) \in Nat
        /\ DOMAIN main = 1 .. Len(main) /\ DOMAIN main' = 1 .. Len(main')
        /\ \A i \in DOMAIN main : main'[i] = main[i]
        /\ \A i \in DOMAIN main' : i \in DOMAIN main \/ \E k \in DOMAIN s : main'[i] = s[k]
    BY <1>4, UndoneStays
  <2> QED
    BY <2>1
<1>7. state'[n] = "merged"
  BY DEF TypeInv, TypeOK
<1>8. ASSUME NEW i \in DOMAIN main', i \notin DOMAIN main
      PROVE  /\ state'[main'[i].pr] = "merged"
             /\ main'[i].approved => "approved" \in labels'[main'[i].pr]
  <2>1. main'[i] = c
    BY <1>4, <1>6, <1>8
  <2> QED
    BY <1>1, <1>7, <2>1
<1>9. ASSUME InOrder
      PROVE  /\ InOrder'
             /\ breach' = {} /\ GuardsUndo => GuardsUndo'
             /\ breach' = {} /\ EachIsLookedAt => EachIsLookedAt'
  BY <1>4, <1>5, <1>9, PushKeeps
<1> QED
  BY <1>6, <1>8, <1>9

LEMMA MergeByHandKeepsMain ==
  ASSUME TypeInv, NEW n \in Pull, MergeByHand(n)
  PROVE  /\ InOrder => InOrder'
         /\ InOrder /\ breach' = {} /\ GuardsUndo => GuardsUndo'
         /\ InOrder /\ breach' = {} /\ EachIsLookedAt => EachIsLookedAt'
         /\ \A i \in DOMAIN main : i \in DOMAIN main' /\ main'[i] = main[i]
         /\ \A i \in DOMAIN main' : i \in DOMAIN main \/
              /\ state'[main'[i].pr] = "merged"
              /\ main'[i].approved => "approved" \in labels'[main'[i].pr]
<1>1. /\ state[n] = "open" /\ state' = [state EXCEPT ![n] = "merged"]
      /\ PushMain(<<Squash(n, "human", 0)>>, TRUE) /\ UNCHANGED <<labels, guard, vetted, loud>>
  BY DEF MergeByHand
<1> QED
  BY <1>1, SquashLands

\* A review that merges quietly does so by an approval.
LEMMA MergeKeepsMain ==
  ASSUME TypeInv, ReviewsKeepApproval, NEW w \in Reviewer, NEW n \in Pull, Merge(w, n)
  PROVE  /\ InOrder => InOrder'
         /\ InOrder /\ breach' = {} /\ GuardsUndo => GuardsUndo'
         /\ InOrder /\ breach' = {} /\ EachIsLookedAt => EachIsLookedAt'
         /\ \A i \in DOMAIN main : i \in DOMAIN main' /\ main'[i] = main[i]
         /\ \A i \in DOMAIN main' : i \in DOMAIN main \/
              /\ state'[main'[i].pr] = "merged"
              /\ main'[i].approved => "approved" \in labels'[main'[i].pr]
<1>1. UNCHANGED <<labels, guard, vetted, loud>>
  BY DEF Merge
<1>2. CASE state[n] = "open" /\ Len(branch[n]) = review[w][n].mine
  <2> DEFINE by == IF review[w][n].force THEN "override" ELSE "gate"
             starts == Audible(w)
             seen == review[w][n].seen
  <2>1. state' = [state EXCEPT ![n] = "merged"] /\ PushMain(<<Squash(n, by, seen)>>, starts)
    BY <1>2 DEF Merge
  <2>2. review[w][n].force => w # "workflow"
    BY DEF ReviewsKeepApproval
  <2>3. by \in {"human", "gate", "override"} /\ starts \in BOOLEAN /\ (starts \/ (~loud /\ by = "gate"))
        /\ seen \in Nat
    BY <2>2 DEF TypeInv, TypeOK, Review, Audible
  <2> HIDE DEF by, starts, seen
  <2> QED
    BY <1>1, <1>2, <2>1, <2>3, SquashLands
<1>3. CASE ~(state[n] = "open" /\ Len(branch[n]) = review[w][n].mine)
  <2>1. UNCHANGED <<main, waiting>>
    BY <1>3 DEF Merge
  <2> QED
    BY <1>1, <2>1 DEF InOrder, GuardsUndo, EachIsLookedAt, Undone, Ahead
<1> QED
  BY <1>2, <1>3

LEMMA PushDirectlyKeepsMain ==
  ASSUME TypeInv, NEW facts \in Pushes, PushDirectly(facts)
  PROVE  /\ InOrder => InOrder'
         /\ InOrder /\ breach' = {} /\ GuardsUndo => GuardsUndo'
         /\ InOrder /\ breach' = {} /\ EachIsLookedAt => EachIsLookedAt'
         /\ \A i \in DOMAIN main : i \in DOMAIN main' /\ main'[i] = main[i]
         /\ \A i \in DOMAIN main' : i \in DOMAIN main \/ main'[i].pr = 0
<1> DEFINE c(i) == [pr |-> 0, facts |-> facts[i], by |-> "human", seen |-> 0, content |-> << >>,
                    undo |-> {}, base |-> 0, approved |-> FALSE]
           s == [i \in DOMAIN facts |-> c(i)]
<1>1. PushMain(s, TRUE) /\ UNCHANGED <<guard, vetted, loud>>
  BY DEF PushDirectly, github
<1>2. facts \in Seq(BOOLEAN)
  <2>1. <<TRUE>> \in Seq(BOOLEAN) /\ <<TRUE, FALSE>> \in Seq(BOOLEAN)
    OBVIOUS
  <2> QED
    BY <2>1 DEF Pushes
<1>3. \A i \in DOMAIN facts : c(i) \in Commit /\ c(i).by # "guard" /\ c(i).undo = {} /\ c(i).pr = 0
  BY <1>2 DEF Commit
<1> HIDE DEF c
<1>4. s \in Seq(Commit) /\ DOMAIN s = DOMAIN facts /\ \A i \in DOMAIN s : s[i] = c(i)
  BY <1>2, <1>3
<1> HIDE DEF s
<1>5. \A k \in DOMAIN s : s[k].by # "guard" /\ s[k].undo = {} /\ s[k].pr = 0
  BY <1>3, <1>4
<1>6. /\ \A i \in DOMAIN main : i \in DOMAIN main' /\ main'[i] = main[i]
      /\ \A i \in DOMAIN main' : i \in DOMAIN main \/ \E k \in DOMAIN s : main'[i] = s[k]
  <2>1. main' = main \o s
    BY <1>1 DEF PushMain
  <2>2. /\ Len(main') = Len(main) + Len(s) /\ Len(main) \in Nat /\ Len(s) \in Nat
        /\ DOMAIN main = 1 .. Len(main) /\ DOMAIN main' = 1 .. Len(main')
        /\ \A i \in DOMAIN main : main'[i] = main[i]
        /\ \A i \in DOMAIN main' : i \in DOMAIN main \/ \E k \in DOMAIN s : main'[i] = s[k]
    BY <1>4, <2>1, UndoneStays
  <2> QED
    BY <2>2
<1>7. \A i \in DOMAIN main' : i \in DOMAIN main \/ main'[i].pr = 0
  BY <1>5, <1>6
<1>8. ASSUME InOrder
      PROVE  /\ InOrder'
             /\ breach' = {} /\ GuardsUndo => GuardsUndo'
             /\ breach' = {} /\ EachIsLookedAt => EachIsLookedAt'
  BY <1>1, <1>4, <1>5, <1>8, PushKeeps
<1> QED
  BY <1>6, <1>7, <1>8

-----------------------------------------------------------------------------
(* The guard's own steps.                                                   *)

\* What the guard and the push that waits for it say of main.
LEMMA GuardFacts ==
  ASSUME TypeInv
  PROVE  /\ main \in Seq(Commit) /\ Len(main) \in Nat /\ DOMAIN main = 1 .. Len(main)
         /\ guard.before \in Nat /\ guard.after \in Nat /\ guard.before <= guard.after
         /\ guard.after <= Len(main) /\ guard.revert \subseteq 1 .. guard.after
         /\ vetted \subseteq 1 .. Len(main)
         /\ waiting # << >> => /\ waiting[1] \in Nat /\ waiting[2] \in Nat /\ waiting[1] <= waiting[2]
                               /\ waiting[2] <= Len(main)
<1>1. main \in Seq(Commit) /\ Len(main) \in Nat /\ DOMAIN main = 1 .. Len(main)
  BY DEF TypeInv, TypeOK
<1>2. waiting # << >> => /\ waiting[1] \in Nat /\ waiting[2] \in Nat /\ waiting[1] <= waiting[2]
                         /\ waiting[2] <= Len(main)
  BY DEF TypeInv, WaitingFits
<1> QED
  BY <1>1, <1>2 DEF TypeInv, TypeOK, Guard

LEMMA StartGuardKeepsMain ==
  ASSUME TypeInv, InOrder, StartGuard
  PROVE  /\ InOrder'
         /\ GuardsUndo => GuardsUndo'
         /\ EachIsLookedAt => EachIsLookedAt'
<1>1. /\ guard.pc = "idle" /\ waiting # << >> /\ waiting' = << >>
      /\ guard'.pc = "look" /\ guard'.before = waiting[1] /\ guard'.after = waiting[2]
      /\ UNCHANGED <<main, vetted, loud>>
  BY DEF StartGuard, NoGuard, github, ghost
<1>2. InOrder'
  BY <1>1 DEF InOrder
<1>3. GuardsUndo => GuardsUndo'
  BY <1>1 DEF GuardsUndo
<1>4. EachIsLookedAt => EachIsLookedAt'
  <2>1. \A i : Ahead(i) => Ahead(i)'
    BY <1>1 DEF Ahead
  <2> QED
    BY <1>1, <2>1 DEF EachIsLookedAt, Undone
<1> QED
  BY <1>2, <1>3, <1>4

LEMMA GuardLooksKeepsMain ==
  ASSUME TypeInv, InOrder, GuardLooks
  PROVE  /\ InOrder'
         /\ GuardsUndo /\ ApprovalsLast => GuardsUndo'
         /\ EachIsLookedAt => EachIsLookedAt'
<1> DEFINE bad == {i \in Pushed : ~Authorized(main[i])}
<1>1. /\ guard.pc = "look" /\ UNCHANGED <<loud, main, waiting>>
      /\ vetted' = vetted \union {i \in Pushed : Authorized(main[i])}
      /\ \/ guard'.pc = "idle" /\ (OwnRevert \/ bad = {})
         \/ guard'.pc = "push" /\ guard'.revert = bad /\ guard'.after = guard.after
  <2>1. /\ guard.pc = "look" /\ UNCHANGED <<loud, main, waiting>>
        /\ vetted' = vetted \union {i \in Pushed : Authorized(main[i])}
        /\ IF OwnRevert \/ bad = {} THEN guard' = NoGuard
           ELSE guard' = [guard EXCEPT !.pc = "push", !.revert = bad]
    BY DEF GuardLooks, github
  <2> HIDE DEF bad
  <2>2. guard \in Guard
    BY DEF TypeInv
  <2>3. CASE OwnRevert \/ bad = {}
    BY <2>1, <2>3 DEF NoGuard
  <2>4. CASE ~(OwnRevert \/ bad = {})
    <3>1. guard' = [guard EXCEPT !.pc = "push", !.revert = bad]
      BY <2>1, <2>4
    <3>2. guard'.pc = "push" /\ guard'.revert = bad /\ guard'.after = guard.after
      BY <2>2, <3>1 DEF Guard
    <3> QED
      BY <2>1, <3>2
  <2> QED
    BY <2>3, <2>4
<1> HIDE DEF bad
<1>2. Pushed \subseteq guard.before + 1 .. guard.after
  BY DEF Pushed
<1>3. InOrder'
  <2>1. guard'.pc # "look"
    BY <1>1
  <2>2. ASSUME waiting' # << >> PROVE vetted' \subseteq 1 .. waiting'[1] /\ (guard'.pc # "idle" => guard'.after <= waiting'[1])
    <3>1. vetted \subseteq 1 .. waiting[1] /\ guard.after <= waiting[1] /\ waiting[1] \in Nat
      BY <1>1, <2>2, GuardFacts DEF InOrder
    <3>2. Pushed \subseteq 1 .. waiting[1]
      BY <1>2, <3>1, GuardFacts
    <3> QED
      BY <1>1, <3>1, <3>2
  <2> QED
    BY <2>1, <2>2 DEF InOrder
<1>4. ASSUME GuardsUndo, ApprovalsLast PROVE GuardsUndo'
  <2>1. ASSUME NEW i \in bad PROVE ~(main[i].pr # 0 /\ main[i].approved)
    <3>1. i \in guard.before + 1 .. guard.after /\ ~Authorized(main[i])
      BY <1>2 DEF bad
    <3>2. i \in DOMAIN main /\ i \notin vetted
      BY <1>1, <3>1, GuardFacts DEF InOrder
    <3> QED
      BY <1>4, <3>1, <3>2 DEF ApprovalsLast, Authorized
  <2>2. guard'.pc = "push" => \A i \in guard'.revert : ~(main'[i].pr # 0 /\ main'[i].approved)
    BY <1>1, <2>1
  <2> QED
    BY <1>1, <1>4, <2>2 DEF GuardsUndo
<1>5. ASSUME EachIsLookedAt PROVE EachIsLookedAt'
  <2> SUFFICES ASSUME NEW i \in DOMAIN main, main[i].facts, main[i].by # "guard"
               PROVE  \/ i \in vetted' \/ Undone(i)' \/ Ahead(i)'
                      \/ (~loud' /\ main[i].by = "gate")
    BY <1>1 DEF EachIsLookedAt
  <2>1. i \in vetted \/ Undone(i) \/ Ahead(i) \/ (~loud /\ main[i].by = "gate")
    BY <1>5 DEF EachIsLookedAt
  <2>2. Undone(i) => Undone(i)'
    BY <1>1 DEF Undone
  <2>3. CASE i \in guard.before + 1 .. guard.after
    <3>1. i \in Pushed
      BY <2>3 DEF Pushed
    <3>2. CASE Authorized(main[i])
      BY <1>1, <3>1, <3>2
    <3>3. CASE ~Authorized(main[i])
      <4>1. i \in bad
        BY <3>1, <3>3 DEF bad
      <4>2. ~OwnRevert
        <5>1. ASSUME OwnRevert PROVE FALSE
          <6>1. guard.before = guard.after - 1 /\ main[guard.after].by = "guard"
            BY <5>1 DEF OwnRevert
          <6>2. i = guard.after
            BY <2>3, <6>1, GuardFacts
          <6> QED
            BY <6>1, <6>2
        <5> QED
          BY <5>1
      <4>3. guard'.pc = "push" /\ guard'.revert = bad
        BY <1>1, <4>1, <4>2
      <4> QED
        BY <4>1, <4>3 DEF Ahead
    <3> QED
      BY <3>2, <3>3
  <2>4. CASE i \notin guard.before + 1 .. guard.after
    <3>1. Ahead(i) => Ahead(i)'
      BY <1>1, <2>4 DEF Ahead
    <3> QED
      BY <1>1, <2>1, <2>2, <3>1
  <2> QED
    BY <2>3, <2>4
<1> QED
  BY <1>3, <1>4, <1>5

\* A revert is of what was pushed last, or the guard is outrun.
LEMMA GuardPushesKeepsMain ==
  ASSUME TypeInv, InOrder, GuardPushes
  PROVE  /\ InOrder'
         /\ breach' = {} /\ GuardsUndo => GuardsUndo'
         /\ breach' = {} /\ EachIsLookedAt => EachIsLookedAt'
         /\ \A i \in DOMAIN main : i \in DOMAIN main' /\ main'[i] = main[i]
         /\ \A i \in DOMAIN main' : i \in DOMAIN main \/ main'[i].pr = 0
<1>1. guard.pc = "push" /\ guard'.pc = "idle" /\ UNCHANGED <<loud, vetted>>
  BY DEF GuardPushes, NoGuard, github
<1>2. CASE Len(main) # guard.after
  <2>1. UNCHANGED <<main, waiting>> /\ breach' # {}
    BY <1>2 DEF GuardPushes, Blame
  <2> QED
    BY <1>1, <2>1 DEF InOrder
<1>3. CASE Len(main) = guard.after
  <2> DEFINE c == [pr |-> 0, facts |-> TRUE, by |-> "guard", seen |-> 0, content |-> << >>,
                   undo |-> guard.revert, base |-> guard.before, approved |-> FALSE]
  <2>1. /\ main' = Append(main, c)
        /\ waiting' = IF loud THEN <<guard.after, guard.after + 1>> ELSE waiting
        /\ breach' = {} => \A i \in guard.revert : main[i].by # "guard"
    BY <1>3 DEF GuardPushes, Blame
  <2>2. c.pr = 0 /\ c.by = "guard" /\ c.undo = guard.revert
    OBVIOUS
  <2> HIDE DEF c
  <2>3. /\ Len(main') = Len(main) + 1 /\ DOMAIN main' = 1 .. Len(main) + 1
        /\ \A i \in DOMAIN main : main'[i] = main[i]
        /\ main'[Len(main) + 1] = c
    BY <2>1, GuardFacts
  <2>4. /\ \A i \in DOMAIN main : i \in DOMAIN main' /\ main'[i] = main[i]
        /\ \A i \in DOMAIN main' : i \in DOMAIN main \/ (i = Len(main) + 1 /\ main'[i] = c)
    BY <2>3, GuardFacts
  <2>5. InOrder'
    <3>1. CASE loud
      <4>1. waiting'[1] = guard.after
        BY <2>1, <3>1
      <4> QED
        BY <1>1, <1>3, <4>1, GuardFacts DEF InOrder
    <3>2. CASE ~loud
      BY <1>1, <2>1, <3>2 DEF InOrder
    <3> QED
      BY <3>1, <3>2
  <2>6. ASSUME breach' = {}, GuardsUndo PROVE GuardsUndo'
    <3>1. \A j \in DOMAIN main' : main'[j].by # "guard" => main'[j].undo = {}
      BY <2>2, <2>4, <2>6 DEF GuardsUndo
    <3>2. ASSUME NEW j \in DOMAIN main', NEW i \in main'[j].undo
          PROVE  i \in 1 .. j - 1 /\ main'[i].by # "guard" /\ ~(main'[i].pr # 0 /\ main'[i].approved)
      <4>1. CASE j \in DOMAIN main
        <5>1. i \in main[j].undo
          BY <2>4, <4>1
        <5>2. i \in 1 .. j - 1 /\ main[i].by # "guard" /\ ~(main[i].pr # 0 /\ main[i].approved)
          BY <2>6, <4>1, <5>1 DEF GuardsUndo
        <5>3. i \in DOMAIN main
          BY <4>1, <5>2, GuardFacts
        <5> QED
          BY <2>4, <5>2, <5>3
      <4>2. CASE j \notin DOMAIN main
        <5>1. j = Len(main) + 1 /\ i \in guard.revert
          BY <2>2, <2>4, <4>2
        <5>2. i \in DOMAIN main /\ i \in 1 .. j - 1
          BY <1>3, <5>1, GuardFacts
        <5>3. main[i].by # "guard" /\ ~(main[i].pr # 0 /\ main[i].approved)
          BY <1>1, <2>1, <2>6, <5>1 DEF GuardsUndo
        <5> QED
          BY <2>4, <5>2, <5>3
      <4> QED
        BY <4>1, <4>2
    <3> QED
      BY <1>1, <3>1, <3>2 DEF GuardsUndo
  <2>7. ASSUME EachIsLookedAt PROVE EachIsLookedAt'
    <3> SUFFICES ASSUME NEW i \in DOMAIN main', main'[i].facts, main'[i].by # "guard"
                 PROVE  \/ i \in vetted' \/ Undone(i)' \/ Ahead(i)'
                        \/ (~loud' /\ main'[i].by = "gate")
      BY DEF EachIsLookedAt
    <3>1. i \in DOMAIN main /\ main'[i] = main[i]
      BY <2>2, <2>4
    <3>2. i \in vetted \/ Undone(i) \/ Ahead(i) \/ (~loud /\ main[i].by = "gate")
      BY <2>7, <3>1 DEF EachIsLookedAt
    <3>3. Undone(i) => Undone(i)'
      <4>1. ASSUME NEW j \in i + 1 .. Len(main), i \in main[j].undo PROVE Undone(i)'
        <5>1. j \in DOMAIN main /\ j \in i + 1 .. Len(main')
          BY <2>3, <3>1, GuardFacts
        <5> QED
          BY <2>4, <4>1, <5>1 DEF Undone
      <4> QED
        BY <4>1 DEF Undone
    <3>4. i \in guard.revert => Undone(i)'
      <4>1. Len(main) + 1 \in i + 1 .. Len(main')
        BY <2>3, <3>1, GuardFacts
      <4> QED
        BY <2>2, <2>3, <4>1 DEF Undone
    <3>5. Ahead(i) => i \in guard.revert
      <4>1. waiting # << >> => guard.after <= waiting[1]
        BY <1>1 DEF InOrder
      <4>2. ~(waiting # << >> /\ i \in waiting[1] + 1 .. waiting[2])
        BY <1>3, <4>1, GuardFacts
      <4> QED
        BY <1>1, <4>2 DEF Ahead
    <3> QED
      BY <1>1, <3>1, <3>2, <3>3, <3>4, <3>5
  <2>8. \A i \in DOMAIN main' : i \in DOMAIN main \/ main'[i].pr = 0
    BY <2>2, <2>4
  <2> QED
    BY <2>4, <2>5, <2>6, <2>7, <2>8
<1> QED
  BY <1>2, <1>3

LEMMA GuardFailsKeepsMain == ASSUME InOrder, GuardFails PROVE InOrder' /\ breach' # {}
<1>1. guard'.pc = "idle" /\ UNCHANGED <<waiting, vetted>> /\ breach' # {}
  BY DEF GuardFails, NoGuard, Blame
<1> QED
  BY <1>1 DEF InOrder

-----------------------------------------------------------------------------
(* The invariant of main.                                                   *)

\* Who changes main, or what the guard knows of it.
LEMMA WhoMovesMain ==
  ASSUME [Next]_vars
  PROVE  \/ UNCHANGED <<loud, main, waiting, guard, vetted>>
         \/ \E n \in Pull : MergeByHand(n) \/ \E w \in Reviewer : Merge(w, n)
         \/ \E facts \in Pushes : PushDirectly(facts)
         \/ StartGuard \/ GuardLooks \/ GuardPushes \/ GuardFails
<1> USE DEF github, ghost
<1>1. ASSUME NEW n \in Pull, Human(n) PROVE MergeByHand(n) \/ UNCHANGED <<loud, main, waiting, guard, vetted>>
  BY <1>1 DEF Human, Open, PushBranch, Approve, Unlabel, Close, ReviewByHand
<1>2. ASSUME NEW w \in Reviewer, NEW n \in Pull, Reviewing(w, n) \/ CancelReview(w, n)
      PROVE  Merge(w, n) \/ UNCHANGED <<loud, main, waiting, guard, vetted>>
  BY <1>2 DEF Reviewing, StartReview, Decide, Stamp, Reread, Edit, Gate, Reject, ReadLabels, ReadAgain,
              Demote, CancelReview
<1>3. CASE UNCHANGED vars
  BY <1>3 DEF vars
<1> QED
  BY <1>1, <1>2, <1>3 DEF Next, Guarding

LEMMA VettedGrows == ASSUME [Next]_vars PROVE vetted \subseteq vetted'
<1>1. CASE GuardLooks
  BY <1>1 DEF GuardLooks
<1>2. CASE \E n \in Pull : MergeByHand(n) \/ \E w \in Reviewer : Merge(w, n)
  BY <1>2 DEF MergeByHand, Merge
<1>3. CASE (\E facts \in Pushes : PushDirectly(facts)) \/ StartGuard \/ GuardPushes \/ GuardFails
  BY <1>3 DEF PushDirectly, StartGuard, GuardPushes, GuardFails, ghost
<1> QED
  BY <1>1, <1>2, <1>3, WhoMovesMain

\* What comes to main comes by a pull request with its approval, or by none.
LEMMA WhatComesToMain ==
  ASSUME TypeInv, ReviewsKeepApproval, [Next]_vars
  PROVE  /\ \A i \in DOMAIN main : i \in DOMAIN main' /\ main'[i] = main[i]
         /\ \A i \in DOMAIN main' : i \in DOMAIN main \/ main'[i].pr = 0 \/
              /\ state'[main'[i].pr] = "merged"
              /\ main'[i].approved => "approved" \in labels'[main'[i].pr]
<1>1. CASE main' = main
  BY <1>1
<1>2. ASSUME NEW n \in Pull, MergeByHand(n) \/ \E w \in Reviewer : Merge(w, n)
      PROVE  /\ \A i \in DOMAIN main : i \in DOMAIN main' /\ main'[i] = main[i]
             /\ \A i \in DOMAIN main' : i \in DOMAIN main \/
                  /\ state'[main'[i].pr] = "merged"
                  /\ main'[i].approved => "approved" \in labels'[main'[i].pr]
  BY <1>2, MergeByHandKeepsMain, MergeKeepsMain
<1>3. ASSUME NEW facts \in Pushes, PushDirectly(facts)
      PROVE  /\ \A i \in DOMAIN main : i \in DOMAIN main' /\ main'[i] = main[i]
             /\ \A i \in DOMAIN main' : i \in DOMAIN main \/ main'[i].pr = 0
  BY <1>3, PushDirectlyKeepsMain
<1>4. CASE GuardPushes
  <2> DEFINE c == [pr |-> 0, facts |-> TRUE, by |-> "guard", seen |-> 0, content |-> << >>,
                   undo |-> guard.revert, base |-> guard.before, approved |-> FALSE]
  <2>1. main' = Append(main, c) \/ main' = main
    BY <1>4 DEF GuardPushes
  <2>2. c.pr = 0
    OBVIOUS
  <2> HIDE DEF c
  <2> QED
    BY <2>1, <2>2, GuardFacts
<1>5. StartGuard \/ GuardLooks \/ GuardFails => main' = main
  BY DEF StartGuard, GuardLooks, GuardFails
<1> QED
  BY <1>1, <1>2, <1>3, <1>4, <1>5, WhoMovesMain

LEMMA ApprovalsLastStep ==
  ASSUME TypeInv, ReviewsKeepApproval, [Next]_vars, breach' = {}, ApprovalsLast
  PROVE  ApprovalsLast'
<1> SUFFICES ASSUME NEW i \in DOMAIN main', main'[i].pr # 0
             PROVE  /\ state'[main'[i].pr] = "merged"
                    /\ main'[i].approved /\ i \notin vetted' => "approved" \in labels'[main'[i].pr]
  BY DEF ApprovalsLast
<1>1. CASE i \in DOMAIN main
  <2>1. main'[i] = main[i]
    BY <1>1, WhatComesToMain
  <2> QED
    BY <1>1, <2>1, OldApprovalsLast, VettedGrows
<1>2. CASE i \notin DOMAIN main
  BY <1>2, WhatComesToMain
<1> QED
  BY <1>1, <1>2

LEMMA GuardStep == ASSUME TypeInv, GuardInv, [Next]_vars PROVE GuardInv'
<1>1. InOrder /\ ReviewsKeepApproval /\ (breach = {} => GuardsUndo /\ EachIsLookedAt /\ ApprovalsLast)
  BY DEF GuardInv
<1>2. breach' = {} => breach = {}
  BY BreachGrows
<1>3. ReviewsKeepApproval'
  BY <1>1, ReviewsKeepStep
<1>4. breach' = {} => ApprovalsLast'
  BY <1>1, <1>2, ApprovalsLastStep
<1>5. InOrder' /\ (breach' = {} => GuardsUndo' /\ EachIsLookedAt')
  <2>1. CASE UNCHANGED <<loud, main, waiting, guard, vetted>>
    <3>1. InOrder'
      BY <1>1, <2>1 DEF InOrder
    <3>2. GuardsUndo => GuardsUndo'
      BY <2>1 DEF GuardsUndo
    <3>3. EachIsLookedAt => EachIsLookedAt'
      BY <2>1 DEF EachIsLookedAt, Undone, Ahead
    <3> QED
      BY <1>1, <1>2, <3>1, <3>2, <3>3
  <2>2. ASSUME NEW n \in Pull, MergeByHand(n) \/ \E w \in Reviewer : Merge(w, n)
        PROVE  InOrder' /\ (breach' = {} => GuardsUndo' /\ EachIsLookedAt')
    BY <1>1, <1>2, <2>2, MergeByHandKeepsMain, MergeKeepsMain
  <2>3. ASSUME NEW facts \in Pushes, PushDirectly(facts)
        PROVE  InOrder' /\ (breach' = {} => GuardsUndo' /\ EachIsLookedAt')
    BY <1>1, <1>2, <2>3, PushDirectlyKeepsMain
  <2>4. CASE StartGuard
    BY <1>1, <1>2, <2>4, StartGuardKeepsMain
  <2>5. CASE GuardLooks
    BY <1>1, <1>2, <2>5, GuardLooksKeepsMain
  <2>6. CASE GuardPushes
    BY <1>1, <1>2, <2>6, GuardPushesKeepsMain
  <2>7. CASE GuardFails
    BY <1>1, <2>7, GuardFailsKeepsMain
  <2> QED
    BY <2>1, <2>2, <2>3, <2>4, <2>5, <2>6, <2>7, WhoMovesMain
<1> QED
  BY <1>3, <1>4, <1>5 DEF GuardInv

\* What guards do to main, and what they have still to look at (main_guard.py), in every
\* behaviour.
THEOREM GuardInvHolds == Spec => []GuardInv
<1>1. Init => GuardInv
  <2> SUFFICES ASSUME Init PROVE GuardInv
    OBVIOUS
  <2>1. /\ main = << >> /\ waiting = << >> /\ guard.pc = "idle"
        /\ \A w \in Reviewer, n \in Pull : review[w][n].pc = "idle" /\ ~review[w][n].force
    BY DEF Init, NoGuard, NoReview
  <2>2. DOMAIN main = {}
    BY <2>1
  <2> QED
    BY <2>1, <2>2 DEF GuardInv, InOrder, ReviewsKeepApproval, GuardsUndo, EachIsLookedAt, ApprovalsLast
<1>2. TypeInv /\ TypeInv' /\ GuardInv /\ [Next]_vars => GuardInv'
  BY GuardStep
<1> QED
  BY <1>1, <1>2, TypeInvHolds, PTL DEF Spec

-----------------------------------------------------------------------------
(* What is in effect.                                                       *)

\* Guards' reverts are never undone, so a commit is in effect iff nothing undoes it.
LEMMA InEffectIsNotUndone ==
  ASSUME TypeInv, GuardsUndo
  PROVE  InEffect = {i \in 1 .. Len(main) : ~Undone(i)}
<1> DEFINE D == 1 .. Len(main)
           E(f) == [i \in D |-> ~\E j \in i + 1 .. Len(main) : i \in main[j].undo /\ f[j]]
           eff == CHOOSE f : f = E(f)
           done == [i \in D |-> ~Undone(i)]
<1>1. Len(main) \in Nat /\ DOMAIN main = D
  BY GuardFacts
<1>2. ASSUME NEW i \in D, NEW j \in i + 1 .. Len(main), i \in main[j].undo
      PROVE  j \in D /\ ~Undone(j)
  <2>1. j \in D
    BY <1>1
  <2>2. main[j].by = "guard"
    BY <1>1, <1>2, <2>1 DEF GuardsUndo
  <2>3. ASSUME NEW k \in j + 1 .. Len(main), j \in main[k].undo PROVE FALSE
    <3>1. k \in D
      BY <1>1, <2>1
    <3> QED
      BY <1>1, <2>2, <2>3, <3>1 DEF GuardsUndo
  <2> QED
    BY <2>1, <2>3 DEF Undone
<1>3. done = E(done)
  <2>1. ASSUME NEW i \in D, NEW j \in i + 1 .. Len(main), i \in main[j].undo PROVE done[j]
    BY <1>2, <2>1
  <2>2. \A i \in D : done[i] = E(done)[i]
    BY <1>1, <2>1 DEF Undone
  <2> QED
    BY <2>2
<1>4. eff = E(eff)
  BY <1>3
<1>5. InEffect = {i \in D : eff[i]}
  BY DEF InEffect
<1> QED
  <2> HIDE DEF eff
  <2>1. \A i \in D : eff[i] <=> ~\E j \in i + 1 .. Len(main) : i \in main[j].undo /\ eff[j]
    BY <1>4
  <2>2. \A j \in D : ~Undone(j) => eff[j]
    BY <2>1 DEF Undone
  <2>3. \A i \in D : Undone(i) => ~eff[i]
    BY <1>2, <2>1, <2>2 DEF Undone
  <2> QED
    BY <1>5, <2>2, <2>3

\* Short of the races that breach names, facts that come to main without an approval are
\* reverted once the guard has nothing to do, and what was merged with one stays
\* (main_guard.py), whatever pull requests, acts of humans and failures there are.
THEOREM MainStaysGoverned == Spec => []MainIsGoverned
<1>1. ASSUME TypeInv, GuardInv PROVE MainIsGoverned
  <2> SUFFICES ASSUME breach = {} PROVE MainIsGoverned
    BY DEF MainIsGoverned, GuardKeepsMain, ApprovedMergesStay
  <2>1. GuardsUndo /\ EachIsLookedAt
    BY <1>1 DEF GuardInv
  <2>2. InEffect = {i \in DOMAIN main : ~Undone(i)}
    BY <1>1, <2>1, InEffectIsNotUndone, GuardFacts
  <2>3. GuardKeepsMain
    <3> SUFFICES ASSUME guard.pc = "idle", waiting = << >>,
                        NEW i \in InEffect, main[i].facts, main[i].by # "guard"
                 PROVE  i \in vetted \/ (~loud /\ main[i].by = "gate")
      BY DEF GuardKeepsMain
    <3>1. i \in DOMAIN main /\ ~Undone(i) /\ ~Ahead(i)
      BY <2>2 DEF Ahead
    <3> QED
      BY <2>1, <3>1 DEF EachIsLookedAt
  <2>4. ApprovedMergesStay
    <3> SUFFICES ASSUME NEW i \in DOMAIN main, main[i].pr # 0, main[i].approved PROVE ~Undone(i)
      BY <2>2 DEF ApprovedMergesStay
    <3>1. ASSUME NEW j \in i + 1 .. Len(main), i \in main[j].undo PROVE FALSE
      <4>1. j \in DOMAIN main
        BY <1>1, GuardFacts
      <4> QED
        BY <2>1, <3>1, <4>1 DEF GuardsUndo
    <3> QED
      BY <3>1 DEF Undone
  <2> QED
    BY <2>3, <2>4 DEF MainIsGoverned
<1> QED
  BY <1>1, TypeInvHolds, GuardInvHolds, PTL
=================================================================================
