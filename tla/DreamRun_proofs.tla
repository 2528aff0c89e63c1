--------------------------- MODULE DreamRun_proofs ---------------------------
(***************************************************************************)
(* What DreamRun guarantees for any sessions, gaps and branches.           *)
(***************************************************************************)
EXTENDS DreamRun, TLAPS

\* Main and the proposal branches are the refs of the clone.
LEMMA Refs == "main" \in Ref /\ Branch \subseteq Ref
  BY DEF Ref

\* A tree is a set of facts and a log of every session.
LEMMA TreeParts == \A t \in Tree : t.facts \subseteq Fact /\ t.sess \in Log
  BY DEF Tree

\* The repository umx init creates is a tree: no facts, no events.
LEMMA EmptyTypes == NoEvents \in Log /\ Empty \in Tree
<1>1. NoEvents \in Log
  BY EventsAreBounded DEF NoEvents, Log
<1> QED
  BY <1>1 DEF Empty, Tree

\* Merging trees, as git pull --rebase does, gives a tree.
LEMMA MergeIsTree ==
  ASSUME NEW b \in Tree, NEW x \in Tree, NEW y \in Tree
  PROVE  Merge3(b, x, y) \in Tree
  BY DEF Merge3, Tree, Log

\* Type correctness: whatever hooks, sync, reviewers and crashes do between two
\* git commands of a dream, trees, refs and program counters keep their form.
THEOREM TypeCorrect == Spec => []TypeOK
<1>1. Init => TypeOK
  <2> SUFFICES ASSUME Init PROVE TypeOK
    OBVIOUS
  <2>1. tip \in [Ref -> Tree]
    BY EmptyTypes DEF Init
  <2>2. pr \in [Branch -> [state : {"none", "open"}, head : Tree, fork : Tree]]
    BY EmptyTypes DEF Init, NoPull
  <2>3. crashes \in 0 .. MaxCrashes
    BY CrashesAreBounded DEF Init
  <2> QED
    BY <2>1, <2>2, <2>3, EmptyTypes, Refs DEF Init, TypeOK
<1>2. TypeOK /\ [Next]_vars => TypeOK'
  <2> SUFFICES ASSUME TypeOK, [Next]_vars PROVE TypeOK'
    OBVIOUS
  <2> USE DEF TypeOK, disk, github, memory, dream, ghosts
  <2>1. ASSUME Start PROVE TypeOK'
    BY <2>1 DEF Start
  <2>2. ASSUME Publish PROVE TypeOK'
    BY <2>2, Refs, TreeParts, EmptyTypes DEF Publish, EndFailed, Forget
  <2>3. ASSUME PushStart PROVE TypeOK'
    BY <2>3, Refs, TreeParts, EmptyTypes, ZenonT(60) DEF PushStart, PushedMain, EndFailed, Forget
  <2>4. ASSUME Gather PROVE TypeOK'
    BY <2>4, SMTT(60) DEF Gather, Unread, Fact, Tree, Log
  <2>5. ASSUME Save PROVE TypeOK'
    BY <2>5 DEF Save, Tree
  <2>6. ASSUME Clear PROVE TypeOK'
    BY <2>6 DEF Clear
  <2>7. ASSUME NEW b \in Branch, CreateBranch(b) PROVE TypeOK'
    BY <2>7, Refs DEF CreateBranch
  <2>8. ASSUME Strip PROVE TypeOK'
    BY <2>8, SMTT(60) DEF Strip, Tree, Log
  <2>9. ASSUME CommitProposal PROVE TypeOK'
    <3>1. [tip[cur] EXCEPT !.facts = wt.facts] \in Tree
      BY DEF Tree
    <3>2. [tip EXCEPT ![cur].facts = wt.facts] \in [Ref -> Tree]
      BY <3>1
    <3> QED
      BY <2>9, <3>2, ZenonT(60) DEF CommitProposal
  <2>10. ASSUME CheckoutBack PROVE TypeOK'
    <3>1. LeftBehind \in Tree
      BY Refs DEF LeftBehind, Tree, Log
    <3>2. wt' \in Tree /\ cur' \in Ref
      BY <2>10, <3>1, Refs DEF CheckoutBack
    <3>3. draft' \subseteq Fact /\ taken' \subseteq Session /\ prop' \in Ref /\ fork' \in Tree
      BY <2>10, Refs, EmptyTypes DEF CheckoutBack, Forget
    <3>4. pc' \in {"mark", "propose", "sync"} /\ active' \in BOOLEAN /\ logDirty' \in BOOLEAN
      BY <2>10 DEF CheckoutBack
    <3> QED
      BY <2>10, <3>2, <3>3, <3>4 DEF CheckoutBack
  <2>11. ASSUME Propose PROVE TypeOK'
    <3>1. [state |-> "open", head |-> tip[prop], fork |-> fork]
            \in [state : {"none", "open"}, head : Tree, fork : Tree]
      OBVIOUS
    <3>2. pr' \in [Branch -> [state : {"none", "open"}, head : Tree, fork : Tree]]
      BY <2>11, <3>1 DEF Propose
    <3> QED
      BY <2>11, <3>2, Refs, EmptyTypes, ZenonT(60) DEF Propose, EndFailed, Forget
  <2>12. ASSUME Mark PROVE TypeOK'
    BY <2>12 DEF Mark
  <2>13. ASSUME Complete PROVE TypeOK'
    BY <2>13 DEF Complete
  <2>14. ASSUME LandLocal PROVE TypeOK'
    BY <2>14 DEF LandLocal, CommitAll
  <2>15. ASSUME LandGoverned PROVE TypeOK'
    <3> DEFINE logs == [s \in Session |-> IF wt.sess[s] > 0 THEN wt.sess[s]
                                                            ELSE tip["main"].sess[s]]
    <3>1. logs \in Log
      BY Refs, TreeParts DEF Log
    <3>5. [tip["main"] EXCEPT !.sess = logs] \in Tree
      <4> HIDE DEF logs
      <4> QED
        BY <3>1, Refs DEF Tree
    <3>2. [tip EXCEPT !["main"].sess = logs] \in [Ref -> Tree]
      BY <3>5, Refs
    <3>3. tip' \in {tip, [tip EXCEPT !["main"].sess = logs]}
      BY <2>15, Refs DEF LandGoverned
    <3>4. tracked' \in Log
      BY <2>15, TreeParts DEF LandGoverned
    <3> QED
      BY <2>15, <3>2, <3>3, <3>4, ZenonT(60) DEF LandGoverned
  <2>16. ASSUME PushEnd PROVE TypeOK'
    BY <2>16, Refs, TreeParts DEF PushEnd, PushedMain
  <2>17. ASSUME Raise PROVE TypeOK'
    BY <2>17, Refs, EmptyTypes DEF Raise, Forget
  <2>18. ASSUME Crash PROVE TypeOK'
    BY <2>18, Refs, EmptyTypes, CrashesAreBounded DEF Crash, Forget
  <2>19. ASSUME Expire PROVE TypeOK'
    BY <2>19 DEF Expire
  <2>20. ASSUME NEW s \in Session, Capture(s) PROVE TypeOK'
    <3>1. [wt.sess EXCEPT ![s] = @ + 1] \in Log
      BY <2>20, EventsAreBounded DEF Capture, Tree, Log
    <3>2. [wt EXCEPT !.sess[s] = @ + 1] \in Tree
      BY <3>1 DEF Tree
    <3> QED
      BY <2>20, <3>2 DEF Capture
  <2>21. ASSUME NEW g \in Gap, NoteGap(g) PROVE TypeOK'
    BY <2>21 DEF NoteGap
  <2>22. ASSUME SessionEnd PROVE TypeOK'
    BY <2>22, ZenonT(60) DEF SessionEnd, CommitAll
  <2>23. ASSUME Sweep PROVE TypeOK'
    BY <2>23, ZenonT(60) DEF Sweep, Tree
  <2>24. ASSUME Pull PROVE TypeOK'
    <3>1. Pulled \in Tree
      BY MergeIsTree, Refs DEF Pulled
    <3>2. [facts |-> Pulled.facts,
           sess  |-> [s \in Session |-> IF tip["main"].sess[s] = 0 /\ Pulled.sess[s] = 0
                                          THEN wt.sess[s] ELSE Pulled.sess[s]]] \in Tree
      BY <3>1, Refs DEF Tree, Log
    <3> HIDE DEF Pulled
    <3>3. wt' \in Tree /\ tip' \in [Ref -> Tree]
      BY <2>24, <3>1, <3>2 DEF Pull
    <3>4. base' \in Tree /\ tracked' \in Log /\ ahead' \in BOOLEAN
      BY <2>24, TreeParts DEF Pull
    <3> QED
      BY <2>24, <3>3, <3>4 DEF Pull
  <2>25. ASSUME Push PROVE TypeOK'
    <3>1. swept' \in BOOLEAN
      BY <2>25, Zenon DEF Push
    <3>2. origin' \in Tree /\ base' \in Tree /\ tracked' \in Log
      BY <2>25, Refs, TreeParts DEF Push, PushedMain
    <3>3. queued' \in BOOLEAN /\ hook' \in {"idle", "pull", "push"}
      BY <2>25 DEF Push
    <3> QED
      BY <2>25, <3>1, <3>2, <3>3 DEF Push
  <2>26. ASSUME Sync PROVE TypeOK'
    <3> DEFINE local  == [tip["main"] EXCEPT !.sess = wt.sess]
               merged == Merge3(base, local, origin)
    <3>1. local \in Tree
      BY Refs DEF Tree
    <3>2. merged \in Tree
      BY <3>1, MergeIsTree
    <3>3. /\ tip' \in {[tip EXCEPT !["main"] = local], [tip EXCEPT !["main"] = merged]}
          /\ wt' \in {wt, merged}
          /\ origin' \in {origin, merged}
          /\ base' \in {base, merged, origin}
          /\ ahead' \in {ahead, FALSE} /\ queued' \in BOOLEAN
          /\ tracked' = origin'.sess
          /\ logDirty' = FALSE
          /\ UNCHANGED <<dirty, cur, made, gaps, gathered, active, pr,
                         dream, hook, swept, crashes, ghosts>>
      BY <2>26 DEF Sync
    <3> HIDE DEF local, merged
    <3>4. tip' \in [Ref -> Tree] /\ wt' \in Tree /\ base' \in Tree /\ origin' \in Tree
      BY <3>1, <3>2, <3>3, Refs
    <3>5. tracked' \in Log
      BY <3>3, <3>4, TreeParts
    <3>6. ahead' \in BOOLEAN /\ queued' \in BOOLEAN /\ logDirty' \in BOOLEAN
      BY <3>3
    <3> QED
      BY <3>3, <3>4, <3>5, <3>6
  <2>27. ASSUME NEW b \in Branch, MergePull(b) PROVE TypeOK'
    BY <2>27, MergeIsTree, EmptyTypes DEF MergePull, NoPull
  <2>28. ASSUME NEW b \in Branch, ClosePull(b) PROVE TypeOK'
    BY <2>28, EmptyTypes DEF ClosePull, NoPull
  <2>29. ASSUME UNCHANGED vars PROVE TypeOK'
    BY <2>29 DEF vars
  <2> QED
    BY <2>1, <2>2, <2>3, <2>4, <2>5, <2>6, <2>7, <2>8, <2>9, <2>10, <2>11, <2>12, <2>13, <2>14, <2>15, <2>16, <2>17, <2>18, <2>19, <2>20, <2>21, <2>22, <2>23, <2>24, <2>25, <2>26, <2>27, <2>28, <2>29
       DEF Next, Dream, Hooks, Review
<1> QED
  BY <1>1, <1>2, PTL DEF Spec

-----------------------------------------------------------------------------
(* Every run that returns is ended in the processing log.                   *)

\* A dream about to land or to publish its end has written its last event.
EndedInv == pc \in {"land", "sync", "pushEnd"} => ~active

\* No run is still open once its dream is landing or publishing its end.
LEMMA EndedInvHolds == Spec => []EndedInv
<1>1. Init => EndedInv
  BY DEF Init, EndedInv
<1>2. EndedInv /\ [Next]_vars => EndedInv'
  <2> SUFFICES ASSUME EndedInv, [Next]_vars PROVE EndedInv'
    OBVIOUS
  <2> USE DEF EndedInv, disk, github, memory, dream, ghosts
  <2>1. CASE Dream
    BY <2>1 DEF Dream, Start, Publish, PushStart, EndFailed, Gather, Save, Clear,
                CreateBranch, Strip, CommitProposal, CheckoutBack, Propose, Mark, Complete,
                LandLocal, LandGoverned, PushEnd, Raise
  <2>2. CASE Crash \/ Expire
    BY <2>2 DEF Crash, Expire
  <2>3. CASE Hooks
    BY <2>3 DEF Hooks, Capture, NoteGap, SessionEnd, Sweep, Pull, Push, Sync
  <2>4. CASE Review
    BY <2>4 DEF Review, MergePull, ClosePull
  <2>5. CASE UNCHANGED vars
    BY <2>5 DEF vars
  <2> QED
    BY <2>1, <2>2, <2>3, <2>4, <2>5 DEF Next
<1> QED
  BY <1>1, <1>2, PTL DEF Spec

\* However run() returns, its started event is followed by a completed or failed
\* one: pipeline.py has a dozen returns and one exception handler to get this right.
THEOREM RunsAreEnded == Spec => ReturnsEndTheRun
<1>1. TypeOK /\ EndedInv /\ [Next]_vars =>
        [pc # "idle" /\ pc' = "idle" /\ crashes' = crashes => ~active']_vars
  <2> SUFFICES ASSUME TypeOK, EndedInv, Next, pc # "idle", pc' = "idle", crashes' = crashes
               PROVE  ~active'
    OBVIOUS
  <2> USE DEF EndedInv, disk, github, memory, dream, ghosts
  <2>1. CASE Dream
    BY <2>1 DEF Dream, Start, Publish, PushStart, EndFailed, Gather, Save, Clear,
                CreateBranch, Strip, CommitProposal, CheckoutBack, Propose, Mark, Complete,
                LandLocal, LandGoverned, PushEnd, Raise
  <2>2. CASE Crash
    BY <2>2, CrashesAreBounded DEF Crash, TypeOK
  <2>3. CASE Expire
    BY <2>3 DEF Expire
  <2>4. CASE Hooks \/ Review
    BY <2>4 DEF Hooks, Capture, NoteGap, SessionEnd, Sweep, Pull, Push, Sync,
                Review, MergePull, ClosePull
  <2> QED
    BY <2>1, <2>2, <2>3, <2>4 DEF Next
<1> QED
  BY <1>1, TypeCorrect, EndedInvHolds, PTL DEF Spec, ReturnsEndTheRun

-----------------------------------------------------------------------------
(* A governed dream changes facts by proposing them only, as long as no     *)
(* hook or sync comes between its steps.                                    *)

\* It writes and commits the proposal on a branch of its own.
OffMain == pc \in {"strip", "commit"} => cur \in Branch

\* Unless somebody merged since, the merge base has the facts of GitHub.
BaseIsOrigin == ~ahead => origin.facts = base.facts

\* The hooks wait for the dream.
HooksWait == pc # "idle" => hook = "idle"

\* What it looked at before a push is still so at the push.
PushIsClean == pc \in {"push", "pushEnd"} => ~FactsOnMain

GovernedInv == OffMain /\ BaseIsOrigin /\ HooksWait /\ PushIsClean

\* The steps of a governed dream that touch main leave its facts alone.
LEMMA LandKeepsFacts ==
  ASSUME TypeOK, LandGoverned
  PROVE  tip'["main"].facts = tip["main"].facts
<1>1. CASE tip' = tip
  BY <1>1
<1>2. CASE tip' # tip
  <2>1. PICK logs : tip' = [tip EXCEPT !["main"].sess = logs]
    BY <1>2 DEF LandGoverned
  <2>2. tip["main"] \in Tree
    BY Refs DEF TypeOK
  <2>3. [tip["main"] EXCEPT !.sess = logs].facts = tip["main"].facts
    BY <2>2 DEF Tree
  <2> QED
    BY <2>1, <2>3, Refs DEF TypeOK
<1> QED
  BY <1>1, <1>2

\* While no second dream overlaps, a governed dream stays off main, its base is
\* origin's main, hooks wait for it, and what it pushes has no new facts.
LEMMA GovernedInvHolds == ~Overlap => (Spec => []GovernedInv)
<1> SUFFICES ASSUME ~Overlap PROVE Spec => []GovernedInv
  OBVIOUS
<1>1. Init => GovernedInv
  BY DEF Init, GovernedInv, OffMain, BaseIsOrigin, HooksWait, PushIsClean
<1>2. TypeOK /\ GovernedInv /\ [Next]_vars => GovernedInv'
  <2> SUFFICES ASSUME TypeOK, GovernedInv, [Next]_vars PROVE GovernedInv'
    OBVIOUS
  <2> USE DEF GovernedInv, disk, github, memory, dream, ghosts
  <2>1. OffMain'
    <3> USE DEF OffMain
    <3>1. CASE Dream
      BY <3>1 DEF Dream, Start, Publish, PushStart, EndFailed, Gather, Save, Clear,
                  CreateBranch, Strip, CommitProposal, CheckoutBack, Propose, Mark, Complete,
                  LandLocal, LandGoverned, PushEnd, Raise
    <3>2. CASE Crash \/ Expire \/ Hooks \/ Review \/ UNCHANGED vars
      BY <3>2 DEF Crash, Expire, Hooks, Capture, NoteGap, SessionEnd, Sweep, Pull, Push, Sync,
                  Review, MergePull, ClosePull, vars
    <3> QED
      BY <3>1, <3>2 DEF Next
  <2>2. BaseIsOrigin'
    <3> USE DEF BaseIsOrigin
    <3>1. CASE Dream
      BY <3>1 DEF Dream, Start, Publish, PushStart, EndFailed, Gather, Save, Clear,
                  CreateBranch, Strip, CommitProposal, CheckoutBack, Propose, Mark, Complete,
                  LandLocal, LandGoverned, PushEnd, Raise, PushedMain
    <3>2. CASE Sync
      BY <3>2 DEF Sync
    <3>3. CASE \E s \in Session : Capture(s)
      BY <3>3 DEF Capture
    <3>4. CASE Crash \/ Expire \/ (\E g \in Gap : NoteGap(g)) \/ SessionEnd \/ Sweep
                 \/ Pull \/ Push \/ Review \/ UNCHANGED vars
      BY <3>4 DEF Crash, Expire, NoteGap, SessionEnd, Sweep, Pull, Push, PushedMain,
                  Review, MergePull, ClosePull, vars
    <3> QED
      BY <3>1, <3>2, <3>3, <3>4 DEF Next, Hooks
  <2>3. HooksWait'
    <3> USE DEF HooksWait
    <3>1. CASE Dream
      BY <3>1 DEF Dream, Start, Publish, PushStart, EndFailed, Gather, Save, Clear,
                  CreateBranch, Strip, CommitProposal, CheckoutBack, Propose, Mark, Complete,
                  LandLocal, LandGoverned, PushEnd, Raise
    <3>2. CASE Crash \/ Expire \/ Hooks \/ Review \/ UNCHANGED vars
      BY <3>2 DEF Crash, Expire, Hooks, Capture, NoteGap, SessionEnd, Sweep, Pull, Push, Sync,
                  Quiet, Review, MergePull, ClosePull, vars
    <3> QED
      BY <3>1, <3>2 DEF Next
  <2>4. PushIsClean'
    <3> USE DEF PushIsClean
    <3>1. CASE LandGoverned
      BY <3>1, LandKeepsFacts DEF LandGoverned, FactsOnMain
    <3>2. CASE Publish
      BY <3>2 DEF Publish, EndFailed, FactsOnMain
    <3>3. CASE Dream /\ ~LandGoverned /\ ~Publish
      BY <3>3 DEF Dream, Start, PushStart, EndFailed, Gather, Save, Clear,
                  CreateBranch, Strip, CommitProposal, CheckoutBack, Propose, Mark, Complete,
                  LandLocal, PushEnd, Raise
    <3>4. CASE Crash \/ Expire
      BY <3>4 DEF Crash, Expire
    <3>5. CASE Hooks
      BY <3>5 DEF HooksWait, Hooks, Capture, NoteGap, SessionEnd, Sweep, Pull, Push, Sync, Quiet
    <3>6. CASE Review \/ UNCHANGED vars
      BY <3>6 DEF Review, MergePull, ClosePull, vars, FactsOnMain
    <3> QED
      BY <3>1, <3>2, <3>3, <3>4, <3>5, <3>6 DEF Next
  <2> QED
    BY <2>1, <2>2, <2>3, <2>4
<1> QED
  BY <1>1, <1>2, TypeCorrect, PTL DEF Spec

\* No step of a governed dream changes the facts of main, in the clone or on
\* GitHub, whatever an earlier crash or hook left behind.
THEOREM FactsAreProposed == ~Overlap => (Spec => DreamOnlyProposes)
<1> SUFFICES ASSUME ~Overlap PROVE Spec => DreamOnlyProposes
  OBVIOUS
<1>1. TypeOK /\ GovernedInv /\ [Next]_vars =>
        [Governed /\ pc' # pc => /\ tip'["main"].facts = tip["main"].facts
                                 /\ origin'.facts = origin.facts]_vars
  <2> SUFFICES ASSUME TypeOK, GovernedInv, Next, Governed, pc' # pc
               PROVE  tip'["main"].facts = tip["main"].facts /\ origin'.facts = origin.facts
    OBVIOUS
  <2> USE DEF GovernedInv, disk, github, memory, dream, ghosts
  <2>1. CASE \E b \in Branch : CreateBranch(b)
    BY <2>1, Refs, MainIsNoProposal DEF CreateBranch, TypeOK
  <2>2. CASE CommitProposal
    BY <2>2, Refs, MainIsNoProposal DEF CommitProposal, OffMain, TypeOK
  <2>3. CASE LandGoverned
    BY <2>3, LandKeepsFacts DEF LandGoverned
  <2>4. CASE PushStart \/ PushEnd
    BY <2>4 DEF PushStart, PushEnd, PushedMain, PushIsClean, BaseIsOrigin, FactsOnMain
  <2>5. CASE \/ Start \/ Publish \/ Gather \/ Save \/ Clear \/ Strip \/ CheckoutBack
             \/ Propose \/ Mark \/ Complete \/ LandLocal \/ Raise \/ Crash \/ Expire
    BY <2>5 DEF Start, Publish, EndFailed, Gather, Save, Clear, Strip, CheckoutBack,
                Propose, Mark, Complete, LandLocal, Raise, Crash, Expire
  <2>6. CASE Hooks \/ Review
    BY <2>6 DEF Hooks, Capture, NoteGap, SessionEnd, Sweep, Pull, Push, Sync,
                Review, MergePull, ClosePull
  <2> QED
    BY <2>1, <2>2, <2>3, <2>4, <2>5, <2>6 DEF Next, Dream
<1> QED
  BY <1>1, TypeCorrect, GovernedInvHolds, PTL DEF Spec, DreamOnlyProposes

-----------------------------------------------------------------------------
(* Facts are kept.  What is in the working tree or on a proposal branch is  *)
(* never dropped, because every step that rewrites the one has what it      *)
(* drops on the other; every commit has its facts from there.               *)

\* A fact is on a proposal when a settled proposal branch has it.
LEMMA OnProposalsIs ==
  /\ \A f : f \in OnProposals
              <=> \E b \in Branch : ~(cur = b /\ dirty) /\ f \in tip[b].facts
  /\ \A f : f \in OnProposals'
              <=> \E b \in Branch : ~(cur' = b /\ dirty') /\ f \in tip'[b].facts
  BY Zenon DEF OnProposals

\* The facts of the working tree, of every commit and which branch is out.
SameFacts ==
  /\ cur' = cur /\ dirty' = dirty
  /\ wt'.facts = wt.facts
  /\ \A r \in Ref : tip'[r].facts = tip[r].facts

\* A step that changes none of these changes nothing that is kept.
LEMMA FactsStill ==
  ASSUME SameFacts
  PROVE  OnProposals' = OnProposals /\ Kept' = Kept
<1>1. \A f : f \in OnProposals' <=> f \in OnProposals
  BY OnProposalsIs, Refs DEF SameFacts
<1> QED
  BY <1>1 DEF Kept, SameFacts

\* Writing session logs into the tree of a commit leaves its facts alone.
LEMMA LogsLeaveFacts ==
  ASSUME TypeOK, NEW r \in Ref, NEW logs, tip' = [tip EXCEPT ![r].sess = logs]
  PROVE  \A q \in Ref : tip'[q].facts = tip[q].facts
<1>1. tip \in [Ref -> Tree] /\ tip[r] \in Tree
  BY DEF TypeOK
<1>2. [tip[r] EXCEPT !.sess = logs].facts = tip[r].facts
  BY <1>1 DEF Tree
<1> QED
  BY <1>1, <1>2

\* Most steps of a dream, the hooks and the reviewers change no fact of the clone.
LEMMA FactsUntouched ==
  ASSUME TypeOK,
         \/ Start \/ Publish \/ PushStart \/ Gather \/ Clear \/ Strip \/ Propose \/ Mark
         \/ Complete \/ LandGoverned \/ PushEnd \/ Raise \/ Crash \/ Expire
         \/ (\E s \in Session : Capture(s)) \/ (\E g \in Gap : NoteGap(g)) \/ Sweep \/ Push
         \/ Review \/ UNCHANGED vars
  PROVE  SameFacts
<1> USE DEF SameFacts, disk, github, memory, dream, ghosts
<1>1. CASE LandGoverned
  <2>1. tip' = tip \/ \E logs : tip' = [tip EXCEPT !["main"].sess = logs]
    BY <1>1 DEF LandGoverned
  <2>2. \A q \in Ref : tip'[q].facts = tip[q].facts
    BY <2>1, LogsLeaveFacts, Refs
  <2> QED
    BY <1>1, <2>2 DEF LandGoverned
<1>2. CASE Sweep
  <2>1. \A q \in Ref : tip'[q].facts = tip[q].facts
    BY <1>2, LogsLeaveFacts DEF Sweep, TypeOK
  <2> QED
    BY <1>2, <2>1 DEF Sweep
<1>3. CASE Strip
  BY <1>3 DEF Strip, TypeOK, Tree
<1>4. CASE \E s \in Session : Capture(s)
  BY <1>4 DEF Capture, TypeOK, Tree
<1>5. CASE \/ Start \/ Publish \/ PushStart \/ Gather \/ Clear \/ Propose \/ Mark
           \/ Complete \/ PushEnd \/ Raise \/ Crash \/ Expire
  BY <1>5 DEF Start, Publish, PushStart, PushedMain, EndFailed, Gather, Clear, Propose, Mark,
              Complete, PushEnd, Raise, Crash, Expire
<1>6. CASE (\E g \in Gap : NoteGap(g)) \/ Push \/ Review \/ UNCHANGED vars
  BY <1>6 DEF NoteGap, Push, PushedMain, Review, MergePull, ClosePull, vars
<1> QED
  BY <1>1, <1>2, <1>3, <1>4, <1>5, <1>6

\* A commit of the facts of the working tree, of all of it or of the fact files.
LEMMA CommitSettles ==
  ASSUME TypeOK, CleanIsCommitted,
         cur' = cur, dirty' = FALSE, wt' = wt,
         \A r \in Ref : tip'[r].facts = IF r = cur THEN wt.facts ELSE tip[r].facts
  PROVE  OnProposals \subseteq OnProposals' /\ Kept \subseteq Kept'
<1>1. ASSUME NEW f \in OnProposals PROVE f \in OnProposals'
  <2>1. PICK b \in Branch : ~(cur = b /\ dirty) /\ f \in tip[b].facts
    BY <1>1, OnProposalsIs
  <2>2. f \in tip'[b].facts
    BY <2>1, Refs DEF CleanIsCommitted
  <2> QED
    BY <2>1, <2>2, OnProposalsIs
<1> QED
  BY <1>1 DEF Kept

\* git commit, by whatever step, makes the facts of the checked out commit those of
\* the working tree.
LEMMA CommitsAreOfFacts ==
  ASSUME TypeOK, SessionEnd \/ LandLocal \/ CommitProposal
  PROVE  /\ cur' = cur /\ wt' = wt
         /\ \/ dirty' = dirty /\ tip' = tip
            \/ /\ dirty' = FALSE
               /\ \A r \in Ref : tip'[r].facts = IF r = cur THEN wt.facts ELSE tip[r].facts
<1>1. tip \in [Ref -> Tree] /\ cur \in Ref /\ tip[cur] \in Tree
  BY DEF TypeOK
<1>2. CASE SessionEnd
  BY <1>1, <1>2 DEF SessionEnd, CommitAll
<1>3. CASE LandLocal
  BY <1>1, <1>3 DEF LandLocal, CommitAll
<1>4. CASE CommitProposal
  <2>1. [tip[cur] EXCEPT !.facts = wt.facts].facts = wt.facts
    BY <1>1 DEF Tree
  <2>2. \/ dirty' = dirty /\ tip' = tip
        \/ dirty' = FALSE /\ tip' = [tip EXCEPT ![cur].facts = wt.facts]
    BY <1>4 DEF CommitProposal
  <2> QED
    BY <1>1, <1>4, <2>1, <2>2 DEF CommitProposal
<1> QED
  BY <1>2, <1>3, <1>4

\* A dream writes on main only: in local mode and before it has its proposal branch.
LEMMA SaveKeeps ==
  ASSUME TypeOK, KeptInv, Save
  PROVE  /\ OnProposals' = OnProposals
         /\ Kept' = draft \union OnProposals
         /\ Kept \subseteq Kept'
<1>1. cur = "main" /\ cur' = cur /\ tip' = tip /\ wt'.facts = draft /\ pc = "save"
  BY DEF Save, KeptInv, LearnsOnMain, TypeOK, Tree
<1>2. \A f : f \in OnProposals' <=> f \in OnProposals
  BY <1>1, OnProposalsIs, MainIsNoProposal
<1>3. wt.facts \subseteq draft \union OnProposals
  BY <1>1 DEF KeptInv, ReadIsKept
<1> QED
  BY <1>1, <1>2, <1>3 DEF Kept

\* A new branch starts at main and has nothing of its own yet.
LEMMA NewBranchKeeps ==
  ASSUME TypeOK, KeptInv, NEW b \in Branch, CreateBranch(b)
  PROVE  /\ OnProposals \subseteq OnProposals' /\ wt' = wt
         /\ \A r \in Ref : tip'[r] = tip[r] \/ tip'[r] = tip["main"]
<1>1. CASE tip' = tip /\ cur' = cur
  BY <1>1, OnProposalsIs DEF CreateBranch
<1>2. CASE tip' = [tip EXCEPT ![b] = tip[cur]] /\ cur' = b /\ b \notin made
  <2>1. cur = "main"
    BY DEF CreateBranch, KeptInv, LearnsOnMain
  <2>2. tip[b].facts = {}
    BY <1>2 DEF KeptInv, UnusedIsEmpty, Empty
  <2>3. ASSUME NEW f \in OnProposals PROVE f \in OnProposals'
    <3>1. PICK c \in Branch : f \in tip[c].facts
      BY <2>3, OnProposalsIs
    <3>2. c # b
      BY <2>2, <3>1
    <3>3. tip'[c] = tip[c]
      BY <1>2, <3>2, Refs DEF TypeOK
    <3> QED
      BY <1>2, <3>1, <3>2, <3>3, OnProposalsIs
  <2> QED
    BY <1>2, <2>1, <2>3, Refs DEF CreateBranch, TypeOK
<1> QED
  BY <1>1, <1>2 DEF CreateBranch

\* What a dream leaves behind at its checkout of main is on the branch it leaves.
LEMMA CheckoutKeeps ==
  ASSUME TypeOK, KeptInv, CheckoutBack
  PROVE  /\ OnProposals \subseteq OnProposals' /\ Kept \subseteq Kept'
         /\ tip' = tip /\ dirty' = dirty
         /\ ~dirty' => wt'.facts = tip'[cur'].facts
         /\ \A f : f \in wt'.facts => f \in wt.facts \/ f \in tip["main"].facts
<1>1. tip' = tip /\ dirty' = dirty
  BY DEF CheckoutBack
<1>2. CASE cur' = cur /\ wt' = wt
  <2>1. SameFacts
    BY <1>1, <1>2 DEF SameFacts
  <2> QED
    BY <1>1, <1>2, <2>1, FactsStill DEF KeptInv, CleanIsCommitted
<1>3. CASE cur' = "main" /\ wt' = LeftBehind
  <2>1. wt'.facts = IF dirty THEN wt.facts ELSE tip["main"].facts
    BY <1>3 DEF LeftBehind
  <2>2. ASSUME NEW f \in OnProposals PROVE f \in OnProposals'
    BY <1>1, <1>3, <2>2, OnProposalsIs, MainIsNoProposal
  <2>3. ASSUME NEW f \in wt.facts, ~dirty PROVE f \in Kept'
    <3>1. f \in tip[cur].facts
      BY <2>3 DEF KeptInv, CleanIsCommitted
    <3>2. CASE cur = "main"
      BY <2>1, <2>3, <3>1, <3>2 DEF Kept
    <3>3. CASE cur \in Branch
      BY <1>1, <1>3, <2>3, <3>1, <3>3, OnProposalsIs, MainIsNoProposal DEF Kept
    <3> QED
      BY <3>2, <3>3 DEF TypeOK, Ref
  <2> QED
    BY <1>1, <1>3, <2>1, <2>2, <2>3 DEF Kept
<1> QED
  BY <1>2, <1>3 DEF CheckoutBack

\* A merge of origin into main, as "git pull" and "umx sync" do, drops only what a
\* review took out, and that stays on its proposal branch.
LEMMA MergeKeeps ==
  ASSUME TypeOK, KeptInv, NEW merged,
         cur = "main", ~dirty, cur' = cur, dirty' = dirty,
         tip' = [tip EXCEPT !["main"] = merged], wt'.facts = merged.facts,
         merged.facts = Merge3(base, tip["main"], origin).facts
  PROVE  /\ OnProposals' = OnProposals /\ Kept \subseteq Kept'
         /\ tip'["main"].facts = wt'.facts
         /\ wt'.facts \subseteq tip["main"].facts \union origin.facts
         /\ base.facts \subseteq tip["main"].facts => origin.facts \subseteq wt'.facts
         /\ \A b \in Branch : tip'[b] = tip[b]
<1>1. tip'["main"].facts = wt'.facts /\ \A b \in Branch : tip'[b] = tip[b]
  BY Refs, MainIsNoProposal DEF TypeOK
<1>2. \A f : f \in OnProposals' <=> f \in OnProposals
  BY <1>1, OnProposalsIs
<1>3. wt'.facts = (tip["main"].facts \cap origin.facts) \union (tip["main"].facts \ base.facts)
                    \union (origin.facts \ base.facts)
  BY DEF Merge3
<1>4. wt.facts = tip["main"].facts
  BY DEF KeptInv, CleanIsCommitted
<1>5. base.facts \ origin.facts \subseteq OnProposals
  BY DEF KeptInv, CommitsAreKept
<1> QED
  BY <1>1, <1>2, <1>3, <1>4, <1>5 DEF Kept

\* A pull takes origin's main in, or does nothing.
LEMMA PullKeeps ==
  ASSUME TypeOK, KeptInv, Pull
  PROVE  /\ OnProposals' = OnProposals /\ Kept \subseteq Kept'
         /\ cur' = cur /\ dirty' = dirty
         /\ \/ SameFacts /\ base' = base /\ wt' = wt
            \/ /\ cur = "main" /\ ~dirty /\ base' = origin
               /\ tip'["main"].facts = wt'.facts
               /\ wt'.facts \subseteq tip["main"].facts \union origin.facts
               /\ base.facts \subseteq tip["main"].facts => origin.facts \subseteq wt'.facts
               /\ \A b \in Branch : tip'[b] = tip[b]
<1>1. CASE UNCHANGED <<tip, wt, base>>
  <2>1. SameFacts /\ base' = base /\ wt' = wt
    BY <1>1 DEF Pull, SameFacts
  <2> QED
    BY <2>1, FactsStill DEF SameFacts
<1>2. CASE CanPull /\ tip' = [tip EXCEPT !["main"] = Pulled] /\ wt'.facts = Pulled.facts
           /\ base' = origin
  <2>1. cur = "main" /\ ~dirty /\ cur' = cur /\ dirty' = dirty
    BY <1>2 DEF CanPull, Pull
  <2>2. Pulled.facts = Merge3(base, tip["main"], origin).facts
    BY DEF Pulled
  <2> HIDE DEF Pulled
  <2> QED
    BY <1>2, <2>1, <2>2, MergeKeeps
<1> QED
  BY <1>1, <1>2 DEF Pull

\* umx sync commits the logs and takes origin's main in, or only commits the logs.
LEMMA SyncKeeps ==
  ASSUME TypeOK, KeptInv, Sync
  PROVE  /\ OnProposals' = OnProposals /\ Kept \subseteq Kept'
         /\ cur' = cur /\ dirty' = dirty
         /\ \/ SameFacts /\ base' = base /\ origin' = origin /\ wt' = wt
            \/ /\ cur = "main" /\ ~dirty
               /\ tip'["main"].facts = wt'.facts
               /\ wt'.facts \subseteq tip["main"].facts \union origin.facts
               /\ base.facts \subseteq tip["main"].facts => origin.facts \subseteq wt'.facts
               /\ \A b \in Branch : tip'[b] = tip[b]
               /\ origin' \in {origin, tip'["main"]} /\ base' = origin'
<1> DEFINE local  == [tip["main"] EXCEPT !.sess = wt.sess]
           merged == Merge3(base, local, origin)
<1>1. cur = "main" /\ ~dirty /\ cur' = cur /\ dirty' = dirty
  BY DEF Sync
<1>2. \/ tip' = [tip EXCEPT !["main"] = local] /\ UNCHANGED <<wt, base, origin>>
      \/ /\ tip' = [tip EXCEPT !["main"] = merged] /\ wt' = merged
         /\ origin' \in {merged, origin} /\ base' = origin'
  BY DEF Sync
<1>3. CASE tip' = [tip EXCEPT !["main"] = local] /\ UNCHANGED <<wt, base, origin>>
  <2>1. \A r \in Ref : tip'[r].facts = tip[r].facts
    BY <1>3, LogsLeaveFacts, Refs
  <2>2. SameFacts
    BY <1>1, <1>3, <2>1 DEF SameFacts
  <2> QED
    BY <1>1, <1>3, <2>2, FactsStill
<1>4. CASE /\ tip' = [tip EXCEPT !["main"] = merged] /\ wt' = merged
           /\ origin' \in {merged, origin} /\ base' = origin'
  <2>1. local.facts = tip["main"].facts
    BY Refs DEF TypeOK, Tree
  <2>2. merged.facts = Merge3(base, tip["main"], origin).facts
    BY <2>1 DEF Merge3
  <2>3. wt'.facts = merged.facts
    BY <1>4
  <2>4. tip'["main"] = merged
    BY <1>4, Refs DEF TypeOK
  <2> HIDE DEF merged
  <2> QED
    BY <1>1, <1>4, <2>2, <2>3, <2>4, MergeKeeps
<1> QED
  BY <1>2, <1>3, <1>4

\* No step, of whoever and in whatever order, drops a fact.
LEMMA NothingIsDropped ==
  ASSUME TypeOK, KeptInv, [Next]_vars
  PROVE  OnProposals \subseteq OnProposals' /\ Kept \subseteq Kept'
<1>1. CASE Save
  BY <1>1, SaveKeeps
<1>2. CASE \E b \in Branch : CreateBranch(b)
  BY <1>2, NewBranchKeeps DEF Kept
<1>3. CASE SessionEnd \/ LandLocal \/ CommitProposal
  <2>1. CASE dirty' = dirty /\ tip' = tip
    <3>1. SameFacts
      BY <1>3, <2>1, CommitsAreOfFacts DEF SameFacts
    <3> QED
      BY <3>1, FactsStill
  <2>2. CASE dirty' = FALSE /\ \A r \in Ref : tip'[r].facts = IF r = cur THEN wt.facts
                                                                       ELSE tip[r].facts
    BY <1>3, <2>2, CommitsAreOfFacts, CommitSettles DEF KeptInv
  <2> QED
    BY <1>3, <2>1, <2>2, CommitsAreOfFacts
<1>4. CASE CheckoutBack
  BY <1>4, CheckoutKeeps
<1>5. CASE Pull
  BY <1>5, PullKeeps
<1>6. CASE Sync
  BY <1>6, SyncKeeps
<1>7. CASE \/ Start \/ Publish \/ PushStart \/ Gather \/ Clear \/ Strip \/ Propose \/ Mark
           \/ Complete \/ LandGoverned \/ PushEnd \/ Raise \/ Crash \/ Expire
           \/ (\E s \in Session : Capture(s)) \/ (\E g \in Gap : NoteGap(g)) \/ Sweep \/ Push
           \/ Review \/ UNCHANGED vars
  BY <1>7, FactsUntouched, FactsStill
<1> QED
  BY <1>1, <1>2, <1>3, <1>4, <1>5, <1>6, <1>7 DEF Next, Dream, Hooks

\* A dream is on main until it has a proposal branch of its own.
LEMMA DreamsLearnOnMain ==
  ASSUME TypeOK, LearnsOnMain, [Next]_vars
  PROVE  LearnsOnMain'
<1> USE DEF LearnsOnMain, Governed, disk, github, memory, dream, ghosts
<1>1. CASE Dream
  BY <1>1 DEF Dream, Start, Publish, PushStart, EndFailed, Gather, Save, Clear,
              CreateBranch, Strip, CommitProposal, CheckoutBack, Propose, Mark, Complete,
              LandLocal, LandGoverned, PushEnd, Raise
<1>2. CASE Crash \/ Expire \/ Hooks \/ Review \/ UNCHANGED vars
  BY <1>2 DEF Crash, Expire, Hooks, Capture, NoteGap, SessionEnd, Sweep, Pull, Push, Sync,
              Review, MergePull, ClosePull, vars
<1> QED
  BY <1>1, <1>2 DEF Next

\* Nobody commits to a branch no dream has made.
LEMMA UnusedStaysEmpty ==
  ASSUME TypeOK, UnusedIsEmpty, [Next]_vars
  PROVE  UnusedIsEmpty'
<1> USE DEF UnusedIsEmpty, disk, github, memory, dream, ghosts
<1> SUFFICES ASSUME NEW b \in Branch, b \notin made' PROVE tip'[b] = Empty /\ cur' # b
  OBVIOUS
<1>1. made \subseteq made'
  <2>1. CASE Dream
    BY <2>1 DEF Dream, Start, Publish, PushStart, EndFailed, Gather, Save, Clear,
                CreateBranch, Strip, CommitProposal, CheckoutBack, Propose, Mark, Complete,
                LandLocal, LandGoverned, PushEnd, Raise
  <2>2. CASE Crash \/ Expire \/ Hooks \/ Review \/ UNCHANGED vars
    BY <2>2 DEF Crash, Expire, Hooks, Capture, NoteGap, SessionEnd, Sweep, Pull, Push, Sync,
                Review, MergePull, ClosePull, vars
  <2> QED
    BY <2>1, <2>2 DEF Next
<1>2. tip[b] = Empty /\ cur # b /\ b # "main" /\ b \in Ref
  BY <1>1, MainIsNoProposal, Refs
<1>3. cur' # b
  <2>1. CASE Dream
    BY <2>1, <1>2 DEF Dream, Start, Publish, PushStart, EndFailed, Gather, Save, Clear,
                CreateBranch, Strip, CommitProposal, CheckoutBack, Propose, Mark, Complete,
                LandLocal, LandGoverned, PushEnd, Raise
  <2>2. CASE Crash \/ Expire \/ Hooks \/ Review \/ UNCHANGED vars
    BY <2>2, <1>2 DEF Crash, Expire, Hooks, Capture, NoteGap, SessionEnd, Sweep, Pull, Push, Sync,
                Review, MergePull, ClosePull, vars
  <2> QED
    BY <2>1, <2>2 DEF Next
<1>4. tip'[b] = tip[b]
  <2>1. tip \in [Ref -> Tree]
    BY DEF TypeOK
  <2>2. CASE \E c \in Branch : CreateBranch(c)
    BY <1>2, <2>1, <2>2 DEF CreateBranch
  <2>3. CASE CommitProposal \/ LandLocal \/ LandGoverned
    BY <1>2, <2>1, <2>3 DEF CommitProposal, LandLocal, CommitAll, LandGoverned
  <2>4. CASE SessionEnd \/ Sweep
    BY <1>2, <2>1, <2>4 DEF SessionEnd, CommitAll, Sweep
  <2>5. CASE Pull
    BY <1>2, <2>1, <2>5 DEF Pull
  <2>6. CASE Sync
    BY <1>2, <2>1, <2>6 DEF Sync
  <2>7. CASE \/ Start \/ Publish \/ PushStart \/ Gather \/ Save \/ Clear \/ Strip \/ CheckoutBack
             \/ Propose \/ Mark \/ Complete \/ PushEnd \/ Raise
    BY <2>7 DEF Start, Publish, PushStart, EndFailed, Gather, Save, Clear, Strip, CheckoutBack,
                Propose, Mark, Complete, PushEnd, Raise
  <2>8. CASE \/ Crash \/ Expire \/ (\E s \in Session : Capture(s)) \/ (\E g \in Gap : NoteGap(g))
             \/ Push \/ Review \/ UNCHANGED vars
    BY <2>8 DEF Crash, Expire, Capture, NoteGap, Push, Review, MergePull, ClosePull, vars
  <2> QED
    BY <2>2, <2>3, <2>4, <2>5, <2>6, <2>7, <2>8 DEF Next, Dream, Hooks
<1> QED
  BY <1>2, <1>3, <1>4

\* git status keeps telling the truth about facts.
LEMMA CleanStaysCommitted ==
  ASSUME TypeOK, KeptInv, [Next]_vars
  PROVE  CleanIsCommitted'
<1> SUFFICES ASSUME ~dirty' PROVE wt'.facts = tip'[cur'].facts
  BY DEF CleanIsCommitted
<1>1. cur \in Ref /\ (~dirty => wt.facts = tip[cur].facts)
  BY DEF KeptInv, CleanIsCommitted, TypeOK
<1>2. CASE Save
  BY <1>2 DEF Save
<1>3. CASE \E b \in Branch : CreateBranch(b)
  BY <1>1, <1>3 DEF CreateBranch
<1>4. CASE SessionEnd \/ LandLocal \/ CommitProposal
  BY <1>1, <1>4, CommitsAreOfFacts
<1>5. CASE CheckoutBack
  BY <1>5, CheckoutKeeps
<1>6. CASE Pull
  BY <1>1, <1>6, PullKeeps DEF SameFacts
<1>7. CASE Sync
  BY <1>1, <1>7, SyncKeeps DEF SameFacts
<1>8. CASE \/ Start \/ Publish \/ PushStart \/ Gather \/ Clear \/ Strip \/ Propose \/ Mark
           \/ Complete \/ LandGoverned \/ PushEnd \/ Raise \/ Crash \/ Expire
           \/ (\E s \in Session : Capture(s)) \/ (\E g \in Gap : NoteGap(g)) \/ Sweep \/ Push
           \/ Review \/ UNCHANGED vars
  BY <1>1, <1>8, FactsUntouched DEF SameFacts
<1> QED
  BY <1>2, <1>3, <1>4, <1>5, <1>6, <1>7, <1>8 DEF Next, Dream, Hooks

\* The steps that reach neither origin, its merge base nor a pull request.
LEMMA GitHubUntouched ==
  ASSUME \/ Save \/ (\E b \in Branch : CreateBranch(b)) \/ SessionEnd \/ LandLocal
         \/ CommitProposal \/ CheckoutBack \/ Start \/ Publish \/ Gather \/ Clear \/ Strip
         \/ Mark \/ Complete \/ LandGoverned \/ Raise \/ Crash \/ Expire
         \/ (\E s \in Session : Capture(s)) \/ (\E g \in Gap : NoteGap(g)) \/ Sweep
         \/ UNCHANGED vars
  PROVE  origin' = origin /\ base' = base /\ pr' = pr
<1> USE DEF disk, github, memory, dream, ghosts
<1>1. CASE \/ Save \/ (\E b \in Branch : CreateBranch(b)) \/ SessionEnd \/ LandLocal
           \/ CommitProposal \/ CheckoutBack \/ Start \/ Publish \/ Gather \/ Clear \/ Strip
  BY <1>1 DEF Save, CreateBranch, SessionEnd, LandLocal, CommitAll, CommitProposal,
              CheckoutBack, Start, Publish, Gather, Clear, Strip
<1>2. CASE \/ Mark \/ Complete \/ LandGoverned \/ Raise \/ Crash \/ Expire
           \/ (\E s \in Session : Capture(s)) \/ (\E g \in Gap : NoteGap(g)) \/ Sweep
           \/ UNCHANGED vars
  BY <1>2 DEF Mark, Complete, LandGoverned, Raise, Crash, Expire, Capture, NoteGap, Sweep, vars
<1> QED
  BY <1>1, <1>2

\* Every tree git holds still has its facts from the working tree or a proposal.
LEMMA TipsStayKept ==
  ASSUME TypeOK, KeptInv, [Next]_vars
  PROVE  \A r \in Ref : tip'[r].facts \subseteq Kept'
<1> SUFFICES ASSUME NEW r \in Ref, NEW f \in tip'[r].facts PROVE f \in Kept'
  OBVIOUS
<1>1. /\ Kept \subseteq Kept' /\ wt.facts \subseteq Kept /\ wt'.facts \subseteq Kept'
      /\ origin.facts \subseteq Kept
      /\ \A q \in Ref : tip[q].facts \subseteq Kept
  BY NothingIsDropped DEF KeptInv, CommitsAreKept, Kept
<1>2. CASE Save
  BY <1>1, <1>2 DEF Save
<1>3. CASE \E b \in Branch : CreateBranch(b)
  BY <1>1, <1>3, NewBranchKeeps, Refs
<1>4. CASE SessionEnd \/ LandLocal \/ CommitProposal
  BY <1>1, <1>4, CommitsAreOfFacts
<1>5. CASE CheckoutBack
  BY <1>1, <1>5, CheckoutKeeps
<1>6. CASE Pull
  BY <1>1, <1>6, PullKeeps DEF SameFacts, Ref
<1>7. CASE Sync
  BY <1>1, <1>7, SyncKeeps DEF SameFacts, Ref
<1>8. CASE \/ Start \/ Publish \/ PushStart \/ Gather \/ Clear \/ Strip \/ Propose \/ Mark
           \/ Complete \/ LandGoverned \/ PushEnd \/ Raise \/ Crash \/ Expire
           \/ (\E s \in Session : Capture(s)) \/ (\E g \in Gap : NoteGap(g)) \/ Sweep \/ Push
           \/ Review \/ UNCHANGED vars
  BY <1>1, <1>8, FactsUntouched DEF SameFacts
<1> QED
  BY <1>2, <1>3, <1>4, <1>5, <1>6, <1>7, <1>8 DEF Next, Dream, Hooks

\* What reaches GitHub is kept in the clone, and what a merge there takes out too.
LEMMA CommitsStayKept ==
  ASSUME TypeOK, KeptInv, [Next]_vars
  PROVE  CommitsAreKept'
<1>1. /\ Kept \subseteq Kept' /\ OnProposals \subseteq OnProposals'
      /\ origin.facts \union base.facts \subseteq Kept
      /\ \A r \in Ref : tip[r].facts \subseteq Kept
      /\ base.facts \ origin.facts \subseteq OnProposals
      /\ \A b \in Branch : pr[b].head.facts \union pr[b].fork.facts \subseteq OnProposals
  BY NothingIsDropped DEF KeptInv, CommitsAreKept
<1>2. SUFFICES /\ origin'.facts \union base'.facts \subseteq Kept'
               /\ base'.facts \ origin'.facts \subseteq OnProposals'
               /\ \A b \in Branch : pr'[b].head.facts \union pr'[b].fork.facts
                                      \subseteq OnProposals'
  BY TipsStayKept DEF CommitsAreKept
<1>3. CASE \/ Save \/ (\E b \in Branch : CreateBranch(b)) \/ SessionEnd \/ LandLocal
           \/ CommitProposal \/ CheckoutBack \/ Start \/ Publish \/ Gather \/ Clear \/ Strip
           \/ Mark \/ Complete \/ LandGoverned \/ Raise \/ Crash \/ Expire
           \/ (\E s \in Session : Capture(s)) \/ (\E g \in Gap : NoteGap(g)) \/ Sweep
           \/ UNCHANGED vars
  BY <1>1, <1>3, GitHubUntouched
<1>4. CASE PushStart \/ PushEnd \/ Push
  <2>1. pr' = pr
    BY <1>4 DEF PushStart, PushEnd, Push, github
  <2>2. \/ origin' = origin /\ base' = base
        \/ origin' = tip["main"] /\ base' = tip["main"]
    BY <1>4 DEF PushStart, PushEnd, Push, PushedMain
  <2> QED
    BY <1>1, <2>1, <2>2, Refs
<1>5. CASE Pull
  <2>1. origin' = origin /\ pr' = pr /\ base' \in {base, origin}
    BY <1>5 DEF Pull
  <2> QED
    BY <1>1, <2>1
<1>6. CASE Sync
  <2>1. pr' = pr
    BY <1>6 DEF Sync
  <2>2. /\ base' = origin' \/ (base' = base /\ origin' = origin)
        /\ origin' \in {origin, tip'["main"]}
    BY <1>6, SyncKeeps
  <2>3. tip'["main"].facts \subseteq Kept'
    BY TipsStayKept, Refs
  <2> QED
    BY <1>1, <2>1, <2>2, <2>3
<1>7. CASE Propose
  <2>1. origin' = origin /\ base' = base
    BY <1>7 DEF Propose
  <2>2. pc = "propose" /\ ~dirty /\ prop \in Branch /\ fork.facts \subseteq OnProposals
    BY <1>7 DEF Propose, KeptInv, ForkIsKept
  <2>3. tip[prop].facts \subseteq OnProposals
    BY <2>2, OnProposalsIs
  <2>4. \/ pr' = pr
        \/ pr' = [pr EXCEPT ![prop] = [state |-> "open", head |-> tip[prop], fork |-> fork]]
    BY <1>7 DEF Propose
  <2>5. ASSUME NEW b \in Branch
        PROVE  pr'[b].head.facts \union pr'[b].fork.facts \subseteq OnProposals
    <3>1. CASE pr'[b] = pr[b]
      BY <1>1, <3>1
    <3>2. CASE pr'[b] = [state |-> "open", head |-> tip[prop], fork |-> fork]
      BY <2>2, <2>3, <3>2
    <3> QED
      BY <2>2, <2>4, <3>1, <3>2 DEF TypeOK
  <2> QED
    BY <1>1, <2>1, <2>5
<1>8. CASE \E b \in Branch : MergePull(b) \/ ClosePull(b)
  <2>1. PICK b \in Branch : MergePull(b) \/ ClosePull(b)
    BY <1>8
  <2>2. base' = base /\ pr' = [pr EXCEPT ![b] = NoPull]
    BY <2>1 DEF MergePull, ClosePull, disk
  <2>3. \A c \in Branch : pr'[c] = pr[c] \/ pr'[c] = NoPull
    BY <2>2 DEF TypeOK
  <2>4. NoPull.head.facts = {} /\ NoPull.fork.facts = {}
    BY DEF NoPull, Empty
  <2>5. /\ \A f : f \in origin'.facts => f \in origin.facts \/ f \in pr[b].head.facts
        /\ \A f : f \in origin.facts => f \in origin'.facts \/ f \in pr[b].fork.facts
    BY <2>1 DEF MergePull, ClosePull, Merge3
  <2>6. OnProposals \subseteq Kept
    BY DEF Kept
  <2>7. origin'.facts \subseteq Kept
    BY <1>1, <2>5, <2>6
  <2>8. base'.facts \ origin'.facts \subseteq OnProposals
    BY <1>1, <2>2, <2>5
  <2>9. \A c \in Branch : pr'[c].head.facts \union pr'[c].fork.facts \subseteq OnProposals
    BY <1>1, <2>3, <2>4
  <2> QED
    BY <1>1, <2>2, <2>7, <2>8, <2>9
<1> QED
  BY <1>3, <1>4, <1>5, <1>6, <1>7, <1>8 DEF Next, Dream, Hooks, Review

\* What a proposal started from is in it once it is committed.
LEMMA ForkStaysKept ==
  ASSUME TypeOK, KeptInv, [Next]_vars
  PROVE  ForkIsKept'
<1> USE DEF disk, github, memory, dream, ghosts
<1>1. /\ Kept \subseteq Kept' /\ OnProposals \subseteq OnProposals'
      /\ pc \in {"strip", "commit"} => cur = prop /\ prop \in Branch /\ fork.facts \subseteq Kept
      /\ pc \in {"back", "propose"} =>
           ~dirty /\ prop \in Branch /\ fork.facts \subseteq OnProposals
  BY NothingIsDropped DEF KeptInv, ForkIsKept
<1>2. CASE \E b \in Branch : CreateBranch(b)
  <2>1. PICK b \in Branch : CreateBranch(b)
    BY <1>2
  <2>2. pc' = "mark" \/ (pc' = "strip" /\ cur' = b /\ prop' = b /\ fork' = tip[cur])
    BY <2>1 DEF CreateBranch
  <2>3. tip[cur].facts \subseteq Kept
    BY DEF KeptInv, CommitsAreKept, TypeOK
  <2> QED
    BY <1>1, <2>2, <2>3 DEF ForkIsKept
<1>3. CASE CommitProposal
  <2>1. fork' = fork /\ prop' = prop /\ wt' = wt /\ pc = "commit"
    BY <1>3 DEF CommitProposal
  <2>2. CASE pc' = "back"
    <3>1. ~dirty' /\ cur' = cur /\ tip' = [tip EXCEPT ![cur].facts = wt.facts]
      BY <1>3, <2>2 DEF CommitProposal
    <3>2. tip'[prop].facts = wt.facts
      <4>1. tip \in [Ref -> Tree] /\ cur \in Ref /\ cur = prop
        BY <1>1, <2>1 DEF TypeOK
      <4>2. [tip[cur] EXCEPT !.facts = wt.facts].facts = wt.facts
        BY <4>1 DEF Tree
      <4> QED
        BY <3>1, <4>1, <4>2
    <3>3. wt.facts \subseteq OnProposals'
      BY <1>1, <2>1, <3>1, <3>2, OnProposalsIs
    <3>4. fork.facts \subseteq OnProposals'
      BY <1>1, <2>1, <3>3 DEF Kept
    <3> QED
      BY <1>1, <2>1, <2>2, <3>1, <3>4 DEF ForkIsKept
  <2>3. CASE pc' \in {"backEmpty", "backFailed"}
    BY <2>3 DEF ForkIsKept
  <2> QED
    BY <1>3, <2>2, <2>3 DEF CommitProposal
<1>4. CASE Strip
  BY <1>1, <1>4 DEF Strip, ForkIsKept
<1>5. CASE CheckoutBack
  BY <1>1, <1>5 DEF CheckoutBack, ForkIsKept
<1>6. CASE \/ Start \/ Publish \/ PushStart \/ Gather \/ Save \/ Clear \/ Propose
           \/ Mark \/ Complete \/ LandLocal \/ LandGoverned \/ PushEnd \/ Raise \/ Crash
  BY <1>6 DEF Start, Publish, EndFailed, PushStart, Gather, Save, Clear, Propose,
              Mark, Complete, LandLocal, LandGoverned, PushEnd, Raise, Crash, ForkIsKept
<1>7. CASE Expire \/ Hooks \/ Review \/ UNCHANGED vars
  <2>1. pc' = pc /\ cur' = cur /\ prop' = prop /\ fork' = fork /\ (dirty' => dirty)
    BY <1>7 DEF Expire, Hooks, Capture, NoteGap, SessionEnd, CommitAll, Sweep, Pull, Push, Sync,
                Review, MergePull, ClosePull, vars
  <2> QED
    BY <1>1, <2>1 DEF ForkIsKept
<1> QED
  BY <1>2, <1>3, <1>4, <1>5, <1>6, <1>7 DEF Next, Dream

\* The steps that are neither reading, writing, marking nor giving up.
LEMMA MemoryUntouched ==
  ASSUME \/ Start \/ Publish \/ PushStart \/ (\E b \in Branch : CreateBranch(b)) \/ Strip
         \/ CommitProposal \/ CheckoutBack \/ Propose \/ Complete \/ LandLocal \/ LandGoverned
         \/ PushEnd \/ Raise \/ Crash \/ Expire \/ Hooks \/ Review \/ UNCHANGED vars
  PROVE  /\ gathered' = gathered /\ covered' = covered /\ heard' = heard
         /\ gaps \subseteq gaps'
         /\ \/ draft' = draft /\ taken' = taken /\ (pc = "save" => pc' = "save")
            \/ draft' = {} /\ taken' = {} /\ pc' # "save"
         /\ pc' = pc \/ pc' \notin {"save", "clear"}
<1> USE DEF disk, github, memory, dream, ghosts
<1>1. CASE \/ Start \/ Publish \/ PushStart \/ (\E b \in Branch : CreateBranch(b)) \/ Strip
           \/ CommitProposal \/ CheckoutBack \/ Propose
  BY <1>1 DEF Start, Publish, PushStart, EndFailed, Forget, CreateBranch, Strip,
              CommitProposal, CheckoutBack, Propose
<1>2. CASE \/ Complete \/ LandLocal \/ LandGoverned \/ PushEnd \/ Raise \/ Crash \/ Expire
  BY <1>2 DEF Complete, LandLocal, LandGoverned, PushEnd, Raise, Forget, Crash, Expire
<1>3. CASE Hooks \/ Review \/ UNCHANGED vars
  BY <1>3 DEF Hooks, Capture, NoteGap, SessionEnd, Sweep, Pull, Push, Sync,
              Review, MergePull, ClosePull, vars
<1> QED
  BY <1>1, <1>2, <1>3

\* From the working tree into the memory of a dream and back, nothing is lost.
LEMMA ReadStaysKept ==
  ASSUME TypeOK, KeptInv, [Next]_vars
  PROVE  ReadIsKept'
<1> USE DEF disk, github, memory, dream, ghosts
<1>1. ReadIsKept /\ Kept \subseteq Kept' /\ OnProposals \subseteq OnProposals'
  BY NothingIsDropped DEF KeptInv
<1>2. CASE Gather
  <2>1. /\ pc = "gather" /\ pc' = "save" /\ gathered' = gathered /\ gaps' = gaps
        /\ heard' = heard \union gaps
        /\ wt.facts \union gaps \subseteq draft' /\ wt' = wt
    BY <1>2 DEF Gather
  <2>2. \A s \in Unread : \A k \in 1 .. wt.sess[s] : <<s, k>> \in draft'
    BY <1>2, EventsAreBounded DEF Gather, Unread, TypeOK, Tree, Log
  <2>3. /\ taken' \subseteq Unread
        /\ \A s \in Session : s \in taken' => covered'[s] = wt.sess[s]
        /\ \A s \in Session : s \notin taken' => covered'[s] = covered[s]
    BY <1>2 DEF Gather
  <2>4. \A s \in taken' : \A k \in 1 .. covered'[s] : <<s, k>> \in draft'
    BY <2>2, <2>3 DEF Unread
  <2>5. \A s \in gathered' : \A k \in 1 .. covered'[s] : <<s, k>> \in Kept'
    <3>1. \A s \in gathered : s \in Session /\ s \notin taken'
      BY <2>3 DEF Unread, TypeOK
    <3>2. \A s \in gathered : \A k \in 1 .. covered[s] : <<s, k>> \in Kept
      BY <1>1 DEF ReadIsKept
    <3> QED
      BY <1>1, <2>1, <2>3, <3>1, <3>2
  <2>6. heard' \subseteq gaps' \union Kept' /\ heard' \subseteq Kept' \union draft'
    <3>1. heard \subseteq gaps \union Kept
      BY <1>1 DEF ReadIsKept
    <3> QED
      BY <1>1, <2>1, <3>1
  <2> QED
    BY <2>1, <2>4, <2>5, <2>6 DEF ReadIsKept
<1>3. CASE Save
  <2>1. /\ pc = "save" /\ pc' = "clear" /\ draft' = {} /\ taken' = taken
        /\ gathered' = gathered /\ covered' = covered /\ heard' = heard /\ gaps' = gaps
    BY <1>3 DEF Save
  <2>2. Kept \union draft \subseteq Kept'
    BY <1>3, SaveKeeps
  <2> QED
    BY <1>1, <2>1, <2>2 DEF ReadIsKept
<1>4. CASE Clear
  <2>1. /\ pc = "clear" /\ pc' \notin {"save", "clear"} /\ draft' = draft /\ taken' = taken
        /\ gathered' = gathered /\ covered' = covered /\ heard' = heard
    BY <1>4 DEF Clear
  <2> QED
    BY <1>1, <2>1 DEF ReadIsKept
<1>5. CASE Mark
  <2>1. /\ pc = "mark" /\ pc' \notin {"save", "clear"} /\ draft' = draft /\ taken' = {}
        /\ gathered' = gathered \union taken /\ covered' = covered /\ heard' = heard
        /\ gaps' = gaps
    BY <1>5 DEF Mark
  <2> QED
    BY <1>1, <2>1 DEF ReadIsKept
<1>6. CASE \/ Start \/ Publish \/ PushStart \/ (\E b \in Branch : CreateBranch(b)) \/ Strip
           \/ CommitProposal \/ CheckoutBack \/ Propose \/ Complete \/ LandLocal \/ LandGoverned
           \/ PushEnd \/ Raise \/ Crash \/ Expire \/ Hooks \/ Review \/ UNCHANGED vars
  <2>1. pc' = "save" => wt'.facts \subseteq draft' \union OnProposals'
    <3> SUFFICES ASSUME pc' = "save" PROVE wt'.facts \subseteq draft' \union OnProposals'
      OBVIOUS
    <3>1. pc = "save" /\ draft' = draft /\ wt.facts \subseteq draft \union OnProposals
      BY <1>1, <1>6, MemoryUntouched DEF ReadIsKept
    <3>2. \A r \in Ref : tip[r].facts \subseteq draft \union OnProposals
      BY <3>1 DEF KeptInv, CommitsAreKept, Kept
    <3>3. origin.facts \subseteq draft \union OnProposals
      BY <3>1 DEF KeptInv, CommitsAreKept, Kept
    <3>4. CASE Pull
      BY <1>1, <3>1, <3>2, <3>3, <3>4, PullKeeps, Refs
    <3>5. CASE Sync
      BY <1>1, <3>1, <3>2, <3>3, <3>5, SyncKeeps, Refs
    <3>6. CASE wt'.facts = wt.facts
      BY <1>1, <3>1, <3>6
    <3>7. CASE \/ Start \/ Publish \/ PushStart \/ Strip \/ Propose \/ Complete \/ LandGoverned
               \/ PushEnd \/ Raise \/ Crash \/ Expire
               \/ (\E s \in Session : Capture(s)) \/ (\E g \in Gap : NoteGap(g)) \/ Sweep \/ Push
               \/ Review \/ UNCHANGED vars
      BY <3>6, <3>7, FactsUntouched DEF SameFacts
    <3>8. CASE (\E b \in Branch : CreateBranch(b)) \/ CommitProposal \/ LandLocal \/ SessionEnd
      BY <3>6, <3>8 DEF CreateBranch, CommitProposal, LandLocal, SessionEnd
    <3>9. CASE CheckoutBack
      BY <3>1, <3>9 DEF CheckoutBack
    <3> QED
      BY <1>6, <3>4, <3>5, <3>7, <3>8, <3>9 DEF Hooks
  <2>2. /\ gathered' = gathered /\ covered' = covered /\ heard' = heard /\ gaps \subseteq gaps'
        /\ \/ draft' = draft /\ taken' = taken /\ (pc = "save" => pc' = "save")
           \/ draft' = {} /\ taken' = {} /\ pc' # "save"
        /\ pc' = pc \/ pc' \notin {"save", "clear"}
    BY <1>6, MemoryUntouched
  <2>3. pc' # "save" => draft' = {}
    BY <1>1, <2>2 DEF ReadIsKept
  <2>4. pc' \in {"save", "clear"} => heard' \subseteq Kept' \union draft'
    BY <1>1, <2>2 DEF ReadIsKept
  <2>5. \A s \in gathered' : \A k \in 1 .. covered'[s] : <<s, k>> \in Kept'
    BY <1>1, <2>2 DEF ReadIsKept
  <2>6. \A s \in taken' : \A k \in 1 .. covered'[s] : <<s, k>> \in Kept' \union draft'
    BY <1>1, <2>2 DEF ReadIsKept
  <2> QED
    BY <1>1, <2>1, <2>2, <2>3, <2>4, <2>5, <2>6 DEF ReadIsKept
<1> QED
  BY <1>2, <1>3, <1>4, <1>5, <1>6 DEF Next, Dream

\* The inductive invariant behind the two properties below: a fact moves between the
\* working tree, the proposal branches, main, GitHub and a dream's memory, and what is
\* in none of the first two is nowhere.
THEOREM NothingIsLost == Spec => []KeptInv
<1>1. Init => KeptInv
  <2> SUFFICES ASSUME Init PROVE KeptInv
    OBVIOUS
  <2> USE DEF Init
  <2>1. \A r \in Ref : tip[r] = Empty /\ tip[r].facts = {}
    BY DEF Empty
  <2>2. wt.facts = {} /\ base.facts = {} /\ origin.facts = {}
    BY DEF Empty
  <2>3. \A b \in Branch : pr[b].head.facts = {} /\ pr[b].fork.facts = {}
    BY DEF NoPull, Empty
  <2>4. LearnsOnMain /\ UnusedIsEmpty /\ CleanIsCommitted
    BY <2>1, <2>2, Refs, MainIsNoProposal DEF LearnsOnMain, UnusedIsEmpty, CleanIsCommitted
  <2>5. CommitsAreKept /\ ForkIsKept /\ ReadIsKept
    BY <2>1, <2>2, <2>3 DEF CommitsAreKept, ForkIsKept, ReadIsKept
  <2> QED
    BY <2>4, <2>5 DEF KeptInv
<1>2. TypeOK /\ KeptInv /\ [Next]_vars => KeptInv'
  BY DreamsLearnOnMain, UnusedStaysEmpty, CleanStaysCommitted, CommitsStayKept,
     ForkStaysKept, ReadStaysKept DEF KeptInv
<1> QED
  BY <1>1, <1>2, TypeCorrect, PTL DEF Spec

\* What is kept is on disk or on GitHub.
LEMMA KeptIsDurable == KeptInv => Kept \subseteq Durable
<1>1. ASSUME NEW f \in OnProposals PROVE f \in UNION {tip[r].facts : r \in Ref}
  BY <1>1, OnProposalsIs, Refs
<1> QED
  BY <1>1 DEF Kept, Durable

\* A session marked as gathered is never read again; its facts survive crashes,
\* refused commits, closed pull requests and pulls between the dream's steps.
THEOREM GatheredStaysDurable == Spec => []GatheredIsDurable
<1>1. KeptInv => GatheredIsDurable
  BY KeptIsDurable DEF KeptInv, ReadIsKept, GatheredIsDurable
<1> QED
  BY <1>1, NothingIsLost, PTL

\* A gap record is emptied by prune() only after its fact is on disk.
THEOREM GapsSurvive == Spec => []GatheredGapsSurvive
<1>1. KeptInv => GatheredGapsSurvive
  BY KeptIsDurable DEF KeptInv, ReadIsKept, GatheredGapsSurvive
<1> QED
  BY <1>1, NothingIsLost, PTL

-----------------------------------------------------------------------------
(* Nothing published is lost, as long as no hook, sync or capture comes     *)
(* between the steps of a dream.                                            *)

\* Facts of the working tree are those of the commit and more, at every step: what
\* a dream writes includes what it read, and nobody writes meanwhile.
LEMMA FactsKeepGrowing ==
  ASSUME ~Overlap, TypeOK, KeptInv, QuietInv, [Next]_vars
  PROVE  FactsGrow'
<1> USE DEF disk, github, memory, dream, ghosts
<1>1. /\ FactsGrow
      /\ base.facts \subseteq tip["main"].facts
      /\ tip["main"].facts \subseteq wt.facts /\ tip[cur].facts \subseteq wt.facts
      /\ pc = "save" => wt.facts \subseteq draft
      /\ pc \in Proposing => cur = prop
      /\ pc \in Proposing \union {"propose"} => fork.facts \subseteq tip[prop].facts
      /\ \A b \in Branch : pr[b].fork.facts \subseteq pr[b].head.facts
      /\ cur \in Ref /\ prop \in Ref /\ "main" \in Ref
      /\ tip \in [Ref -> Tree]
  BY Refs DEF QuietInv, FactsGrow, TypeOK
<1>2. CASE Save
  <2>1. /\ pc = "save" /\ pc' = "clear" /\ tip' = tip /\ base' = base /\ cur' = cur /\ pr' = pr
        /\ wt'.facts = draft
    BY <1>2 DEF Save, TypeOK, Tree
  <2> QED
    BY <1>1, <2>1 DEF FactsGrow, Proposing
<1>3. CASE \E b \in Branch : CreateBranch(b)
  <2>1. PICK b \in Branch : CreateBranch(b)
    BY <1>3
  <2>2. wt' = wt /\ base' = base /\ pr' = pr
    BY <2>1 DEF CreateBranch
  <2>3. CASE pc' = "mark" /\ tip' = tip /\ cur' = cur
    BY <1>1, <2>2, <2>3 DEF FactsGrow, Proposing
  <2>4. CASE /\ pc' = "strip" /\ tip' = [tip EXCEPT ![b] = tip[cur]] /\ cur' = b /\ prop' = b
             /\ fork' = tip[cur]
    <3>1. tip'["main"] = tip["main"] /\ tip'[b] = tip[cur]
      BY <1>1, <2>4, Refs, MainIsNoProposal
    <3> QED
      BY <1>1, <2>2, <2>4, <3>1 DEF FactsGrow, Proposing
  <2> QED
    BY <2>1, <2>3, <2>4 DEF CreateBranch
<1>4. CASE SessionEnd \/ LandLocal
  <2>1. /\ pc' \notin {"save", "propose"} \union Proposing
        /\ base' = base /\ pr' = pr /\ cur' = cur /\ wt' = wt
    BY <1>4, <1>1 DEF SessionEnd, LandLocal, QuietInv, Quiet, Proposing
  <2>2. \A r \in Ref : tip'[r].facts = tip[r].facts \/ tip'[r].facts = wt.facts
    BY <1>4, CommitsAreOfFacts
  <2> QED
    BY <1>1, <2>1, <2>2 DEF FactsGrow, Proposing
<1>5. CASE CommitProposal
  <2>1. /\ pc = "commit" /\ pc' \in Proposing
        /\ base' = base /\ pr' = pr /\ cur' = cur /\ wt' = wt /\ prop' = prop /\ fork' = fork
    BY <1>5 DEF CommitProposal, Proposing
  <2>2. \A r \in Ref : tip'[r].facts = tip[r].facts \/ tip'[r].facts = wt.facts
    BY <1>5, CommitsAreOfFacts
  <2>3. cur = prop /\ fork.facts \subseteq tip[prop].facts
    BY <1>1, <2>1 DEF Proposing
  <2> QED
    BY <1>1, <2>1, <2>2, <2>3 DEF FactsGrow, Proposing
<1>6. CASE CheckoutBack
  <2>1. /\ tip' = tip /\ base' = base /\ pr' = pr /\ pc' \notin Proposing \union {"save"}
        /\ pc' = "propose" => pc = "back" /\ fork' = fork /\ prop' = prop
        /\ \/ cur' = cur /\ wt' = wt
           \/ cur' = "main" /\ wt' = LeftBehind
    BY <1>6 DEF CheckoutBack, Proposing
  <2>2. tip["main"].facts \subseteq LeftBehind.facts
    BY <1>1 DEF LeftBehind
  <2> HIDE DEF LeftBehind
  <2> QED
    BY <1>1, <2>1, <2>2 DEF FactsGrow, Proposing
<1>7. CASE Pull
  <2>1. /\ pr' = pr /\ pc' = pc /\ pc = "idle" /\ cur' = cur
    BY <1>7, <1>1 DEF Pull, QuietInv
  <2>2. \/ SameFacts /\ base' = base /\ wt' = wt
        \/ /\ cur = "main" /\ base' = origin /\ tip'["main"].facts = wt'.facts
           /\ origin.facts \subseteq wt'.facts
    BY <1>1, <1>7, PullKeeps
  <2> QED
    BY <1>1, <2>1, <2>2 DEF FactsGrow, Proposing, SameFacts
<1>8. CASE Sync
  <2>1. pr' = pr /\ pc' = pc /\ cur' = cur
    BY <1>8, <1>1 DEF Sync
  <2>2. \/ SameFacts /\ base' = base /\ wt' = wt
        \/ /\ cur = "main" /\ tip'["main"].facts = wt'.facts
           /\ origin.facts \subseteq wt'.facts
           /\ origin' \in {origin, tip'["main"]} /\ base' = origin'
    BY <1>1, <1>8, SyncKeeps
  <2>3. pc' \notin {"save", "propose"} \union Proposing
    BY <1>8 DEF Sync, Quiet, Proposing
  <2> QED
    BY <1>1, <2>1, <2>2, <2>3 DEF FactsGrow, Proposing, SameFacts
<1>9. CASE \/ Start \/ Publish \/ PushStart \/ Gather \/ Clear \/ Strip \/ Propose \/ Mark
           \/ Complete \/ LandGoverned \/ PushEnd \/ Raise \/ Crash \/ Expire
           \/ (\E s \in Session : Capture(s)) \/ (\E g \in Gap : NoteGap(g)) \/ Sweep \/ Push
           \/ Review \/ UNCHANGED vars
  <2>1. SameFacts
    BY <1>9, FactsUntouched
  <2>2. base' = base \/ base' = tip["main"]
    BY <1>9, GitHubUntouched DEF PushStart, PushEnd, Push, PushedMain, Propose, Review,
                                MergePull, ClosePull
  <2>3. pc' = "save" => wt.facts \subseteq draft'
    <3>1. CASE Gather
      BY <3>1 DEF Gather
    <3>2. CASE \/ Start \/ Publish \/ PushStart \/ Strip \/ Propose
               \/ Complete \/ LandGoverned \/ PushEnd \/ Raise \/ Crash \/ Expire
               \/ (\E s \in Session : Capture(s)) \/ (\E g \in Gap : NoteGap(g)) \/ Sweep
               \/ Push \/ Review \/ UNCHANGED vars
      BY <1>1, <3>2, MemoryUntouched DEF Hooks
    <3>3. CASE Clear \/ Mark
      BY <3>3 DEF Clear, Mark
    <3> QED
      BY <1>9, <3>1, <3>2, <3>3
  <2>4. \/ pc' \notin Proposing \union {"propose"}
        \/ pc' = pc /\ prop' = prop /\ fork' = fork
        \/ pc = "strip" /\ pc' = "commit" /\ prop' = prop /\ fork' = fork
    <3> USE DEF Proposing
    <3>1. CASE \/ Start \/ Publish \/ PushStart \/ Gather \/ Clear \/ Strip \/ Propose \/ Mark
      BY <3>1 DEF Start, Publish, PushStart, EndFailed, Gather, Clear, Strip, Propose, Mark
    <3>2. CASE \/ Complete \/ LandGoverned \/ PushEnd \/ Raise \/ Crash \/ Expire
      BY <3>2 DEF Complete, LandGoverned, PushEnd, Raise, Crash, Expire
    <3>3. CASE \/ (\E s \in Session : Capture(s)) \/ (\E g \in Gap : NoteGap(g)) \/ Sweep \/ Push
               \/ Review \/ UNCHANGED vars
      BY <3>3 DEF Capture, NoteGap, Sweep, Push, Review, MergePull, ClosePull, vars
    <3> QED
      BY <1>9, <3>1, <3>2, <3>3
  <2>5. ASSUME NEW b \in Branch PROVE pr'[b].fork.facts \subseteq pr'[b].head.facts
    <3>1. \/ pr'[b] = pr[b] \/ pr'[b] = NoPull
          \/ /\ pc = "propose"
             /\ pr'[b] = [state |-> "open", head |-> tip[prop], fork |-> fork]
      <4>1. CASE Propose
        BY <4>1 DEF Propose, TypeOK
      <4>2. CASE Review
        BY <4>2 DEF Review, MergePull, ClosePull, TypeOK
      <4>3. CASE PushStart \/ PushEnd \/ Push
        BY <4>3 DEF PushStart, PushEnd, Push
      <4> QED
        BY <1>9, <4>1, <4>2, <4>3, GitHubUntouched
    <3>2. NoPull.fork.facts = NoPull.head.facts
      BY DEF NoPull
    <3> QED
      BY <1>1, <3>1, <3>2
  <2>6. pc' \in Proposing => cur' = prop'
    BY <1>1, <2>1, <2>4 DEF SameFacts, Proposing
  <2>7. pc' \in Proposing \union {"propose"} => fork'.facts \subseteq tip'[prop'].facts
    BY <1>1, <2>1, <2>4 DEF SameFacts, Proposing
  <2> QED
    BY <1>1, <2>1, <2>2, <2>3, <2>5, <2>6, <2>7 DEF FactsGrow, SameFacts
<1> QED
  BY <1>2, <1>3, <1>4, <1>5, <1>6, <1>7, <1>8, <1>9 DEF Next, Dream, Hooks

\* A merge without conflict takes in what origin added and keeps what main has, when
\* both grew from the merge base.
LEMMA MergeLogs ==
  ASSUME NEW b \in Tree, NEW x \in Tree, NEW y \in Tree, ~Conflict(b, x, y),
         \A s \in Session : b.sess[s] <= x.sess[s]
  PROVE  \A s \in Session : y.sess[s] <= Merge3(b, x, y).sess[s]
<1> SUFFICES ASSUME NEW s \in Session PROVE y.sess[s] <= Merge3(b, x, y).sess[s]
  OBVIOUS
<1>1. Merge3(b, x, y).sess[s] = IF x.sess[s] = b.sess[s] THEN y.sess[s] ELSE x.sess[s]
  BY DEF Merge3
<1>2. b.sess[s] \in Nat /\ x.sess[s] \in Nat /\ y.sess[s] \in Nat
  BY EventsAreBounded DEF Tree, Log
<1>3. x.sess[s] = b.sess[s] \/ y.sess[s] = b.sess[s] \/ x.sess[s] = y.sess[s]
  BY DEF Conflict
<1> QED
  BY <1>1, <1>2, <1>3

\* Session logs of a tree are numbers.
LEMMA LogsAreNumbers ==
  ASSUME TypeOK
  PROVE  /\ \A s \in Session : wt.sess[s] \in Nat /\ base.sess[s] \in Nat
                               /\ origin.sess[s] \in Nat /\ tracked[s] \in Nat
         /\ \A r \in Ref : \A s \in Session : tip[r].sess[s] \in Nat
<1>1. \A t \in Tree : \A s \in Session : t.sess[s] \in Nat
  BY EventsAreBounded DEF Tree, Log
<1> QED
  BY <1>1, EventsAreBounded DEF TypeOK, Log

\* Writing a log into a commit writes that of one ref.
LEMMA LogIsWritten ==
  ASSUME TypeOK, NEW r \in Ref, NEW logs, tip' = [tip EXCEPT ![r].sess = logs]
  PROVE  \A q \in Ref : tip'[q].sess = IF q = r THEN logs ELSE tip[q].sess
<1>1. tip \in [Ref -> Tree] /\ tip[r] \in Tree
  BY DEF TypeOK
<1>2. [tip[r] EXCEPT !.sess = logs].sess = logs
  BY <1>1 DEF Tree
<1> QED
  BY <1>1, <1>2

\* The logs of main are never behind its merge base nor ahead of the working tree,
\* though a dream sets logs back to origin/main while it is on its proposal branch:
\* it has just pushed main, and nobody commits meanwhile.
LEMMA LogsKeepGrowing ==
  ASSUME ~Overlap, TypeOK, TypeOK', KeptInv, QuietInv, [Next]_vars
  PROVE  LogsGrow'
<1> USE DEF disk, github, memory, dream, ghosts
<1>1. /\ \A s \in Session : base.sess[s] <= tip["main"].sess[s]
      /\ cur = "main" \/ pc \in Proposing =>
           \A s \in Session : tip["main"].sess[s] <= wt.sess[s]
      /\ Governed /\ pc \in {"gather", "save", "clear", "branch", "strip"} =>
           tracked = tip["main"].sess
      /\ pc \in Proposing => tip[cur].sess = tip["main"].sess
      /\ pc \in Proposing \union {"propose"} => prop \in Branch /\ fork.sess = tip[prop].sess
      /\ \A b \in Branch : pr[b].fork.sess = pr[b].head.sess
      /\ cur \in Ref /\ prop \in Ref /\ "main" \in Ref
      /\ tip \in [Ref -> Tree]
  BY Refs DEF QuietInv, LogsGrow, TypeOK
<1>2. /\ \A s \in Session : wt.sess[s] \in Nat /\ base.sess[s] \in Nat
                            /\ origin.sess[s] \in Nat /\ tracked[s] \in Nat
      /\ \A r \in Ref : \A s \in Session : tip[r].sess[s] \in Nat
  BY LogsAreNumbers
<1>3. CASE \E b \in Branch : CreateBranch(b)
  <2>1. PICK b \in Branch : CreateBranch(b)
    BY <1>3
  <2>2. pc = "branch" /\ wt' = wt /\ base' = base /\ pr' = pr /\ tracked' = tracked
    BY <2>1 DEF CreateBranch
  <2>3. cur = "main" /\ Governed
    BY <2>2 DEF KeptInv, LearnsOnMain
  <2>4. CASE pc' = "mark" /\ tip' = tip /\ cur' = cur
    BY <1>1, <2>2, <2>4 DEF LogsGrow, Proposing
  <2>5. CASE /\ pc' = "strip" /\ tip' = [tip EXCEPT ![b] = tip[cur]] /\ cur' = b /\ prop' = b
             /\ fork' = tip[cur]
    <3>1. tip'["main"] = tip["main"] /\ tip'[b] = tip["main"]
      BY <1>1, <2>3, <2>5, Refs, MainIsNoProposal
    <3> QED
      BY <1>1, <2>2, <2>3, <2>5, <3>1 DEF LogsGrow, Proposing
  <2> QED
    BY <2>1, <2>4, <2>5 DEF CreateBranch
<1>4. CASE Strip
  <2>1. /\ pc = "strip" /\ pc' = "commit" /\ tip' = tip /\ base' = base /\ pr' = pr
        /\ cur' = cur /\ prop' = prop /\ fork' = fork
        /\ \A s \in Session : wt'.sess[s] = tracked[s] \/ wt'.sess[s] = wt.sess[s]
    BY <1>4 DEF Strip, TypeOK, Tree
  <2>2. Governed /\ tracked = tip["main"].sess
    <3>1. cur \in Branch
      BY <2>1 DEF KeptInv, ForkIsKept
    <3>2. Governed
      BY <3>1, MainIsNoProposal DEF KeptInv, LearnsOnMain
    <3> QED
      BY <1>1, <2>1, <3>2
  <2> QED
    BY <1>1, <1>2, <2>1, <2>2 DEF LogsGrow, Proposing
<1>5. CASE CommitProposal
  <2>1. /\ pc = "commit" /\ pc' \in Proposing /\ pc' # "strip"
        /\ base' = base /\ pr' = pr /\ cur' = cur /\ wt' = wt /\ prop' = prop /\ fork' = fork
        /\ tip' = tip \/ tip' = [tip EXCEPT ![cur].facts = wt.facts]
    BY <1>5 DEF CommitProposal, Proposing
  <2>2. [tip[cur] EXCEPT !.facts = wt.facts].sess = tip[cur].sess
    BY <1>1 DEF Tree
  <2>3. \A r \in Ref : tip'[r].sess = tip[r].sess
    BY <1>1, <2>1, <2>2
  <2>4. pc \in Proposing /\ prop' \in Ref /\ cur' \in Ref
    BY <1>1, <2>1 DEF Proposing
  <2>5. pc' \notin {"gather", "save", "clear", "branch", "strip"}
    BY <2>1 DEF Proposing
  <2> QED
    BY <1>1, <2>1, <2>3, <2>4, <2>5 DEF LogsGrow
<1>6. CASE CheckoutBack
  <2>1. /\ pc \in Proposing /\ tip' = tip /\ base' = base /\ pr' = pr
        /\ pc' \in {"propose", "mark", "sync"}
        /\ pc' = "propose" => fork' = fork /\ prop' = prop
        /\ \/ cur' = cur /\ wt' = wt
           \/ cur' = "main" /\ wt' = LeftBehind
    BY <1>6 DEF CheckoutBack, Proposing
  <2>2. LeftBehind.sess = [s \in Session |-> wt.sess[s]]
    BY <1>1, <2>1 DEF LeftBehind
  <2> HIDE DEF LeftBehind
  <2>3. \A s \in Session : wt'.sess[s] = wt.sess[s]
    BY <2>1, <2>2
  <2> QED
    BY <1>1, <2>1, <2>3 DEF LogsGrow, Proposing
<1>7. CASE Propose
  <2>1. /\ pc = "propose" /\ pc' \in {"mark", "idle"} /\ tip' = tip /\ base' = base
        /\ cur' = cur /\ wt' = wt
        /\ \/ pr' = pr
           \/ pr' = [pr EXCEPT ![prop] = [state |-> "open", head |-> tip[prop], fork |-> fork]]
    BY <1>7 DEF Propose, EndFailed
  <2>2. fork.sess = tip[prop].sess
    BY <1>1, <2>1
  <2>3. ASSUME NEW b \in Branch PROVE pr'[b].fork.sess = pr'[b].head.sess
    <3>1. pr'[b] = pr[b] \/ pr'[b] = [state |-> "open", head |-> tip[prop], fork |-> fork]
      BY <2>1 DEF TypeOK
    <3> QED
      BY <1>1, <2>2, <3>1
  <2> QED
    BY <1>1, <2>1, <2>3 DEF LogsGrow, Proposing
<1>8. CASE SessionEnd \/ LandLocal
  <2>1. /\ base' = base /\ pr' = pr /\ cur' = cur /\ wt' = wt /\ pc' = "idle"
        /\ tip' = tip \/ tip' = [tip EXCEPT ![cur] = wt]
    BY <1>8 DEF SessionEnd, LandLocal, CommitAll, Quiet
  <2>2. CASE tip'["main"] = tip["main"]
    BY <1>1, <2>1, <2>2 DEF LogsGrow, Proposing
  <2>3. CASE cur = "main" /\ tip'["main"] = wt
    <3>1. \A s \in Session : base.sess[s] <= wt.sess[s]
      BY <1>1, <1>2, <2>3
    <3>2. \A s \in Session : wt.sess[s] <= wt.sess[s]
      BY <1>2
    <3> QED
      BY <1>1, <2>1, <2>3, <3>1, <3>2 DEF LogsGrow, Proposing
  <2> QED
    BY <1>1, <2>1, <2>2, <2>3
<1>9. CASE LandGoverned
  <2>1. /\ base' = base /\ pr' = pr /\ cur' = cur /\ wt' = wt /\ pc' \in {"idle", "pushEnd"}
        /\ \/ tip' = tip
           \/ /\ cur = "main"
              /\ tip' = [tip EXCEPT !["main"].sess =
                           [s \in Session |-> IF wt.sess[s] > 0 THEN wt.sess[s] ELSE @[s]]]
    BY <1>9 DEF LandGoverned
  <2>2. CASE tip' = tip
    BY <1>1, <2>1, <2>2 DEF LogsGrow, Proposing
  <2>3. CASE /\ cur = "main"
             /\ tip' = [tip EXCEPT !["main"].sess =
                          [s \in Session |-> IF wt.sess[s] > 0 THEN wt.sess[s] ELSE @[s]]]
    <3>1. \A s \in Session : tip'["main"].sess[s] = IF wt.sess[s] > 0 THEN wt.sess[s]
                                                                      ELSE tip["main"].sess[s]
      BY <1>1, <2>3, LogIsWritten
    <3>2. \A s \in Session : tip["main"].sess[s] <= tip'["main"].sess[s]
                               /\ tip'["main"].sess[s] <= wt.sess[s]
      BY <1>1, <1>2, <2>3, <3>1
    <3>3. \A s \in Session : tip'["main"].sess[s] \in Nat
      BY <1>1, <1>2, <3>1
    <3>4. \A s \in Session : base.sess[s] <= tip'["main"].sess[s]
      BY <1>1, <1>2, <3>2, <3>3
    <3> QED
      BY <1>1, <2>1, <3>2, <3>4 DEF LogsGrow, Proposing
  <2> QED
    BY <2>1, <2>2, <2>3
<1>10. CASE Sweep
  <2>1. /\ base' = base /\ pr' = pr /\ cur' = cur /\ wt' = wt /\ pc' = "idle"
        /\ tip' = [tip EXCEPT ![cur].sess = wt.sess]
    BY <1>10 DEF Sweep, Quiet
  <2>2. tip'["main"].sess = IF cur = "main" THEN wt.sess ELSE tip["main"].sess
    BY <1>1, <2>1, LogIsWritten
  <2>3. cur = "main" => \A s \in Session : base.sess[s] <= wt.sess[s] /\ wt.sess[s] <= wt.sess[s]
    BY <1>1, <1>2
  <2> QED
    BY <1>1, <2>1, <2>2, <2>3 DEF LogsGrow, Proposing
<1>11. CASE Pull
  <2>1. /\ pr' = pr /\ pc' = pc /\ pc = "idle" /\ cur' = cur
        /\ \/ tip' = tip /\ wt' = wt /\ base' = base
           \/ /\ CanPull
              /\ tip' = [tip EXCEPT !["main"] = Pulled] /\ base' = origin
              /\ wt'.sess = [s \in Session |-> IF tip["main"].sess[s] = 0 /\ Pulled.sess[s] = 0
                                                 THEN wt.sess[s] ELSE Pulled.sess[s]]
    BY <1>11 DEF Pull, QuietInv
  <2>2. CASE tip' = tip /\ wt' = wt /\ base' = base
    BY <1>1, <2>1, <2>2 DEF LogsGrow, Proposing
  <2>3. CASE CanPull /\ tip' = [tip EXCEPT !["main"] = Pulled] /\ base' = origin
    <3>1. ~Conflict(base, tip["main"], origin) /\ Pulled = Merge3(base, tip["main"], origin)
      BY <2>3 DEF CanPull, Pulled
    <3>2. \A s \in Session : origin.sess[s] <= Pulled.sess[s]
      BY <1>1, <3>1, MergeLogs DEF TypeOK
    <3> HIDE DEF Pulled
    <3>3. tip'["main"] = Pulled
      BY <1>1, <2>3
    <3>4. \A s \in Session : tip'["main"].sess[s] \in Nat /\ wt'.sess[s] \in Nat
      BY EventsAreBounded, Refs DEF TypeOK, Tree, Log
    <3>5. CASE wt'.sess = [s \in Session |-> IF tip["main"].sess[s] = 0 /\ Pulled.sess[s] = 0
                                               THEN wt.sess[s] ELSE Pulled.sess[s]]
      <4>1. \A s \in Session : tip'["main"].sess[s] <= wt'.sess[s]
        BY <3>3, <3>4, <3>5
      <4> QED
        BY <1>1, <2>1, <2>3, <3>2, <3>3, <4>1 DEF LogsGrow, Proposing
    <3> QED
      BY <1>2, <2>1, <2>2, <3>5
  <2> QED
    BY <2>1, <2>2, <2>3
<1>12. CASE Sync
  <2> DEFINE local  == [tip["main"] EXCEPT !.sess = wt.sess]
             merged == Merge3(base, local, origin)
  <2>1. /\ pr' = pr /\ pc' = pc /\ pc = "idle" /\ cur' = cur /\ cur = "main"
        /\ \/ tip' = [tip EXCEPT !["main"] = local] /\ wt' = wt /\ base' = base
           \/ /\ ~Conflict(base, local, origin)
              /\ tip' = [tip EXCEPT !["main"] = merged] /\ wt' = merged
              /\ base' \in {merged, origin}
    BY <1>12 DEF Sync, Quiet
  <2>2. local \in Tree /\ local.sess = wt.sess
    BY <1>1 DEF TypeOK, Tree
  <2>3. \A s \in Session : base.sess[s] <= local.sess[s]
    BY <1>1, <1>2, <2>1, <2>2
  <2>4. CASE tip' = [tip EXCEPT !["main"] = local] /\ wt' = wt /\ base' = base
    <3>1. tip'["main"] = local
      BY <1>1, <2>4
    <3>2. \A s \in Session : tip'["main"].sess[s] <= wt.sess[s]
      BY <1>2, <2>2, <3>1
    <3> QED
      BY <1>1, <2>1, <2>3, <2>4, <3>1, <3>2 DEF LogsGrow, Proposing
  <2>5. CASE /\ ~Conflict(base, local, origin)
             /\ tip' = [tip EXCEPT !["main"] = merged] /\ wt' = merged
             /\ base' \in {merged, origin}
    <3>1. tip'["main"] = wt' /\ wt' = merged
      BY <1>1, <2>5
    <3>2. \A s \in Session : origin.sess[s] <= merged.sess[s]
      BY <2>2, <2>3, <2>5, MergeLogs DEF TypeOK
    <3>3. \A s \in Session : wt'.sess[s] \in Nat
      BY EventsAreBounded DEF TypeOK, Tree, Log
    <3> HIDE DEF merged
    <3>4. \A s \in Session : /\ base'.sess[s] <= tip'["main"].sess[s]
                             /\ tip'["main"].sess[s] <= wt'.sess[s]
      BY <2>5, <3>1, <3>2, <3>3
    <3> QED
      BY <1>1, <2>1, <3>4 DEF LogsGrow, Proposing
  <2> HIDE DEF local, merged
  <2> QED
    BY <2>1, <2>4, <2>5
<1>13. CASE \/ Start \/ Publish \/ PushStart \/ Gather \/ Save \/ Clear \/ Mark \/ Complete
            \/ PushEnd \/ Raise \/ Crash \/ Expire \/ (\E s \in Session : Capture(s))
            \/ (\E g \in Gap : NoteGap(g)) \/ Push \/ Review \/ UNCHANGED vars
  <2>1. tip' = tip /\ cur' = cur
    <3>1. CASE \/ Start \/ Publish \/ PushStart \/ Gather \/ Save \/ Clear \/ Mark \/ Complete
      BY <3>1 DEF Start, Publish, PushStart, Gather, Save, Clear, Mark, Complete
    <3>2. CASE \/ PushEnd \/ Raise \/ Crash \/ Expire \/ (\E s \in Session : Capture(s))
               \/ (\E g \in Gap : NoteGap(g)) \/ Push \/ Review \/ UNCHANGED vars
      BY <3>2 DEF PushEnd, Raise, Crash, Expire, Capture, NoteGap, Push, Review, MergePull,
                  ClosePull, vars
    <3> QED
      BY <1>13, <3>1, <3>2
  <2>2. base' = base \/ base' = tip["main"]
    BY <1>13, GitHubUntouched DEF PushStart, PushEnd, Push, PushedMain, Review, MergePull, ClosePull
  <2>3. \A s \in Session : wt.sess[s] <= wt'.sess[s] /\ wt'.sess[s] \in Nat
    <3>1. CASE \E s \in Session : Capture(s)
      BY <1>2, <3>1 DEF Capture, TypeOK, Tree, Log
    <3>2. CASE Save
      BY <1>2, <3>2 DEF Save, TypeOK, Tree
    <3>3. CASE \/ Start \/ Publish \/ PushStart \/ Gather \/ Clear \/ Mark \/ Complete
               \/ PushEnd \/ Raise \/ Crash \/ Expire \/ (\E g \in Gap : NoteGap(g)) \/ Push
               \/ Review \/ UNCHANGED vars
      <4>1. wt' = wt
        BY <3>3 DEF Start, Publish, PushStart, Gather, Clear, Mark, Complete, PushEnd, Raise,
                    Crash, Expire, NoteGap, Push, Review, MergePull, ClosePull, vars
      <4> QED
        BY <1>2, <4>1
    <3> QED
      BY <1>13, <3>1, <3>2, <3>3
  <2>4. Governed /\ pc' \in {"gather", "save", "clear", "branch", "strip"} =>
          tracked' = tip["main"].sess
    <3>1. CASE Start \/ Publish \/ Mark \/ Complete \/ PushEnd \/ Raise \/ Crash
      BY <3>1 DEF Start, Publish, EndFailed, Mark, Complete, PushEnd, Raise, Crash
    <3>2. CASE PushStart
      BY <3>2 DEF PushStart, PushedMain, EndFailed
    <3>3. CASE Gather \/ Save \/ Clear
      BY <1>1, <3>3 DEF Gather, Save, Clear
    <3>4. CASE Expire \/ Push
      BY <3>4 DEF Expire, Push, QuietInv
    <3>5. CASE \/ (\E s \in Session : Capture(s)) \/ (\E g \in Gap : NoteGap(g))
               \/ Review \/ UNCHANGED vars
      BY <1>1, <3>5 DEF Capture, NoteGap, Review, MergePull, ClosePull, vars
    <3> QED
      BY <1>13, <3>1, <3>2, <3>3, <3>4, <3>5
  <2>5. \/ pc' \notin Proposing \union {"propose"}
        \/ pc' = pc /\ prop' = prop /\ fork' = fork
    <3>1. CASE \/ Start \/ Publish \/ PushStart \/ Gather \/ Save \/ Clear \/ Mark \/ Complete
               \/ PushEnd \/ Raise \/ Crash
      BY <3>1 DEF Start, Publish, PushStart, EndFailed, Gather, Save, Clear, Mark, Complete,
                  PushEnd, Raise, Crash, Proposing
    <3>2. CASE \/ Expire \/ (\E s \in Session : Capture(s))
               \/ (\E g \in Gap : NoteGap(g)) \/ Push \/ Review \/ UNCHANGED vars
      BY <3>2 DEF Expire, Capture, NoteGap, Push, Review, MergePull, ClosePull, vars
    <3> QED
      BY <1>13, <3>1, <3>2
  <2>6. \A b \in Branch : pr'[b] = pr[b] \/ pr'[b] = NoPull
    <3>1. CASE Review
      BY <3>1 DEF Review, MergePull, ClosePull, TypeOK
    <3>2. CASE PushStart \/ PushEnd \/ Push
      BY <3>2 DEF PushStart, PushEnd, Push
    <3> QED
      BY <1>13, <3>1, <3>2, GitHubUntouched
  <2>7. \A b \in Branch : pr'[b].fork.sess = pr'[b].head.sess
    BY <1>1, <2>6 DEF NoPull
  <2>8. \A s \in Session : base'.sess[s] <= tip'["main"].sess[s]
    BY <1>1, <1>2, <2>1, <2>2
  <2>9. cur' = "main" \/ pc' \in Proposing =>
          \A s \in Session : tip'["main"].sess[s] <= wt'.sess[s]
    <3>1. cur' = "main" \/ pc' \in Proposing => cur = "main" \/ pc \in Proposing
      BY <2>1, <2>5
    <3> QED
      BY <1>1, <1>2, <2>1, <2>3, <3>1
  <2>10. /\ pc' \in Proposing => tip'[cur'].sess = tip'["main"].sess
         /\ pc' \in Proposing \union {"propose"} => prop' \in Branch /\ fork'.sess = tip'[prop'].sess
    BY <1>1, <2>1, <2>5
  <2> QED
    BY <2>1, <2>4, <2>7, <2>8, <2>9, <2>10 DEF LogsGrow
<1> QED
  BY <1>3, <1>4, <1>5, <1>6, <1>7, <1>8, <1>9, <1>10, <1>11, <1>12, <1>13 DEF Next, Dream, Hooks

\* Unless something was merged on GitHub since, its main is the merge base.
LEMMA BaseStaysOrigin ==
  ASSUME TypeOK, ~ahead => origin = base, [Next]_vars, ~ahead'
  PROVE  origin' = base'
<1> USE DEF disk, github, memory, dream, ghosts
<1>1. CASE Pull
  BY <1>1 DEF Pull
<1>2. CASE Sync
  BY <1>2 DEF Sync
<1>3. CASE PushStart \/ PushEnd \/ Push
  BY <1>3 DEF PushStart, PushEnd, Push, PushedMain
<1>4. CASE Propose
  BY <1>4 DEF Propose
<1>5. CASE Review
  BY <1>5 DEF Review, MergePull, ClosePull
<1>6. CASE \/ Save \/ (\E b \in Branch : CreateBranch(b)) \/ SessionEnd \/ LandLocal
           \/ CommitProposal \/ CheckoutBack \/ Start \/ Publish \/ Gather \/ Clear \/ Strip
           \/ Mark \/ Complete \/ LandGoverned \/ Raise \/ Crash \/ Expire
           \/ (\E s \in Session : Capture(s)) \/ (\E g \in Gap : NoteGap(g)) \/ Sweep
           \/ UNCHANGED vars
  <2>1. ahead' = ahead
    <3>1. CASE \/ Save \/ (\E b \in Branch : CreateBranch(b)) \/ SessionEnd \/ LandLocal
               \/ CommitProposal \/ CheckoutBack \/ Start \/ Publish \/ Gather \/ Clear \/ Strip
      BY <3>1 DEF Save, CreateBranch, SessionEnd, LandLocal, CommitProposal,
                  CheckoutBack, Start, Publish, Gather, Clear, Strip
    <3>2. CASE \/ Mark \/ Complete \/ LandGoverned \/ Raise \/ Crash \/ Expire
               \/ (\E s \in Session : Capture(s)) \/ (\E g \in Gap : NoteGap(g)) \/ Sweep
               \/ UNCHANGED vars
      BY <3>2 DEF Mark, Complete, LandGoverned, Raise, Crash, Expire, Capture, NoteGap, Sweep, vars
    <3> QED
      BY <1>6, <3>1, <3>2
  <2> QED
    BY <1>6, <2>1, GitHubUntouched
<1> QED
  BY <1>1, <1>2, <1>3, <1>4, <1>5, <1>6 DEF Next, Dream, Hooks

\* While dreams are not interleaved, facts and logs only move towards GitHub.
THEOREM QuietHolds == ~Overlap => (Spec => []QuietInv)
<1> SUFFICES ASSUME ~Overlap PROVE Spec => []QuietInv
  OBVIOUS
<1>1. Init => QuietInv
  <2> SUFFICES ASSUME Init PROVE QuietInv
    OBVIOUS
  <2>1. \A r \in Ref : tip[r] = Empty
    BY DEF Init
  <2>2. Empty.facts = {} /\ \A s \in Session : Empty.sess[s] = 0
    BY DEF Empty, NoEvents
  <2>3. FactsGrow
    BY <2>1, <2>2, Refs DEF Init, FactsGrow, Proposing, NoPull
  <2>4. LogsGrow
    BY <2>1, <2>2, Refs DEF Init, LogsGrow, Proposing, NoPull
  <2> QED
    BY <2>3, <2>4 DEF Init, QuietInv
<1>2. TypeOK /\ TypeOK' /\ KeptInv /\ GovernedInv' /\ QuietInv /\ [Next]_vars => QuietInv'
  <2> SUFFICES ASSUME TypeOK, TypeOK', KeptInv, GovernedInv', QuietInv, [Next]_vars
               PROVE  QuietInv'
    OBVIOUS
  <2>1. FactsGrow' /\ LogsGrow'
    BY FactsKeepGrowing, LogsKeepGrowing
  <2>2. ~ahead' => origin' = base'
    BY BaseStaysOrigin DEF QuietInv
  <2>3. pc' # "idle" => hook' = "idle"
    BY DEF GovernedInv, HooksWait
  <2> QED
    BY <2>1, <2>2, <2>3 DEF QuietInv
<1> QED
  BY <1>1, <1>2, TypeCorrect, NothingIsLost, GovernedInvHolds, PTL DEF Spec

\* The steps that change main on GitHub.
LEMMA OriginChanges ==
  ASSUME TypeOK, [Next]_vars
  PROVE  \/ origin' = origin
         \/ PushedMain
         \/ Sync
         \/ \E b \in Branch : MergePull(b)
<1> USE DEF disk, github, memory, dream, ghosts
<1>1. CASE PushStart \/ PushEnd \/ Push \/ Propose \/ Pull
  BY <1>1 DEF PushStart, PushEnd, Push, Propose, Pull
<1>2. CASE Review
  BY <1>2 DEF Review, ClosePull
<1> QED
  BY <1>1, <1>2, GitHubUntouched DEF Next, Dream, Hooks

\* What a reviewer merged stays on main: a dream proposes what it read and more, and
\* no push or sync replaces main by something that lacks a fact of it.
THEOREM ReviewsAreKept == ~Overlap => (Spec => ReviewedFactsStay)
<1> SUFFICES ASSUME ~Overlap PROVE Spec => ReviewedFactsStay
  OBVIOUS
<1>1. TypeOK /\ KeptInv /\ QuietInv /\ [Next]_vars => origin.facts \subseteq origin'.facts
  <2> SUFFICES ASSUME TypeOK, KeptInv, QuietInv, [Next]_vars
               PROVE  origin.facts \subseteq origin'.facts
    OBVIOUS
  <2>1. CASE PushedMain
    BY <2>1 DEF PushedMain, QuietInv, FactsGrow
  <2>2. CASE Sync
    BY <2>2, SyncKeeps DEF QuietInv, FactsGrow
  <2>3. CASE \E b \in Branch : MergePull(b)
    <3>1. PICK b \in Branch : MergePull(b)
      BY <2>3
    <3>2. pr[b].fork.facts \subseteq pr[b].head.facts
      BY DEF QuietInv, FactsGrow
    <3> QED
      BY <3>1, <3>2 DEF MergePull, Merge3
  <2> QED
    BY <2>1, <2>2, <2>3, OriginChanges
<1> QED
  BY <1>1, TypeCorrect, NothingIsLost, QuietHolds, PTL DEF Spec, ReviewedFactsStay

\* Session events that reached GitHub stay there.
THEOREM PublishedEventsKept == ~Overlap => (Spec => PublishedEventsStay)
<1> SUFFICES ASSUME ~Overlap PROVE Spec => PublishedEventsStay
  OBVIOUS
<1>1. TypeOK /\ QuietInv /\ [Next]_vars =>
        \A s \in Session : origin.sess[s] <= origin'.sess[s]
  <2> SUFFICES ASSUME TypeOK, QuietInv, [Next]_vars, NEW s \in Session
               PROVE  origin.sess[s] <= origin'.sess[s]
    OBVIOUS
  <2>1. origin.sess[s] \in Nat
    BY LogsAreNumbers
  <2>2. CASE PushedMain
    BY <2>2 DEF PushedMain, QuietInv, LogsGrow
  <2>3. CASE Sync
    <3> DEFINE local  == [tip["main"] EXCEPT !.sess = wt.sess]
               merged == Merge3(base, local, origin)
    <3>1. /\ cur = "main"
          /\ origin' = origin \/ (origin' = merged /\ ~Conflict(base, local, origin))
      BY <2>3 DEF Sync
    <3>2. local \in Tree /\ local.sess = wt.sess
      BY Refs DEF TypeOK, Tree
    <3>3. \A t \in Session : base.sess[t] <= local.sess[t]
      <4>1. \A t \in Session : base.sess[t] <= tip["main"].sess[t]
                                 /\ tip["main"].sess[t] <= wt.sess[t]
        BY <3>1 DEF QuietInv, LogsGrow
      <4> QED
        BY <3>2, <4>1, LogsAreNumbers, Refs
    <3>4. CASE origin' = merged /\ ~Conflict(base, local, origin)
      BY <3>2, <3>3, <3>4, MergeLogs DEF TypeOK
    <3> QED
      BY <2>1, <3>1, <3>4
  <2>4. CASE \E b \in Branch : MergePull(b)
    <3>1. PICK b \in Branch : MergePull(b)
      BY <2>4
    <3>2. pr[b].fork.sess = pr[b].head.sess
      BY DEF QuietInv, LogsGrow
    <3>3. origin'.sess[s] = origin.sess[s]
      BY <3>1, <3>2 DEF MergePull, Merge3
    <3> QED
      BY <2>1, <3>3
  <2> QED
    BY <2>1, <2>2, <2>3, <2>4, OriginChanges
<1> QED
  BY <1>1, TypeCorrect, QuietHolds, PTL DEF Spec, PublishedEventsStay
=============================================================================
