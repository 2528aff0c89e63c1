------------------------------ MODULE FactActions ------------------------------
(***************************************************************************)
(* The commands and viewer buttons that change single facts                *)
(* (src/umx/fact_actions.py), over a project repository and the user's.    *)
(*                                                                         *)
(* Direct mode: an action refuses to touch files with uncommitted changes, *)
(* takes a snapshot of them, writes them, commits one or two repositories  *)
(* and, if anything fails, reverts what it committed and restores the      *)
(* snapshot.  Governed mode: an action commits on a branch of its own and  *)
(* opens a pull request; main changes when that is merged.  One action     *)
(* runs at a time; other programs commit to the same repositories at any   *)
(* moment, every git command may fail, and the process may die.            *)
(***************************************************************************)
EXTENDS Integers, Sequences, FiniteSets

CONSTANTS
  Fact,      \* fact ids
  MaxActs    \* bound: actions, commits of others and deaths in one behaviour

Repo == {"project", "user"}
\* Fact files of one topic, and meta/tombstones.jsonl.
Place == {"scoped", "facts", "principles", "tombs"}
Files == Place \ {"tombs"}
\* As it was made, confirmed or written by hand, superseded, forgotten.
Item == Fact \X {"own", "hand", "old", "tomb"}
Tree == [Place -> SUBSET Item]

VARIABLES
  mode,    \* dream.mode as configured: local, or remote and hybrid
  wt,      \* wt[r]: the working tree
  log,     \* log[r]: the trees of main's commits
  branch,  \* the project's checked-out branch
  side,    \* the trees of the proposal branch's commits, from its base; << >>: no branch
  pr,      \* the proposal's pull request
  body,    \* what its body says is tombstoned: <<item, place>>
  past,    \* the body of the last merged tombstone proposal
  pc,      \* what the action does next
  job,     \* the action that runs
  acts,
  breach   \* ghost: what happened that an action does not promise to withstand

git == <<wt, log, branch, side>>
github == <<pr, body, past>>
vars == <<mode, git, github, pc, job, acts, breach>>

\* One write of a fact file, or a commit of what the action changed.
Step == [do : {"put", "cut", "commit"}, r : Repo, place : Place, item : Item]
Job == [todo : Seq(Step), scope : [Repo -> SUBSET Place], snap : [Repo -> Tree],
        before : [Repo -> Nat], committed : SUBSET Repo]
Clean == [q \in Place |-> {}]
NoJob == [todo |-> << >>, scope |-> [r \in Repo |-> {}], snap |-> [r \in Repo |-> Clean],
          before |-> [r \in Repo |-> 0], committed |-> {}]

Last(s) == s[Len(s)]
Head0(r) == IF r = "project" /\ branch = "side" THEN Last(side) ELSE Last(log[r])

TypeOK ==
  /\ mode \in {"direct", "governed"}
  /\ wt \in [Repo -> Tree]
  /\ \A r \in Repo : log[r] \in Seq(Tree) /\ log[r] # << >>
  /\ branch \in {"main", "side"}
  /\ side \in Seq(Tree) /\ (branch = "side" => side # << >>)
  /\ pr \in {"none", "open"}
  /\ body \subseteq Item \X Place /\ past \subseteq Item \X Place
  /\ pc \in {"idle", "run", "undo", "branch", "commit", "clean", "back", "push"}
  /\ job \in Job
  /\ acts \in 0 .. MaxActs
  /\ breach \subseteq {"meddled", "undone", "left", "died", "stuck"}
  /\ pc = "run" => job.todo # << >>

Has(t, f) == {q \in Files : \E x \in t[q] : x[1] = f}
Tombed(t, f) == <<f, "tomb">> \in t["tombs"]

\* A fact lives in one file of one repository, or is yet to be made.
Init ==
  /\ mode \in {"direct", "governed"}
  /\ \E home \in [Fact -> {h \in Repo \X Files : h[1] = "user" => h[2] = "facts"} \union {<<"none", "facts">>}] :
       wt = [r \in Repo |-> [q \in Place |-> {<<f, "own">> : f \in {g \in Fact : home[g] = <<r, q>>}}]]
  /\ log = [r \in Repo |-> <<wt[r]>>]
  /\ branch = "main" /\ side = << >> /\ pr = "none" /\ body = {} /\ past = {}
  /\ pc = "idle" /\ job = NoJob /\ acts = 0 /\ breach = {}

Act == acts < MaxActs /\ acts' = acts + 1
Blame(kind) == breach' = breach \union {kind}

-----------------------------------------------------------------------------
(* Direct actions.                                                          *)

Put(r, q, x) == [do |-> "put", r |-> r, place |-> q, item |-> x]
Cut(r, q, x) == [do |-> "cut", r |-> r, place |-> q, item |-> x]
Commit(r) == [do |-> "commit", r |-> r, place |-> "facts", item |-> CHOOSE x \in Item : TRUE]

\* The action is going to do todo; it wrote files only of scope, which were clean.
Begin(todo, scope) ==
  /\ pc = "idle" /\ mode = "direct" /\ Act
  /\ \A r \in Repo : \A q \in scope[r] : wt[r][q] = Last(log[r])[q]
  /\ job' = [todo |-> todo, scope |-> scope, snap |-> wt, before |-> [r \in Repo |-> Len(log[r])],
             committed |-> {}]
  /\ pc' = "run"
  /\ UNCHANGED <<mode, git, github, breach>>

OnlyIn(r, S) == [s \in Repo |-> IF s = r THEN S ELSE {}]

\* forget_fact_action; forget_topic_action repeats it for every fact of the topic.
Forget(x, q) ==
  /\ x \in wt["project"][q]
  /\ Begin(<<Put("project", "tombs", <<x[1], "tomb">>), Cut("project", q, x), Commit("project")>>,
           OnlyIn("project", {q, "tombs"}))

\* confirm_fact_action.
Confirm(x, q) ==
  /\ x \in wt["project"][q]
  /\ Begin(<<Put("project", q, <<x[1], "hand">>), Commit("project")>>, OnlyIn("project", {q}))

\* edit_fact_action: the fact is marked superseded, its successor g is added.
Edit(r, x, q, g) ==
  /\ x \in wt[r][q]
  /\ \A s \in Repo : Has(wt[s], g) = {} /\ ~Tombed(wt[s], g)
  /\ Begin(<<Put(r, q, <<x[1], "old">>), Put(r, q, <<g, "hand">>), Commit(r)>>, OnlyIn(r, {q}))

\* promote_fact_action and demote_fact_action within the project.
MoveWithin(x, q, to) ==
  /\ x \in wt["project"][q] /\ to \in {"facts", "principles"} \ {q}
  /\ Begin(<<Cut("project", q, x), Put("project", to, x), Commit("project")>>,
           OnlyIn("project", {q, to}))

\* To the user's facts, or from them: added before it is removed, committed there first.
MoveAcross(r, x, q) ==
  LET to == CHOOSE s \in Repo : s # r IN
  /\ x \in wt[r][q]
  /\ Begin(<<Put(to, "facts", x), Cut(r, q, x), Commit(to), Commit(r)>>,
           [s \in Repo |-> IF s = r THEN {q} ELSE {"facts"}])

Finish == pc' = "idle" /\ job' = NoJob

\* A write or a commit succeeds.  A file has one line for a fact.
RunStep ==
  LET s == Head(job.todo)
      gone == {x \in wt[s.r][s.place] : x[1] = s.item[1]}
  IN
  /\ pc = "run"
  /\ CASE s.do = "put" -> /\ wt' = [wt EXCEPT ![s.r][s.place] = (@ \ gone) \union {s.item}]
                          /\ UNCHANGED log
       [] s.do = "cut" -> wt' = [wt EXCEPT ![s.r][s.place] = @ \ gone] /\ UNCHANGED log
       [] s.do = "commit" ->
            /\ log' = [log EXCEPT ![s.r] = Append(@, [q \in Place |->
                        IF q \in job.scope[s.r] THEN wt[s.r][q] ELSE Last(log[s.r])[q]])]
            /\ UNCHANGED wt
  /\ IF Len(job.todo) = 1 THEN Finish
     ELSE /\ job' = [job EXCEPT !.todo = Tail(@),
                       !.committed = IF s.do = "commit" THEN @ \union {s.r} ELSE @]
          /\ UNCHANGED pc
  /\ UNCHANGED <<mode, branch, side, github, acts, breach>>

\* A write, or a commit, fails.
StepFails ==
  /\ pc = "run"
  /\ pc' = "undo"
  /\ UNCHANGED <<mode, git, github, job, acts, breach>>

\* _rollback_repo of repository r: git revert, if something was committed, git reset, and
\* the files as they were.  What fails does not keep the rest from being tried; fails names
\* the git commands that fail somewhere, kept the files that cannot be written.  A failing
\* reset leaves the index staged, which shows in nothing else here.
Reverted(r) ==
  IF r \in job.committed /\ Len(log[r]) # job.before[r] THEN Append(log[r], log[r][Len(log[r]) - 1]) ELSE log[r]

\* The files the action took a snapshot of.
Noted == {c \in Repo \X Place : c[2] \in job.scope[c[1]]}

\* Mutant: only the repository of the fact is rolled back.
Rollback_OneRepo(fails, kept) ==
  LET done == {r \in Repo : job.scope[r] # {} /\ job.committed \subseteq {r}} IN
  /\ pc = "undo"
  /\ log' = [r \in Repo |-> IF r \in done THEN Reverted(r) ELSE log[r]]
  /\ wt' = [r \in Repo |-> IF r \in done THEN job.snap[r] ELSE wt[r]]
  /\ Finish
  /\ IF fails # {} THEN Blame("undone") ELSE UNCHANGED breach
  /\ UNCHANGED <<mode, branch, side, github, acts>>

Rollback(fails, kept) ==
  LET done == {r \in Repo : job.scope[r] # {}}
      lost == {r \in done : "revert" \in fails /\ Reverted(r) # log[r]}
      after == [r \in Repo |-> IF r \in done \ lost THEN Reverted(r) ELSE log[r]]
  IN
  /\ pc = "undo"
  /\ log' = after
  /\ wt' = [r \in Repo |-> [q \in Place |->
              IF q \in job.scope[r] /\ <<r, q>> \notin kept THEN job.snap[r][q]
              ELSE IF Last(after[r])[q] # Last(log[r])[q] THEN Last(after[r])[q] ELSE wt[r][q]]]
  /\ Finish
  /\ IF lost # {} \/ "reset" \in fails \/ kept # {} THEN Blame("undone") ELSE UNCHANGED breach
  /\ UNCHANGED <<mode, branch, side, github, acts>>

-----------------------------------------------------------------------------
(* Governed actions.                                                        *)

\* _governed_proposal_preflight and git checkout -b: on main, a clean working tree, and no
\* branch of that name.  The action is going to make the project's tree the given one.
Branch(tree) ==
  /\ pc = "idle" /\ mode = "governed" /\ Act
  /\ branch = "main" /\ wt["project"] = Last(log["project"]) /\ side = << >>
  /\ branch' = "side" /\ side' = <<Last(log["project"])>>
  /\ job' = [NoJob EXCEPT !.snap["project"] = tree]
  /\ pc' = "branch"
  /\ UNCHANGED <<mode, wt, log, pr, past, breach>>

Without(t, q, S) == [t EXCEPT ![q] = @ \ S]
With(t, q, S) == [t EXCEPT ![q] = @ \union S]
Tombs(S) == {<<x[1], "tomb">> : x \in S}

\* forget_fact_governed_action, forget_topic_governed_action.
ForgetGoverned(S, q) ==
  /\ S # {} /\ S \subseteq wt["project"][q]
  /\ Branch(With(Without(wt["project"], q, S), "tombs", Tombs(S)))
  /\ body' = {<<x, q>> : x \in S}

\* rollback_governed_action of the last forgetting: each fact is gone, has a tombstone and
\* is found in history.
RollbackGoverned ==
  LET S == {e[1] : e \in past} IN
  /\ past # {}
  /\ \A e \in past : /\ Has(wt["project"], e[1][1]) = {} /\ Tombed(wt["project"], e[1][1])
                     /\ \E i \in 1 .. Len(log["project"]) : e[1] \in log["project"][i][e[2]]
  /\ Branch([q \in Place |-> IF q = "tombs" THEN wt["project"][q] \ Tombs(S)
                             ELSE wt["project"][q] \union {x \in S : <<x, q>> \in past}])
  /\ body' = {}

\* The tombstones and the fact files are written, or some of them when that fails.
Materialize ==
  /\ pc = "branch"
  /\ \/ wt' = [wt EXCEPT !["project"] = job.snap["project"]] /\ pc' = "commit"
     \/ \E Q \in SUBSET Place :
          /\ wt' = [wt EXCEPT !["project"] = [q \in Place |-> IF q \in Q THEN job.snap["project"][q] ELSE @[q]]]
          /\ pc' = "clean"
  /\ UNCHANGED <<mode, log, branch, side, github, job, acts, breach>>

\* Everything in the working tree is committed on the branch.
CommitBranch ==
  /\ pc = "commit"
  /\ \/ /\ wt["project"] # Last(side)
        /\ side' = Append(side, wt["project"])
        /\ job' = [job EXCEPT !.committed = {"project"}]
        /\ pc' = "back"
     \/ pc' = "clean" /\ UNCHANGED <<side, job>>
  /\ UNCHANGED <<mode, wt, log, branch, github, acts, breach>>

\* Without a commit, every dirty path is reset and restored.  What these commands answer is
\* not looked at: the files of kept stay as they are, the index may stay staged.
CleanUp(kept, staged) ==
  /\ pc = "clean"
  /\ wt' = [wt EXCEPT !["project"] = [q \in Place |-> IF q \in kept THEN wt["project"][q] ELSE Last(side)[q]]]
  /\ pc' = "back"
  /\ IF staged \/ \E q \in kept : wt["project"][q] # Last(side)[q]
     THEN Blame("left") ELSE UNCHANGED breach
  /\ UNCHANGED <<mode, log, branch, side, github, job, acts>>

\* git checkout main carries along what is not committed.
OnMain == [q \in Place |-> IF wt["project"][q] = Last(side)[q] THEN Last(log["project"])[q] ELSE wt["project"][q]]

\* Mutant: the branch is deleted after the checkout.
BackToMain_NoBranch ==
  /\ pc = "back"
  /\ wt' = [wt EXCEPT !["project"] = OnMain]
  /\ side' = << >>
  /\ IF job.committed # {} THEN pc' = "push" /\ UNCHANGED job ELSE Finish
  /\ UNCHANGED <<mode, log, branch, github, acts, breach>>

\* git checkout main; if it fails, a human has to.
BackToMain ==
  /\ pc = "back"
  /\ wt' = [wt EXCEPT !["project"] = OnMain]
  /\ branch' = "main"
  /\ IF job.committed # {} THEN pc' = "push" /\ UNCHANGED job ELSE Finish
  /\ UNCHANGED <<mode, log, side, github, acts, breach>>

StuckOnBranch ==
  /\ pc = "back"
  /\ Finish
  /\ Blame("stuck")
  /\ UNCHANGED <<mode, git, github, acts>>

\* _push_and_open_pr, which may fail and leaves the branch then.
OpenProposal ==
  /\ pc = "push"
  /\ \E p \in {"none", "open"} : pr' = p
  /\ Finish
  /\ UNCHANGED <<mode, git, body, past, acts, breach>>

-----------------------------------------------------------------------------
(* Pull requests, other programs, and death.                                *)

\* The proposal is approved and merged on GitHub, and pulled.
Merge ==
  LET gone == [q \in Place |-> side[1][q] \ Last(side)[q]]
      new == [q \in Place |-> Last(side)[q] \ side[1][q]]
  IN
  /\ pr = "open" /\ pc = "idle" /\ branch = "main" /\ wt["project"] = Last(log["project"])
  /\ log' = [log EXCEPT !["project"] = Append(@, [q \in Place |-> (Last(@)[q] \ gone[q]) \union new[q]])]
  /\ wt' = [wt EXCEPT !["project"] = Last(log'["project"])]
  /\ side' = << >> /\ pr' = "none" /\ past' = body /\ body' = {}
  /\ UNCHANGED <<mode, branch, pc, job, acts, breach>>

\* It is closed, or was never opened, and the branch is deleted.
DropBranch ==
  /\ side # << >> /\ pc = "idle" /\ branch = "main"
  /\ side' = << >> /\ pr' = "none" /\ body' = {}
  /\ UNCHANGED <<mode, wt, log, branch, past, pc, job, acts, breach>>

\* A dream or a hook commits everything in a repository (git add -A).
OtherCommits(r) ==
  LET on == r = "project" /\ branch = "side" IN
  /\ wt[r] # Head0(r) /\ Act
  /\ IF on THEN side' = Append(side, wt[r]) /\ UNCHANGED log
     ELSE log' = [log EXCEPT ![r] = Append(@, wt[r])] /\ UNCHANGED side
  /\ Blame("meddled")
  /\ UNCHANGED <<mode, wt, branch, github, pc, job>>

Die ==
  /\ pc # "idle" /\ Act
  /\ Finish
  /\ Blame("died")
  /\ UNCHANGED <<mode, git, github>>

-----------------------------------------------------------------------------
Direct ==
  \/ \E q \in Files : \E x \in wt["project"][q] :
       \/ Forget(x, q) \/ Confirm(x, q)
       \/ \E to \in Files : MoveWithin(x, q, to)
  \/ \E r \in Repo, q \in Files : \E x \in wt[r][q] :
       MoveAcross(r, x, q) \/ \E g \in Fact : Edit(r, x, q, g)

Next ==
  \/ Direct
  \/ RunStep \/ StepFails
  \/ \E fails \in SUBSET {"revert", "reset"}, kept \in SUBSET Noted : Rollback(fails, kept)
  \/ \E q \in Files : \E S \in SUBSET wt["project"][q] : ForgetGoverned(S, q)
  \/ RollbackGoverned
  \/ Materialize \/ CommitBranch \/ \E kept \in SUBSET Place, staged \in BOOLEAN : CleanUp(kept, staged)
  \/ BackToMain \/ StuckOnBranch \/ OpenProposal
  \/ Merge \/ DropBranch \/ Die \/ \E r \in Repo : OtherCommits(r)

Spec == Init /\ [][Next]_vars

-----------------------------------------------------------------------------
(* Properties.                                                              *)

Known(f) == \E r \in Repo : \E i \in DOMAIN log[r] : Has(log[r][i], f) # {}
Copies(f) == {c \in Repo \X Files : c[2] \in Has(Last(log[c[1]]), f)}

\* Between actions a fact is committed in one file of one repository, or has a tombstone
\* and is in none: promotions and demotions across repositories, failures with their
\* rollbacks, governed forgetting and its rollback keep it so (fact_actions.py:165, 691).
EachFactOnce ==
  breach = {} /\ pc = "idle" => \A f \in Fact : Known(f) =>
    IF Tombed(Last(log["project"]), f) THEN Copies(f) = {} ELSE Cardinality(Copies(f)) = 1

\* No action leaves uncommitted changes, which the next dream would commit and the next
\* action would refuse to touch (fact_actions.py:137).
NothingLeftBehind ==
  breach = {} /\ pc = "idle" => \A r \in Repo : wt[r] = Head0(r)

\* An action that fails leaves both repositories with the content they had.
LeavesNoTrace ==
  pc = "undo" /\ pc' = "idle" /\ breach' = {} =>
    \A r \in Repo : job.scope[r] # {} =>
      /\ Last(log'[r]) = log[r][job.before[r]]
      /\ wt'[r] = job.snap[r]

\* When the process dies, every fact is still in a working tree, or in what is committed,
\* or has a tombstone: a fact is added to its new repository before it leaves the old one.
DeathLosesNothing ==
  breach \subseteq {"died"} => \A f \in Fact : Known(f) =>
    \E r \in Repo : \/ Has(wt[r], f) # {} \/ Has(Last(log[r]), f) # {}
                    \/ Tombed(wt[r], f) \/ Tombed(Last(log[r]), f)

\* What a proposal's branch changes is what its body says: the facts it lists are gone and
\* have tombstones, and a rollback changes nothing else either (governance.py).
ProposalSaysWhatItDoes ==
  breach = {} /\ pr = "open" =>
    LET base == side[1]
        S == {e[1] : e \in body}
    IN  body # {} =>
          Last(side) = [q \in Place |-> IF q = "tombs" THEN base[q] \union Tombs(S)
                                        ELSE base[q] \ {x \in S : <<x, q>> \in body}]

\* What happens after a breach other than a death is not what actions promise.
Withstood == breach \subseteq {"died"}
=============================================================================
