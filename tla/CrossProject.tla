------------------------------ MODULE CrossProject ------------------------------
(***************************************************************************)
(* Promotion of a statement that several projects share to the user's      *)
(* memory repository (src/umx/cross_project.py): an audit over all         *)
(* projects, a proposal branch made in the user repository, a push of the  *)
(* branch, a saved preview, and a pull request whose text is the preview.  *)
(* One statement is followed; the name of its branch is a function of it.  *)
(* Humans merge, close, pull, push and delete branches between any two     *)
(* git commands; each command may fail, and the process may die.           *)
(***************************************************************************)
EXTENDS Integers, FiniteSets

CONSTANTS
  Project,   \* project repositories
  Topic,
  MinRepos,  \* projects that must share a statement
  MaxFacts,  \* bound: facts made for the statement
  MaxActs    \* bound: commands, acts of humans and failures in one behaviour

Commit == 1 .. MaxFacts + 1
Alien == MaxFacts + 1       \* a commit of somebody else
NoBranch == {0}             \* no branch holds it, any branch is a set of commits
Branch == (SUBSET Commit) \union {NoBranch}

VARIABLES
  known,    \* known[r]: topics under which r holds a fact that says it and qualifies
  home,     \* the checked-out branch
  files,    \* commits whose facts are in the working tree
  main, side,             \* the branches of the clone
  originMain, originSide, \* the branches on GitHub
  trackMain, trackSide,   \* the clone's tracking refs
  snap,     \* the saved preview: the head it was saved for and its fact
  pull,     \* the open pull request: the fact of its text, and the head when it was opened
  pc, job,  \* the command that runs
  next, acts,
  breach    \* ghost: the races that happened

clone == <<home, files, main, side, trackMain, trackSide, snap>>
hub == <<originMain, originSide, pull>>
command == <<pc, job>>
vars == <<known, clone, hub, command, next, acts, breach>>

None == [head |-> NoBranch, fact |-> 0]
Job == [fact : Nat, push : BOOLEAN, ok : BOOLEAN]
NoJob == [fact |-> 0, push |-> FALSE, ok |-> FALSE]

TypeOK ==
  /\ known \in [Project -> SUBSET Topic]
  /\ home \in {"main", "side"} /\ files \subseteq Commit
  /\ {side, originSide, trackSide} \subseteq Branch
  /\ {main, originMain, trackMain} \subseteq SUBSET Commit
  /\ {snap.head, pull.head} \subseteq Branch /\ {snap.fact, pull.fact} \subseteq 0 .. MaxFacts
  /\ pc \in {"idle", "write", "commit", "clean", "back", "delete", "fetch", "push", "save", "look", "open"}
  /\ job \in Job /\ next \in 1 .. Alien /\ acts \in 0 .. MaxActs
  /\ breach \subseteq {"raced", "died", "stuck"}
  /\ home = "side" => side # NoBranch

Init ==
  /\ known \in [Project -> SUBSET Topic]
  /\ home = "main" /\ files = {} /\ main = {} /\ side = NoBranch
  /\ originMain = {} /\ originSide = NoBranch /\ trackMain = {} /\ trackSide = NoBranch
  /\ snap = None /\ pull = None
  /\ pc = "idle" /\ job = NoJob /\ next = 1 /\ acts = 0 /\ breach = {}

Act == acts < MaxActs /\ acts' = acts + 1
Blame(kind) == breach' = breach \union {kind}
At(step) == pc = step
Goto(step) == pc' = step

-----------------------------------------------------------------------------
(* The audit.                                                               *)

Holders == {r \in Project : known[r] # {}}
Ambiguous == \E r \in Project : Cardinality(known[r]) > 1

\* resolve_cross_project_target_topic: more than half of the projects agree.
Topics == {t \in Topic : 2 * Cardinality({r \in Holders : t \in known[r]}) > Cardinality(Holders)}

\* The user's memory says it: in the working tree, whatever is checked out.
Said == files \intersect 1 .. MaxFacts # {}

\* collect_promotion_candidates finds nothing that blocks it.
Candidate ==
  /\ Cardinality(Holders) >= MinRepos
  /\ ~Said
  /\ ~Ambiguous

\* build_cross_project_promotion_report: proposal_ready.
Eligible == Candidate /\ Topics # {}

Learn(r, t) ==
  /\ pc = "idle" /\ Act
  /\ known' = [known EXCEPT ![r] = (@ \ {t}) \union ({t} \ @)]
  /\ UNCHANGED <<clone, hub, command, next, breach>>

-----------------------------------------------------------------------------
(* umx propose --cross-project: the branch.                                 *)

\* The preview, and the checks before anything is written.
Start(push) ==
  /\ pc = "idle" /\ Act /\ next <= MaxFacts
  /\ Eligible /\ home = "main" /\ files = main /\ side = NoBranch
  /\ side' = main /\ home' = "side"
  /\ job' = [fact |-> next, push |-> push, ok |-> FALSE] /\ next' = next + 1
  /\ Goto("write")
  /\ UNCHANGED <<known, files, main, trackMain, trackSide, snap, hub, breach>>

Write ==
  /\ At("write") /\ files' = files \union {job.fact} /\ Goto("commit")
  /\ UNCHANGED <<known, home, main, side, trackMain, trackSide, snap, hub, job, next, acts, breach>>

CommitBranch ==
  /\ At("commit") /\ side' = side \union {job.fact}
  /\ job' = [job EXCEPT !.ok = TRUE] /\ Goto("back")
  /\ UNCHANGED <<known, home, files, main, trackMain, trackSide, snap, hub, next, acts, breach>>

\* An error on the way.
Fail ==
  /\ pc \in {"write", "commit"} /\ Act /\ Goto("clean")
  /\ UNCHANGED <<known, clone, hub, job, next, breach>>

\* The target file and its cache are restored from main; a git command that fails there is
\* remembered, and the rest of the clean-up goes on.
CleanUp ==
  /\ At("clean") /\ Goto("back")
  /\ \/ files' = main /\ UNCHANGED <<acts, breach>>
     \/ files' \in {files, main} /\ Act /\ Blame("stuck")
  /\ UNCHANGED <<known, home, main, side, trackMain, trackSide, snap, hub, job, next>>

\* git checkout main takes along what is not committed.
Back ==
  /\ At("back") /\ home' = "main" /\ files' = main \union (files \ side)
  /\ Goto(IF ~job.ok THEN "delete" ELSE IF job.push THEN "fetch" ELSE "idle")
  /\ UNCHANGED <<known, main, side, trackMain, trackSide, snap, hub, job, next, acts, breach>>

Delete ==
  /\ At("delete") /\ side' = NoBranch /\ Goto("idle")
  /\ UNCHANGED <<known, home, files, main, trackMain, trackSide, snap, hub, job, next, acts, breach>>

-----------------------------------------------------------------------------
(* The push, and the preview it saves.                                      *)

\* git_fetch, which prunes.
Fetched == trackMain' = originMain /\ trackSide' = originSide

\* Main must be what GitHub has.
Fetch ==
  /\ At("fetch") /\ Fetched
  /\ IF main = originMain THEN Goto("push") ELSE Goto("idle")
  /\ UNCHANGED <<known, home, files, main, side, snap, hub, job, next, acts, breach>>

\* The range to push is safe and signed; GitHub takes it if it extends its branch.
Push ==
  /\ At("push")
  /\ IF side # NoBranch /\ (originSide = NoBranch \/ originSide \subseteq side)
     THEN /\ originSide' = side /\ trackSide' = side /\ Goto("save")
          /\ IF originMain = trackMain THEN UNCHANGED breach ELSE Blame("raced")
     ELSE Goto("idle") /\ UNCHANGED <<originSide, trackSide, breach>>
  /\ UNCHANGED <<known, home, files, main, side, trackMain, snap, originMain, pull, job, next, acts>>

\* One file for each branch name, replaced by every push.
Snapshot(head) == [head |-> head, fact |-> job.fact]

Save ==
  /\ At("save") /\ snap' = Snapshot(side) /\ Goto("idle")
  /\ UNCHANGED <<known, home, files, main, side, trackMain, trackSide, hub, job, next, acts, breach>>

-----------------------------------------------------------------------------
(* The pull request.                                                        *)

OpenPull ==
  /\ pc = "idle" /\ Act /\ Fetched /\ Goto("look")
  /\ UNCHANGED <<known, home, files, main, side, snap, hub, job, next, breach>>

\* Mutant: a preview is enough.
Look_Trusts ==
  /\ At("look")
  /\ Goto(IF trackSide # NoBranch /\ snap # None THEN "open" ELSE "idle")
  /\ UNCHANGED <<known, clone, hub, job, next, acts, breach>>

\* The branch that was fetched is the one the preview was saved for.
Look ==
  /\ At("look")
  /\ Goto(IF trackSide # NoBranch /\ snap # None /\ trackSide = snap.head THEN "open" ELSE "idle")
  /\ UNCHANGED <<known, clone, hub, job, next, acts, breach>>

\* create_pr needs the branch on GitHub, and no open pull request of it.
Create ==
  /\ At("open") /\ Goto("idle")
  /\ IF originSide # NoBranch /\ pull = None /\ ~(originSide \subseteq originMain)
     THEN /\ pull' = [head |-> originSide, fact |-> snap.fact]
          /\ IF originSide = trackSide THEN UNCHANGED breach ELSE Blame("raced")
     ELSE UNCHANGED <<pull, breach>>
  /\ UNCHANGED <<known, clone, originMain, originSide, job, next, acts>>

-----------------------------------------------------------------------------
(* Faults and humans.                                                       *)

\* A command fails: the propose command ends, with its branch if that was committed.
GiveUp ==
  /\ pc \in {"fetch", "push", "save", "look", "open"} /\ Act /\ Goto("idle")
  /\ UNCHANGED <<known, clone, hub, job, next, breach>>

\* A file cannot be removed, which ends the command there; or the checkout fails, and with it
\* the deletion of the branch that is still checked out; or only the deletion.
CleanUpFails ==
  /\ pc \in {"clean", "back", "delete"} /\ Act /\ Goto("idle") /\ Blame("stuck")
  /\ UNCHANGED <<known, clone, hub, job, next>>

Die ==
  /\ pc # "idle" /\ Act /\ Goto("idle") /\ Blame("died")
  /\ UNCHANGED <<known, clone, hub, job, next>>

\* The merge brings the branch as it is then, and may delete it.
MergePull ==
  /\ pull # None /\ originSide # NoBranch /\ Act
  /\ originMain' = originMain \union originSide /\ pull' = None
  /\ originSide' \in {originSide, NoBranch}
  /\ UNCHANGED <<known, clone, command, next, breach>>

ClosePull ==
  /\ pull # None /\ Act /\ pull' = None
  /\ UNCHANGED <<known, clone, originMain, originSide, command, next, breach>>

\* Somebody pushes another commit to main or to the branch, or deletes the branch.
Meddle ==
  /\ Act
  /\ \/ originMain' = originMain \union {Alien} /\ UNCHANGED originSide
     \/ originSide # NoBranch /\ originSide' = originSide \union {Alien} /\ UNCHANGED originMain
     \/ originSide # NoBranch /\ pull = None /\ originSide' = NoBranch /\ UNCHANGED originMain
  /\ UNCHANGED <<known, clone, pull, command, next, breach>>

\* git pull in the user repository; git branch -D.
Tidy ==
  /\ pc = "idle" /\ home = "main" /\ Act
  /\ \/ files = main /\ main' = originMain /\ files' = originMain /\ Fetched /\ UNCHANGED side
     \/ side # NoBranch /\ side' = NoBranch /\ UNCHANGED <<main, files, trackMain, trackSide>>
  /\ UNCHANGED <<known, home, snap, hub, command, next, breach>>

Next ==
  \/ \E r \in Project, t \in Topic : Learn(r, t)
  \/ \E push \in BOOLEAN : Start(push)
  \/ Write \/ CommitBranch \/ Fail \/ CleanUp \/ Back \/ Delete
  \/ Fetch \/ Push \/ Save \/ OpenPull \/ Look \/ Create
  \/ GiveUp \/ CleanUpFails \/ Die
  \/ MergePull \/ ClosePull \/ Meddle \/ Tidy

Spec == Init /\ [][Next]_vars

-----------------------------------------------------------------------------
(* Properties.                                                              *)

\* GitHub's main says it once, however often it was proposed, closed, merged and proposed
\* again from a clone that lags behind (cross_project.py:717), short of a race between the
\* comparison and the push.
PromotedOnce == "raced" \notin breach => Cardinality(originMain \ {Alien}) <= 1

\* A pull request opens on the commit its text was written for: nobody added to the branch
\* since it was pushed, and the preview is not an earlier proposal's
\* (cross_project.py:839).
OpenedAsPushed == "raced" \notin breach /\ pull # None => pull.fact \in pull.head /\ Alien \notin pull.head \ originMain

\* A proposal that fails, short of a death or a failing clean-up, leaves the clone on main,
\* without its files and its branch (cross_project.py:638).
FailureLeavesMain ==
  pc = "idle" /\ breach \subseteq {"raced"} =>
    home = "main" /\ files = main /\ (side # NoBranch => side \intersect 1 .. MaxFacts # {})
=============================================================================
