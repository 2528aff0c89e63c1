------------------------------- MODULE RemoteSetup -------------------------------
(***************************************************************************)
(* umx init, init-project and setup-remote (src/umx/cli.py,                *)
(* src/umx/github_ops.py): several machines connect their memory           *)
(* repositories to one on GitHub, which the first creates.  A repository   *)
(* that holds nothing yet is replaced by a clone of what is there.  gh     *)
(* calls are retried if that is safe; calls fail, with and without having  *)
(* done their work, and programs die and are run again.                    *)
(***************************************************************************)
EXTENDS Integers, FiniteSets

CONSTANTS
  Machine,
  MaxAttempts,  \* of a gh call (GhRetryPolicy.max_attempts)
  MaxCommits,   \* bound: commits and files
  MaxActs       \* bound: failed calls, deaths and started programs

Commit == 1 .. MaxCommits

VARIABLES
  local,    \* local[m]: the commits of the memory repository; none if there is none
  files,    \* files[m]: sessions saved there without a commit
  flows,    \* the commits that hold the workflows
  created,  \* the repository on GitHub exists
  main,     \* the commits of its main
  pc, tries,
  adopted,  \* adopted[m]: the program has cloned main
  next, acts,
  done,     \* ghost: machines that have been set up
  held,     \* ghost: committed facts
  raced     \* ghost: something was saved between the look at a repository and its replacement

github == <<created, main>>
program == <<pc, tries, adopted>>
vars == <<local, files, flows, github, program, next, acts, done, held, raced>>

TypeOK ==
  /\ local \in [Machine -> SUBSET Commit] /\ files \in [Machine -> SUBSET Commit] /\ flows \subseteq Commit
  /\ created \in BOOLEAN /\ main \subseteq Commit
  /\ pc \in [Machine -> {"idle", "auth", "view", "create", "remote", "fresh", "clone", "commit", "push"}]
  /\ tries \in [Machine -> 0 .. MaxAttempts - 1] /\ adopted \in [Machine -> BOOLEAN]
  /\ next \in 1 .. MaxCommits + 1 /\ acts \in 0 .. MaxActs /\ done \subseteq Machine /\ held \subseteq Commit
  /\ raced \in BOOLEAN

Init ==
  /\ local = [m \in Machine |-> {}] /\ files = local /\ flows = {} /\ created = FALSE /\ main = {}
  /\ pc = [m \in Machine |-> "idle"] /\ tries = [m \in Machine |-> 0] /\ adopted = [m \in Machine |-> FALSE]
  /\ next = 1 /\ acts = 0 /\ done = {} /\ held = {} /\ raced = FALSE

Act == acts < MaxActs /\ acts' = acts + 1
Set(f, m, x) == [f EXCEPT ![m] = x]
Goto(m, step) == pc' = Set(pc, m, step) /\ tries' = Set(tries, m, 0)
New == next <= MaxCommits /\ next' = next + 1

-----------------------------------------------------------------------------
(* What a machine holds.                                                    *)

\* git_init makes the first commit, of .gitignore.
InitProject(m) ==
  /\ local[m] = {} /\ pc[m] = "idle" /\ New /\ local' = Set(local, m, {next})
  /\ UNCHANGED <<files, flows, github, program, acts, done, held, raced>>

\* A fact, or a session of a hook, is committed; a captured session is only written.
Save(m) ==
  /\ local[m] # {} /\ New
  /\ \/ local' = [local EXCEPT ![m] = @ \union {next}] /\ held' = held \union {next} /\ UNCHANGED files
     \/ files' = [files EXCEPT ![m] = @ \union {next}] /\ UNCHANGED <<local, held>>
  /\ raced' = (raced \/ pc[m] = "clone")
  /\ UNCHANGED <<flows, github, program, acts, done>>

-----------------------------------------------------------------------------
(* Calls of gh.                                                             *)

\* _retry_profile_for_args: what is read may be asked again; what is created may not.
Safe(call) == call \in {"auth", "view"}

\* A call fails for a reason that may pass: it is repeated, or the program ends.
GhFails(m, call) ==
  /\ pc[m] = call /\ Act
  /\ IF Safe(call) /\ tries[m] + 1 < MaxAttempts
     THEN tries' = [tries EXCEPT ![m] = @ + 1] /\ UNCHANGED pc
     ELSE Goto(m, "idle")
  /\ created' \in {created, created \/ call = "create"}      \* its work may be done all the same
  /\ UNCHANGED <<local, files, flows, main, adopted, next, done, held, raced>>

SetUp(m) ==
  /\ pc[m] = "idle" /\ local[m] # {} /\ Act /\ Goto(m, "auth") /\ adopted' = Set(adopted, m, FALSE)
  /\ UNCHANGED <<local, files, flows, github, next, done, held, raced>>

\* gh_available.
Auth(m) ==
  /\ pc[m] = "auth" /\ Goto(m, "view")
  /\ UNCHANGED <<local, files, flows, github, adopted, next, acts, done, held, raced>>

\* ensure_repo: the repository is looked up, and created if there is none.
View(m) ==
  /\ pc[m] = "view" /\ Goto(m, IF created THEN "fresh" ELSE "create")
  /\ UNCHANGED <<local, files, flows, github, adopted, next, acts, done, held, raced>>

Create(m) ==
  /\ pc[m] = "create"
  /\ IF created THEN Goto(m, "idle") ELSE Goto(m, "fresh")      \* another machine was faster
  /\ created' = TRUE
  /\ UNCHANGED <<local, files, flows, main, adopted, next, acts, done, held, raced>>

-----------------------------------------------------------------------------
(* _bootstrap_remote_repo, after set_remote.                                *)

\* git_is_fresh_bootstrap_repo: one commit, and nothing in it but .gitignore.
Bootstrapped(m) == Cardinality(local[m]) = 1

\* If a fetch finds a main, it replaces a fresh repository; if the fetch fails, it does not.
Fresh(m) ==
  /\ pc[m] = "fresh"
  /\ \/ Goto(m, IF Bootstrapped(m) /\ main # {} THEN "clone" ELSE "commit") /\ UNCHANGED acts
     \/ Act /\ Goto(m, "commit")
  /\ UNCHANGED <<local, files, flows, github, adopted, next, done, held, raced>>

\* git_clone removes the directory, and clones.
Clone(m) ==
  /\ pc[m] = "clone" /\ files' = Set(files, m, {})
  /\ \/ local' = Set(local, m, main) /\ adopted' = Set(adopted, m, TRUE) /\ Goto(m, "commit") /\ UNCHANGED acts
     \/ Act /\ local' = Set(local, m, {}) /\ Goto(m, "idle") /\ UNCHANGED adopted
  /\ UNCHANGED <<flows, github, next, done, held, raced>>

\* The workflows are written, and all that is not committed is committed; a clone in which there is
\* nothing to commit is done.
CommitAll(m) ==
  /\ pc[m] = "commit"
  /\ LET new == local[m] \intersect flows = {} IN
     /\ IF new THEN New /\ flows' = flows \union {next} ELSE UNCHANGED <<next, flows>>
     /\ local' = [local EXCEPT ![m] = @ \union files[m] \union (IF new THEN {next} ELSE {})]
     /\ held' = held \union files[m] /\ files' = Set(files, m, {})
     /\ IF adopted[m] /\ ~new /\ files[m] = {}
        THEN Goto(m, "idle") /\ done' = done \union {m}
        ELSE Goto(m, "push") /\ UNCHANGED done
  /\ UNCHANGED <<github, adopted, acts, raced>>

\* Mutant: a refused push is not noticed.
Push_Trusts(m) ==
  /\ pc[m] = "push" /\ Goto(m, "idle")
  /\ main' = IF main \subseteq local[m] THEN local[m] ELSE main
  /\ done' = done \union {m}
  /\ UNCHANGED <<local, files, flows, created, adopted, next, acts, held, raced>>

\* git refuses to push a history that does not contain main; then, or if the push fails, or its
\* content is not safe, the program ends.
Push(m) ==
  /\ pc[m] = "push" /\ Goto(m, "idle")
  /\ \/ main \subseteq local[m] /\ main' = local[m] /\ done' = done \union {m} /\ UNCHANGED acts
     \/ ~(main \subseteq local[m]) /\ UNCHANGED <<main, done, acts>>
     \/ Act /\ UNCHANGED <<main, done>>
  /\ UNCHANGED <<local, files, flows, created, adopted, next, held, raced>>

\* A death in the middle of a clone leaves no repository.
Die(m) ==
  /\ pc[m] # "idle" /\ Act /\ Goto(m, "idle")
  /\ \/ UNCHANGED <<local, files>>
     \/ pc[m] = "clone" /\ local' = Set(local, m, {}) /\ files' = Set(files, m, {})
  /\ UNCHANGED <<flows, github, adopted, next, done, held, raced>>

Next ==
  \E m \in Machine :
    \/ InitProject(m) \/ Save(m) \/ SetUp(m) \/ Auth(m) \/ View(m) \/ Create(m)
    \/ (\E call \in {"auth", "view", "create"} : GhFails(m, call))
    \/ Fresh(m) \/ Clone(m) \/ CommitAll(m) \/ Push(m) \/ Die(m)

Spec == Init /\ [][Next]_vars

-----------------------------------------------------------------------------
(* Properties.                                                              *)

\* A committed fact is never lost, on whichever machine, by whatever setups fail, race or die
\* (git_ops.py:337), unless it came between the look at its repository and the replacement.
CommittedStays == ~raced => \A c \in held : c \in main \/ \E m \in Machine : c \in local[m]

\* Machines that have been set up share a history: each can pull what the others push
\* (cli.py:232).
SetUpTogether == \A m, n \in done : local[m] # {} /\ local[n] # {} => local[m] \intersect local[n] # {}
=============================================================================
