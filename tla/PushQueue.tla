------------------------------- MODULE PushQueue -------------------------------
(***************************************************************************)
(* How the commits of one clone reach GitHub: umx sync, and the            *)
(* session_start and pre_compact hooks of several agents, each commit,     *)
(* pull, scan, drain the queue of failed pushes and push, without a lock   *)
(* between them (src/umx/git_ops.py, push_queue.py, push_safety.py,        *)
(* cli.py).  Every queued push is one of main, so that the queue file      *)
(* either names it or is gone; a push sends all of main.  Pushes fail, a   *)
(* rebase may stop in a conflict, and a process may die.                   *)
(***************************************************************************)
EXTENDS Integers, FiniteSets

CONSTANTS
  Proc,
  Unsafe,     \* commits with text that redaction would catch
  MaxCommits, \* bound: commits of the clone
  MaxRounds,  \* git.push_max_attempts
  MaxActs     \* bound: programs, failures and commits of others in one behaviour

Alien == MaxCommits + 1     \* a commit of another clone
Commit == 1 .. Alien
Program == {"sync", "start", "compact"}

VARIABLES
  main, origin, track,  \* the clone's main, GitHub's main, the clone's origin/main
  stuck,    \* a rebase stopped in this clone
  queue,    \* the queue file names the push
  pc, prog, \* prog[p]: what p runs
  own,      \* own[p]: the last push of the program is left to do; FALSE while it drains
  swept,    \* swept[p]: the program committed something
  round,    \* round[p]: attempts of this push
  acts,
  owed,     \* ghost: commits that a queued push was to send
  waived,   \* ghost: commits that session_start pushed, which does not scan, or that were made
            \* between another program's scan and its push
  breach    \* ghost: "lost", a push was queued between another's success and its removal

process == <<pc, prog, own, swept, round>>
vars == <<main, origin, track, stuck, queue, process, acts, owed, waived, breach>>

TypeOK ==
  /\ {main, origin, track, owed, waived} \subseteq SUBSET Commit /\ track \subseteq origin
  /\ {stuck, queue} \subseteq BOOLEAN
  /\ pc \in [Proc -> {"idle", "commit", "fetch", "pull", "scan", "drain", "push", "again", "remove", "enqueue"}]
  /\ prog \in [Proc -> Program]
  /\ own \in [Proc -> BOOLEAN] /\ swept \in [Proc -> BOOLEAN] /\ round \in [Proc -> 1 .. MaxRounds]
  /\ acts \in 0 .. MaxActs /\ breach \subseteq {"lost"}

Init ==
  /\ main = {} /\ origin = {} /\ track = {} /\ stuck = FALSE /\ queue = FALSE
  /\ pc = [p \in Proc |-> "idle"] /\ prog = [p \in Proc |-> "sync"]
  /\ own = [p \in Proc |-> FALSE] /\ swept = own /\ round = [p \in Proc |-> 1]
  /\ acts = 0 /\ owed = {} /\ waived = {} /\ breach = {}

Act == acts < MaxActs /\ acts' = acts + 1
Goto(p, step) == pc' = [pc EXCEPT ![p] = step]
InPush(p) == pc[p] \in {"drain", "push", "again", "remove", "enqueue"}

\* Somebody has scanned, and has not pushed yet.
Scanned == \E p \in Proc : prog[p] # "start" /\ InPush(p)
Waive(commits) == waived' = waived \union commits

-----------------------------------------------------------------------------
(* The programs, up to their pushes.                                        *)

\* umx sync refuses to run while a rebase is stopped.
Begin(p, program) ==
  /\ pc[p] = "idle" /\ Act
  /\ program = "sync" => ~stuck
  /\ prog' = [prog EXCEPT ![p] = program]
  /\ own' = [own EXCEPT ![p] = FALSE] /\ swept' = [swept EXCEPT ![p] = FALSE]
  /\ round' = [round EXCEPT ![p] = 1]
  /\ Goto(p, "commit")
  /\ UNCHANGED <<main, origin, track, stuck, queue, owed, waived, breach>>

\* What is pending is committed: the sessions, or for a local sync everything.
CommitPending(p) ==
  /\ pc[p] = "commit"
  /\ \/ /\ \E n \in Commit \ (main \union {Alien}) :
             /\ ~stuck /\ (\A m \in 1 .. n - 1 : m \in main) /\ main' = main \union {n}
             /\ Waive(IF Scanned THEN {n} ELSE {})
        /\ swept' = [swept EXCEPT ![p] = TRUE]
        /\ Goto(p, "fetch")
     \/ /\ Goto(p, IF prog[p] = "compact" THEN "idle" ELSE "fetch")
        /\ UNCHANGED <<main, swept, waived>>
  /\ UNCHANGED <<origin, track, stuck, queue, prog, own, round, acts, owed, breach>>

\* pre_compact does not pull.
Fetch(p) ==
  /\ pc[p] = "fetch" /\ track' = origin
  /\ Goto(p, IF prog[p] = "compact" THEN "scan" ELSE "pull")
  /\ UNCHANGED <<main, origin, stuck, queue, prog, own, swept, round, acts, owed, waived, breach>>

\* git pull --rebase: up to date, rebased, or stopped in a conflict.
Rebase ==
  /\ track' = origin
  /\ \/ ~stuck /\ main' = main \union origin /\ UNCHANGED stuck
     \/ ~(origin \subseteq main) /\ ~(main \subseteq origin) /\ stuck' = TRUE /\ UNCHANGED main
     \/ stuck /\ UNCHANGED <<main, stuck>>

\* umx sync ends when the pull fails, session_start goes on.
Pull(p) ==
  /\ pc[p] = "pull" /\ Rebase
  /\ Goto(p, IF prog[p] = "start" THEN "drain" ELSE IF stuck' THEN "idle" ELSE "scan")
  /\ UNCHANGED <<origin, queue, prog, own, swept, round, acts, owed, waived, breach>>

\* Mutant: pre_compact and sync push what they committed.
Scan_Skipped(p) ==
  /\ pc[p] = "scan"
  /\ Goto(p, IF prog[p] = "compact" THEN "push" ELSE "drain")
  /\ own' = [own EXCEPT ![p] = prog[p] = "compact"]
  /\ UNCHANGED <<main, origin, track, stuck, queue, prog, swept, round, acts, owed, waived, breach>>

\* assert_push_safe over what main has and origin/main has not, and the signatures.
Scan(p) ==
  /\ pc[p] = "scan"
  /\ Goto(p, IF (main \ track) \intersect Unsafe # {} THEN "idle"
             ELSE IF prog[p] = "compact" THEN "push" ELSE "drain")
  /\ own' = [own EXCEPT ![p] = prog[p] = "compact"]
  /\ UNCHANGED <<main, origin, track, stuck, queue, prog, swept, round, acts, owed, waived, breach>>

-----------------------------------------------------------------------------
(* The queue and the pushes.                                                *)

\* What comes after a push: the program's own, if it has one to make.
Rest(p) ==
  IF ~own[p] /\ (prog[p] = "sync" \/ swept[p])
  THEN Goto(p, "push") /\ own' = [own EXCEPT ![p] = TRUE] /\ round' = [round EXCEPT ![p] = 1]
  ELSE Goto(p, "idle") /\ UNCHANGED <<own, round>>

\* drain_push_queue reads the queue once.
Drain(p) ==
  /\ pc[p] = "drain"
  /\ IF queue THEN Goto(p, "push") /\ UNCHANGED <<own, round>> ELSE Rest(p)
  /\ UNCHANGED <<main, origin, track, stuck, queue, prog, swept, acts, owed, waived, breach>>

\* git push origin main: taken if it extends GitHub's main.
Push(p) ==
  /\ pc[p] = "push"
  /\ \/ /\ origin \subseteq main
        /\ origin' = main /\ track' = main
        /\ Goto(p, IF prog[p] = "compact" THEN "idle" ELSE "remove")
        /\ Waive(IF prog[p] = "start" THEN main \ origin ELSE {})
        /\ UNCHANGED acts
     \/ /\ ~(origin \subseteq main)
        /\ Goto(p, IF prog[p] = "compact" THEN "idle"
                   ELSE IF round[p] < MaxRounds THEN "again" ELSE "enqueue")
        /\ UNCHANGED <<origin, track, acts, waived>>
     \/ /\ Act /\ Goto(p, IF prog[p] = "compact" THEN "idle" ELSE "enqueue")
        /\ UNCHANGED <<origin, track, waived>>
  /\ UNCHANGED <<main, stuck, queue, prog, own, swept, round, owed, breach>>

\* After a rejected push: fetch, pull, and again.
PullAgain(p) ==
  /\ pc[p] = "again" /\ Rebase
  /\ IF stuck' THEN Goto(p, "enqueue") /\ UNCHANGED round
     ELSE Goto(p, "push") /\ round' = [round EXCEPT ![p] = @ + 1]
  /\ UNCHANGED <<origin, queue, prog, own, swept, acts, owed, waived, breach>>

\* remove_queued_push: nothing is left in the queue, and the file is removed.
Remove(p) ==
  /\ pc[p] = "remove" /\ queue' = FALSE /\ Rest(p)
  /\ UNCHANGED <<main, origin, track, stuck, prog, swept, acts, owed, waived, breach>>

Enqueue(p) ==
  /\ pc[p] = "enqueue" /\ queue' = TRUE /\ owed' = owed \union main /\ Rest(p)
  /\ breach' = IF \E q \in Proc : pc[q] = "remove" THEN breach \union {"lost"} ELSE breach
  /\ UNCHANGED <<main, origin, track, stuck, prog, swept, acts, waived>>

-----------------------------------------------------------------------------
(* The others, faults, and the user.                                        *)

Advance ==
  /\ Alien \notin origin /\ Act /\ origin' = origin \union {Alien}
  /\ UNCHANGED <<main, track, stuck, queue, process, owed, waived, breach>>

Die(p) ==
  /\ pc[p] # "idle" /\ Act /\ Goto(p, "idle")
  /\ UNCHANGED <<main, origin, track, stuck, queue, prog, own, swept, round, owed, waived, breach>>

\* The user resolves the conflict and finishes the rebase.
Resolve ==
  /\ stuck /\ stuck' = FALSE /\ main' = main \union track
  /\ UNCHANGED <<origin, track, queue, process, acts, owed, waived, breach>>

Next ==
  \/ \E p \in Proc :
       \/ \E program \in Program : Begin(p, program)
       \/ CommitPending(p) \/ Fetch(p) \/ Pull(p) \/ Scan(p)
       \/ Drain(p) \/ Push(p) \/ PullAgain(p) \/ Remove(p) \/ Enqueue(p) \/ Die(p)
  \/ Advance \/ Resolve

Spec == Init /\ [][Next]_vars

-----------------------------------------------------------------------------
(* Properties.                                                              *)

\* A push that was queued stays queued until GitHub has its commits, whoever drains, dies or
\* fails, unless it was queued between another process's push and the removal of the entry
\* (push_queue.py:81, git_ops.py:621).
QueuedUntilPushed == "lost" \notin breach => owed \subseteq origin \/ queue

\* What the scan refuses is on GitHub only where another clone pushed it, session_start, which
\* does not scan, or a program that had scanned before the commit was made; a refused commit
\* that sync or pre_compact found stays off, whoever pulls, rebases or drains the queue
\* (cli.py:500, hooks/session_start.py:44, push_safety.py:159).
ScannedBeforePushed == origin \intersect Unsafe \subseteq waived \union {Alien}

\* Both: the pushes of overlapping programs are safe, short of the races and of session_start.
PushesAreSafe == QueuedUntilPushed /\ ScannedBeforePushed
=============================================================================
