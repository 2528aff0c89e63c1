--------------------------------- MODULE Fleet ---------------------------------
(***************************************************************************)
(* Several clones of one governed memory repository, on machines that      *)
(* share nothing but origin/main: a dream publishes its start there in     *)
(* meta/processing.jsonl before it works, and reads there who else is at   *)
(* work (src/umx/dream/processing.py, and run() and _push_paths_to_main in *)
(* src/umx/dream/pipeline.py).  The log is a set of events, a branch is    *)
(* what its commits added to it: git takes a push that extends the branch  *)
(* and no other, and a rebase over a log that both sides extended stops in *)
(* a conflict.  In a clone, a session_start hook may pull between any two  *)
(* steps of the dream.                                                     *)
(***************************************************************************)
EXTENDS Integers, FiniteSets

CONSTANTS
  Clone,
  MaxRuns,  \* bound: dreams of the fleet
  MaxActs   \* bound: hooks, deaths, failures and syncs in one behaviour

Run == 1 .. MaxRuns
Event == Run \X {"started", "completed", "failed"}

VARIABLES
  log,     \* log[c]: meta/processing.jsonl in the working tree of c
  main,    \* main[c]: the log at c's main
  origin,  \* the log at GitHub's main
  track,   \* track[c]: the log at c's origin/main
  stuck,   \* clones in which a rebase stopped
  pc, run, \* the dream of a clone, and its run_id
  old,     \* runs that started more than 30 minutes ago
  next, acts,
  pulled   \* ghost: clones whose hook pulled after the dream had looked

clone == <<log, main, track, stuck>>
dream == <<pc, run>>
vars == <<clone, origin, dream, old, next, acts, pulled>>

TypeOK ==
  /\ log \in [Clone -> SUBSET Event] /\ main \in [Clone -> SUBSET Event]
  /\ track \in [Clone -> SUBSET Event] /\ origin \subseteq Event
  /\ \A c \in Clone : main[c] \subseteq log[c]
  /\ \A c \in Clone : track[c] \subseteq origin
  /\ stuck \subseteq Clone /\ pulled \subseteq Clone /\ old \subseteq Run
  /\ pc \in [Clone -> {"idle", "start", "commit", "fetch", "push", "work", "end", "raise"}]
  /\ run \in [Clone -> Run \union {0}]
  /\ next \in 1 .. MaxRuns + 1 /\ acts \in 0 .. MaxActs

Init ==
  /\ log = [c \in Clone |-> {}] /\ main = log /\ track = log /\ origin = {}
  /\ stuck = {} /\ pulled = {} /\ old = {}
  /\ pc = [c \in Clone |-> "idle"] /\ run = [c \in Clone |-> 0]
  /\ next = 1 /\ acts = 0

Act == acts < MaxActs /\ acts' = acts + 1
Goto(c, step) == pc' = [pc EXCEPT ![c] = step]
Append(c, kind) == log' = [log EXCEPT ![c] = @ \union {<<run[c], kind>>}]

-----------------------------------------------------------------------------
(* Reading the log.                                                         *)

\* summarize_processing_log: the rows of the working tree and of the ref; the latest
\* event of a run says whether it is at work, if it is not older than 30 minutes.
Active(c) ==
  LET rows == log[c] \union track[c]
  IN  {r \in Run \ old : <<r, "started">> \in rows
                         /\ {<<r, "completed">>, <<r, "failed">>} \intersect rows = {}}

-----------------------------------------------------------------------------
(* A dream.                                                                 *)

\* On main, with the lock of this machine; nobody is at work, as far as this clone knows.
Look(c) ==
  /\ pc[c] = "idle" /\ c \notin stuck /\ next <= MaxRuns
  /\ Active(c) = {}
  /\ run' = [run EXCEPT ![c] = next] /\ next' = next + 1
  /\ pulled' = pulled \ {c}
  /\ Goto(c, "start")
  /\ UNCHANGED <<clone, origin, old, acts>>

\* start_processing_run.
StartRun(c) ==
  /\ pc[c] = "start" /\ Append(c, "started") /\ Goto(c, "commit")
  /\ UNCHANGED <<main, track, stuck, origin, run, old, next, acts, pulled>>

Closed(c) == {<<run[c], "completed">>, <<run[c], "failed">>} \intersect log[c] # {}

\* A start that is not published raises; nobody asks whether an end is.
GiveUp(c) == Goto(c, IF Closed(c) THEN "idle" ELSE "raise")

\* _push_paths_to_main commits the log.  Off main it gives up.
Commit(c) ==
  /\ pc[c] = "commit"
  /\ IF c \in stuck THEN GiveUp(c) /\ UNCHANGED main
     ELSE main' = [main EXCEPT ![c] = log[c]] /\ Goto(c, "fetch")
  /\ UNCHANGED <<log, track, stuck, origin, run, old, next, acts, pulled>>

Fetch(c) ==
  /\ pc[c] = "fetch" /\ track' = [track EXCEPT ![c] = origin] /\ Goto(c, "push")
  /\ UNCHANGED <<log, main, stuck, origin, run, old, next, acts, pulled>>

\* What follows a push of the log: the work, or nothing.
AfterPush(c) == Goto(c, IF Closed(c) THEN "idle" ELSE "work")

\* Mutant: the dream works although its start was not published.
PushLog_Anyway(c) ==
  /\ pc[c] = "push"
  /\ IF origin \subseteq main[c]
     THEN origin' = main[c] /\ track' = [track EXCEPT ![c] = main[c]]
     ELSE UNCHANGED <<origin, track>>
  /\ AfterPush(c)
  /\ UNCHANGED <<log, main, stuck, run, old, next, acts, pulled>>

\* git push origin main.
PushLog(c) ==
  /\ pc[c] = "push"
  /\ IF origin \subseteq main[c]
     THEN /\ origin' = main[c] /\ track' = [track EXCEPT ![c] = main[c]] /\ AfterPush(c)
     ELSE GiveUp(c) /\ UNCHANGED <<origin, track>>
  /\ UNCHANGED <<log, main, stuck, run, old, next, acts, pulled>>

\* The work ends, or raises; both are recorded and published.
EndRun(c) ==
  /\ pc[c] = "work"
  /\ \E kind \in {"completed", "failed"} : Append(c, kind)
  /\ Goto(c, "commit")
  /\ UNCHANGED <<main, track, stuck, origin, run, old, next, acts, pulled>>

\* The start was not published: the failure is recorded in this clone.
Refused(c) ==
  /\ pc[c] = "raise" /\ Goto(c, "idle")
  /\ Append(c, "failed")
  /\ UNCHANGED <<main, track, stuck, origin, run, old, next, acts, pulled>>

-----------------------------------------------------------------------------
(* Faults, hooks, and the clock.                                            *)

\* The fetch or the push fails.
Fail(c) ==
  /\ pc[c] \in {"fetch", "push"} /\ Act
  /\ GiveUp(c)
  /\ UNCHANGED <<clone, origin, run, old, next, pulled>>

Die(c) ==
  /\ pc[c] # "idle" /\ Act /\ Goto(c, "idle")
  /\ UNCHANGED <<clone, origin, run, old, next, pulled>>

\* Both sides appended to the log.
Conflict(c) == ~(origin \subseteq main[c]) /\ ~(main[c] \subseteq origin)

\* The clone learns of other starts after its dream has looked.
Seen(c) == pulled' = IF pc[c] \in {"idle", "work"} THEN pulled ELSE pulled \union {c}

\* git fetch and git pull --rebase, of session_start.  A rebase over pending changes of
\* the log does not begin; one that meets a conflict stops with both sides in the file, and
\* nobody aborts it.
Pull(c) ==
  /\ c \notin stuck /\ Act
  /\ track' = [track EXCEPT ![c] = origin]
  /\ IF log[c] # main[c] THEN UNCHANGED <<log, main, stuck, pulled>>
     ELSE IF Conflict(c)
     THEN /\ stuck' = stuck \union {c} /\ log' = [log EXCEPT ![c] = @ \union origin]
          /\ UNCHANGED <<main, pulled>>
     ELSE /\ main' = [main EXCEPT ![c] = @ \union origin] /\ log' = [log EXCEPT ![c] = main'[c]]
          /\ Seen(c)
          /\ UNCHANGED stuck
  /\ UNCHANGED <<origin, dream, old, next>>

\* session_start or umx sync pushes main.
Push(c) ==
  /\ c \notin stuck /\ origin \subseteq main[c] /\ origin # main[c] /\ Act
  /\ origin' = main[c] /\ track' = [track EXCEPT ![c] = main[c]]
  /\ UNCHANGED <<log, main, stuck, dream, old, next, pulled>>

\* The user resolves the conflict, keeping both sides, or aborts; umx sync commits the log.
Repair(c) ==
  /\ Act
  /\ \/ c \in stuck /\ \E both \in BOOLEAN :
          main' = [main EXCEPT ![c] = IF both THEN @ \union track[c] ELSE @]
     \/ c \notin stuck /\ log[c] # main[c] /\ main' = [main EXCEPT ![c] = log[c]]
  /\ log' = [log EXCEPT ![c] = main'[c]] /\ stuck' = stuck \ {c} /\ Seen(c)
  /\ UNCHANGED <<track, origin, dream, old, next>>

\* Half an hour passes after the start of a run.
Age(r) ==
  /\ r < next /\ r \notin old /\ old' = old \union {r}
  /\ UNCHANGED <<clone, origin, dream, next, acts, pulled>>

Next ==
  \/ \E c \in Clone :
       \/ Look(c) \/ StartRun(c) \/ Commit(c) \/ Fetch(c) \/ PushLog(c) \/ EndRun(c)
       \/ Refused(c) \/ Fail(c) \/ Die(c) \/ Pull(c) \/ Push(c)
       \/ Repair(c)
  \/ \E r \in Run : Age(r)

Spec == Init /\ [][Next]_vars

-----------------------------------------------------------------------------
(* Properties.                                                              *)

\* Two clones do not dream at once, as long as no dream works for more than half an hour
\* and nothing is pulled between a dream's look and its push: the first push of a start makes
\* every other clone's push a rejected one (pipeline.py:1520).
OneDreamAtATime ==
  \A c, d \in Clone :
    pc[c] = "work" /\ pc[d] = "work" /\ c # d =>
      {run[c], run[d]} \intersect old # {} \/ {c, d} \intersect pulled # {}
=============================================================================
