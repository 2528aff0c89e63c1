------------------------------ MODULE DreamRun ------------------------------
(***************************************************************************)
(* One clone of a memory repository while it dreams                        *)
(* (src/umx/dream/pipeline.py), its session hooks and its remote.          *)
(*                                                                         *)
(* A dream reads the session logs and the gap records of the working tree, *)
(* writes the facts it learned, and then either commits them (local mode)  *)
(* or proposes them on a branch that a reviewer merges on GitHub (remote   *)
(* and hybrid mode).  Every git command is a step, so the session hooks,   *)
(* "umx sync", the reviewer and a crash can come between any two of them.  *)
(* At most one dream runs: DreamLock is about that.                        *)
(*                                                                         *)
(* A session log is the number of its events.  A fact is the event or the  *)
(* gap it was extracted from; consolidation and pruning of facts is left   *)
(* out.  A tree is the content of a commit or of the working tree.         *)
(***************************************************************************)
EXTENDS Naturals, FiniteSets

CONSTANTS
  Session,     \* session ids
  MaxEvents,   \* bound: events of one session
  Gap,         \* gap records that may be noted
  Branch,      \* names a dream may give to a proposal branch
  Mode,        \* dream.mode: "local", "remote" or "hybrid"
  Overlap,     \* may hooks, sync and new sessions come between a dream's steps
  MaxCrashes   \* bound: crashes of dreams in one behaviour

ASSUME ModeIsKnown == Mode \in {"local", "remote", "hybrid"}
ASSUME EventsAreBounded == MaxEvents \in Nat \ {0}
ASSUME MainIsNoProposal == "main" \notin Branch
ASSUME OverlapIsBoolean == Overlap \in BOOLEAN
ASSUME CrashesAreBounded == MaxCrashes \in Nat
ASSUME GapsAreNoEvents == Gap \cap (Session \X (1 .. MaxEvents)) = {}

Governed == Mode # "local"
Fact == (Session \X (1 .. MaxEvents)) \union Gap
Log == [Session -> 0 .. MaxEvents]
Tree == [facts : SUBSET Fact, sess : Log]
Ref == {"main"} \union Branch

VARIABLES
  \* the clone on disk
  wt,        \* working tree
  dirty,     \* facts or MEMORY.md in wt differ from the commit checked out
  logDirty,  \* meta/processing.jsonl in wt is not committed
  cur,       \* branch checked out
  made,      \* proposal branches that exist
  tip,       \* tip[r]: tree of the local branch r
  base,      \* merge base of main and origin/main
  tracked,   \* the session logs of the last fetched origin/main
  gaps,      \* meta/gaps.jsonl
  gathered,  \* last_gathered_sessions of meta/dream-state.json
  active,    \* meta/processing.jsonl shows a run neither ended nor stale
  queued,    \* main is in local/push-queue.jsonl
  \* GitHub
  origin,    \* tree of main
  ahead,     \* origin main has commits the local main lacks
  pr,        \* pr[b]: the pull request from b
  \* processes
  pc,        \* next step of the dream
  draft,     \* facts the dream has yet to write
  taken,     \* sessions it will mark as gathered
  prop,      \* its proposal branch, or "main" before it has one
  fork,      \* the tree that branch started from
  hook,      \* next step of the session_start hook
  swept,     \* the hook committed sessions
  crashes,
  noted,     \* ghost: gaps recorded so far
  heard,     \* ghost: gaps a dream gathered
  covered    \* ghost: covered[s]: events of s extracted when s was marked

disk == <<wt, dirty, logDirty, cur, made, tip, base, tracked, gaps, gathered, active, queued>>
github == <<origin, ahead, pr>>
memory == <<draft, taken, prop, fork>>
dream == <<pc, memory>>
ghosts == <<noted, heard, covered>>
vars == <<disk, github, dream, hook, swept, crashes, ghosts>>

NoEvents == [s \in Session |-> 0]
Empty == [facts |-> {}, sess |-> NoEvents]
NoPull == [state |-> "none", head |-> Empty, fork |-> Empty]

\* The dream returns or dies: what it held in memory is gone.
Forget == draft' = {} /\ taken' = {} /\ prop' = "main" /\ fork' = Empty

TypeOK ==
  /\ wt \in Tree /\ base \in Tree /\ origin \in Tree
  /\ tip \in [Ref -> Tree]
  /\ tracked \in Log
  /\ dirty \in BOOLEAN /\ logDirty \in BOOLEAN /\ queued \in BOOLEAN
  /\ ahead \in BOOLEAN /\ swept \in BOOLEAN /\ active \in BOOLEAN
  /\ cur \in Ref /\ made \subseteq Branch
  /\ gaps \subseteq Gap /\ noted \subseteq Gap /\ heard \subseteq Gap
  /\ gathered \subseteq Session /\ taken \subseteq Session
  /\ draft \subseteq Fact
  /\ prop \in Ref /\ fork \in Tree
  /\ pr \in [Branch -> [state : {"none", "open"}, head : Tree, fork : Tree]]
  /\ pc \in {"idle", "publish", "push", "gather", "save", "clear", "branch", "strip",
             "commit", "back", "backEmpty", "backFailed", "propose", "mark", "complete",
             "land", "sync", "pushEnd"}
  /\ hook \in {"idle", "pull", "push"}
  /\ crashes \in 0 .. MaxCrashes
  /\ covered \in Log

-----------------------------------------------------------------------------
(* git                                                                      *)

\* The three-way merge of x and y over their common ancestor b.  A session log
\* changed on both sides is a conflict; facts live in many small files.
Conflict(b, x, y) ==
  \E s \in Session :
    x.sess[s] # b.sess[s] /\ y.sess[s] # b.sess[s] /\ x.sess[s] # y.sess[s]

Merge3(b, x, y) ==
  [facts |-> (x.facts \cap y.facts) \union (x.facts \ b.facts) \union (y.facts \ b.facts),
   sess  |-> [s \in Session |-> IF x.sess[s] = b.sess[s] THEN y.sess[s] ELSE x.sess[s]]]

\* git add -A, git commit: everything in the working tree, on whatever is checked out.
CommitAll ==
  /\ tip' = [tip EXCEPT ![cur] = wt]
  /\ dirty' = FALSE
  /\ logDirty' = FALSE

\* git push origin main succeeded: origin, its tracking ref and the merge base agree.
PushedMain ==
  /\ ~ahead
  /\ origin' = tip["main"]
  /\ base' = tip["main"]
  /\ tracked' = tip["main"].sess

\* git pull --rebase refuses tracked files with uncommitted changes, branches
\* without an upstream and conflicts; log files not yet committed stay as they are.
CanPull ==
  /\ cur = "main" /\ ~dirty /\ ~logDirty
  /\ \A s \in Session : tip["main"].sess[s] > 0 => wt.sess[s] = tip["main"].sess[s]
  /\ \A s \in Session : wt.sess[s] > tip["main"].sess[s] => origin.sess[s] = 0
  /\ ~Conflict(base, tip["main"], origin)

Pulled == Merge3(base, tip["main"], origin)

\* Fact files committed on main that origin lacks: the diff base...HEAD.
FactsOnMain == tip["main"].facts # base.facts

-----------------------------------------------------------------------------
(* the dream: start                                                         *)

\* run() refuses governed dreams off main and while the processing log shows an
\* active run; then it appends the "started" event.
Start ==
  /\ pc = "idle"
  /\ Overlap \/ hook = "idle"
  /\ Governed => cur = "main"
  /\ ~active
  /\ active' = TRUE
  /\ logDirty' = TRUE
  /\ pc' = IF Governed THEN "publish" ELSE "gather"
  /\ UNCHANGED <<wt, dirty, cur, made, tip, base, tracked, gaps, gathered, queued,
                 github, memory, hook, swept, crashes, ghosts>>

\* Mutant: the error is returned without logging the run as failed.
EndFailed_Silent ==
  /\ pc' = "idle"
  /\ Forget
  /\ UNCHANGED <<active, logDirty>>

\* fail_processing_run and return.
EndFailed ==
  /\ active' = FALSE
  /\ logDirty' = TRUE
  /\ pc' = "idle"
  /\ Forget

\* Mutant: no look for facts committed on main before the push.
Publish_Unchecked ==
  /\ pc = "publish"
  /\ cur = "main"
  /\ tracked' = origin.sess
  /\ logDirty' = FALSE
  /\ pc' = "push"
  /\ UNCHANGED <<wt, dirty, cur, made, tip, base, gaps, gathered, active, queued,
                 github, memory, hook, swept, crashes, ghosts>>

\* _push_paths_to_main up to the push: commit the processing log, fetch, and look
\* for facts committed on main.  Any failure ends the run with a failed event.
Publish ==
  /\ pc = "publish"
  /\ \/ /\ cur = "main" /\ ~FactsOnMain
        /\ tracked' = origin.sess
        /\ logDirty' = FALSE
        /\ pc' = "push"
        /\ UNCHANGED active
        /\ UNCHANGED memory
     \/ EndFailed /\ tracked' \in {tracked, origin.sess}
  /\ UNCHANGED <<wt, dirty, cur, made, tip, base, gaps, gathered, queued,
                 github, hook, swept, crashes, ghosts>>

\* git push: rejected when origin is ahead, and it may fail for other reasons.
PushStart ==
  /\ pc = "push"
  /\ \/ /\ PushedMain
        /\ pc' = "gather"
        /\ UNCHANGED <<active, logDirty, memory>>
     \/ EndFailed /\ UNCHANGED <<origin, base, tracked>>
  /\ UNCHANGED <<wt, dirty, cur, made, tip, gaps, gathered, queued, ahead, pr,
                 hook, swept, crashes, ghosts>>

-----------------------------------------------------------------------------
(* the dream: learn                                                         *)

Unread == {s \in Session : s \notin gathered /\ wt.sess[s] > 0}

\* Mutant: sessions are marked as gathered when they are read.
Gather_MarksAtOnce ==
  /\ pc = "gather"
  /\ draft' = wt.facts \union gaps
                \union {e \in Session \X (1 .. MaxEvents) :
                          e[1] \in Unread /\ e[2] <= wt.sess[e[1]]}
  /\ gathered' = gathered \union Unread
  /\ covered' = [s \in Session |-> IF s \in Unread THEN wt.sess[s] ELSE covered[s]]
  /\ heard' = heard \union gaps
  /\ pc' = "save"
  /\ UNCHANGED <<wt, dirty, logDirty, cur, made, tip, base, tracked, gaps, active, queued,
                 github, taken, prop, fork, hook, swept, crashes, noted>>

\* Mutant: the gap records are emptied when they are read.
Gather_ClearsGaps ==
  /\ pc = "gather"
  /\ draft' = wt.facts \union gaps
  /\ gaps' = {}
  /\ heard' = heard \union gaps
  /\ pc' = "save"
  /\ UNCHANGED <<wt, dirty, logDirty, cur, made, tip, base, tracked, gathered, active, queued,
                 github, taken, prop, fork, hook, swept, crashes, noted, covered>>

\* Mutant: the facts on disk are not loaded.
Gather_OnlyNew ==
  /\ pc = "gather"
  /\ draft' = gaps \union {e \in Session \X (1 .. MaxEvents) :
                             e[1] \in Unread /\ e[2] <= wt.sess[e[1]]}
  /\ taken' = Unread
  /\ covered' = [s \in Session |-> IF s \in Unread THEN wt.sess[s] ELSE covered[s]]
  /\ heard' = heard \union gaps
  /\ pc' = "save"
  /\ UNCHANGED <<disk, github, prop, fork, hook, swept, crashes, noted>>

\* orient() loads the facts, gather() adds what the unread sessions and the gap
\* records say.  Sessions only the native heuristic could read are not marked.
Gather ==
  /\ pc = "gather"
  /\ draft' = wt.facts \union gaps
                \union {e \in Session \X (1 .. MaxEvents) :
                          e[1] \in Unread /\ e[2] <= wt.sess[e[1]]}
  /\ \E marked \in SUBSET Unread :
       /\ taken' = marked
       /\ covered' = [s \in Session |-> IF s \in marked THEN wt.sess[s] ELSE covered[s]]
  /\ heard' = heard \union gaps
  /\ pc' = "save"
  /\ UNCHANGED <<disk, github, prop, fork, hook, swept, crashes, noted>>

\* prune(): write the facts in memory over those on disk.
Save ==
  /\ pc = "save"
  /\ wt' = [wt EXCEPT !.facts = draft]
  /\ dirty' = TRUE
  /\ draft' = {}
  /\ pc' = "clear"
  /\ UNCHANGED <<logDirty, cur, made, tip, base, tracked, gaps, gathered, active, queued,
                 github, taken, prop, fork, hook, swept, crashes, ghosts>>

\* prune() ends with clear_gap_records.
Clear ==
  /\ pc = "clear"
  /\ gaps' = {}
  /\ pc' = IF Governed THEN "branch" ELSE "mark"
  /\ UNCHANGED <<wt, dirty, logDirty, cur, made, tip, base, tracked, gathered, active, queued,
                 github, memory, hook, swept, crashes, ghosts>>

-----------------------------------------------------------------------------
(* the dream: propose (remote and hybrid mode)                              *)

\* git checkout -b.  A name already used, twice on one day for the same first
\* session, leaves the run without a proposal; so does a clean working tree.
CreateBranch(b) ==
  /\ pc = "branch"
  /\ IF dirty /\ b \notin made
       THEN /\ made' = made \union {b}
            /\ tip' = [tip EXCEPT ![b] = tip[cur]]
            /\ cur' = b
            /\ prop' = b
            /\ fork' = tip[cur]
            /\ pc' = "strip"
       ELSE /\ pc' = "mark"
            /\ UNCHANGED <<made, tip, cur, prop, fork>>
  /\ UNCHANGED <<wt, dirty, logDirty, base, tracked, gaps, gathered, active, queued,
                 github, draft, taken, hook, swept, crashes, ghosts>>

\* Mutant: session logs are removed, also those that are on origin/main.
Strip_Unlinks ==
  /\ pc = "strip"
  /\ wt' = [wt EXCEPT !.sess = [s \in Session |-> IF tip[cur].sess[s] > 0 THEN 0 ELSE wt.sess[s]]]
  /\ pc' = "commit"
  /\ UNCHANGED <<dirty, logDirty, cur, made, tip, base, tracked, gaps, gathered, active, queued,
                 github, memory, hook, swept, crashes, ghosts>>

\* _strip_operational_changes_from_branch: every session log git knows of and
\* that differs from origin/main is set back to it, in the working tree.
Strip ==
  /\ pc = "strip"
  /\ wt' = [wt EXCEPT !.sess =
              [s \in Session |-> IF tip[cur].sess[s] > 0 \/ tracked[s] > 0
                                   THEN tracked[s] ELSE wt.sess[s]]]
  /\ pc' = "commit"
  /\ UNCHANGED <<dirty, logDirty, cur, made, tip, base, tracked, gaps, gathered, active, queued,
                 github, memory, hook, swept, crashes, ghosts>>

\* git_add_and_commit of the changed fact files: committed, nothing left to
\* commit, or failed (signing, a git hook, a lock file).
CommitProposal ==
  /\ pc = "commit"
  /\ \/ /\ dirty
        /\ tip' = [tip EXCEPT ![cur].facts = wt.facts]
        /\ dirty' = FALSE
        /\ pc' = "back"
     \/ ~dirty /\ pc' = "backEmpty" /\ UNCHANGED <<tip, dirty>>
     \/ dirty /\ pc' = "backFailed" /\ UNCHANGED <<tip, dirty>>
  /\ UNCHANGED <<wt, logDirty, cur, made, base, tracked, gaps, gathered, active, queued,
                 github, memory, hook, swept, crashes, ghosts>>

\* git refuses to leave the branch when a log differs on both sides of it and on
\* disk, and nobody looks at the result.
CanLeave ==
  \A s \in Session :
    tip[cur].sess[s] = tip["main"].sess[s] \/ wt.sess[s] = tip[cur].sess[s]

\* What git checkout main leaves in the working tree.
LeftBehind ==
  [facts |-> IF dirty THEN wt.facts ELSE tip["main"].facts,
   sess  |-> [s \in Session |-> IF tip[cur].sess[s] = tip["main"].sess[s]
                                  THEN wt.sess[s] ELSE tip["main"].sess[s]]]

\* The finally block of _commit_to_branch: back to main, with the committed facts
\* out of the working tree.  A failed commit then raises.
CheckoutBack ==
  /\ pc \in {"back", "backEmpty", "backFailed"}
  /\ IF CanLeave THEN cur' = "main" /\ wt' = LeftBehind ELSE UNCHANGED <<cur, wt>>
  /\ \/ pc = "back" /\ pc' = "propose" /\ UNCHANGED <<active, logDirty, memory>>
     \/ /\ pc = "backEmpty"
        /\ pc' = "mark" /\ prop' = "main" /\ fork' = Empty
        /\ UNCHANGED <<active, logDirty, draft, taken>>
     \/ pc = "backFailed" /\ pc' = "sync" /\ active' = FALSE /\ logDirty' = TRUE /\ Forget
  /\ UNCHANGED <<dirty, made, tip, base, tracked, gaps, gathered, queued,
                 github, hook, swept, crashes, ghosts>>

\* _push_and_open_pr: the pull request is opened; or a check or GitHub blocks it
\* and the run fails; or the push fails or gh is missing and the run goes on.
Propose ==
  /\ pc = "propose"
  /\ \/ /\ pr' = [pr EXCEPT ![prop] = [state |-> "open", head |-> tip[prop], fork |-> fork]]
        /\ pc' = "mark" /\ prop' = "main" /\ fork' = Empty
        /\ UNCHANGED <<active, logDirty, draft, taken>>
     \/ EndFailed /\ UNCHANGED pr
     \/ /\ pc' = "mark" /\ prop' = "main" /\ fork' = Empty
        /\ UNCHANGED <<pr, active, logDirty, draft, taken>>
  /\ UNCHANGED <<wt, dirty, cur, made, tip, base, tracked, gaps, gathered, queued,
                 origin, ahead, hook, swept, crashes, ghosts>>

-----------------------------------------------------------------------------
(* the dream: end                                                           *)

\* mark_sessions_gathered and mark_dream_complete.
Mark ==
  /\ pc = "mark"
  /\ gathered' = gathered \union taken
  /\ taken' = {}
  /\ pc' = "complete"
  /\ UNCHANGED <<wt, dirty, logDirty, cur, made, tip, base, tracked, gaps, active, queued,
                 github, draft, prop, fork, hook, swept, crashes, ghosts>>

\* complete_processing_run
Complete ==
  /\ pc = "complete"
  /\ active' = FALSE
  /\ logDirty' = TRUE
  /\ pc' = "land"
  /\ UNCHANGED <<wt, dirty, cur, made, tip, base, tracked, gaps, gathered, queued,
                 github, memory, hook, swept, crashes, ghosts>>

\* Local mode ends with a commit of everything; when it fails the active, already
\* logged as completed, is logged as failed too.
LandLocal ==
  /\ pc = "land" /\ ~Governed
  /\ \/ CommitAll
     \/ logDirty' = TRUE /\ UNCHANGED <<tip, dirty>>
  /\ pc' = "idle"
  /\ UNCHANGED <<wt, cur, made, base, tracked, gaps, gathered, active, queued,
                 github, memory, hook, swept, crashes, ghosts>>

\* _push_paths_to_main again: the log, in hybrid mode with the changed session logs
\* that exist, is committed; facts on main or a failure end the run here.  A run
\* that failed publishes only its log.
LandGoverned ==
  /\ pc \in {"land", "sync"} /\ Governed
  /\ \/ /\ cur = "main"
        /\ logDirty' = FALSE
        /\ tip' = IF pc = "land" /\ Mode = "hybrid"
                    THEN [tip EXCEPT !["main"].sess =
                            [s \in Session |-> IF wt.sess[s] > 0 THEN wt.sess[s] ELSE @[s]]]
                    ELSE tip
        /\ \/ ~FactsOnMain /\ tracked' = origin.sess /\ pc' = "pushEnd"
           \/ tracked' \in {tracked, origin.sess} /\ pc' = "idle"
     \/ pc' = "idle" /\ UNCHANGED <<logDirty, tip, tracked>>
  /\ UNCHANGED <<wt, dirty, cur, made, base, gaps, gathered, active, queued,
                 github, memory, hook, swept, crashes, ghosts>>

PushEnd ==
  /\ pc = "pushEnd"
  /\ PushedMain \/ UNCHANGED <<origin, base, tracked>>
  /\ pc' = "idle"
  /\ UNCHANGED <<wt, dirty, logDirty, cur, made, tip, gaps, gathered, active, queued, ahead, pr,
                 memory, hook, swept, crashes, ghosts>>

\* Mutant: the exception leaves the dream hanging.
Raise_Stuck ==
  /\ pc \in {"gather", "save", "clear", "branch", "mark", "complete"}
  /\ pc' = "raised"
  /\ UNCHANGED <<disk, github, memory, hook, swept, crashes, ghosts>>

\* An exception in a phase: the run is logged as failed, and a governed run tries
\* to publish that.
Raise ==
  /\ pc \in {"gather", "save", "clear", "branch", "mark", "complete"}
  /\ active' = FALSE
  /\ logDirty' = TRUE
  /\ pc' = IF Governed THEN "sync" ELSE "idle"
  /\ Forget
  /\ UNCHANGED <<wt, dirty, cur, made, tip, base, tracked, gaps, gathered, queued,
                 github, hook, swept, crashes, ghosts>>

\* The process dies, the disk stays as it is.
Crash ==
  /\ pc # "idle"
  /\ crashes < MaxCrashes
  /\ crashes' = crashes + 1
  /\ pc' = "idle"
  /\ Forget
  /\ UNCHANGED <<disk, github, hook, swept, ghosts>>

\* Mutant: a run that died counts as active for ever.
Expire_Never == active /\ pc = "idle" /\ UNCHANGED vars

\* A started event older than 30 minutes does not count as an active run.
Expire ==
  /\ active
  /\ pc = "idle"
  /\ active' = FALSE
  /\ UNCHANGED <<wt, dirty, logDirty, cur, made, tip, base, tracked, gaps, gathered, queued,
                 github, dream, hook, swept, crashes, ghosts>>

-----------------------------------------------------------------------------
(* the agents, their hooks, and umx sync                                    *)

Quiet == Overlap \/ pc = "idle"

\* append_session_event, without a commit.
Capture(s) ==
  /\ Quiet
  /\ wt.sess[s] < MaxEvents
  /\ wt' = [wt EXCEPT !.sess[s] = @ + 1]
  /\ UNCHANGED <<dirty, logDirty, cur, made, tip, base, tracked, gaps, gathered, active, queued,
                 github, dream, hook, swept, crashes, ghosts>>

\* emit_gap_signal appends to meta/gaps.jsonl.
NoteGap(g) ==
  /\ Quiet
  /\ g \notin noted
  /\ gaps' = gaps \union {g}
  /\ noted' = noted \union {g}
  /\ UNCHANGED <<wt, dirty, logDirty, cur, made, tip, base, tracked, gathered, active, queued,
                 github, dream, hook, swept, crashes, heard, covered>>

\* The session_end hook commits the session with "git add -A".
SessionEnd ==
  /\ Quiet
  /\ \E s \in Session : wt.sess[s] > 0
  /\ CommitAll
  /\ UNCHANGED <<wt, cur, made, base, tracked, gaps, gathered, active, queued,
                 github, dream, hook, swept, crashes, ghosts>>

\* The session_start hook: safety_sweep commits the session logs that differ, ...
Sweep ==
  /\ Quiet
  /\ hook = "idle"
  /\ tip' = [tip EXCEPT ![cur].sess = wt.sess]
  /\ IF Governed
       THEN hook' = "pull" /\ swept' = (wt.sess # tip[cur].sess)
       ELSE UNCHANGED <<hook, swept>>
  /\ UNCHANGED <<wt, dirty, logDirty, cur, made, base, tracked, gaps, gathered, active, queued,
                 github, dream, crashes, ghosts>>

\* ... then it fetches and pulls, ignoring the results, ...
Pull ==
  /\ hook = "pull"
  /\ \/ /\ CanPull
        /\ tip' = [tip EXCEPT !["main"] = Pulled]
        /\ wt' = [facts |-> Pulled.facts,
                  sess  |-> [s \in Session |-> IF tip["main"].sess[s] = 0 /\ Pulled.sess[s] = 0
                                                 THEN wt.sess[s] ELSE Pulled.sess[s]]]
        /\ base' = origin
        /\ tracked' = origin.sess /\ ahead' = FALSE
     \/ UNCHANGED <<tip, wt, base, ahead>> /\ tracked' \in {tracked, origin.sess}
  /\ hook' = "push"
  /\ UNCHANGED <<dirty, logDirty, cur, made, gaps, gathered, active, queued,
                 origin, pr, dream, swept, crashes, ghosts>>

\* ... and pushes main when a push was queued or sessions were swept, whatever
\* main contains; a rejected push is retried after another pull, or queued.
Push ==
  /\ hook = "push"
  /\ \/ /\ queued \/ swept
        /\ PushedMain
        /\ queued' = FALSE
        /\ hook' = "idle"
     \/ /\ queued \/ swept
        /\ UNCHANGED <<origin, base, tracked>>
        /\ \/ queued' = TRUE /\ hook' = "idle"
           \/ ahead /\ hook' = "pull" /\ UNCHANGED queued
     \/ ~queued /\ ~swept /\ hook' = "idle" /\ UNCHANGED <<origin, base, tracked, queued>>
  /\ swept' = (swept /\ hook' # "idle")
  /\ UNCHANGED <<wt, dirty, logDirty, cur, made, tip, gaps, gathered, active, ahead, pr,
                 dream, crashes, ghosts>>

\* umx sync on a governed repository: it refuses to run off main or over pending
\* facts, commits the logs, refuses facts committed on main, pulls and pushes.
Sync ==
  /\ Governed /\ Quiet
  /\ cur = "main" /\ ~dirty
  /\ LET local  == [tip["main"] EXCEPT !.sess = wt.sess]
         merged == Merge3(base, local, origin)
     IN  \/ /\ tip' = [tip EXCEPT !["main"] = local]
            /\ FactsOnMain \/ Conflict(base, local, origin)
            /\ UNCHANGED <<wt, base, origin, ahead, queued>>
         \/ /\ ~FactsOnMain /\ ~Conflict(base, local, origin)
            /\ tip' = [tip EXCEPT !["main"] = merged]
            /\ wt' = merged
            /\ ahead' = FALSE
            /\ \/ origin' = merged /\ base' = merged /\ queued' = FALSE
               \/ base' = origin /\ queued' = TRUE /\ UNCHANGED origin
  /\ tracked' = origin'.sess
  /\ logDirty' = FALSE
  /\ UNCHANGED <<dirty, cur, made, gaps, gathered, active, pr,
                 dream, hook, swept, crashes, ghosts>>

-----------------------------------------------------------------------------
(* GitHub                                                                   *)

\* A reviewer, or the L2 workflow, merges the pull request from b or closes it.
MergePull(b) ==
  /\ pr[b].state = "open"
  /\ ~Conflict(pr[b].fork, pr[b].head, origin)
  /\ origin' = Merge3(pr[b].fork, pr[b].head, origin)
  /\ ahead' = TRUE
  /\ pr' = [pr EXCEPT ![b] = NoPull]
  /\ UNCHANGED <<disk, dream, hook, swept, crashes, ghosts>>

ClosePull(b) ==
  /\ pr[b].state = "open"
  /\ pr' = [pr EXCEPT ![b] = NoPull]
  /\ UNCHANGED <<disk, origin, ahead, dream, hook, swept, crashes, ghosts>>

-----------------------------------------------------------------------------
Init ==
  /\ wt = Empty /\ base = Empty /\ origin = Empty
  /\ tip = [r \in Ref |-> Empty]
  /\ tracked = NoEvents
  /\ dirty = FALSE /\ logDirty = FALSE /\ queued = FALSE /\ ahead = FALSE
  /\ cur = "main" /\ made = {}
  /\ gaps = {} /\ noted = {} /\ heard = {}
  /\ gathered = {} /\ taken = {} /\ draft = {}
  /\ prop = "main" /\ fork = Empty
  /\ active = FALSE
  /\ pr = [b \in Branch |-> NoPull]
  /\ pc = "idle" /\ hook = "idle" /\ swept = FALSE
  /\ crashes = 0
  /\ covered = NoEvents

Dream ==
  \/ Start \/ Publish \/ PushStart \/ Gather \/ Save \/ Clear
  \/ \E b \in Branch : CreateBranch(b)
  \/ Strip \/ CommitProposal \/ CheckoutBack \/ Propose
  \/ Mark \/ Complete \/ LandLocal \/ LandGoverned \/ PushEnd \/ Raise

Hooks ==
  \/ \E s \in Session : Capture(s)
  \/ \E g \in Gap : NoteGap(g)
  \/ SessionEnd \/ Sweep \/ Pull \/ Push \/ Sync

Review == \E b \in Branch : MergePull(b) \/ ClosePull(b)

Next == Dream \/ Crash \/ Expire \/ Hooks \/ Review

Spec == Init /\ [][Next]_vars

\* A process gets its turn, an exception or a failing command does not recur for
\* ever, and time passes for a run that died.
Fairness ==
  /\ SF_vars(Start) /\ SF_vars(Gather) /\ SF_vars(Save) /\ SF_vars(Clear)
  /\ SF_vars(Mark) /\ SF_vars(Complete) /\ SF_vars(LandLocal /\ ~logDirty')
  /\ WF_vars(LandLocal)
  /\ WF_vars(Expire)

FairSpec == Spec /\ Fairness

-----------------------------------------------------------------------------
(* Properties                                                               *)

\* Where a fact is safe from the death of a process.
Durable == wt.facts \union origin.facts \union UNION {tip[r].facts : r \in Ref}

\* A session marked as gathered is never read again, so by then what the dream
\* extracted from it must be on disk or on GitHub, whatever crashed, was refused or
\* was closed since.
GatheredIsDurable ==
  \A s \in gathered : \A k \in 1 .. covered[s] : <<s, k>> \in Durable

\* prune() empties the gap records while the run can still fail: a gap the dream
\* gathered is a fact on disk by then.
GatheredGapsSurvive == heard \subseteq gaps \union Durable

\* The facts on proposal branches.  A branch that is checked out with facts still to
\* be committed is about to be rewritten, so it does not count.
OnProposals == UNION {tip[b].facts : b \in {c \in Branch : ~(cur = c /\ dirty)}}

\* No step takes a fact out of these.
Kept == wt.facts \union OnProposals

\* While it reads, learns and writes, a dream is on main; in local mode all is.
LearnsOnMain ==
  /\ pc \in {"publish", "push", "branch"} => Governed
  /\ ~Governed \/ pc \in {"publish", "push", "gather", "save", "clear", "branch"} => cur = "main"

\* A name not used yet has no commit.
UnusedIsEmpty == \A b \in Branch \ made : tip[b] = Empty /\ cur # b

\* git status is clean about facts only when they are those of the commit.
CleanIsCommitted == ~dirty => wt.facts = tip[cur].facts

\* Commits, here and on GitHub, have no other facts, and a fact a review took out
\* since the merge base is still on its proposal branch.
CommitsAreKept ==
  /\ origin.facts \union base.facts \subseteq Kept
  /\ \A r \in Ref : tip[r].facts \subseteq Kept
  /\ base.facts \ origin.facts \subseteq OnProposals
  /\ \A b \in Branch : pr[b].head.facts \union pr[b].fork.facts \subseteq OnProposals

\* From its checkout to the pull request a proposal keeps what it started from.
ForkIsKept ==
  /\ pc \in {"strip", "commit"} => cur = prop /\ prop \in Branch /\ fork.facts \subseteq Kept
  /\ pc \in {"back", "propose"} => ~dirty /\ prop \in Branch /\ fork.facts \subseteq OnProposals

\* What a dream read is in its memory until prune() has written it.
ReadIsKept ==
  /\ pc # "save" => draft = {}
  /\ pc = "save" => wt.facts \subseteq draft \union OnProposals
  /\ heard \subseteq gaps \union Kept
  /\ pc \in {"save", "clear"} => heard \subseteq Kept \union draft
  /\ \A s \in gathered : \A k \in 1 .. covered[s] : <<s, k>> \in Kept
  /\ \A s \in taken : \A k \in 1 .. covered[s] : <<s, k>> \in Kept \union draft

KeptInv ==
  /\ LearnsOnMain /\ UnusedIsEmpty /\ CleanIsCommitted /\ CommitsAreKept
  /\ ForkIsKept /\ ReadIsKept

\* Where no hook comes between a dream's steps, main only grows from its merge base
\* to its commits to the working tree, and a proposal only from where it forked.
Proposing == {"strip", "commit", "back", "backEmpty", "backFailed"}

FactsGrow ==
  /\ base.facts \subseteq tip["main"].facts
  /\ tip["main"].facts \union tip[cur].facts \subseteq wt.facts
  /\ pc = "save" => wt.facts \subseteq draft
  /\ pc \in Proposing => cur = prop
  /\ pc \in Proposing \union {"propose"} => fork.facts \subseteq tip[prop].facts
  /\ \A b \in Branch : pr[b].fork.facts \subseteq pr[b].head.facts

LogsGrow ==
  /\ \A s \in Session : base.sess[s] <= tip["main"].sess[s]
  /\ cur = "main" \/ pc \in Proposing =>
       \A s \in Session : tip["main"].sess[s] <= wt.sess[s]
  /\ Governed /\ pc \in {"gather", "save", "clear", "branch", "strip"} =>
       tracked = tip["main"].sess
  /\ pc \in Proposing => tip[cur].sess = tip["main"].sess
  /\ pc \in Proposing \union {"propose"} => prop \in Branch /\ fork.sess = tip[prop].sess
  /\ \A b \in Branch : pr[b].fork.sess = pr[b].head.sess

QuietInv ==
  /\ pc # "idle" => hook = "idle"
  /\ ~ahead => origin = base
  /\ FactsGrow
  /\ LogsGrow

\* However run() returns, from a refused push to an exception, its "started" event
\* is followed by a completed or failed one; else it blocks dreams for 30 minutes.
ReturnsEndTheRun ==
  [][pc # "idle" /\ pc' = "idle" /\ crashes' = crashes => ~active']_vars

\* No step of a governed dream changes the facts of main, here or on GitHub: not
\* when the proposal branch cannot be created, nor when an earlier crash or hook
\* left facts committed on main.
DreamOnlyProposes ==
  [][Governed /\ pc' # pc => /\ tip'["main"].facts = tip["main"].facts
                             /\ origin'.facts = origin.facts]_vars

\* What a dream reads, rewrites and proposes as a whole drops no fact a reviewer
\* merged before.
ReviewedFactsStay == [][origin.facts \subseteq origin'.facts]_vars

\* Session events that reached GitHub stay there, though the dream resets the logs
\* in the working tree and the hooks commit and push what they find.
PublishedEventsStay ==
  [][\A s \in Session : origin.sess[s] <= origin'.sess[s]]_vars

\* Session logs only grow.
SessionsKeepEvents == [][\A s \in Session : wt.sess[s] <= wt'.sess[s]]_vars

\* Facts get to the main branch on GitHub out of pull requests only.
FactsReachMainByReview ==
  [][Governed => origin'.facts \subseteq
        origin.facts \union UNION {pr[b].head.facts : b \in Branch}]_vars

\* Told after the dream that marked its session had read it: no dream reads it again
\* (extract.py:326).
TooLate(s, e) == s \in gathered /\ covered[s] < e

\* In local mode every event of a session is committed as a fact in the end, past crashes,
\* exceptions and failed commits, unless it came too late.
EventsBecomeFacts ==
  \A s \in Session, e \in 1 .. MaxEvents :
    e <= wt.sess[s] ~> <<s, e>> \in tip["main"].facts \/ TooLate(s, e)
=============================================================================
