# Formal models of gitmem

gitmem (package `umx`) keeps the memory of coding agents in git repositories:
session logs, facts extracted from them by a "dream" run, and, in its governed
modes, pull requests through which facts reach the main branch. This directory
holds TLA+ models of that machinery, TLC configurations that check them, and
TLAPS proofs. Paths below are relative to the repository (`src/umx/` left out where
no doubt is possible); `spec` is `gitmem-spec-v0_9.md`.

To repeat a run: `tlc -config DreamLock.cfg MCDreamLock`; to repeat the proofs:
`tlapm DreamLock_proofs.tla`. `PROJECT.json` maps every definition to source lines.

## 1. Inventory

| component | state it keeps | operations | what is hard | what makes it correct |
|---|---|---|---|---|
| dream locks (`dream/gates.py`, `doctor.py`) | `~/.../state/dream.lock`, `meta/dream.lock` | acquire, heartbeat, release, stale test, doctor's clearing | no operation on a file is atomic; owners die or fall silent; two locks are taken in turn | runs that share a home or a repository do not overlap; nobody's live lock is removed; dead locks are reclaimed |
| dream pipeline (`dream/pipeline.py`, `extract.py`, `processing.py`) | working tree, branches, `meta/processing.jsonl`, `gaps.jsonl`, facts in memory | orient, gather, consolidate, prune, commit to a branch, open a PR, mark, complete | minutes-long run over files others write; some twelve ways to return; a crash anywhere | nothing marked as read is lost; runs are ended; facts are proposed, never pushed |
| dream state (`dream/gates.py`) | `meta/dream-state.json` | count a session, is a dream due, mark what was read | read-modify-write by hooks, collections and dreams; truncate, then write | the gate opens when due; a session is read once |
| processing log across clones (`dream/processing.py`) | start and end events on `origin/main` | publish the start, look for active runs | stale tracking refs, rejected pushes, 30-minute expiry, pulls by hooks | one dream per repository over all clones |
| git layer and push queue (`git_ops.py`, `push_queue.py`, `push_safety.py`) | refs, tracking refs, `local/push-queue.jsonl` | commit, pull --rebase, scan, push with retry, queue, drain | rejected pushes, stopped rebases, overlapping programs | a queued push is made in the end; what sync and pre_compact find unsafe is not pushed |
| remote setup (`cli.py`, `github_ops.py`) | clones on several machines, the GitHub repository | init, init-project, setup-remote, adoption of what is there | calls that fail after doing their work, deaths, two first machines | committed facts stay; all machines share a history |
| session logs (`sessions.py`, `session_runtime.py`) | `sessions/**.jsonl`, monthly archives and indexes, quarantine | append, write, archive, release, discard, remove | read-modify-write of whole files; archive in three files; checks and writes apart | recorded turns stay in log or archive and are found; refused ones stay out |
| hooks (`hooks/*.py`) and umx sync (`cli.py`) | none of their own | sweep, pull, push, commit, maybe dream | run at any time, beside a dream, and swallow errors | they publish sessions only |
| L2 review and main guard (`dream/pipeline.py` review_pr, `governance.py`, `github_ops.py`, `actions.py`) | labels, branches, PRs on GitHub; workflow queues | review, stamp, escalate, merge, guard, revert | labels and branches change between calls; reviews replaced or cancelled; any call fails | what is merged was judged and approved; main is what approved PRs made it |
| proposals and their review (`dream/l2_review.py`, `dream/providers.py`, builders in `governance.py`) | a proposal and its labels | label, derive labels again, ask providers, fall back to rules | labels and content disagree; providers fail in turn | rules approve only what is harmless and needs no people |
| fact store (`memory.py`, `merge.py`, `tombstones.py`, `supersession.py`) | markdown facts and JSON cache, tombstones | add, remove, replace, supersede, forget, read back humans' edits, whole-store save | two files per topic; reading writes; a dream saves minutes after it loaded | nothing stored is lost or doubled; forgotten facts do not return; histories end |
| fact actions (`fact_actions.py`) | commits in one or two repositories | edit, confirm, move, promote, forget, roll back; governed proposals | partial failure, rollback, other programs' commits, deaths | all or nothing |
| cross-project promotion (`cross_project.py`) | proposal branch, preview, PR in the user repository | audit, materialize, push, open | lagging clones, leftovers of earlier proposals, failing git commands | promoted once, opened as pushed |
| search index (`search.py`) | `meta/index.sqlite`: rows, FTS table, hashes | full and incremental rebuild, freshness test | several writers, edits during a rebuild, two tables to keep in step | a fresh index says what the files say; an injection overlooks nothing |
| semantic search (`search_semantic.py`, `providers/embeddings.py`) | the JSON cache of vectors | fill, rebuild, compare | overlapping commands with different models rewrite one file | vectors of one model are compared |
| injection budget (`inject.py`, `budget.py`, `chronicles.py`) | none | order of sections, packing, thinning, demotion | several greedy stages in turn with different costs | facts fit, those that must be there are |
| usage database (`search.py`, `session_runtime.py`) | turns, injections, references, audit | count, inject, refresh, hand over, refer | hooks read outside the transaction they write in | refreshes bounded, tables agree |
| capture adapters (`*_capture.py`, `claude_code_hooks.py`) | sessions made from other tools' transcripts | parse, name, write, commit | transcripts are read while written; names from prefixes and dates | nothing captured is lost again, one session per transcript |
| projection of memories (`backup.py`) | editable files, manifest | export, import | humans edit between reading and writing; deaths between store and files | an edit reaches the store, once |
| full backups (`backup.py`, `cli.py`) | a copy and its manifest | export, import | others write meanwhile; deaths | what is restored is a whole backup |
| schema and migrations (`schema.py`, `migrations/`, `doctor.py`) | versions in four places | repair, migrate, preflight | programs of two versions; failing writes and their undoing | migration loses no facts; a dream settles versions |
| telemetry (`telemetry.py`) | queue and state files | record, upload, switch off | overlapping commands, lost answers | an event arrives once; off is off |
| fact algorithms (`dream/consolidation.py`, `decay.py`, `prune.py`, ...) | none | consolidate, decay | numbers and text | - |
| content checks, user interfaces, providers, evaluation | none relevant | I/O, patterns, display | - | - |

How they interact: hooks and `umx` commands are separate processes on one clone;
they share nothing but the files and the git repository. A dream holds both
locks, but no hook, capture or sync ever asks for them. Clones share GitHub's
`main` only; a reviewer merges proposals there while a clone works. Facts live in
the store; actions, promotion, projection, backup and migration change the same
files without knowing of each other, and the index, the vectors and the usage
database follow them as best they can.

## 2. Modules

A module models one component, down to the single file operation, git command or
call to GitHub, because that is where other programs come between:

* `DreamLock`, and `DreamExclusion`, the turn-taking that locks are for.
* `DreamRun` - one clone, the dream on it, hooks, sync and GitHub. It takes one
  dream at a time for granted, which is what `DreamLock` (one machine) and `Fleet`
  (several clones) are about, and takes an append to a log for one step, which
  `SessionStore` takes apart. `DreamGate` has the file that makes a dream due.
* `PushQueue`, `RemoteSetup` - how commits and clones get to GitHub.
* `Governance` - reviews, labels, the main guard. `ProposalReview` - what one
  review decides and who decides it, which `Governance` leaves open.
* `FactStore`, `FactActions`, `CrossProject`, `Projection`, `Backup`, `Schema` -
  what is done with facts.
* `SearchIndex`, `SemanticCache`, `InjectionBudget`, `InjectionLog` - what is found
  and injected. `Capture`, `Telemetry` - what comes in and what is reported.
* `Context` - the modules around the facts (gate, clones, pushes, remote setup, reports, reviews,
  captures, session logs, index, vectors, injection) as the parts of one specification with
  shared variables; `Memory` - the same for the modules about facts.
* `MC...` - instances for TLC. `..._proofs` - theorems.

Definitions named `X_Something` with a comment starting "Mutant:" are plausible
bugs of `X`. No specification uses them; each is put in place of `X` to see that
a property notices. `PROJECT.json` lists one for every property of a run.

Ghost variables (marked so) are read by no guard on the code's behaviour. Most
modules have one called `breach`: the code takes no lock around most of its
read-modify-write sequences, so a plain "nothing is lost" would be false. What is
checked instead is that the ways to lose something are known: `breach` records
the kinds of steps that destroyed something, and the property says that nothing
is lost otherwise. Section 3 lists these weak points.

### DreamLock

`file[f]` is what a reader of a lock file finds: nothing, a torn file (created or
truncated, not yet written), or a payload with the pid of a process, of a dead
one (`Dead`), or without pid (`NoPid`), fresh or older than `stale_minutes`. Each
action is one system call: `Probe` (`exists`), `Judge` (`is_stale`), `Open` and
`Write` (the two halves of `write_text`), `Undo` and `Release` (`unlink`),
`HeartbeatRead/Open/Write`, `DoctorLook`, `DoctorClear`. `writers[f]` holds the
processes whose handle is on the present inode, so a write after an unlink leaves
no trace. `Die` may come anywhere and its element of `Proc` then stands for the next
process; `Expire` makes a lock old.

Processes do overlap in this code, so what is checked is stronger than it looks: the
ghost `breach` records the first time somebody took over a lock that was not free, by
one of three causes - a live owner silent for half an hour, a reader inside a
truncate-then-write, a takeover decided on a lock that has changed hands since.
`ExclusiveUnlessBreached` says those are all: the unconditional unlinks, the
composite's undo and heartbeats that rewrite what they read never break
exclusion on their own. `basis` and `breach` are read by no guard.

Left out: `hostname` is written but not read by `is_stale`, so one machine is
modelled; reuse of pids; payloads of different lengths; the gates of
`should_dream` (a dream may be attempted any time).

### DreamRun

A tree (commit or working tree) is a set of facts and, per session, a number of
events. A fact is the event or gap it came from. State on disk: the working tree
`wt` with flags for uncommitted facts and processing log, the branch checked out,
branch tips, the merge base with `origin/main` and the last fetched session logs, the
gaps, the gathered sessions, whether the processing log shows an active run, and
whether a push is queued. On GitHub: `main`, and one possible PR per branch. In
memory: the dream's facts, sessions to mark, and proposal.

`pc` walks through `DreamPipeline.run`, a git command or a file at a time:

    idle -> [publish -> push ->] gather -> save -> clear
         local:    -> mark -> complete -> land -> idle
         governed: -> branch -> strip -> commit -> back -> propose
                   -> mark -> complete -> land -> pushEnd -> idle

with exits to `idle` (a failed event and a return, `EndFailed`), to `sync` (the
exception handler, `Raise`, `backFailed`) and `Crash` from everywhere. `Overlap` says
whether hooks, captures and sync may come between these steps; in the runs
without overlap they come between dreams, as with one agent at a time. Merges and
closings of PRs come at any time in all runs. git is modelled by what it does: the
three-way merge, the refusals of pull and checkout over local changes, commits of
given paths or of everything on whatever branch is checked out.

Left out: consolidation, decay and pruning (facts only grow in memory); lint and
its PR; archives; other clones; the index, and a rebase left in progress by a
conflict (a failed pull changes nothing here; `PushQueue` and `Fleet` have it); `orient` and
`gather` are one step, `umx sync` is one step, `dream-state.json` is written atomically
(`DreamGate` takes it apart). `gaps.jsonl` and `dream-state.json` are git-ignored, so
branches do not carry them. Every dream has something to propose, because `MEMORY.md`
changes with each.

### SessionStore

On disk, for the sessions of one month: `log[s]`, the turns in a log (`Absent` for no
file, `{}` for a truncated one), the archive (`gz[s]`, and `torn` when gzip would raise
on it), the names in `index`, and `held[s]`, the quarantined payload. A process has one
call at a time; `pc` is its next file operation and `job` what it has in memory.

    write_session / append / capture: (reads the log) -> openLog -> writeLog
                             refused:                 -> openHeld -> writeHeld
    release: (checks) -> openRelease -> writeRelease -> commit -> drop, or taken back
    archive: (reads the logs) -> readGz -> openGz -> writeGz
                              -> openIndex -> writeIndex -> unlinkLogs (one by one)
    purge:   unlinks a log, or (reads the archive) -> openGz -> writeGz
                              -> openIndex -> writeIndex

The step in parentheses is the action that begins the call. Opening truncates, the
text appears on close, and a writer whose file is unlinked between (`orphan`) writes
to nothing. `Crash` may come anywhere.

A ghost records, per process, which logs changed since it read them
(`staleLogs`) and whether the archive did (`staleGz`); `breach` collects the kinds
of steps that destroyed something: a stale file `overwritten` or `unlinked`, an
archived session replaced by a `resumed` log, a writer that `crashed` inside a file.
`EventsKept`: as long as `breach` is empty, every turn whose recording succeeded
(`kept`) is in the log, in the archive, or in the hands of a process that is writing it.
The order of the archiver's three writes, the purge's early return and the taking back
of a release all have to be right for that. Of calls one after the other and without
a crash, only the archiving of a resumed session leaves `breach` not empty.

Left out: which logs are old enough (any may be); the month in the name; the
quarantine's metadata and decision log; commits, except the release's, whose
failure undoes a write; files written in several blocks; a transcript shorter than
what was recorded of it (a capture has all kept turns).

### Governance, ProposalReview

`Governance`: `labels[n]`, the commits of a pull request's branch, the commits of main. A
review (`review[w][n].pc`) takes the steps of `review_pr` in order: start, decide, stamp
(commit and push, with the head it saw), reread labels, edit them, the approval gate,
merge, close, or escalate. `w` is the workflow or one of the machines (`Desk`) on which
`umx dream --tier l2` is run by hand. `queued[n]` is the head in the event that waits: GitHub keeps
one waiting and one running review of a pull request, the newer event replaces the waiting
one and cancels the running one (`actions.py:192`). Reviews run by hand are outside of that
group and go on beside the workflow's and each other. The guard (`guard.pc`) looks at one push to main at a time
and reverts it. Between any two calls humans label, push, merge and close, and any call may
fail; `MaxActs` bounds both. `loud` says whether what a workflow does starts workflows, as
with a personal token, or not, as with `GITHUB_TOKEN`. Branch protection is left out.

`ProposalReview` has one proposal: one of six builders (`Dream`, `Lint`, `Rederive`,
`Promote`, `Forget`, `RollBack`) changes a tree of facts and labels it; `Look` derives what
`review_pr` derives from branch and `origin/main`; `Answer`, `NoAnswer` and `FallBack` go
through the plan of providers. `ReadSession` is the same plan for extraction. A model's
answer is any answer. A fact's content is one of a few records (`Contents`) that the
rules tell apart.

### FactStore, FactActions, CrossProject

`FactStore`: the lines of each markdown file and the texts in the cache beside it. Reading
compares the two and writes both back when a human has edited a line; every change is a
read followed by `WriteMd` and `WriteCache`. A call is a queue of such operations (`job.ops`).
A dream loads everything, merges, and saves file by file. `stale` (ghost) says which files
changed since a process read what it is about to write. `breach` (ghost) says by which kind of
step something was destroyed that its process had not read (`overwritten`, `crashed`, ...), or that
a contradiction was resolved by two calls at once or half resolved (`contested`), which
only the end of histories does not withstand (`Lossless`).

`FactActions`: both repositories as working tree and commits. `RunStep` takes the next of
the writes and commits of a direct action, `StepFails` makes it fail, `Rollback` reverts what was
committed and restores the snapshot. Governed: `Materialize`, `CommitBranch`, `CleanUp`, `BackToMain`,
`OpenProposal`. Each command of the rollback and of the clean-up may fail, and each file it restores
may stay as it is. `OtherCommits` is any other program's commit. Of the index only
this is modelled: a clean-up or rollback that leaves something staged is a breach.

`CrossProject`: one statement, the clone of the user repository, GitHub's, and the saved
preview; one action per git command of materialize, push and open, the clean-up's included, which
may fail. Humans merge, close, pull, push and delete branches between any two. What other
programs write into the working tree while the proposal's branch is checked out in it
(`cross_project.py:616`) is left out: it is committed there, or carried back to main.

### Projection, Backup, Schema

`Projection`: the store, a file per fact, and the manifest; an import reads all files first
(`plan`), changes the store fact by fact, and exports; an export checks hashes, then writes
file by file. `Backup`: files copied one by one, manifest last; an import copies what it
lists. `Schema`: the four places that name a version, doctor's repair (`Open`, `Number`, `Header`,
`Rebuild`), a dream's preflight, and migrate, which reads everything, then writes, and puts
back what it had on failure. Programs of two versions are in use.

### SearchIndex, SemanticCache, InjectionBudget, InjectionLog

`SearchIndex`: `row[f]` and the FTS table `words`, which the code updates separately; one
SQLite writer, whose transaction is `draft`; a rebuild plans from hashes, reads files one by
one, and stores the hashes computed at the end. `SemanticCache`: one JSON file with a key
naming the model; load, embed, write, rank. `InjectionBudget`: the stages of one injection in
order, each taking the next fact by packing score; sections are sets of costs. Token
counts are inputs, of a fact's text and of its pointer, whose topic, id and source may be longer than the
text. `InjectionLog`: rows of the usage database, hooks that read outside of a
transaction and write in one per call; text is left out.

### Capture, DreamGate, Fleet, Telemetry, PushQueue, RemoteSetup

`Capture`: a transcript is a number of records and whether the tool is writing; six parsers
(`ReadClaude`, ..., `ReadOpenCode`) say what an unfinished one reads as and how its session is
named. `DreamGate`: read, change, truncate, write. `Fleet`: the log of each clone as a set of
events; start, commit, fetch, push; hooks pull in between. `Telemetry`: the queue file is
rewritten after an answer; answers get lost. `PushQueue`: three programs (sync, session_start,
pre_compact) with their different order of commit, pull, scan, drain and push; the queue names main or nothing.
The ghost `waived` has the commits that nobody had to scan: what session_start pushed, and what was
committed after another program's scan and before its push.
`RemoteSetup`: each gh call may fail before or after it did its work, and is retried where
the code retries.

## 3. What is checked

| run | instance | result |
|---|---|---|
| `dream_lock` | 3 processes; p1 and p2 share a home, p1 and p3 a repository; 2 deaths | type, exclusion unless breached, no leaked lock, no live lock touched, refinement of `DreamExclusion` |
| `dream_lock_live` | 2 processes, same locks, 1 death, no doctor, fairness | a dead owner's lock does not stay; dreams keep running |
| `dream_hybrid` | hybrid, 1 session of 2 events, 2 branches, 1 crash, no overlap | type; every return ends the run; dreams change facts by proposing only; merged facts and published events stay |
| `dream_remote` | remote, 1 event, 1 gap, 1 branch, 1 crash, overlap | what was marked as gathered, and gaps a dream has read, are on disk or on GitHub, whatever comes between |
| `dream_local_live` | local, 2 events, 1 gap, 1 crash, overlap, fairness | every event of a session that did not come too late becomes a committed fact |
| `session_store` | 2 processes, 2 sessions, one of 2 turns and the other of 1, overlap, 1 crash | type; recorded turns are kept unless breached; readers find what is archived through the index |
| `governance` | 1 pull request, 3 acts of humans and failures, fairness | type; merged as judged; approval is human; labels agree; main is what approved pull requests made it; the last event is reviewed |
| `memory` | one of the six modules on facts, see below | type; facts kept; actions, promotions, imports whole; changes clean |
| `context` | one of twelve modules, see below | type; search right; injections add up; captures whole; dreams when due; reports once; pushes safe; set-up shared; refused turns stay out and released ones are kept; reviews fair |
| `dream_logs_lost` | hybrid, 2 events, no crash, no overlap | `SessionsKeepEvents` is violated |
| `dream_facts_pushed` | hybrid, 1 event, no crash, no overlap | `FactsReachMainByReview` is violated |
| `approved_waits` | 1 pull request, 1 act, fairness | `ApprovedMerges` is violated |

`memory` and `context` (`Memory` and `Context`, with their constants given in `MCMemory` and
`MCContext`) check several modules in one run. `which` is chosen at the start and
says whose turn it is; the module is instantiated with the shared places `v1`, `v2`, ... for
its variables, the places it does not use stay empty, and each property says `which = M => M!Property`.
The modules do not interact in these runs: a behaviour is a behaviour of one of them, and
the state space is the sum of theirs.

Bounds. Three processes are the fewest in which one meets different rivals at
its two locks, so that the refusal of the second lock, and the undo, happen while
a third process runs; two deaths allow a death inside a takeover from the dead.
`DreamLock.cfg` explores no further than the first breach (`Clean`): its
properties say nothing beyond it, and the breaching step itself is checked. In
`DreamRun` two events are the fewest with one published and one not; two branches
the fewest with a second proposal after a merged one, while a name already taken
happens too; one crash leaves every intermediate state of the disk for the next
run to find. `MaxEvents` and `MaxCrashes` bound the guards of `Capture` and
`Crash`, `MaxDeaths` that of `Die`; the proofs hold for all their values.
In `SessionStore` two processes are the fewest that overlap; two sessions the fewest
with one in the archive that another's archiving, or purge, must leave there; two
turns of a session the fewest of which one can be lost. `SessionStore.cfg` gives the
second turn to one session at a time (`OneIsLong`): no property relates the turns of
one session to those of another, which only has to be in the same archive and index.
It stops at the first breach too, and leaves out the calls of the quarantine, which cannot begin
when nothing is refused; the instance of `SessionStore` in `context` has them.

`Governance`: pull requests share nothing but main; three acts are enough for a push, a label
and a failure around one review, for a cancelled review followed by a push, or for an approval, a
review by hand beside the workflow's and one act more. While a review is run by hand, only reviews
have put commits on main (`DesksApart`). The run stops at the
first breach (`Clean`); the liveness property says nothing of behaviours that reach one, so
cutting them off loses nothing.

In `memory` and `context` `MaxActs` bounds what comes from outside: commands begun, acts
of humans, faults.

| module | instance |
|---|---|
| `FactStore` | 2 processes, 2 texts that contradict each other, 2 files, 2 ids, 3 acts; it stops at the first breach other than `contested` |
| `FactActions` | 2 facts, both modes, 3 acts, past deaths but not past other breaches |
| `CrossProject` | 3 projects, 2 topics, 2 facts made for the statement (a second promotion after a first), 7 acts |
| `Projection` | 2 programs, 3 facts, 1 edit, 3 acts |
| `Backup` | 2 files, 3 versions, 5 acts |
| `Schema` | 2 files, 1 change of each, 4 acts, two versions of the program |
| `SearchIndex` | 2 files, 2 facts, 2 edits, 2 rebuilds by 2 processes and a server |
| `SemanticCache` | 2 processes, 2 models, 2 facts, 3 acts |
| `InjectionBudget` | 3 facts of 1 or 2 tokens, pointers of 1 or 4, 8 tokens in all, at most 3 facts, sections of 0 or 1 tokens |
| `InjectionLog` | 2 hooks, a parent session and a subagent's, a fact of each repository, 2 turns, 4 acts; after three of them no two hooks overlap (`Calm`) |
| `Capture` | 2 transcripts of 2 records, the second record of one refused, 2 programs, 2 captures |
| `DreamGate` | 2 programs, 3 sessions, a dream due after 2, 2 remembered, 5 acts |
| `Fleet` | 2 clones, 3 runs, 1 fault |
| `Telemetry` | 2 commands, batches of 1, a queue of 2, 3 events, 3 acts |
| `PushQueue` | 2 programs, 2 commits of which the second is unsafe, as is the other clone's; 2 attempts a push, 4 acts |
| `RemoteSetup` | 2 machines, 2 attempts a call, 4 acts |
| `SessionStore` | 1 session, a binary and an unscannable turn, 2 processes, no crash |
| `ProposalReview` | 2 facts of 7 contents, one provider in rotation |

Two processes are the fewest that overlap, two facts the fewest of which one can be
lost or taken for the other, two files the fewest between which a fact moves or a
program dies. Each bound was raised until every action is taken and every breach
that a module names is reached; the mutants show that what is excluded by a property
would be found within them.

Fairness. `DreamLock!Fairness`: a live process executes its next system call (weak),
dreams are attempted again and again as hooks fire (weak), time passes (weak), and
a run does not send heartbeats for ever: `run()` sends three (strong, since
`Finish` is not enabled during a heartbeat). Doctor is not assumed to run.
`DreamRun!Fairness`: each step of a local dream is strongly fair, because an
exception or a failing commit may take its place now and then but not for ever;
`Expire` is weakly fair because it only takes time. None is assumed of captures,
hooks, reviewers or GitHub. `Governance!Fairness`: weak for the steps of the guard and of the
workflow's reviews, because GitHub runs the jobs it has queued; none of humans, of reviews run by
hand, of failures or cancellations.

### Where the code disagrees with its documents

Each is a run that finds the property violated:

* A hybrid or remote dream that proposes a branch checks out `origin/main`'s version
  of every session log that differs from it (`pipeline.py:598-609`), in the working
  tree that agents append to. Events appended and not committed since the last push
  are gone. `spec:2223`: "Sessions are append-only and never deleted."
* After a dream failed past `prune()`, its facts lie uncommitted on main.
  `session_end` commits with `git add -A` and `session_start` pushes main
  without looking (`session_end.py:50`, `session_start.py:44-46`).
  `spec:1518,2075`: all fact changes go through PRs.
* A review that is cancelled after it pushed its stamp leaves a waiting event with the head
  before the stamp. The review of that event cannot push its own stamp and ends
  (`pipeline.py:1336`); no other event comes, and the approved pull request waits until
  somebody acts. `PRODUCTION_PLAN.md:336` has approval lead to a merge.

### Weak points

What the models contain as steps, and the properties exclude by name (`breach`, or the
conditions they state):

* Locks: `exists` and `write_text` (`gates.py:83-85`) are apart, so two processes can both find
  the lock absent and both dream; `spec:1415,1453` require exclusion.
* Sessions: archiving puts the present log in the place of an archived payload of the same
  session (`sessions.py:816`), so archiving a resumed session drops the turns archived before;
  a purge that finds a log unlinks it and returns (`sessions.py:874-876`), archived copy or
  not; the month's archive is rewritten in place (`sessions.py:708`); a second refused payload
  of a session overwrites the first in the quarantine (`sessions.py:279`).
* Dreams: a session is marked as gathered as a whole, and a marked session is skipped for ever
  (`pipeline.py:278-280`, `extract.py:326`): events that an agent appends after the dream that marks it has
  read it, during that dream or after it, never become facts (`TooLate`). A gap recorded between `gather()` and the end of `prune()` is erased unread
  (`extract.py:732-735`). With hooks between a dream's steps, `DreamOnlyProposes` fails because
  the look for facts on main and the push are two steps, `ReviewedFactsStay` because a dream
  writes back all facts it loaded, and `PublishedEventsStay` because a sync can publish the
  removal of a log: these three are checked without overlap.
* `DreamGate`: a torn `dream-state.json` blocks every later dream, even a forced one; with more
  sessions than the cap of 500 the oldest are read again in each dream; a session begun during a dream is
  not counted.
* `Fleet`: logs appended to in two clones make `session_start`'s pull stop in a rebase
  conflict that nobody aborts; a pull between a dream's look and its push lets two dream.
* `PushQueue`: a push queued between another process's success and its removal is forgotten
  (`push_queue.py:81`); `session_start` pushes without a scan (`hooks/session_start.py:44-46`), so an unsafe
  commit that sync refused goes out with the next session; what a hook commits between another
  program's scan and its push is pushed unscanned; what another clone pushed is taken as it is. These three
  are named in `ScannedBeforePushed`, which is about all other ways to GitHub. A failed push of
  `pre_compact` is not queued; the scan reads the working tree when the head to push is HEAD.
* `RemoteSetup`: setup-remote replaces a repository without commits of its own by a clone, and
  captured sessions that were not committed go with it (`git_ops.py:338,542`); a machine whose repository
  has commits of its own cannot join an existing remote; a failed clone leaves no repository.
* `Governance`: a review looks at the labels and merges in a later call (`pipeline.py:1371-1429`), with
  nothing that ties the two together: an approval withdrawn in between, by a human or by the
  escalation of a review run beside it (`pipeline.py:1444-1457`), comes too late, and what was turned down is
  merged (`late`; without that name `ApprovalIsHuman` fails). Labels are set from what was read (`raced`).
  The guard asks for the labels as they are when it looks, so what was merged with an approval withdrawn
  since is reverted (`disowned`). A merge by override is reverted by the guard; an `approved` label survives later
  pushes; the guard's record of a revert never reaches main (`docs/governance-tutorial.md:58`
  describes it); a push whose waiting guard is replaced is not looked at.
* `ProposalReview`: the average confidence hides one doubtful fact; rollback proposals carry no
  type label; a model's "approve" overrides every rule (`spec:1604` binds the fallback
  only); the fingerprint of rederivation keeps a fact's strength and verification,
  so facts that were reviewed look missing (`audit.py:67`).
* `FactStore`: replacing a fact by a stale copy clears `superseded_by`; a raw append absorbs a
  human's edit; a memo may be taken of what somebody else wrote meanwhile (`Mark`); a forgotten
  fact that a concurrent call moves survives until the next dream. A merge writes the winner, which
  supersedes the loser, and then the loser (`merge.py:75`): half of a merge followed by another one, two at
  once, or one beside a dream, can leave two facts that each name the other in `supersedes`, and
  `walk_history`, which remembers no fact it has seen (`supersession.py:7-17`), never ends (`contested`).
* `FactActions`: `git revert HEAD` may revert another program's commit; a rollback reports a revert, a reset or
  a file that fails, and ends with what it could not undo (`undone`, `fact_actions.py:184-191`); a governed proposal that
  fails leaves its branch, which blocks a retry, and its clean-up ignores what `git reset` and `git restore`
  answer (`fact_actions.py:333-344,619-631`), so that a file that could not be restored is carried to main
  uncommitted (`left`); a death inside a move leaves a removal
  uncommitted, and a later `git add -A` commits it.
* `CrossProject`: a `--push` that fails after materializing is refused when run again, though
  the error of open-pr says to run it again; a clean-up whose commands fail, or whose unlink raises before
  the checkout of main, leaves the fact uncommitted in the working tree, or the proposal's branch checked out
  (`stuck`, `cross_project.py:646-651`).
* `Projection`: a fact both edited and superseded makes export and import refuse; an edit
  of a forgotten fact brings it back; a death between replacing and adding leaves a fact
  superseded by nothing; a file edited during an import makes the export at its end refuse,
  and the next import doubles new facts.
* `Backup`: a snapshot is not of one moment; what a hook writes between an import's check
  and its copying is overwritten; a forced import that died can only be finished by force.
* `Schema`: a fact above the `## Facts` heading is dropped by migrate (`memory.py:240-256`); a failing
  write may leave its own file cut; migrate overwrites what others wrote since it
  read; doctor writes the version number before MEMORY.md and the index, so that after a death there they wait for
  the next dream; an empty version file can be filled in by a program of an older version.
* `SearchIndex`: words of a moved fact stay in the FTS table; the row of a fact that is in two
  files goes when one of the two is cleaned; an edit between the reading and the second hashing of
  a file is not indexed until the file changes again (`search.py:463,1655`).
* `SemanticCache`: a failing `rebuild-index --embeddings` on a cache without a key erases it;
  overlapping writes lose vectors, which are then made again.
* `InjectionBudget`: the block may exceed its budget, because layers and artifacts are not
  taken from the facts' share (`inject.py:1151`); `spec:1996`: "Injection halts before exceeding
  the budget." Facts that do not fit are dropped by score until the rest fits, so that an earlier
  one may be gone whose cheaper pointer would still have fitted (`inject.py:577-585`).
* `InjectionLog`: two hooks that count at once lose a turn; an insertion race makes a hook
  fail; a death separates a count from its event, or a commit from its audit line.
* `Capture`: session names hold the first 8 or 12 characters of an id, so two may collide;
  unreadable gemini transcripts share a name; a repeated message is kept once; a refused transcript ends a
  capture of everything; codex and copilot take the latest of any project and do not commit.
* `Telemetry`: overlapping commands lose or send again what is in the queue; a torn
  `state.json` forgets the server's switch and the installation id.

## 4. What is proved

For all values of the constants, by TLAPS:

`DreamLock_proofs`. `TypeCorrect`; `LockInvariant`: `Spec => []LockInv`; from it
`ExclusionHolds`, `NoLockLeaks`, `LiveLocksKept`, and `LocksTakeTurns`, the refinement
of `DreamExclusion`. Exclusion is not inductive: it follows from locks naming their
owners (`OwnedLocksNameOwner`: two owners of one file would be one process), which a
truncating writer suspends, so the invariant adds that a lock has one writer
(`WritersAreAlone`), that its handle is on the present inode and the file reads as torn
(`WritersHoldLock`, `HandlesAreInUse`), that a heartbeat writes its own pid back
(`HeartbeatsKeepPid`), and that a process about to take a lock decided so when it was
free (`DecisionsAreSound`). All parts hold until a breach. Assumptions: lock paths are
lock files; a user lock and a repository lock are different files, as they lie in
different directories; markers are no processes.

`DreamRun_proofs`. `TypeCorrect`; `RunsAreEnded` (`ReturnsEndTheRun` in all modes, with
overlap), from `EndedInv`: a dream about to land or to publish its end has logged
it. The four properties of facts rest on three arguments:

* Kept, with any overlap: `NothingIsLost` (`KeptInv`), and from it `GatheredStaysDurable`
  (`GatheredIsDurable`) and `GapsSurvive` (`GatheredGapsSurvive`). A fact that was learned is
  in the working tree, in a branch not yet merged, or on GitHub, and git moves it
  from one of these to the next before it leaves the former; so the invariant says of each step of
  the dream in whose hands the fact is (memory until `save`, the tree until the commit, the branch
  until the proposal is settled), and of sessions that they are marked only after the facts are saved.
* Governed: `FactsAreProposed`, `~Overlap => (Spec => DreamOnlyProposes)`, from `GovernedInv`:
  proposals are committed off main, the merge base has GitHub's facts unless somebody merged,
  hooks wait for the dream, and main has no facts of its own at a push.
* Quiet: `QuietHolds` (`QuietInv`), and from it `ReviewsAreKept` (`ReviewedFactsStay`) and
  `PublishedEventsKept` (`PublishedEventsStay`), all under `~Overlap`: while a dream works nobody else
  changes the clone, so what it writes back has what it loaded, and what it removes from a tree
  it puts back before a sync can publish the removal.

The hypothesis `~Overlap` is that hooks and captures come between dreams, as with one
agent at a time. The three properties that have it are false without: see the weak points.

`SessionStore_proofs`. `TypeCorrect`; `RefusalsHold` (`RefusalHolds`), from `RefusalInv`: what
is on disk is fit to be there, and so is every text in the memory of a call that
writes logs or archives.

`InvariantHolds` (`Spec => []StoreInv`) and from it `TurnsAreKept`
(`EventsKept`). That turns are stored is not inductive: a step that truncates a file
keeps it only if the turns are in that process's memory. The invariant says what an
unstale process knows: a log or archive being written has one writer and everybody
else who relies on it is marked stale (`LogWriterIsAlone`, `GzWriterIsAlone`); whoever is
not has in memory what counts of the file (`LogReadersAreSound`, `GzReadersAreSound`);
logs about to be unlinked are in the archive, or in the memory of who writes it
(`ArchivedBeforeUnlinked`); and only writers of quarantine or index lose their file
(`NoOrphans`). The steps are grouped by what they touch: one call (`OneCallMoves`), one log
(`OneLogChanges`), or the archive (`ArchiveChanges`). Then `IndexHolds` (`IndexInv`) and
`ArchivedIsFound` (`ArchivedIsIndexed`): the archive and its index are two files with a moment
between, in which only the rewriter knows the names to write. So the invariant adds that a cut
file has a writer (`CutFilesHaveWriters`), that of several rewriters at most one is not marked stale
(`OneRewriterKnows`), that this one will write an index with all of the archive
(`RewritersAreSound`), and that the index names nothing that is not archived
(`OnlyArchivedIsNamed`). All hold as long as `breach` is empty. Assumptions: markers are no files.

`Governance_proofs`. `TypeCorrect`, from `TypeInv`: `TypeOK`, the form of the guard and of the push
that waits for it (two positions on main, in order), and that a pull request that is not opened has no commits.

`MergesAsReviewed`, `ApprovalsAreHuman`, `SettledLabelsAgree`,
from `ReviewInv`, which says of each pull request: the head a review goes on with is the one
it judged, or the next, and then that is its stamp (`Judged`); an approval on it,
or one the review goes by, is a human's, unless a withdrawal came too late (`Consented`); and
what a review goes to set its labels from is what the labels are, unless an event waits or a race
is recorded (`Knows`). Each of these is said of every review of the pull request (`RunInv`), next to what
holds of its labels (`LabelInv`): any number of reviews may run at once, and what a step of one does to the
others is a lemma of its own (`Aside`, `AsideKeeps`), as is that it keeps the parts of other pull requests
(`FrameKeeps`, `OneStep`). `LabelsAgree` and `ApprovalIsHuman` hold while `breach`
is empty; `MergedAsReviewed` always. Assumptions: `MaxActs` is a number, and no machine is called
the workflow.

`GuardInvHolds` (`GuardInv`) and from it `MainStaysGoverned`
(`MainIsGoverned`): every commit of main that no approved pull request made, and that a guard
was given, is undone or waits to be looked at. Pushes are looked at in order, each once and
none skipped unless its waiting job was replaced (`InOrder`, `EachIsLookedAt`, `Ahead`); the
approval that a guard will ask for lasts until it asks (`ApprovalsLast`, `ReviewsKeepApproval`);
and only guards undo, an undoing commit comes later than what it undoes, and none undoes a guard's
commit (`GuardsUndo`). With that, being in effect, which follows chains of reverts and would ask
for induction, is simply not being undone (`Undone`): the proof shows that the
function so defined satisfies the equation of `InEffect`.

`ContextParts_proofs` and `Context_proofs`. Each component that `context` checks is proved about
on its own, in `ContextParts_proofs`: an instance with variables of its own (`Queue`, `Clones`,
`Gate`, ...), so that one module can hold all of them. `Context_proofs` shows that what is proved
of a component holds of `Context`: the part whose turn it is never changes, its steps are the
component's (`...Holds`), and the instance with the proofs has the same definitions
(`...IsProved`). The theorems of `Context_proofs` are the invariants of the run, for every
value of the constants.

* `PushesStaySafe` (`PushesAreSafe`). `OwedInv` adds to `QueuedUntilPushed` that what queued
  pushes were to send is on main, and that GitHub has it when a process is about to remove
  the entry, unless something was queued behind its back; `ScanInv` adds to
  `ScannedBeforePushed` that main, while sync or pre_compact is past its scan, holds nothing unsafe but
  what is waived or another clone's. Nothing is assumed of what others push.
* `DreamsTakeTurns` (`OneDreamAtATime` of `Fleet`). A run is one clone's (`RunsAreOwn`), what others
  or GitHub know of a run is on main of that clone (`OwnFirst`), and a start goes into the log, onto
  main and to GitHub in this order (`StartsArePublished`). What makes two dreams exclusive is
  `LooksAreSound`: a clone between its look and its push, with no pull between, knows of no run that is at
  work and younger than half an hour; so the later of two pushes is refused.
* `DreamsComeWhenDue` (`DreamsWhenDue`). Until a breach one program is inside a read-modify-write
  of the file at a time, and what it will write counts the sessions that ended and remembers
  those that were read (`Single`).
* `ReportsArrive` (`ReportsArriveOnce`). With one command at a time what it has in memory is the
  queue, or a beginning of it (`InMemory`); every event made is queued, about to be, dropped or
  received (`Arrives`); after the switch no command is past its first look (`IsOff`); what waits has not been
  sent, except while the answer is on its way (`Once`).
* `SetUpStaysShared` (`SetUpIsShared`). Commits that are only written are in nobody's history (`Apart`);
  a history begins with a commit that holds neither facts nor workflows (`Rooted`); who replaces a repository
  never set it up, and who pushes has more than the first commit (`Underway`); all who are done share
  GitHub's first commit (`OneHistory`).
* `ReviewsStayFair` (`ReviewsAreFair`). Builder by builder: whomever the builder wants people to look at,
  the review notices from branch and main alone (`Noticed`); the ghost says harmless whenever the packet's
  rules would approve; providers that failed and those still in the plan are the plan (`UnderReview`), whose
  head is the named reviewer if there is one.
* `CapturesStayWhole` (`CapturesAreWhole`). Parsed and saved are no more records than there are
  (`WithinRecords`); without a breach what waits to be written is no older than what is saved
  (`NothingShrinks`); a transcript that had its date is always named alike (`NamedAlike`).
* `SearchStaysRight` (`SearchIsRight`). `Synced`: rows and words tell the same, rows have different
  numbers; a rebuild's table says of each file it is done with what the file holds (`Rebuilding`),
  and the remembered answer is of files that have not changed since (`Remembering`). For the
  insertion of a file's facts this needs that a finite set is enumerated without repetition and has a
  greatest number, which `PlacesAreNumbers` and `HasGreatest` show by a least counterexample. Of
  the vectors: all that a command holds or writes are of its model and of the right facts
  (`Command`), and the file's key names the model of its vectors (`Sound`).
* `RefusalsHold` (`RefusalHolds`, with `EventsKept`) is the theorem of `SessionStore_proofs`.

Assumptions, each named in `Context`: bounds are numbers (`BoundsAreNumbers`); no file has the contents of
the marker for no file (`MarkersAreNoFiles`); transcripts are numbered from 1
(`TranscriptsAreNumbered`), which is the order of a capture of everything; facts are finitely
many, and the markers of none are no process, fact or model (`FactsAreNamed`); the rotation is a list of
providers (`ProvidersAreKnown`).

`MemoryParts_proofs` and `Memory_proofs` do the same for `Memory`; the first extends `FactStore`, whose
proofs are most of it, and declares the other parts each where its proofs begin.

* `FactsStay` (the parts `FactsKept`, `OneLinePerFact` and `ForgottenStays` of `FactsAreKept`; the part's
  theorem is `StoreKeepsFacts`) and the half of `ChangesStayClean` (`ChangesAreClean`) about the store
  (`StoreKeepsTexts`), from `Inv` (`StoreInvariant`). Any number of processes hold copies of lines, so the
  invariant (`Good`, until a step destroys something) says where the lines of one fact can be. Of one
  process it says what its call is about to do and holds (`Local`), and what it knows of a file that
  has not changed since it read it (`Current`). Of all: whoever names the text of an id - files, caches, hands,
  tombstones, promises - names the same (`Agree`), and ids from `next` on are unheard of (`Used`); a fact is
  in one line (`OneLine`), and while it is in none, at most one process owns it, that is, will put it
  into a file and can (`OneOwner`, `OwnsNew`); a promised pair is in a file or carried (`Promised`); and a
  forgotten fact that is somewhere is about to be dropped (`Gone`, `Unsaved`). A step that could end one
  of these is shown to record a breach. Reading needs that the numbers of new facts can be given out one
  to one (`Normalized`), which is a choice of a function; each of the other steps has its lemma.
* `PromotionsStayWhole` (`PromotionsAreWhole`). Between the command's checkout of its branch and its return to
  main the working tree is main's, or main's with the new fact, as the step it is at says
  (`ProposeInv`); GitHub's main and its branch say the statement at most once between them unless
  somebody merged while the command was at work (`OnceInv`).
* `ImportsStayWhole` (`ImportsAreWhole`), of three components. Files and store (`EditsBecomeFacts`): what is
  about to be overwritten was read by who overwrites it, and is in its plan or in the store (`CleanInv`,
  `ToldInv`); that an edit becomes one fact needs that programs that are past their look write
  nothing but what the store still says (`RendersRight`), that an edit is in one file once the files
  of an import are done (`OwnFiles`, `OneFileEach`), and that what an import plans is in no fact (`PlansApart`).
  Backups (`ImportsRestoreAll`): the copy holds what the repository had at some moment of the export
  (`CopyInv`), and while an import clears or restores, each file outside its list of work is
  as it should be, unless somebody wrote it meanwhile (`ImportInv`). Versions (`VersionsSettle`): what a migration
  is still to write it has read as it is (`MigratesInv`), and a dream that no repair
  disturbs works on the version its preflight saw (`DreamsInv`).

* `ActionsStayWhole` (`ActionsAreWhole`; the part's theorem is `ActionsAreAllOrNothing`, which also has
  `LeavesNoTrace`). Nothing is claimed after a breach other than a death (`Calm`). Direct actions (`DirectInv`):
  what an action has still to do is the rest of one or two writes and the commits of one or two
  repositories, and carrying it out would leave each fact in one place or with a tombstone (`Stages`);
  what it has committed is one commit on top of what was there, and differs from that in its own
  files only, which the snapshot holds (`UnderWay`), so a rollback restores both histories and
  working trees; and each known fact is in the working tree or the last commit, or in the snapshot or the
  commit before, through all of this (`Somewhere`), which is what a death leaves. Governed actions
  (`GovernedInv`): main and the working tree agree but for the proposal's branch, and what is on the branch
  is a proposal (`Proposal`): merged, it would leave each fact whole, and its body lists exactly
  the lines that would go.

An attempt to prove `OneFactPerEdit` showed that it was false beyond the bounds of the run: an
export that has read the store writes the file of a fact that is forgotten before it writes; if
the file is imported that makes a new fact, and two such exports make two of the same edit.
`WriteFile` now records this race as the breach `late`. Likewise `HistoryEnds`, which the run checked
without a condition, is false beyond its bounds: see `contested` under the weak points. It is now
claimed while `breach` is empty, and the other three also after `contested`.

Assumptions, named in `Memory`: bounds are numbers, and there is at least one id
(`BoundsAreNumbers`, `StoreIsBounded`); a fact can say something, and the marker of no text is no text
(`SilenceIsNoStatement`); no file is called like the markers of a missing manifest (`FilesAreNamed`).

`LockInv`, `StoreInv`, `RefusalInv` and the other invariants that carry these proofs are proved
and not among the runs' properties.

Model-checked only: of `memory`, the types of all parts and `HistoryEnds` of `FactsAreKept`; of `context`, the types of all parts and
`InjectionsAddUp`, whose token counts are sums over sets; and the liveness properties
(`EventsAreReviewed` of `Governance`, those of `dream_lock_live` and `dream_local_live`), which the
prover does not reach (fairness, `ENABLED`).

## 5. Plan

Done, most important first: the locks and their proofs; a dream on one clone with
hooks, sync and review; the session store and its proofs; several clones; the fact store,
its actions and promotion; review and guard and their proofs; index, injection, captures,
backups, versions, telemetry, remote setup; the proofs of the parts of `context` and of
`memory`. Left, in this order:

1. `InjectionsAddUp`: the counters of `InjectionLog`, and of `InjectionBudget` that a sum over a
   set is what remains without an element plus that element.
2. `HistoryEnds`: that the graphs of `supersedes` and `superseded_by`, over the lines on disk and
   those in the hands of processes, have no circle.
3. Abstract specifications: a set of facts for `FactStore`, an atomic move for `FactActions`,
   and the refinements.
4. Composition: `Governance` with `DreamRun`'s proposals instead of any pushes; `FactStore` with
   `SearchIndex`, whose freshness test reads the same files.

## 6. Not modelled

* Numbers and text: consolidation, decay, pruning, entrenchment, ranking, lint and conventions,
  most of extraction's heuristics, routing, skills, codebase and artifact scans. They decide by scores,
  thresholds and wording, and change no state but the facts in memory.
* Content checks: redaction and secret patterns are a property of a turn or commit (`Unsafe`) in
  `SessionStore` and `PushQueue`; parsing of a record's text; configuration.
* Display and thin calls: viewer, TUI, MCP server, status, bridge and shim. The calls they make
  are in the modules above.
* Language models and offline evaluation: which provider is asked is in `ProposalReview`,
  what it answers is any answer.
* Purge's search for facts derived from a session; quarantine metadata; skill loads and retrieval
  reports in the usage database; the index of reasoning artifacts; branch protection rules,
  whose function `apply_governance_protection` nothing calls; the L1 workflow.
