---------------------------- MODULE SessionStore ----------------------------
(***************************************************************************)
(* The sessions of one month in a memory repository (src/umx/sessions.py): *)
(* a log per session, the month's compressed archive with its index, and   *)
(* the quarantine of refused payloads.  An operation is a call by one of   *)
(* the processes that share the clone - hooks, captures, dreams, umx       *)
(* commands, the viewer.  It reads whole files, works in memory, and       *)
(* rewrites whole files: open truncates, close makes the text appear, and  *)
(* an unlink in between leaves the writer with a file nobody reads.        *)
(*                                                                         *)
(* The ghost variables say what was promised (kept, passed) and by what    *)
(* kind of step it was first broken (breach, with staleLogs and staleGz).  *)
(* No guard on the code's behaviour reads them.                            *)
(***************************************************************************)
EXTENDS Naturals

CONSTANTS
  Session,    \* session ids of one month
  Event,      \* turns of a session
  Binary,     \* turns with a binary payload, refused by write_session only
  Unsafe,     \* turns on which the redaction scanner fails
  Proc,       \* processes on one clone
  Absent,     \* no such file, no such record
  Torn,       \* an index file truncated and not yet written
  Overlap,    \* may operations overlap
  MaxCrashes  \* bound: crashes in one behaviour

ASSUME EventKinds == Binary \subseteq Event /\ Unsafe \subseteq Event

ASSUME MarkersAreNoFiles ==
  /\ \A c \in SUBSET Event : Absent # c
  /\ \A names \in SUBSET Session : names \notin {Absent, Torn}
  /\ Absent # Torn
  /\ Absent \notin Session

ASSUME ModeIsBoolean == Overlap \in BOOLEAN
ASSUME CrashesAreBounded == MaxCrashes \in Nat

VARIABLES
  log,        \* log[s]: turns in sessions/YYYY/MM/<s>.jsonl, {} once truncated
  gz,         \* gz[s]: payload of s in the month's archive
  torn,       \* is the archive cut off, so that gzip raises on reading it
  index,      \* sessions the month's index names
  held,       \* held[s]: payload in local/quarantine/<s>.jsonl
  pc,         \* pc[p]: the next file operation of p
  job,        \* job[p]: what the call of p has in memory
  orphan,     \* processes whose open file has been unlinked
  crashes,    \* crashes so far
  staleLogs,  \* ghost: logs that changed since p read them
  staleGz,    \* ghost: processes that read an archive that has changed since
  kept,       \* ghost: turns whose recording succeeded, not purged since
  passed,     \* ghost: turns a human released
  breach      \* ghost: kinds of steps that destroyed something they had not read

disk == <<log, gz, torn, index, held>>
work == <<pc, job, orphan, staleLogs, staleGz>>
promises == <<kept, passed>>
vars == <<disk, work, promises, crashes, breach>>

Content == {Absent} \union SUBSET Event
Records == [Session -> Content]
NoRecords == [s \in Session |-> Absent]
Held(c) == IF c = Absent THEN {} ELSE c

Job == [s : Session \union {Absent}, text : Records,
        due : SUBSET Session, names : SUBSET Session]
NoJob == [s |-> Absent, text |-> NoRecords, due |-> {}, names |-> {}]

Step == {"idle", "openLog", "writeLog", "openHeld", "writeHeld",
         "readGz", "openGz", "writeGz", "openIndex", "writeIndex", "unlinkLogs",
         "openRelease", "writeRelease", "commit", "drop"}

Breaches == {"overwritten", "unlinked", "resumed", "crashed"}

TypeOK ==
  /\ log \in Records
  /\ gz \in Records
  /\ torn \in BOOLEAN
  /\ index \in {Absent, Torn} \union SUBSET Session
  /\ held \in Records
  /\ pc \in [Proc -> Step]
  /\ job \in [Proc -> Job]
  /\ \A p \in Proc : pc[p] \in {"openLog", "writeLog", "openHeld", "writeHeld",
                               "openRelease", "writeRelease", "commit", "drop"}
        => job[p].s \in Session /\ job[p].text[job[p].s] # Absent
  /\ orphan \subseteq Proc
  /\ crashes \in 0 .. MaxCrashes
  /\ staleLogs \in [Proc -> SUBSET Session]
  /\ staleGz \subseteq Proc
  /\ kept \in [Session -> SUBSET Event]
  /\ passed \subseteq Event
  /\ breach \subseteq Breaches

Init ==
  /\ log = NoRecords
  /\ gz = NoRecords
  /\ torn = FALSE
  /\ index = Absent
  /\ held = NoRecords
  /\ pc = [p \in Proc |-> "idle"]
  /\ job = [p \in Proc |-> NoJob]
  /\ orphan = {}
  /\ crashes = 0
  /\ staleLogs = [p \in Proc |-> {}]
  /\ staleGz = {}
  /\ kept = [s \in Session |-> {}]
  /\ passed = {}
  /\ breach = {}

-----------------------------------------------------------------------------
(* Processes with an open file, and what a change makes stale.              *)

LogWriters(s) == {p \in Proc \ orphan : pc[p] \in {"writeLog", "writeRelease"} /\ job[p].s = s}
HeldWriters(s) == {p \in Proc \ orphan : pc[p] = "writeHeld" /\ job[p].s = s}
GzWriters == {p \in Proc \ orphan : pc[p] = "writeGz"}
IndexWriters == {p \in Proc \ orphan : pc[p] = "writeIndex"}

Others(p) == {q \in Proc \ {p} : pc[q] # "idle"}

\* p changes the log of s: whatever the others read of it is out of date.
LogChanged(p, s) ==
  [q \in Proc |-> IF q \in Others(p) THEN staleLogs[q] \union {s} ELSE staleLogs[q] \ {s}]

Blame(bad, kind) == breach' = IF bad THEN breach \union {kind} ELSE breach

Begin(p, step, s, text, due) ==
  /\ pc[p] = "idle"
  /\ Overlap \/ \A q \in Proc : pc[q] = "idle"
  /\ pc' = [pc EXCEPT ![p] = step]
  /\ job' = [job EXCEPT ![p] = [s |-> s, text |-> text, due |-> due, names |-> {}]]

Goto(p, step) == pc' = [pc EXCEPT ![p] = step]

End(p) ==
  /\ pc' = [pc EXCEPT ![p] = "idle"]
  /\ job' = [job EXCEPT ![p] = NoJob]
  /\ staleGz' = staleGz \ {p}

-----------------------------------------------------------------------------
(* write_session: refuse into the quarantine, or rewrite the log.           *)

Store(p, s, text) ==
  /\ Begin(p, IF text \intersect (Binary \union Unsafe) = {} THEN "openLog" ELSE "openHeld",
           s, [NoRecords EXCEPT ![s] = text], {})
  /\ staleLogs' = [staleLogs EXCEPT ![p] = IF LogWriters(s) = {} THEN {} ELSE {s}]
  /\ UNCHANGED <<disk, orphan, staleGz, crashes, kept, passed, breach>>

\* append_session_event: read the log, add a turn.
AppendEvent(p, s, e) ==
  /\ e \notin kept[s]
  /\ Store(p, s, Held(log[s]) \union {e})

\* A capture adapter writes all turns of the tool's own transcript.
Capture(p, s, turns) ==
  /\ kept[s] \subseteq turns
  /\ Store(p, s, turns)

TruncateLog(p, step, next) ==
  LET s == job[p].s IN
  /\ pc[p] = step
  /\ Goto(p, next)
  /\ log' = [log EXCEPT ![s] = {}]
  /\ staleLogs' = LogChanged(p, s)
  /\ Blame(s \in staleLogs[p] /\ log[s] # Absent, "overwritten")
  /\ UNCHANGED <<gz, torn, index, held, job, orphan, staleGz, crashes, promises>>

OpenLog(p) == TruncateLog(p, "openLog", "writeLog")

WriteLog(p) ==
  LET s == job[p].s IN
  /\ pc[p] = "writeLog"
  /\ End(p)
  /\ log' = IF p \in orphan THEN log ELSE [log EXCEPT ![s] = job[p].text[s]]
  /\ orphan' = orphan \ {p}
  /\ staleLogs' = [LogChanged(p, s) EXCEPT ![p] = {}]
  /\ kept' = [kept EXCEPT ![s] = @ \union job[p].text[s]]
  /\ UNCHANGED <<gz, torn, index, held, crashes, passed, breach>>

OpenHeld(p) ==
  /\ pc[p] = "openHeld"
  /\ Goto(p, "writeHeld")
  /\ held' = [held EXCEPT ![job[p].s] = {}]
  /\ UNCHANGED <<log, gz, torn, index, job, orphan, staleLogs, staleGz, crashes, promises, breach>>

WriteHeld(p) ==
  LET s == job[p].s IN
  /\ pc[p] = "writeHeld"
  /\ End(p)
  /\ held' = IF p \in orphan THEN held ELSE [held EXCEPT ![s] = job[p].text[s]]
  /\ orphan' = orphan \ {p}
  /\ staleLogs' = [staleLogs EXCEPT ![p] = {}]
  /\ UNCHANGED <<log, gz, torn, index, crashes, kept, passed, breach>>

-----------------------------------------------------------------------------
(* release_quarantined_session and discard_quarantined_session.             *)

\* Mutant: a release publishes the quarantined payload as it is.
Release_Unscanned(p, s) ==
  /\ held[s] # Absent
  /\ log[s] = Absent
  /\ Begin(p, "openRelease", s, [NoRecords EXCEPT ![s] = held[s]], {})
  /\ passed' = passed \union held[s]
  /\ UNCHANGED <<disk, orphan, staleLogs, staleGz, crashes, kept, breach>>

\* Scanned again, but not for binary payloads, unless the session has a log.
Release(p, s) ==
  /\ held[s] # Absent
  /\ log[s] = Absent
  /\ held[s] \intersect Unsafe = {}
  /\ Begin(p, "openRelease", s, [NoRecords EXCEPT ![s] = held[s]], {})
  /\ passed' = passed \union held[s]
  /\ UNCHANGED <<disk, orphan, staleLogs, staleGz, crashes, kept, breach>>

OpenRelease(p) == TruncateLog(p, "openRelease", "writeRelease")

WriteRelease(p) ==
  LET s == job[p].s IN
  /\ pc[p] = "writeRelease"
  /\ Goto(p, "commit")
  /\ log' = IF p \in orphan THEN log ELSE [log EXCEPT ![s] = job[p].text[s]]
  /\ orphan' = orphan \ {p}
  /\ staleLogs' = LogChanged(p, s)
  /\ kept' = [kept EXCEPT ![s] = @ \union job[p].text[s]]
  /\ UNCHANGED <<gz, torn, index, held, job, staleGz, crashes, passed, breach>>

CommitSucceeds(p) ==
  /\ pc[p] = "commit"
  /\ Goto(p, "drop")
  /\ UNCHANGED <<disk, job, orphan, staleLogs, staleGz, crashes, promises, breach>>

\* A release that cannot be committed is taken back by unlinking the log.
CommitFails(p) ==
  LET s == job[p].s IN
  /\ pc[p] = "commit"
  /\ End(p)
  /\ log' = [log EXCEPT ![s] = Absent]
  /\ orphan' = orphan \union LogWriters(s)
  /\ staleLogs' = [LogChanged(p, s) EXCEPT ![p] = {}]
  /\ kept' = [kept EXCEPT ![s] = @ \ job[p].text[s]]
  /\ Blame(s \in staleLogs[p] /\ log[s] # Absent, "unlinked")
  /\ UNCHANGED <<gz, torn, index, held, crashes, passed>>

DropHeld(p) ==
  LET s == job[p].s IN
  /\ pc[p] = "drop"
  /\ End(p)
  /\ held' = [held EXCEPT ![s] = Absent]
  /\ orphan' = orphan \union HeldWriters(s)
  /\ staleLogs' = [staleLogs EXCEPT ![p] = {}]
  /\ UNCHANGED <<log, gz, torn, index, crashes, kept, passed, breach>>

Discard(p, s) ==
  /\ pc[p] = "idle"
  /\ Overlap \/ \A q \in Proc : pc[q] = "idle"
  /\ held[s] # Absent
  /\ held' = [held EXCEPT ![s] = Absent]
  /\ orphan' = orphan \union HeldWriters(s)
  /\ UNCHANGED <<log, gz, torn, index, pc, job, staleLogs, staleGz, crashes,
                 kept, passed, breach>>

-----------------------------------------------------------------------------
(* archive_sessions: logs past the cutoff go to the month's archive.        *)

\* Which logs are old enough is not modelled: any that is not empty may be.
Archive(p, due) ==
  /\ due # {}
  /\ \A s \in due : Held(log[s]) # {}
  /\ Begin(p, "readGz", Absent, [s \in Session |-> IF s \in due THEN log[s] ELSE Absent], due)
  /\ UNCHANGED <<disk, orphan, staleLogs, staleGz, crashes, promises, breach>>

\* Mutant: the archive is rewritten with the logs of this run only.
Merged_Forgets(due, text) == text

\* The log's payload takes the place of an earlier one of the same session.
Merged(due, text) == [s \in Session |-> IF s \in due THEN text[s] ELSE gz[s]]

ReadGz(p) ==
  /\ pc[p] = "readGz"
  /\ ~torn
  /\ Goto(p, "openGz")
  /\ job' = [job EXCEPT ![p].text = Merged(job[p].due, @)]
  /\ staleGz' = IF GzWriters = {} THEN staleGz \ {p} ELSE staleGz \union {p}
  /\ UNCHANGED <<disk, orphan, staleLogs, crashes, promises, breach>>

\* Mutant: the archive cannot be read and the archiver waits for ever.
ReadGzRaises_Retries(p) ==
  /\ pc[p] = "readGz"
  /\ torn
  /\ Goto(p, "retry")
  /\ UNCHANGED <<disk, job, orphan, staleLogs, staleGz, crashes, promises, breach>>

\* gzip raises on a cut archive and archive_sessions ends.
ReadGzRaises(p) ==
  /\ pc[p] = "readGz"
  /\ torn
  /\ End(p)
  /\ staleLogs' = [staleLogs EXCEPT ![p] = {}]
  /\ UNCHANGED <<disk, orphan, crashes, promises, breach>>

Resumes(p) == \E s \in job[p].due : ~(Held(gz[s]) \subseteq Held(job[p].text[s]))

\* Until it is closed the archive reads as empty, or as cut off.  A purge that
\* leaves no session in it unlinks it.
OpenGz(p) ==
  /\ pc[p] = "openGz"
  /\ gz' = NoRecords
  /\ IF job[p].text = NoRecords
       THEN Goto(p, "openIndex") /\ torn' = FALSE /\ orphan' = orphan \union GzWriters
       ELSE Goto(p, "writeGz") /\ torn' \in BOOLEAN /\ UNCHANGED orphan
  /\ staleGz' = (staleGz \union Others(p)) \ {p}
  /\ kept' = [s \in Session |-> IF s = job[p].s THEN kept[s] \ Held(gz[s]) ELSE kept[s]]
  /\ breach' = breach \union (IF p \in staleGz THEN {"overwritten"} ELSE {})
                      \union (IF Resumes(p) THEN {"resumed"} ELSE {})
  /\ UNCHANGED <<log, index, held, job, staleLogs, crashes, passed>>

WriteGz(p) ==
  /\ pc[p] = "writeGz"
  /\ Goto(p, "openIndex")
  /\ gz' = IF p \in orphan THEN gz ELSE job[p].text
  /\ torn' = IF p \in orphan THEN torn ELSE FALSE
  /\ orphan' = orphan \ {p}
  /\ staleGz' = staleGz \union Others(p)
  /\ UNCHANGED <<log, index, held, job, staleLogs, crashes, promises, breach>>

\* Mutant: the index lists what this run archived, not all of the archive.
OpenIndex_OnlyDue(p) ==
  /\ pc[p] = "openIndex"
  /\ job[p].s = Absent
  /\ Goto(p, "writeIndex")
  /\ index' = Torn
  /\ job' = [job EXCEPT ![p].names = job[p].due]
  /\ Blame(p \in staleGz, "overwritten")
  /\ UNCHANGED <<log, gz, torn, held, orphan, staleLogs, staleGz, crashes, promises>>

OpenIndex(p) ==
  /\ pc[p] = "openIndex"
  /\ job[p].s = Absent
  /\ Goto(p, "writeIndex")
  /\ index' = Torn
  /\ job' = [job EXCEPT ![p].names = {s \in Session : job[p].text[s] # Absent}]
  /\ Blame(p \in staleGz, "overwritten")
  /\ UNCHANGED <<log, gz, torn, held, orphan, staleLogs, staleGz, crashes, promises>>

\* An archiver goes on to the logs; for a purge this is the end.
WriteIndex(p) ==
  /\ pc[p] = "writeIndex"
  /\ index' = IF p \in orphan THEN index ELSE job[p].names
  /\ orphan' = orphan \ {p}
  /\ Blame(p \in staleGz, "overwritten")
  /\ IF job[p].s = Absent
       THEN Goto(p, "unlinkLogs") /\ UNCHANGED <<job, staleLogs, staleGz>>
       ELSE /\ End(p)
            /\ staleLogs' = [staleLogs EXCEPT ![p] = {}]
  /\ UNCHANGED <<log, gz, torn, held, crashes, kept, passed>>

UnlinkLog(p, s) ==
  /\ pc[p] = "unlinkLogs"
  /\ s \in job[p].due
  /\ log' = [log EXCEPT ![s] = Absent]
  /\ orphan' = orphan \union LogWriters(s)
  /\ Blame(s \in staleLogs[p] /\ log[s] # Absent, "unlinked")
  /\ IF job[p].due = {s}
       THEN /\ End(p)
            /\ staleLogs' = [LogChanged(p, s) EXCEPT ![p] = {}]
       ELSE /\ job' = [job EXCEPT ![p].due = @ \ {s}]
            /\ staleLogs' = LogChanged(p, s)
            /\ UNCHANGED <<pc, staleGz>>
  /\ UNCHANGED <<gz, torn, index, held, crashes, promises>>

-----------------------------------------------------------------------------
(* remove_session_payload: the log if there is one, else the archived copy. *)

PurgeLog(p, s) ==
  /\ pc[p] = "idle"
  /\ Overlap \/ \A q \in Proc : pc[q] = "idle"
  /\ log[s] # Absent
  /\ log' = [log EXCEPT ![s] = Absent]
  /\ orphan' = orphan \union LogWriters(s)
  /\ staleLogs' = LogChanged(p, s)
  /\ kept' = [kept EXCEPT ![s] = {}]
  /\ Blame(LogWriters(s) # {}, "unlinked")
  /\ UNCHANGED <<gz, torn, index, held, pc, job, staleGz, crashes, passed>>

PurgeArchive(p, s) ==
  /\ log[s] = Absent
  /\ ~torn
  /\ gz[s] # Absent
  /\ Begin(p, "openGz", s, [gz EXCEPT ![s] = Absent], {})
  /\ staleGz' = IF GzWriters = {} THEN staleGz ELSE staleGz \union {p}
  /\ UNCHANGED <<disk, orphan, staleLogs, crashes, promises, breach>>

\* The names left in the index; an unreadable index counts as empty.
NamesWithout(s) == IF index \in {Absent, Torn} THEN {} ELSE index \ {s}

PurgeIndex(p) ==
  LET s == job[p].s IN
  /\ pc[p] = "openIndex"
  /\ s # Absent
  /\ Blame(p \in staleGz \/ IndexWriters # {}, "overwritten")
  /\ IF NamesWithout(s) # {}
       THEN /\ Goto(p, "writeIndex")
            /\ index' = Torn
            /\ job' = [job EXCEPT ![p].names = NamesWithout(s)]
            /\ UNCHANGED <<orphan, staleLogs, staleGz>>
       ELSE /\ End(p)
            /\ index' = Absent
            /\ orphan' = orphan \union IndexWriters
            /\ staleLogs' = [staleLogs EXCEPT ![p] = {}]
  /\ UNCHANGED <<log, gz, torn, held, crashes, kept, passed>>

-----------------------------------------------------------------------------

\* The process dies; a file it has truncated stays as it is.
Crash(p) ==
  /\ pc[p] # "idle"
  /\ crashes < MaxCrashes
  /\ crashes' = crashes + 1
  /\ End(p)
  /\ orphan' = orphan \ {p}
  /\ staleLogs' = [staleLogs EXCEPT ![p] = {}]
  /\ Blame(pc[p] \in {"writeLog", "writeGz", "writeIndex"} /\ p \notin orphan, "crashed")
  /\ UNCHANGED <<disk, promises>>

Recording(p) ==
  \/ \E s \in Session : \/ \E e \in Event : AppendEvent(p, s, e)
                        \/ \E turns \in SUBSET Event \ {{}} : Capture(p, s, turns)
  \/ OpenLog(p) \/ WriteLog(p) \/ OpenHeld(p) \/ WriteHeld(p)

Reviewing(p) ==
  \/ \E s \in Session : Release(p, s) \/ Discard(p, s)
  \/ OpenRelease(p) \/ WriteRelease(p) \/ CommitSucceeds(p) \/ CommitFails(p) \/ DropHeld(p)

Archiving(p) ==
  \/ \E due \in SUBSET Session : Archive(p, due)
  \/ ReadGz(p) \/ ReadGzRaises(p) \/ OpenGz(p) \/ WriteGz(p) \/ OpenIndex(p) \/ WriteIndex(p)
  \/ \E s \in Session : UnlinkLog(p, s)

Purging(p) ==
  \/ \E s \in Session : PurgeLog(p, s) \/ PurgeArchive(p, s)
  \/ PurgeIndex(p)

Next == \E p \in Proc : Recording(p) \/ Reviewing(p) \/ Archiving(p) \/ Purging(p) \/ Crash(p)

Spec == Init /\ [][Next]_vars

-----------------------------------------------------------------------------
(* Properties.                                                              *)

Quiet == \A p \in Proc : pc[p] = "idle"

\* A process is writing turn e of s from memory into a file it has truncated.
InFlight(s, e) == \E p \in Proc \ orphan :
  /\ pc[p] = "writeGz" \/ (pc[p] = "writeLog" /\ job[p].s = s)
  /\ e \in Held(job[p].text[s])

\* Recorded turns stay in the log or the archive of their session: logs,
\* captures, archiving, purges of other sessions and releases may overlap in any
\* way that destroys no file its process has not read (sessions.py:562, 782, 872).
Stored(s, e) == e \in Held(log[s]) \/ e \in Held(gz[s]) \/ InFlight(s, e)
EventsKept == breach = {} => \A s \in Session : \A e \in kept[s] : Stored(s, e)

\* Its invariant.  Only open quarantine and index files are ever unlinked.
NoOrphans == \A p \in orphan : pc[p] \in {"writeHeld", "writeIndex"}

WritesLog(p, s) == pc[p] \in {"writeLog", "writeRelease"} /\ job[p].s = s
ArchiveSteps == {"readGz", "openGz", "writeGz", "openIndex", "writeIndex", "unlinkLogs"}

\* p is going to replace or unlink the log of s because of what it read.
Relies(p, s) ==
  \/ pc[p] \in {"openLog", "openRelease", "commit"} /\ job[p].s = s
  \/ pc[p] \in ArchiveSteps /\ s \in job[p].due

\* A log being written is empty, has one writer, and all others know it as changed.
LogWriterIsAlone ==
  \A p \in Proc, s \in Session : WritesLog(p, s) =>
    /\ log[s] = {}
    /\ \A q \in Proc \ {p} : ~WritesLog(q, s) /\ (Relies(q, s) => s \in staleLogs[q])

\* Who knows of no change has in memory all that counts of the log.
LogReadersAreSound ==
  \A p \in Proc, s \in Session : Relies(p, s) /\ s \notin staleLogs[p] =>
    /\ pc[p] = "openLog" => kept[s] \intersect Held(log[s]) \subseteq Held(job[p].text[s])
    /\ pc[p] = "openRelease" => log[s] = Absent
    /\ pc[p] = "commit" => Held(log[s]) \subseteq Held(job[p].text[s])
    /\ pc[p] \in ArchiveSteps => log[s] = job[p].text[s]

GzWriterIsAlone ==
  \A p \in Proc : pc[p] = "writeGz" =>
    /\ gz = NoRecords
    /\ \A q \in Proc \ {p} : pc[q] # "writeGz" /\ (pc[q] = "openGz" => q \in staleGz)

GzReadersAreSound ==
  \A p \in Proc : pc[p] = "openGz" /\ p \notin staleGz =>
    \A s \in Session \ (job[p].due \union {job[p].s}) : job[p].text[s] = gz[s]

\* A log about to be unlinked is in the archive, or about to be.
ArchivedBeforeUnlinked ==
  \A p \in Proc : pc[p] \in {"openIndex", "writeIndex", "unlinkLogs"} =>
    \A s \in job[p].due \ staleLogs[p] : \A e \in kept[s] \intersect Held(job[p].text[s]) :
      \/ e \in Held(gz[s])
      \/ \E q \in Proc : pc[q] = "writeGz" /\ e \in Held(job[q].text[s])

StoreInv ==
  breach = {} =>
    /\ NoOrphans
    /\ LogWriterIsAlone
    /\ LogReadersAreSound
    /\ GzWriterIsAlone
    /\ GzReadersAreSound
    /\ ArchivedBeforeUnlinked
    /\ \A s \in Session : \A e \in kept[s] : Stored(s, e)

\* What a reader of sessions finds (iter_session_payloads): the log, or else the
\* archived payload, if the archive can be read and the index names the session.
Readable(s) ==
  IF log[s] # Absent THEN log[s]
  ELSE IF torn \/ index \in {Absent, Torn} THEN {}
  ELSE IF s \in index THEN Held(gz[s]) ELSE {}

\* Outside the rewriting of the archive or the index, a session whose log is gone
\* is found there: the log goes last and names leave the index last.
ArchivedIsIndexed ==
  breach = {} /\ (\A p \in Proc : pc[p] \notin {"writeGz", "writeIndex"})
    => \A s \in Session : log[s] = Absent => kept[s] \subseteq Readable(s)

\* Its invariant.  A cut archive or index has a writer, and no unlink takes the index
\* from under one.
CutFilesHaveWriters ==
  /\ torn => \E p \in Proc : pc[p] = "writeGz"
  /\ index = Torn => \E p \in Proc : pc[p] = "writeIndex"
  /\ \A p \in orphan : pc[p] # "writeIndex"

\* Of those who have opened the archive, one at most still knows what is in it.
RewriteSteps == {"writeGz", "openIndex", "writeIndex"}
OneRewriterKnows ==
  \A p \in Proc : pc[p] \in RewriteSteps =>
    /\ pc[p] = "writeGz" => p \notin staleGz
    /\ \A q \in Proc \ {p} : pc[q] \in RewriteSteps => p \in staleGz \/ q \in staleGz

\* Who knows what is in the archive has it in memory; a purge has dropped its session.
RewritersAreSound ==
  \A p \in Proc :
    /\ pc[p] = "readGz" => job[p].s = Absent
    /\ pc[p] \in RewriteSteps \union {"openGz"} /\ job[p].s # Absent
         => job[p].text[job[p].s] = Absent
    /\ pc[p] \in {"openIndex", "writeIndex"} /\ p \notin staleGz => gz = job[p].text
    /\ pc[p] = "writeIndex" /\ job[p].s = Absent
         => job[p].names = {s \in Session : job[p].text[s] # Absent}

\* p may unlink a log of s although the archive alone has some kept turn, or will have it.
MayUnlink(p, s) ==
  \/ /\ pc[p] = "writeRelease" \/ (pc[p] = "commit" /\ s \notin staleLogs[p])
     /\ job[p].s = s /\ ~(kept[s] \subseteq Held(job[p].text[s]))
  \/ pc[p] = "unlinkLogs" /\ s \in job[p].due \ staleLogs[p] /\ kept[s] # {}

OnlyArchived(s) == (log[s] = Absent /\ kept[s] # {}) \/ \E p \in Proc : MayUnlink(p, s)

\* Such a session is in the index, or among the names of who writes the index and knows
\* what is in the archive.
OnlyArchivedIsNamed ==
  \A s \in Session : OnlyArchived(s) =>
    /\ \A p \in Proc : pc[p] = "writeIndex" /\ p \notin staleGz => s \in job[p].names
    /\ (\A p \in Proc : pc[p] # "writeIndex") => index \notin {Absent, Torn} /\ s \in index

IndexInv ==
  breach = {} =>
    /\ CutFilesHaveWriters
    /\ OneRewriterKnows
    /\ RewritersAreSound
    /\ OnlyArchivedIsNamed

\* No unscanned turn gets into logs or archive, and no binary one without a
\* human's release, whichever way a refused payload is read, merged and rewritten.
RefusalHolds ==
  \A s \in Session : LET stored == Held(log[s]) \union Held(gz[s]) IN
    stored \intersect Unsafe = {} /\ stored \intersect Binary \subseteq passed
=============================================================================
