------------------------------ MODULE DreamLock ------------------------------
(***************************************************************************)
(* The advisory lock that keeps two dream runs apart                       *)
(* (src/umx/dream/gates.py).  A run takes two JSON lock files: the user    *)
(* lock below the umx home, then the lock of the memory repository.  No    *)
(* operation on a lock file is atomic: acquire looks, judges, truncates    *)
(* and writes in four steps, heartbeat reads and rewrites, release unlinks *)
(* whatever file is there.  Every system call on a lock file is a step     *)
(* here, so all interleavings of processes, deaths and slow runs are       *)
(* behaviours of the specification.                                        *)
(*                                                                         *)
(* The code holds no state about what it decided and why; the ghost        *)
(* variables basis and breach record it, and no guard reads them.          *)
(***************************************************************************)
EXTENDS Naturals

CONSTANTS
  Proc,       \* processes that run "umx dream" on one machine
  File,       \* lock files
  UserLock,   \* UserLock[p]: the lock below the umx home of p
  RepoLock,   \* RepoLock[p]: meta/dream.lock of the repository p dreams on
  Dead,       \* the pid field of a lock whose process no longer exists
  NoPid,      \* the pid field of a lock rewritten from an unreadable payload
  NoFile,     \* doctor is not looking at any lock
  MaxDeaths   \* bound: process deaths in one behaviour

ASSUME LocksAreFiles ==
  /\ UserLock \in [Proc -> File]
  /\ RepoLock \in [Proc -> File]

ASSUME UserAndRepoLocksDiffer ==
  \A p, q \in Proc : UserLock[p] # RepoLock[q]

ASSUME MarkersAreNoProcess ==
  /\ Dead \notin Proc
  /\ NoPid \notin Proc
  /\ Dead # NoPid
  /\ NoFile \notin File

ASSUME DeathsAreBounded == MaxDeaths \in Nat

VARIABLES
  file,     \* file[f]: what a reader of lock file f finds
  writers,  \* writers[f]: processes with the present inode of f open for writing
  pc,       \* pc[p]: the next system call of p
  at,       \* at[p]: the lock p is working on, "user" or "repo"
  seen,     \* seen[p]: the pid p's heartbeat read and is about to write back
  doctor,   \* the lock "umx doctor --fix" judged stale and is about to unlink
  deaths,   \* process deaths so far
  basis,    \* ghost: was the lock p decided to take really free at that moment
  breach    \* ghost: why a live owner's lock was first taken over, or "none"

vars == <<file, writers, pc, at, seen, doctor, deaths, basis, breach>>

Absent == [state |-> "absent", pid |-> NoPid, fresh |-> FALSE]
Torn   == [state |-> "torn", pid |-> NoPid, fresh |-> FALSE]
Payload(pid) == [state |-> "whole", pid |-> pid, fresh |-> TRUE]

Content == [state : {"absent", "torn", "whole"},
            pid : Proc \union {Dead, NoPid}, fresh : BOOLEAN]

AcquireSteps == {"probe", "judge", "open", "write"}
RunSteps == {"run", "beat", "beatOpen", "beatWrite"}
Breaches == {"none", "silent", "midwrite", "race"}

TypeOK ==
  /\ file \in [File -> Content]
  /\ writers \in [File -> SUBSET Proc]
  /\ pc \in [Proc -> {"idle", "undo", "free"} \union AcquireSteps \union RunSteps]
  /\ at \in [Proc -> {"user", "repo"}]
  /\ seen \in [Proc -> Proc \union {Dead, NoPid}]
  /\ doctor \in File \union {NoFile}
  /\ deaths \in 0 .. MaxDeaths
  /\ basis \in [Proc -> {"free", "live"}]
  /\ breach \in Breaches

Target(p) == IF at[p] = "user" THEN UserLock[p] ELSE RepoLock[p]

\* The run of p is between lock.acquire() and lock.release().
Running(p) == pc[p] \in RunSteps

\* Mutant: is_stale goes by pid and readability alone, and an old heartbeat is fine.
Stale_Ageless(c) == c.state = "torn" \/ c.pid = Dead

\* Mutant: is_stale trusts a lock it cannot read.
Stale_TrustsTorn(c) == c.state = "whole" /\ (c.pid = Dead \/ ~c.fresh)

\* is_stale for a lock that exists: its process is gone, it has no readable
\* heartbeat, or its heartbeat is more than stale_minutes old.
Stale(c) == c.state = "torn" \/ c.pid = Dead \/ ~c.fresh

\* Nobody alive wrote the lock or is about to: no clean protocol needs it.
Free(f) ==
  \/ file[f].state = "absent"
  \/ file[f].state = "torn" /\ writers[f] = {}
  \/ file[f].state = "whole" /\ file[f].pid \notin Proc

\* Why a lock that is not free was judged stale, if the rules of is_stale say so.
WrongVerdict(f) ==
  CASE Free(f) -> "none"
    [] file[f].state = "torn" -> "midwrite"
    [] file[f].state = "whole" /\ ~file[f].fresh -> "silent"
    [] OTHER -> "none"

Blame(cause) == breach' = IF breach = "none" THEN cause ELSE breach

Unlink(f) ==
  /\ file' = [file EXCEPT ![f] = Absent]
  /\ writers' = [writers EXCEPT ![f] = {}]

Truncate(p, f) ==
  /\ file' = [file EXCEPT ![f] = Torn]
  /\ writers' = [writers EXCEPT ![f] = @ \union {p}]

\* A write through a handle whose inode was unlinked leaves no trace.
WriteThrough(p, f, pid) ==
  /\ file' = IF p \in writers[f] THEN [file EXCEPT ![f] = Payload(pid)] ELSE file
  /\ writers' = [writers EXCEPT ![f] = @ \ {p}]

-----------------------------------------------------------------------------
(* acquire                                                                  *)

\* run() passed its gates and calls CompositeDreamLock.acquire: user lock first.
Try(p) ==
  /\ pc[p] = "idle"
  /\ pc' = [pc EXCEPT ![p] = "probe"]
  /\ at' = [at EXCEPT ![p] = "user"]
  /\ UNCHANGED <<file, writers, seen, doctor, deaths, basis, breach>>

\* self.path.exists()
Probe(p) ==
  /\ pc[p] = "probe"
  /\ IF file[Target(p)].state = "absent"
       THEN /\ pc' = [pc EXCEPT ![p] = "open"]
            /\ basis' = [basis EXCEPT ![p] = "free"]
       ELSE /\ pc' = [pc EXCEPT ![p] = "judge"]
            /\ UNCHANGED basis
  /\ UNCHANGED <<file, writers, at, seen, doctor, deaths, breach>>

\* Mutant: the composite ignores a refused repository lock and runs.
Refused_RunsAnyway(p) ==
  /\ pc' = [pc EXCEPT ![p] = IF at[p] = "user" THEN "idle" ELSE "run"]
  /\ UNCHANGED <<basis, breach>>

\* Mutant: a refused repository lock is retried from an unknown state.
Refused_Stuck(p) ==
  /\ pc' = [pc EXCEPT ![p] = IF at[p] = "user" THEN "idle" ELSE "refused"]
  /\ UNCHANGED <<basis, breach>>

\* acquire returns False: a refused user lock ends the attempt, a refused
\* repository lock makes the composite release the user lock.
Refused(p) ==
  /\ pc' = [pc EXCEPT ![p] = IF at[p] = "user" THEN "idle" ELSE "undo"]
  /\ UNCHANGED <<basis, breach>>

Overrule(p, f) ==
  /\ pc' = [pc EXCEPT ![p] = "open"]
  /\ basis' = [basis EXCEPT ![p] = IF Free(f) THEN "free" ELSE "live"]
  /\ Blame(WrongVerdict(f))

\* is_stale() of a lock that existed when probed.  A lock that has gone since
\* reads as "not stale" or as an unreadable payload, by when it went.
Judge(p) ==
  /\ pc[p] = "judge"
  /\ LET f == Target(p) IN
       \/ file[f].state = "absent" /\ (Refused(p) \/ Overrule(p, f))
       \/ file[f].state # "absent" /\ Stale(file[f]) /\ Overrule(p, f)
       \/ file[f].state # "absent" /\ ~Stale(file[f]) /\ Refused(p)
  /\ UNCHANGED <<file, writers, at, seen, doctor, deaths>>

\* write_text opens the lock for writing: created or truncated, not yet written.
Open(p) ==
  /\ pc[p] = "open"
  /\ Truncate(p, Target(p))
  /\ pc' = [pc EXCEPT ![p] = "write"]
  /\ Blame(IF basis[p] = "free" /\ ~Free(Target(p)) THEN "race" ELSE "none")
  /\ basis' = [basis EXCEPT ![p] = "free"]
  /\ UNCHANGED <<at, seen, doctor, deaths>>

\* write_text writes and closes; with both locks taken the run starts.
Write(p) ==
  /\ pc[p] = "write"
  /\ WriteThrough(p, Target(p), p)
  /\ pc' = [pc EXCEPT ![p] = IF at[p] = "user" THEN "probe" ELSE "run"]
  /\ at' = [at EXCEPT ![p] = "repo"]
  /\ UNCHANGED <<seen, doctor, deaths, basis, breach>>

\* Mutant: the composite keeps the user lock when the repository lock is refused.
Undo_KeepsUserLock(p) ==
  /\ pc[p] = "undo"
  /\ pc' = [pc EXCEPT ![p] = "idle"]
  /\ at' = [at EXCEPT ![p] = "user"]
  /\ UNCHANGED <<file, writers, seen, doctor, deaths, basis, breach>>

\* Mutant: the composite undoes with its own release, which unlinks both locks.
Undo_ReleasesBoth(p) ==
  /\ pc[p] = "undo"
  /\ file' = [file EXCEPT ![UserLock[p]] = Absent, ![RepoLock[p]] = Absent]
  /\ writers' = [writers EXCEPT ![UserLock[p]] = {}, ![RepoLock[p]] = {}]
  /\ pc' = [pc EXCEPT ![p] = "idle"]
  /\ at' = [at EXCEPT ![p] = "user"]
  /\ UNCHANGED <<seen, doctor, deaths, basis, breach>>

\* The composite releases the user lock after the repository lock was refused.
Undo(p) ==
  /\ pc[p] = "undo"
  /\ Unlink(UserLock[p])
  /\ pc' = [pc EXCEPT ![p] = "idle"]
  /\ at' = [at EXCEPT ![p] = "user"]
  /\ UNCHANGED <<seen, doctor, deaths, basis, breach>>

-----------------------------------------------------------------------------
(* heartbeat and release                                                    *)

StartHeartbeat(p) ==
  /\ pc[p] = "run"
  /\ pc' = [pc EXCEPT ![p] = "beat"]
  /\ at' = [at EXCEPT ![p] = "user"]
  /\ UNCHANGED <<file, writers, seen, doctor, deaths, basis, breach>>

\* The lock after the user lock is the repository lock, and then the run goes on.
NextBeat(p) ==
  /\ pc' = [pc EXCEPT ![p] = IF at[p] = "user" THEN "beat" ELSE "run"]
  /\ at' = [at EXCEPT ![p] = "repo"]

\* Mutant: heartbeat writes a fresh payload without the pid.
HeartbeatRead_DropsPid(p) ==
  /\ pc[p] = "beat"
  /\ IF file[Target(p)].state = "absent"
       THEN NextBeat(p)
       ELSE pc' = [pc EXCEPT ![p] = "beatOpen"] /\ UNCHANGED at
  /\ UNCHANGED <<file, writers, seen, doctor, deaths, basis, breach>>

\* exists() and the read of the payload: a missing lock is left alone, and an
\* unreadable one reads as the empty payload.
HeartbeatRead(p) ==
  /\ pc[p] = "beat"
  /\ LET c == file[Target(p)] IN
       IF c.state = "absent"
         THEN NextBeat(p) /\ UNCHANGED seen
         ELSE /\ seen' = [seen EXCEPT ![p] = IF c.state = "torn" THEN NoPid ELSE c.pid]
              /\ pc' = [pc EXCEPT ![p] = "beatOpen"]
              /\ UNCHANGED at
  /\ UNCHANGED <<file, writers, doctor, deaths, basis, breach>>

HeartbeatOpen(p) ==
  /\ pc[p] = "beatOpen"
  /\ Truncate(p, Target(p))
  /\ pc' = [pc EXCEPT ![p] = "beatWrite"]
  /\ UNCHANGED <<at, seen, doctor, deaths, basis, breach>>

HeartbeatWrite(p) ==
  /\ pc[p] = "beatWrite"
  /\ WriteThrough(p, Target(p), seen[p])
  /\ NextBeat(p)
  /\ seen' = [seen EXCEPT ![p] = NoPid]
  /\ UNCHANGED <<doctor, deaths, basis, breach>>

\* The finally block of run(): release the repository lock, then the user lock.
Finish(p) ==
  /\ pc[p] = "run"
  /\ pc' = [pc EXCEPT ![p] = "free"]
  /\ at' = [at EXCEPT ![p] = "repo"]
  /\ UNCHANGED <<file, writers, seen, doctor, deaths, basis, breach>>

Release(p) ==
  /\ pc[p] = "free"
  /\ Unlink(Target(p))
  /\ pc' = [pc EXCEPT ![p] = IF at[p] = "repo" THEN "free" ELSE "idle"]
  /\ at' = [at EXCEPT ![p] = "user"]
  /\ UNCHANGED <<seen, doctor, deaths, basis, breach>>

-----------------------------------------------------------------------------
(* the environment, and umx doctor                                          *)

\* A process dies or exits: its handles close and its pid names nobody.  The
\* same element of Proc then stands for the next process that dreams there.
Bury(p, pid) == IF pid = p THEN Dead ELSE pid

Die(p) ==
  /\ deaths < MaxDeaths
  /\ deaths' = deaths + 1
  /\ pc' = [pc EXCEPT ![p] = "idle"]
  /\ file' = [f \in File |-> [file[f] EXCEPT !.pid = Bury(p, @)]]
  /\ writers' = [f \in File |-> writers[f] \ {p}]
  /\ seen' = [q \in Proc |-> IF q = p THEN NoPid ELSE Bury(p, seen[q])]
  /\ at' = [at EXCEPT ![p] = "user"]
  /\ basis' = [basis EXCEPT ![p] = "free"]
  /\ UNCHANGED <<doctor, breach>>

\* stale_minutes pass without a heartbeat: nothing ticks while a run is busy in
\* one phase, however long the provider or the remote takes.
Expire(f) ==
  /\ file[f].state = "whole"
  /\ file[f].fresh
  /\ file' = [file EXCEPT ![f].fresh = FALSE]
  /\ UNCHANGED <<writers, pc, at, seen, doctor, deaths, basis, breach>>

\* umx doctor --fix judges a repository lock and then releases it.
DoctorLook(f) ==
  /\ doctor = NoFile
  /\ \E p \in Proc : f = RepoLock[p]
  /\ file[f].state # "absent"
  /\ Stale(file[f])
  /\ doctor' = f
  /\ Blame(WrongVerdict(f))
  /\ UNCHANGED <<file, writers, pc, at, seen, deaths, basis>>

DoctorClear ==
  /\ doctor # NoFile
  /\ Unlink(doctor)
  /\ doctor' = NoFile
  /\ Blame(IF Free(doctor) THEN "none" ELSE "race")
  /\ UNCHANGED <<pc, at, seen, deaths, basis>>

-----------------------------------------------------------------------------
Init ==
  /\ file = [f \in File |-> Absent]
  /\ writers = [f \in File |-> {}]
  /\ pc = [p \in Proc |-> "idle"]
  /\ at = [p \in Proc |-> "user"]
  /\ seen = [p \in Proc |-> NoPid]
  /\ doctor = NoFile
  /\ deaths = 0
  /\ basis = [p \in Proc |-> "free"]
  /\ breach = "none"

Acquire(p) == Probe(p) \/ Judge(p) \/ Open(p) \/ Write(p) \/ Undo(p)
Heartbeat(p) == HeartbeatRead(p) \/ HeartbeatOpen(p) \/ HeartbeatWrite(p)

DreamStep ==
  \/ \E p \in Proc :
       \/ Try(p) \/ Acquire(p)
       \/ StartHeartbeat(p) \/ Heartbeat(p)
       \/ Finish(p) \/ Release(p)
       \/ Die(p)
  \/ \E f \in File : Expire(f)

Next ==
  \/ DreamStep
  \/ \E f \in File : DoctorLook(f)
  \/ DoctorClear

Spec == Init /\ [][Next]_vars

\* A running process keeps executing and its phases end; dream is invoked again
\* and again by hooks and schedules; time passes.  Nobody has to run doctor, so
\* the liveness properties are stated for machines on which nobody does.
Fairness ==
  /\ \A p \in Proc : /\ WF_vars(Try(p))
                     /\ WF_vars(Acquire(p))
                     /\ WF_vars(Heartbeat(p))
                     /\ SF_vars(Finish(p))
                     /\ WF_vars(Release(p))
  /\ \A f \in File : WF_vars(Expire(f))

FairSpec == Init /\ [][DreamStep]_vars /\ Fairness

-----------------------------------------------------------------------------
(* what the lock promises                                                   *)

\* p has written lock f and has not started to give it up.
Owns(p, f) ==
  \/ /\ f = UserLock[p]
     /\ \/ Running(p) \/ pc[p] \in {"free", "undo"}
        \/ at[p] = "repo" /\ pc[p] \in AcquireSteps
  \/ /\ f = RepoLock[p]
     /\ Running(p) \/ (pc[p] = "free" /\ at[p] = "repo")

\* No two runs with the same umx home or the same repository overlap.
MutualExclusion ==
  \A p, q \in Proc :
    Running(p) /\ Running(q) /\ p # q =>
      UserLock[p] # UserLock[q] /\ RepoLock[p] # RepoLock[q]

\* Two dream runs overlap only after one of three faults: a live run silent for
\* stale_minutes, a reader inside another's truncate-then-write, or a takeover
\* decided on a lock that changed hands before the write.  In particular the
\* unconditional unlinks of release, of the composite's undo and of doctor, and
\* the heartbeat that rewrites whatever it read, never break exclusion first.
ExclusiveUnlessBreached == breach = "none" => MutualExclusion

\* A lock that names a live process is really held by it: no path through the
\* composite lock (refused repository lock, finished run) leaves one behind.
LocksNameOwners ==
  \A f \in File :
    file[f].state = "whole" /\ file[f].pid \in Proc => Owns(file[f].pid, f)

NoLeakedLock == breach = "none" => LocksNameOwners

\* Without a breach nobody removes or overwrites a lock that a live process
\* other than itself holds (release, undo, heartbeat, acquire, doctor).
LiveLocksRespected ==
  [][ \A f \in File, p \in Proc :
        /\ breach' = "none"
        /\ Owns(p, f) /\ Owns(p, f)'
        => file'[f].state # "absent" /\ (file'[f].state = "torn" => p \in writers'[f])
    ]_vars

\* The locks implement turn-taking: whatever the system calls interleave, a run
\* starts only when no conflicting run is going, until a breach is recorded.
Exclusion == INSTANCE DreamExclusion
  WITH running <- {p \in Proc : Running(p)}, broken <- (breach # "none")

ImplementsExclusion == Exclusion!Spec

\* A lock left behind by a process that died is not there for ever: a later run
\* takes it over (gates.py:108) or doctor clears it, whatever was interrupted.
DeadLockReclaimed ==
  \A f \in File :
    file[f].state # "absent" /\ Free(f) ~> ~(file[f].state # "absent" /\ Free(f))

\* Dreams keep happening: no combination of refusals, deaths, torn files and
\* stale locks wedges every process for ever.
DreamsKeepRunning == []<>(\E p \in Proc : pc[p] = "run")

-----------------------------------------------------------------------------
(* the inductive invariant behind the theorems of DreamLock_proofs          *)

\* p is between truncating lock f and writing it.
Writing(p, f) == Target(p) = f /\ pc[p] \in {"write", "beatWrite"}

\* An owned lock names its owner, unless the owner is rewriting it.
OwnedLocksNameOwner ==
  \A p \in Proc, f \in File :
    Owns(p, f) /\ ~Writing(p, f) => file[f].state = "whole" /\ file[f].pid = p

\* A lock being written has one writer.
WritersAreAlone ==
  \A p, q \in Proc, f \in File : Writing(p, f) /\ Writing(q, f) => p = q

\* Until it is written it reads as torn, and the writer's handle is on its inode.
WritersHoldLock ==
  \A p \in Proc, f \in File : Writing(p, f) => file[f].state = "torn" /\ p \in writers[f]

HandlesAreInUse == \A f \in File : \A p \in writers[f] : Writing(p, f)

\* A heartbeat writes back the pid of its own process.
HeartbeatsKeepPid ==
  \A p \in Proc : pc[p] \in {"beatOpen", "beatWrite"} => seen[p] = p

\* Who is about to take a lock decided so on a lock that was free.
DecisionsAreSound == \A p \in Proc : pc[p] = "open" => basis[p] = "free"

\* As long as no breach is recorded, a lock file says who owns it.
LockInv ==
  breach = "none" =>
    /\ OwnedLocksNameOwner
    /\ WritersAreAlone
    /\ WritersHoldLock
    /\ HandlesAreInUse
    /\ HeartbeatsKeepPid
    /\ DecisionsAreSound
    /\ LocksNameOwners
=============================================================================
