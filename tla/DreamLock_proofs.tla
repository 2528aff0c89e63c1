-------------------------- MODULE DreamLock_proofs --------------------------
(***************************************************************************)
(* Proofs about DreamLock for every set of processes and every assignment  *)
(* of user and repository locks: type correctness, the lock invariant, and *)
(* what follows from it.                                                   *)
(***************************************************************************)
EXTENDS DreamLock, TLAPS

\* Every lock a process works on is a lock file.
LEMMA TargetIsFile == ASSUME NEW p \in Proc PROVE Target(p) \in File
  BY LocksAreFiles DEF Target

\* The values every step writes into a lock file are contents.
LEMMA ContentTypes ==
  /\ Absent \in Content
  /\ Torn \in Content
  /\ \A pid \in Proc \union {Dead, NoPid} : Payload(pid) \in Content
  BY DEF Absent, Torn, Payload, Content

\* Type correctness: every system call leaves well-formed lock files and
\* program counters behind, whichever process it belongs to.
THEOREM TypeCorrect == Spec => []TypeOK
<1>1. Init => TypeOK
  BY ContentTypes, DeathsAreBounded
     DEF Init, TypeOK, AcquireSteps, RunSteps, Breaches
<1>2. TypeOK /\ [Next]_vars => TypeOK'
  <2> SUFFICES ASSUME TypeOK, [Next]_vars PROVE TypeOK'
    OBVIOUS
  <2> USE DEF TypeOK, AcquireSteps, RunSteps
  <2>1. ASSUME NEW p \in Proc, Try(p) PROVE TypeOK'
    BY <2>1 DEF Try
  <2>2. ASSUME NEW p \in Proc, Probe(p) PROVE TypeOK'
    BY <2>2 DEF Probe
  <2>3. ASSUME NEW p \in Proc, Judge(p) PROVE TypeOK'
    BY <2>3, SMTT(30) DEF Judge, Refused, Overrule, Blame, WrongVerdict, Breaches
  <2>4. ASSUME NEW p \in Proc, Open(p) PROVE TypeOK'
    BY <2>4, TargetIsFile, ContentTypes DEF Open, Truncate, Blame, Breaches
  <2>5. ASSUME NEW p \in Proc, Write(p) PROVE TypeOK'
    BY <2>5, TargetIsFile, ContentTypes DEF Write, WriteThrough
  <2>6. ASSUME NEW p \in Proc, Undo(p) PROVE TypeOK'
    BY <2>6, ContentTypes, LocksAreFiles DEF Undo, Unlink
  <2>7. ASSUME NEW p \in Proc, StartHeartbeat(p) PROVE TypeOK'
    BY <2>7 DEF StartHeartbeat
  <2>8. ASSUME NEW p \in Proc, HeartbeatRead(p) PROVE TypeOK'
    <3>1. file[Target(p)].pid \in Proc \union {Dead, NoPid}
      BY TargetIsFile DEF Content
    <3>2. QED
      BY <2>8, <3>1 DEF HeartbeatRead, NextBeat
  <2>9. ASSUME NEW p \in Proc, HeartbeatOpen(p) PROVE TypeOK'
    BY <2>9, TargetIsFile, ContentTypes DEF HeartbeatOpen, Truncate
  <2>10. ASSUME NEW p \in Proc, HeartbeatWrite(p) PROVE TypeOK'
    BY <2>10, TargetIsFile, ContentTypes DEF HeartbeatWrite, WriteThrough, NextBeat
  <2>11. ASSUME NEW p \in Proc, Finish(p) PROVE TypeOK'
    BY <2>11 DEF Finish
  <2>12. ASSUME NEW p \in Proc, Release(p) PROVE TypeOK'
    BY <2>12, TargetIsFile, ContentTypes DEF Release, Unlink
  <2>13. ASSUME NEW p \in Proc, Die(p) PROVE TypeOK'
    BY <2>13, DeathsAreBounded, SMTT(40) DEF Die, Bury, Content
  <2>14. ASSUME NEW f \in File, Expire(f) PROVE TypeOK'
    BY <2>14, ZenonT(60) DEF Expire, Content
  <2>15. ASSUME NEW f \in File, DoctorLook(f) PROVE TypeOK'
    BY <2>15 DEF DoctorLook, Blame, WrongVerdict, Breaches
  <2>16. CASE DoctorClear
    BY <2>16, ContentTypes DEF DoctorClear, Unlink, Blame, Breaches
  <2>17. CASE UNCHANGED vars
    BY <2>17 DEF vars
  <2>18. QED
    BY <2>1, <2>2, <2>3, <2>4, <2>5, <2>6, <2>7, <2>8, <2>9, <2>10, <2>11, <2>12,
       <2>13, <2>14, <2>15, <2>16, <2>17
       DEF Next, DreamStep, Acquire, Heartbeat
<1>3. QED
  BY <1>1, <1>2, PTL DEF Spec

\* A verdict that leaves no breach was passed on a lock nobody alive needs.
LEMMA CleanVerdict ==
  ASSUME TypeOK, NEW f \in File, file[f].state # "absent", Stale(file[f]),
         WrongVerdict(f) = "none"
  PROVE  Free(f)
<1>1. file[f] \in Content /\ file[f].state \in {"torn", "whole"}
  BY DEF TypeOK, Content
<1>2. CASE file[f].state = "torn"
  BY <1>2 DEF WrongVerdict, Free
<1>3. CASE file[f].state = "whole"
  BY <1>1, <1>3, MarkersAreNoProcess DEF WrongVerdict, Free, Stale
<1>4. QED
  BY <1>1, <1>2, <1>3

\* A step that blames somebody leaves a breach behind.
LEMMA BlameLeavesTrace ==
  ASSUME NEW cause, Blame(cause), breach' = "none"
  PROVE  breach = "none" /\ cause = "none"
  BY DEF Blame

\* While no breach is recorded a lock that is free has no owner and no writer.
LEMMA FreeHasNoOwner ==
  ASSUME TypeOK, LockInv, breach = "none", NEW f \in File, Free(f), NEW p \in Proc
  PROVE  ~Owns(p, f) /\ ~Writing(p, f)
<1>1. file[f].state = "whole" => file[f].pid # p
  BY DEF Free
<1>2. ~Writing(p, f)
  BY DEF LockInv, WritersHoldLock, Free
<1>3. ~Owns(p, f)
  BY <1>1, <1>2 DEF LockInv, OwnedLocksNameOwner, Free
<1>4. QED
  BY <1>2, <1>3

\* While no breach is recorded an owned lock that its owner is not rewriting
\* is owned and written by nobody else.
LEMMA OwnerIsAlone ==
  ASSUME LockInv, breach = "none", NEW f \in File, NEW p \in Proc,
         Owns(p, f), ~Writing(p, f), NEW q \in Proc, q # p
  PROVE  ~Owns(q, f) /\ ~Writing(q, f)
<1>1. file[f].state = "whole" /\ file[f].pid = p
  BY DEF LockInv, OwnedLocksNameOwner
<1>2. ~Writing(q, f)
  BY <1>1 DEF LockInv, WritersHoldLock
<1>3. ~Owns(q, f)
  BY <1>1, <1>2 DEF LockInv, OwnedLocksNameOwner
<1>4. QED
  BY <1>2, <1>3

\* The lock invariant holds in every reachable state: it is inductive given the
\* types, because every step that changes a lock file either owns it, finds it
\* free, or records a breach.
THEOREM LockInvariant == Spec => []LockInv
<1>1. Init => LockInv
  BY DEF Init, LockInv, OwnedLocksNameOwner, WritersAreAlone, WritersHoldLock, HandlesAreInUse, HeartbeatsKeepPid, DecisionsAreSound, LocksNameOwners,
         Owns, Writing, Running, RunSteps, AcquireSteps, Absent
<1>2. TypeOK /\ LockInv /\ [Next]_vars => LockInv'
  <2> SUFFICES ASSUME TypeOK, LockInv, [Next]_vars, breach' = "none" PROVE LockInv'
    BY DEF LockInv
  <2> USE DEF Owns, Writing, Target, Running, RunSteps, AcquireSteps, TypeOK
  <2>1. ASSUME NEW p \in Proc, Try(p) PROVE LockInv'
    <3>1. breach = "none"
      BY <2>1 DEF Try
    <3>2. WritersAreAlone' /\ WritersHoldLock' /\ HandlesAreInUse'
      BY <2>1, <3>1
         DEF Try, LockInv, WritersAreAlone, WritersHoldLock, HandlesAreInUse
    <3>3. OwnedLocksNameOwner' /\ LocksNameOwners'
      BY <2>1, <3>1
         DEF Try, LockInv, OwnedLocksNameOwner, LocksNameOwners
    <3>4. HeartbeatsKeepPid' /\ DecisionsAreSound'
      BY <2>1, <3>1
         DEF Try, LockInv, HeartbeatsKeepPid, DecisionsAreSound
    <3>5. QED
      BY <3>2, <3>3, <3>4 DEF LockInv
  <2>2. ASSUME NEW p \in Proc, Probe(p) PROVE LockInv'
    <3>1. breach = "none"
      BY <2>2 DEF Probe
    <3>2. WritersAreAlone' /\ WritersHoldLock' /\ HandlesAreInUse'
      BY <2>2, <3>1
         DEF Probe, LockInv, WritersAreAlone, WritersHoldLock, HandlesAreInUse
    <3>3. OwnedLocksNameOwner' /\ LocksNameOwners'
      BY <2>2, <3>1
         DEF Probe, LockInv, OwnedLocksNameOwner, LocksNameOwners
    <3>4. HeartbeatsKeepPid' /\ DecisionsAreSound'
      BY <2>2, <3>1
         DEF Probe, LockInv, HeartbeatsKeepPid, DecisionsAreSound
    <3>5. QED
      BY <3>2, <3>3, <3>4 DEF LockInv
  <2>3. ASSUME NEW p \in Proc, Judge(p) PROVE LockInv'
    <3>1. breach = "none" /\ (pc'[p] = "open" => Free(Target(p)))
      <4>1. CASE Refused(p)
        BY <4>1 DEF Refused
      <4>2. ASSUME Overrule(p, Target(p)),
                   file[Target(p)].state = "absent" \/ Stale(file[Target(p)])
            PROVE  breach = "none" /\ Free(Target(p))
        <5>1. breach = "none" /\ WrongVerdict(Target(p)) = "none"
          BY <4>2, BlameLeavesTrace DEF Overrule
        <5>2. CASE file[Target(p)].state = "absent"
          BY <5>1, <5>2 DEF Free
        <5>3. CASE file[Target(p)].state # "absent"
          BY <4>2, <5>1, <5>3, CleanVerdict, TargetIsFile
        <5>4. QED
          BY <5>1, <5>2, <5>3
      <4>3. QED
        BY <2>3, <4>1, <4>2 DEF Judge
    <3>2. WritersAreAlone' /\ WritersHoldLock' /\ HandlesAreInUse'
      BY <2>3, <3>1
         DEF Judge, Refused, Overrule, LockInv, WritersAreAlone, WritersHoldLock, HandlesAreInUse
    <3>3. OwnedLocksNameOwner' /\ LocksNameOwners'
      BY <2>3, <3>1
         DEF Judge, Refused, Overrule, LockInv, OwnedLocksNameOwner, LocksNameOwners
    <3>4. HeartbeatsKeepPid' /\ DecisionsAreSound'
      BY <2>3, <3>1
         DEF Judge, Refused, Overrule, LockInv, HeartbeatsKeepPid, DecisionsAreSound
    <3>5. QED
      BY <3>2, <3>3, <3>4 DEF LockInv
  <2>4. ASSUME NEW p \in Proc, Open(p) PROVE LockInv'
    <3>1. breach = "none" /\ Free(Target(p))
      BY <2>4, BlameLeavesTrace DEF Open, LockInv, DecisionsAreSound
    <3>a. \A q \in Proc : ~Owns(q, Target(p)) /\ ~Writing(q, Target(p))
      BY <3>1, FreeHasNoOwner, TargetIsFile
    <3>2. WritersAreAlone' /\ WritersHoldLock' /\ HandlesAreInUse'
      BY <2>4, <3>1, TargetIsFile, <3>a
         DEF Open, Truncate, Torn, LockInv, WritersAreAlone, WritersHoldLock, HandlesAreInUse
    <3>3. OwnedLocksNameOwner' /\ LocksNameOwners'
      BY <2>4, <3>1, TargetIsFile, <3>a
         DEF Open, Truncate, Torn, LockInv, OwnedLocksNameOwner, LocksNameOwners
    <3>4. HeartbeatsKeepPid' /\ DecisionsAreSound'
      BY <2>4, <3>1, TargetIsFile, <3>a
         DEF Open, Truncate, Torn, LockInv, HeartbeatsKeepPid, DecisionsAreSound
    <3>5. QED
      BY <3>2, <3>3, <3>4 DEF LockInv
  <2>5. ASSUME NEW p \in Proc, Write(p) PROVE LockInv'
    <3>1. /\ breach = "none"
          /\ file' = [file EXCEPT ![Target(p)] = Payload(p)]
          /\ \A q \in Proc : q # p => ~Owns(q, Target(p)) /\ ~Writing(q, Target(p))
      BY <2>5, TargetIsFile, SMTT(40)
         DEF Write, WriteThrough, LockInv, OwnedLocksNameOwner, WritersAreAlone, WritersHoldLock
    <3>2. WritersAreAlone' /\ WritersHoldLock' /\ HandlesAreInUse'
      BY <2>5, <3>1, TargetIsFile, SMTT(40)
         DEF Write, WriteThrough, Payload, LockInv, WritersAreAlone, WritersHoldLock, HandlesAreInUse
    <3>3. OwnedLocksNameOwner' /\ LocksNameOwners'
      BY <2>5, <3>1, TargetIsFile, SMTT(40)
         DEF Write, WriteThrough, Payload, LockInv, OwnedLocksNameOwner, LocksNameOwners
    <3>4. HeartbeatsKeepPid' /\ DecisionsAreSound'
      BY <2>5, <3>1, TargetIsFile
         DEF Write, WriteThrough, Payload, LockInv, HeartbeatsKeepPid, DecisionsAreSound
    <3>5. QED
      BY <3>2, <3>3, <3>4 DEF LockInv
  <2>6. ASSUME NEW p \in Proc, Undo(p) PROVE LockInv'
    <3>1. breach = "none"
      BY <2>6 DEF Undo
    <3>a. \A q \in Proc : q # p => ~Owns(q, UserLock[p]) /\ ~Writing(q, UserLock[p])
      <4>1. Owns(p, UserLock[p]) /\ ~Writing(p, UserLock[p])
        BY <2>6, LocksAreFiles DEF Undo
      <4>2. QED
        BY <3>1, <4>1, OwnerIsAlone, LocksAreFiles
    <3>2. WritersAreAlone' /\ WritersHoldLock' /\ HandlesAreInUse'
      BY <2>6, <3>1, LocksAreFiles, <3>a
         DEF Undo, Unlink, Absent, LockInv, WritersAreAlone, WritersHoldLock, HandlesAreInUse
    <3>3. OwnedLocksNameOwner' /\ LocksNameOwners'
      BY <2>6, <3>1, LocksAreFiles, <3>a
         DEF Undo, Unlink, Absent, LockInv, OwnedLocksNameOwner, LocksNameOwners
    <3>4. HeartbeatsKeepPid' /\ DecisionsAreSound'
      BY <2>6, <3>1, LocksAreFiles, <3>a
         DEF Undo, Unlink, Absent, LockInv, HeartbeatsKeepPid, DecisionsAreSound
    <3>5. QED
      BY <3>2, <3>3, <3>4 DEF LockInv
  <2>7. ASSUME NEW p \in Proc, StartHeartbeat(p) PROVE LockInv'
    <3>1. breach = "none"
      BY <2>7 DEF StartHeartbeat
    <3>2. WritersAreAlone' /\ WritersHoldLock' /\ HandlesAreInUse'
      BY <2>7, <3>1
         DEF StartHeartbeat, LockInv, WritersAreAlone, WritersHoldLock, HandlesAreInUse
    <3>3. OwnedLocksNameOwner' /\ LocksNameOwners'
      BY <2>7, <3>1
         DEF StartHeartbeat, LockInv, OwnedLocksNameOwner, LocksNameOwners
    <3>4. HeartbeatsKeepPid' /\ DecisionsAreSound'
      BY <2>7, <3>1
         DEF StartHeartbeat, LockInv, HeartbeatsKeepPid, DecisionsAreSound
    <3>5. QED
      BY <3>2, <3>3, <3>4 DEF LockInv
  <2>8. ASSUME NEW p \in Proc, HeartbeatRead(p) PROVE LockInv'
    <3>1. /\ breach = "none"
          /\ file[Target(p)].state = "whole" /\ file[Target(p)].pid = p
      BY <2>8, TargetIsFile DEF HeartbeatRead, LockInv, OwnedLocksNameOwner
    <3>2. WritersAreAlone' /\ WritersHoldLock' /\ HandlesAreInUse'
      BY <2>8, <3>1, TargetIsFile
         DEF HeartbeatRead, NextBeat, LockInv, WritersAreAlone, WritersHoldLock, HandlesAreInUse
    <3>3. OwnedLocksNameOwner' /\ LocksNameOwners'
      BY <2>8, <3>1, TargetIsFile
         DEF HeartbeatRead, NextBeat, LockInv, OwnedLocksNameOwner, LocksNameOwners
    <3>4. HeartbeatsKeepPid' /\ DecisionsAreSound'
      BY <2>8, <3>1, TargetIsFile
         DEF HeartbeatRead, NextBeat, LockInv, HeartbeatsKeepPid, DecisionsAreSound
    <3>5. QED
      BY <3>2, <3>3, <3>4 DEF LockInv
  <2>9. ASSUME NEW p \in Proc, HeartbeatOpen(p) PROVE LockInv'
    <3>1. breach = "none"
      BY <2>9 DEF HeartbeatOpen
    <3>2. WritersAreAlone' /\ WritersHoldLock' /\ HandlesAreInUse'
      BY <2>9, <3>1, OwnerIsAlone, TargetIsFile
         DEF HeartbeatOpen, Truncate, Torn, LockInv, WritersAreAlone, WritersHoldLock, HandlesAreInUse
    <3>3. OwnedLocksNameOwner' /\ LocksNameOwners'
      BY <2>9, <3>1, OwnerIsAlone, TargetIsFile, SMTT(40)
         DEF HeartbeatOpen, Truncate, Torn, LockInv, OwnedLocksNameOwner, LocksNameOwners
    <3>4. HeartbeatsKeepPid' /\ DecisionsAreSound'
      BY <2>9, <3>1, OwnerIsAlone, TargetIsFile
         DEF HeartbeatOpen, Truncate, Torn, LockInv, HeartbeatsKeepPid, DecisionsAreSound
    <3>5. QED
      BY <3>2, <3>3, <3>4 DEF LockInv
  <2>10. ASSUME NEW p \in Proc, HeartbeatWrite(p) PROVE LockInv'
    <3>0. breach = "none" /\ Writing(p, Target(p)) /\ seen[p] = p
      BY <2>10 DEF HeartbeatWrite, LockInv, HeartbeatsKeepPid
    <3>1. /\ breach = "none"
          /\ file' = [file EXCEPT ![Target(p)] = Payload(p)]
          /\ \A q \in Proc : q # p => ~Owns(q, Target(p)) /\ ~Writing(q, Target(p))
      <4>1. p \in writers[Target(p)] /\ file[Target(p)].state = "torn"
        BY <3>0, TargetIsFile DEF LockInv, WritersHoldLock
      <4>2. \A q \in Proc : q # p => ~Writing(q, Target(p))
        BY <3>0, TargetIsFile DEF LockInv, WritersAreAlone
      <4>3. \A q \in Proc : q # p => ~Owns(q, Target(p))
        BY <3>0, <4>1, <4>2, TargetIsFile DEF LockInv, OwnedLocksNameOwner
      <4>4. QED
        BY <2>10, <3>0, <4>1, <4>2, <4>3 DEF HeartbeatWrite, WriteThrough
    <3>2. WritersAreAlone' /\ WritersHoldLock' /\ HandlesAreInUse'
      BY <2>10, <3>1, TargetIsFile, SMTT(40)
         DEF HeartbeatWrite, WriteThrough, NextBeat, Payload, LockInv, WritersAreAlone, WritersHoldLock, HandlesAreInUse
    <3>3. OwnedLocksNameOwner' /\ LocksNameOwners'
      BY <2>10, <3>1, TargetIsFile, SMTT(40)
         DEF HeartbeatWrite, WriteThrough, NextBeat, Payload, LockInv, OwnedLocksNameOwner, LocksNameOwners
    <3>4. HeartbeatsKeepPid' /\ DecisionsAreSound'
      BY <2>10, <3>1, TargetIsFile
         DEF HeartbeatWrite, WriteThrough, NextBeat, Payload, LockInv, HeartbeatsKeepPid, DecisionsAreSound
    <3>5. QED
      BY <3>2, <3>3, <3>4 DEF LockInv
  <2>11. ASSUME NEW p \in Proc, Finish(p) PROVE LockInv'
    <3>1. breach = "none"
      BY <2>11 DEF Finish
    <3>2. WritersAreAlone' /\ WritersHoldLock' /\ HandlesAreInUse'
      BY <2>11, <3>1
         DEF Finish, LockInv, WritersAreAlone, WritersHoldLock, HandlesAreInUse
    <3>3. OwnedLocksNameOwner' /\ LocksNameOwners'
      BY <2>11, <3>1
         DEF Finish, LockInv, OwnedLocksNameOwner, LocksNameOwners
    <3>4. HeartbeatsKeepPid' /\ DecisionsAreSound'
      BY <2>11, <3>1
         DEF Finish, LockInv, HeartbeatsKeepPid, DecisionsAreSound
    <3>5. QED
      BY <3>2, <3>3, <3>4 DEF LockInv
  <2>12. ASSUME NEW p \in Proc, Release(p) PROVE LockInv'
    <3>1. breach = "none"
      BY <2>12 DEF Release
    <3>a. /\ Owns(p, Target(p)) /\ ~Writing(p, Target(p))
          /\ \A q \in Proc : q # p => ~Owns(q, Target(p)) /\ ~Writing(q, Target(p))
      BY <2>12, <3>1, OwnerIsAlone, TargetIsFile DEF Release
    <3>2. WritersAreAlone' /\ WritersHoldLock' /\ HandlesAreInUse'
      BY <2>12, <3>1, TargetIsFile, UserAndRepoLocksDiffer, <3>a
         DEF Release, Unlink, Absent, LockInv, WritersAreAlone, WritersHoldLock, HandlesAreInUse
    <3>3. OwnedLocksNameOwner'
      BY <2>12, <3>1, TargetIsFile, UserAndRepoLocksDiffer, <3>a
         DEF Release, Unlink, Absent, LockInv, OwnedLocksNameOwner
    <3>4. LocksNameOwners' /\ HeartbeatsKeepPid' /\ DecisionsAreSound'
      BY <2>12, <3>1, TargetIsFile, UserAndRepoLocksDiffer, <3>a
         DEF Release, Unlink, Absent, LockInv, LocksNameOwners, HeartbeatsKeepPid, DecisionsAreSound
    <3>5. QED
      BY <3>2, <3>3, <3>4 DEF LockInv
  <2>13. ASSUME NEW p \in Proc, Die(p) PROVE LockInv'
    <3>1. /\ breach = "none"
          /\ \A f \in File : /\ file'[f].state = file[f].state
                             /\ file'[f].pid = Bury(p, file[f].pid)
                             /\ writers'[f] = writers[f] \ {p}
          /\ pc'[p] = "idle" /\ at'[p] = "user"
          /\ \A q \in Proc : q # p => /\ pc'[q] = pc[q] /\ at'[q] = at[q]
                                      /\ seen'[q] = Bury(p, seen[q]) /\ basis'[q] = basis[q]
      BY <2>13 DEF Die, Content
    <3>2. WritersAreAlone' /\ WritersHoldLock' /\ HandlesAreInUse'
      BY <3>1, MarkersAreNoProcess
         DEF Bury, LockInv, WritersAreAlone, WritersHoldLock, HandlesAreInUse
    <3>3. OwnedLocksNameOwner' /\ LocksNameOwners'
      BY <3>1, MarkersAreNoProcess
         DEF Bury, LockInv, OwnedLocksNameOwner, LocksNameOwners
    <3>4. HeartbeatsKeepPid' /\ DecisionsAreSound'
      BY <3>1, MarkersAreNoProcess
         DEF Bury, LockInv, HeartbeatsKeepPid, DecisionsAreSound
    <3>5. QED
      BY <3>2, <3>3, <3>4 DEF LockInv
  <2>14. ASSUME NEW f \in File, Expire(f) PROVE LockInv'
    <3>1. breach = "none"
      BY <2>14 DEF Expire
    <3>2. WritersAreAlone' /\ WritersHoldLock' /\ HandlesAreInUse'
      BY <2>14, <3>1
         DEF Expire, LockInv, WritersAreAlone, WritersHoldLock, HandlesAreInUse
    <3>3. OwnedLocksNameOwner' /\ LocksNameOwners'
      BY <2>14, <3>1
         DEF Expire, LockInv, OwnedLocksNameOwner, LocksNameOwners
    <3>4. HeartbeatsKeepPid' /\ DecisionsAreSound'
      BY <2>14, <3>1
         DEF Expire, LockInv, HeartbeatsKeepPid, DecisionsAreSound
    <3>5. QED
      BY <3>2, <3>3, <3>4 DEF LockInv
  <2>15. ASSUME NEW f \in File, DoctorLook(f) PROVE LockInv'
    <3>1. breach = "none"
      BY <2>15, BlameLeavesTrace DEF DoctorLook
    <3>2. WritersAreAlone' /\ WritersHoldLock' /\ HandlesAreInUse'
      BY <2>15, <3>1
         DEF DoctorLook, LockInv, WritersAreAlone, WritersHoldLock, HandlesAreInUse
    <3>3. OwnedLocksNameOwner' /\ LocksNameOwners'
      BY <2>15, <3>1
         DEF DoctorLook, LockInv, OwnedLocksNameOwner, LocksNameOwners
    <3>4. HeartbeatsKeepPid' /\ DecisionsAreSound'
      BY <2>15, <3>1
         DEF DoctorLook, LockInv, HeartbeatsKeepPid, DecisionsAreSound
    <3>5. QED
      BY <3>2, <3>3, <3>4 DEF LockInv
  <2>16. CASE DoctorClear
    <3>1. breach = "none" /\ doctor \in File /\ Free(doctor)
      BY <2>16, BlameLeavesTrace DEF DoctorClear
    <3>a. \A q \in Proc : ~Owns(q, doctor) /\ ~Writing(q, doctor)
      BY <3>1, FreeHasNoOwner
    <3>2. WritersAreAlone' /\ WritersHoldLock' /\ HandlesAreInUse'
      BY <2>16, <3>1, <3>a
         DEF DoctorClear, Unlink, Absent, LockInv, WritersAreAlone, WritersHoldLock, HandlesAreInUse
    <3>3. OwnedLocksNameOwner' /\ LocksNameOwners'
      BY <2>16, <3>1, <3>a
         DEF DoctorClear, Unlink, Absent, LockInv, OwnedLocksNameOwner, LocksNameOwners
    <3>4. HeartbeatsKeepPid' /\ DecisionsAreSound'
      BY <2>16, <3>1, <3>a
         DEF DoctorClear, Unlink, Absent, LockInv, HeartbeatsKeepPid, DecisionsAreSound
    <3>5. QED
      BY <3>2, <3>3, <3>4 DEF LockInv
  <2>17. CASE UNCHANGED vars
    <3>1. breach = "none"
      BY <2>17 DEF vars
    <3>2. WritersAreAlone' /\ WritersHoldLock' /\ HandlesAreInUse'
      BY <2>17, <3>1
         DEF vars, LockInv, WritersAreAlone, WritersHoldLock, HandlesAreInUse
    <3>3. OwnedLocksNameOwner' /\ LocksNameOwners'
      BY <2>17, <3>1
         DEF vars, LockInv, OwnedLocksNameOwner, LocksNameOwners
    <3>4. HeartbeatsKeepPid' /\ DecisionsAreSound'
      BY <2>17, <3>1
         DEF vars, LockInv, HeartbeatsKeepPid, DecisionsAreSound
    <3>5. QED
      BY <3>2, <3>3, <3>4 DEF LockInv
  <2>18. QED
    BY <2>1, <2>2, <2>3, <2>4, <2>5, <2>6, <2>7, <2>8, <2>9, <2>10, <2>11, <2>12, <2>13, <2>14, <2>15, <2>16, <2>17
       DEF Next, DreamStep, Acquire, Heartbeat
<1>3. QED
  BY <1>1, <1>2, TypeCorrect, PTL DEF Spec

\* Two runs that hold the same lock are the same run.
LEMMA LockInvExcludes == LockInv => ExclusiveUnlessBreached
<1> SUFFICES ASSUME LockInv, breach = "none" PROVE MutualExclusion
  BY DEF ExclusiveUnlessBreached
<1>1. ASSUME NEW p \in Proc, NEW q \in Proc, NEW f \in File, Owns(p, f), Owns(q, f)
      PROVE  p = q
  <2>1. CASE Writing(p, f) \/ Writing(q, f)
    BY <1>1, <2>1 DEF LockInv, OwnedLocksNameOwner, WritersHoldLock, WritersAreAlone
  <2>2. CASE ~Writing(p, f) /\ ~Writing(q, f)
    BY <1>1, <2>2 DEF LockInv, OwnedLocksNameOwner
  <2>3. QED
    BY <2>1, <2>2
<1>2. \A p \in Proc : Running(p) => Owns(p, UserLock[p]) /\ Owns(p, RepoLock[p])
  BY DEF Owns
<1>3. QED
  BY <1>1, <1>2, LocksAreFiles DEF MutualExclusion

\* Two dream runs with a lock in common never overlap before a breach, whatever
\* the number of processes, homes and repositories.
THEOREM ExclusionHolds == Spec => []ExclusiveUnlessBreached
  BY LockInvExcludes, LockInvariant, PTL

\* A lock that names a live process is held by it: refused and finished runs
\* leave no lock behind.
THEOREM NoLockLeaks == Spec => []NoLeakedLock
<1>1. LockInv => NoLeakedLock
  BY DEF LockInv, NoLeakedLock
<1>2. QED
  BY <1>1, LockInvariant, PTL

\* No step takes a lock away from the live process that holds it.
THEOREM LiveLocksKept == Spec => LiveLocksRespected
<1> DEFINE Kept == \A f \in File, p \in Proc :
                     /\ breach' = "none"
                     /\ Owns(p, f) /\ Owns(p, f)'
                     => file'[f].state # "absent" /\ (file'[f].state = "torn" => p \in writers'[f])
<1>1. LockInv' => Kept
  <2> SUFFICES ASSUME LockInv', breach' = "none", NEW f \in File, NEW p \in Proc, Owns(p, f)'
               PROVE  file'[f].state # "absent" /\ (file'[f].state = "torn" => p \in writers'[f])
    OBVIOUS
  <2>1. CASE Writing(p, f)'
    BY <2>1 DEF LockInv, WritersHoldLock
  <2>2. CASE ~Writing(p, f)'
    BY <2>2 DEF LockInv, OwnedLocksNameOwner
  <2>3. QED
    BY <2>1, <2>2
<1>2. QED
  BY <1>1, LockInvariant, PTL DEF LiveLocksRespected

\* The lock files implement turn-taking between runs: every system call is a
\* start, a stop, a recorded breach or invisible.
THEOREM LocksTakeTurns == Spec => ImplementsExclusion
<1> DEFINE Runs == {p \in Proc : Running(p)}
<1>1. Init => Exclusion!Init
  BY DEF Init, Exclusion!Init, Running, RunSteps
<1>2. TypeOK /\ LockInv /\ TypeOK' /\ LockInv' /\ [Next]_vars
        => [Exclusion!Next]_Exclusion!vars
  <2> SUFFICES ASSUME TypeOK, LockInv, TypeOK', LockInv', [Next]_vars
               PROVE  [Exclusion!Next]_Exclusion!vars
    OBVIOUS
  <2>1. ASSUME Runs' = Runs PROVE [Exclusion!Next]_Exclusion!vars
    <3>1. breach # "none" => breach' # "none"
      BY DEF Next, DreamStep, vars, Try, Acquire, Probe, Judge, Refused, Overrule, Open, Write,
             Undo, StartHeartbeat, Heartbeat, HeartbeatRead, HeartbeatOpen, HeartbeatWrite,
             Finish, Release, Die, Expire, DoctorLook, DoctorClear, Blame
    <3>2. CASE breach = "none" /\ breach' # "none"
      BY <2>1, <3>2 DEF Exclusion!Next, Exclusion!Break
    <3>3. CASE (breach = "none") = (breach' = "none")
      BY <2>1, <3>3 DEF Exclusion!vars
    <3>4. QED
      BY <3>1, <3>2, <3>3
  <2>2. ASSUME NEW p \in Proc, Running(p), ~Running(p)', Runs' = Runs \ {p}, UNCHANGED breach
        PROVE  Exclusion!Next
    BY <2>2 DEF Exclusion!Next, Exclusion!Stop
  <2>3. ASSUME NEW p \in Proc, ~Running(p), Runs' = Runs \union {p}, UNCHANGED breach
        PROVE  Exclusion!Next
    <3>1. breach = "none" => \A q \in Runs : ~Exclusion!Conflict(p, q)
      <4>1. ExclusiveUnlessBreached'
        BY LockInvExcludes, PTL
      <4>2. QED
        BY <2>3, <4>1 DEF ExclusiveUnlessBreached, MutualExclusion, Exclusion!Conflict
    <3>2. QED
      BY <2>3, <3>1 DEF Exclusion!Next, Exclusion!Start
  <2> USE DEF TypeOK, Running, RunSteps, AcquireSteps
  <2>4. ASSUME NEW p \in Proc, Die(p) \/ Finish(p) PROVE [Exclusion!Next]_Exclusion!vars
    <3>1. UNCHANGED breach /\ pc'[p] \in {"idle", "free"}
          /\ \A q \in Proc : q # p => pc'[q] = pc[q]
      BY <2>4 DEF Die, Finish
    <3>2. Runs' = Runs \ {p}
      BY <3>1
    <3>3. CASE Running(p)
      BY <2>2, <3>1, <3>2, <3>3
    <3>4. CASE ~Running(p)
      BY <2>1, <3>2, <3>4
    <3>5. QED
      BY <3>3, <3>4
  <2>5. ASSUME NEW p \in Proc, Write(p) PROVE [Exclusion!Next]_Exclusion!vars
    <3>1. /\ UNCHANGED breach /\ ~Running(p)
          /\ pc'[p] \in {"probe", "run"}
          /\ \A q \in Proc : q # p => pc'[q] = pc[q]
      BY <2>5 DEF Write
    <3>2. CASE pc'[p] = "run"
      BY <2>3, <3>1, <3>2
    <3>3. CASE pc'[p] = "probe"
      BY <2>1, <3>1, <3>3
    <3>4. QED
      BY <3>1, <3>2, <3>3
  <2>6. ASSUME NEW p \in Proc,
               Try(p) \/ Probe(p) \/ Judge(p) \/ Open(p) \/ Undo(p) \/ Release(p)
        PROVE  Runs' = Runs
    BY <2>6 DEF Try, Probe, Judge, Refused, Overrule, Open, Undo, Release
  <2>7. ASSUME NEW p \in Proc, StartHeartbeat(p) \/ Heartbeat(p) PROVE Runs' = Runs
    BY <2>7 DEF StartHeartbeat, Heartbeat, HeartbeatRead, NextBeat, HeartbeatOpen, HeartbeatWrite
  <2>8. ASSUME UNCHANGED pc PROVE Runs' = Runs
    BY <2>8
  <2>9. QED
    BY <2>1, <2>4, <2>5, <2>6, <2>7, <2>8
       DEF Next, DreamStep, Acquire, Expire, DoctorLook, DoctorClear, vars
<1>3. QED
  BY <1>1, <1>2, TypeCorrect, LockInvariant, PTL DEF Spec, ImplementsExclusion, Exclusion!Spec
=============================================================================
