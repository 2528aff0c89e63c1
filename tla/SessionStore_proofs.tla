------------------------ MODULE SessionStore_proofs ------------------------
(***************************************************************************)
(* What SessionStore guarantees for any sessions, turns and processes.     *)
(***************************************************************************)
EXTENDS SessionStore, TLAPS

\* The steps at which a call has a session and its text in memory.
TextSteps == {"openLog", "writeLog", "openHeld", "writeHeld",
              "openRelease", "writeRelease", "commit", "drop"}

\* No call is a job, and no records are records.
LEMMA Blanks == NoRecords \in Records /\ NoJob \in Job
<1>1. NoRecords \in Records
  BY DEF NoRecords, Records, Content
<1> QED
  BY <1>1 DEF NoJob, Job

\* The fields of a job.
LEMMA JobParts ==
  ASSUME NEW j \in Job
  PROVE  /\ j.s \in Session \union {Absent}
         /\ j.text \in Records
         /\ j.due \subseteq Session
         /\ j.names \subseteq Session
  BY DEF Job

\* A call begins with a well-formed job.
LEMMA BeginTypes ==
  ASSUME TypeOK, NEW p \in Proc, NEW step \in Step, NEW s \in Session \union {Absent},
         NEW text \in Records, NEW due \in SUBSET Session, Begin(p, step, s, text, due),
         step \in TextSteps => s \in Session /\ text[s] # Absent
  PROVE  /\ pc' \in [Proc -> Step]
         /\ job' \in [Proc -> Job]
         /\ \A q \in Proc : pc'[q] \in TextSteps
              => job'[q].s \in Session /\ job'[q].text[job'[q].s] # Absent
<1>1. [s |-> s, text |-> text, due |-> due, names |-> {}] \in Job
  BY DEF Job
<1> QED
  BY <1>1 DEF Begin, TypeOK, TextSteps

\* A call that ends, or goes on with the same job, leaves well-formed jobs.
LEMMA EndTypes ==
  ASSUME TypeOK, NEW p \in Proc, End(p)
  PROVE  /\ pc' \in [Proc -> Step]
         /\ job' \in [Proc -> Job]
         /\ \A q \in Proc : pc'[q] \in TextSteps
              => job'[q].s \in Session /\ job'[q].text[job'[q].s] # Absent
         /\ staleGz' \subseteq Proc
  BY Blanks DEF End, TypeOK, TextSteps, Step

\* Replacing one record keeps records records.
LEMMA RecordUpdate ==
  ASSUME NEW r \in Records, NEW s \in Session, NEW c \in Content
  PROVE  [r EXCEPT ![s] = c] \in Records
  BY DEF Records

\* The ghost of a change of a log is well-formed.
LEMMA LogChangedType ==
  ASSUME TypeOK, NEW p \in Proc, NEW s \in Session
  PROVE  LogChanged(p, s) \in [Proc -> SUBSET Session]
  BY DEF LogChanged, TypeOK

\* Blaming names a kind of breach.
LEMMA BlameType ==
  ASSUME TypeOK, NEW bad \in BOOLEAN, NEW kind \in Breaches, Blame(bad, kind)
  PROVE  breach' \subseteq Breaches
  BY DEF Blame, TypeOK

\* Type correctness: whatever calls of whatever processes overlap or crash, files
\* and calls keep their form, and a call past its start has a session and its text.
THEOREM TypeCorrect == Spec => []TypeOK
<1>1. Init => TypeOK
  <2> SUFFICES ASSUME Init PROVE TypeOK
    OBVIOUS
  <2>1. log \in Records /\ gz \in Records /\ held \in Records
    BY Blanks DEF Init
  <2>2. pc \in [Proc -> Step] /\ \A p \in Proc : pc[p] = "idle"
    BY DEF Init, Step
  <2>3. job \in [Proc -> Job]
    BY Blanks DEF Init
  <2>4. crashes \in 0 .. MaxCrashes
    BY CrashesAreBounded DEF Init
  <2>5. staleLogs \in [Proc -> SUBSET Session]
    BY DEF Init
  <2>6. kept \in [Session -> SUBSET Event]
    BY DEF Init
  <2> QED
    BY <2>1, <2>2, <2>3, <2>4, <2>5, <2>6 DEF Init, TypeOK
<1>2. TypeOK /\ [Next]_vars => TypeOK'
  <2> SUFFICES ASSUME TypeOK, [Next]_vars PROVE TypeOK'
    OBVIOUS
  <2> USE DEF Held, disk, work, promises, LogWriters, HeldWriters, GzWriters, IndexWriters, Others
  <2>1. ASSUME NEW p \in Proc, NEW s \in Session, NEW text \in SUBSET Event, Store(p, s, text) PROVE TypeOK'
    <3> USE <2>1
    <3> DEFINE first == IF text \intersect (Binary \union Unsafe) = {} THEN "openLog" ELSE "openHeld"
    <3>1. [NoRecords EXCEPT ![s] = text] \in Records /\ first \in Step
      BY Blanks, RecordUpdate DEF Content, Step
    <3>2. [NoRecords EXCEPT ![s] = text][s] # Absent
      BY Blanks, MarkersAreNoFiles DEF Records
    <3>3. Begin(p, first, s, [NoRecords EXCEPT ![s] = text], {})
      BY DEF Store
    <3>4. /\ pc' \in [Proc -> Step]
          /\ job' \in [Proc -> Job]
          /\ \A q \in Proc : pc'[q] \in TextSteps
               => job'[q].s \in Session /\ job'[q].text[job'[q].s] # Absent
      <4> DEFINE mine == [NoRecords EXCEPT ![s] = text]
      <4>1. s \in Session \union {Absent} /\ {} \in SUBSET Session
        OBVIOUS
      <4>2. mine \in Records /\ mine[s] # Absent /\ Begin(p, first, s, mine, {})
        BY <3>1, <3>2, <3>3
      <4> HIDE DEF first, mine
      <4> QED
        BY <3>1, <4>1, <4>2, BeginTypes
    <3> QED
      BY <3>4 DEF Store, TypeOK, TextSteps
  <2>2. ASSUME NEW p \in Proc, NEW step, NEW next, TruncateLog(p, step, next), <<step, next>> \in {<<"openLog", "writeLog">>, <<"openRelease", "writeRelease">>} PROVE TypeOK'
    <3> USE <2>2
    <3>1. step \in TextSteps /\ next \in TextSteps /\ next \in Step
      BY DEF TextSteps, Step
    <3>2. job[p].s \in Session /\ job[p].text[job[p].s] # Absent
      BY <3>1 DEF TypeOK, TruncateLog, TextSteps
    <3>3. log' \in Records
      BY <3>2, RecordUpdate DEF TypeOK, TruncateLog, Content
    <3>4. staleLogs' \in [Proc -> SUBSET Session]
      BY <3>2, LogChangedType DEF TruncateLog
    <3>5. breach' \subseteq Breaches
      BY DEF TruncateLog, Blame, TypeOK, Breaches
    <3> QED
      BY <3>1, <3>2, <3>3, <3>4, <3>5 DEF TruncateLog, Goto, TypeOK, TextSteps, Step
  <2>3. ASSUME NEW p \in Proc, WriteLog(p) PROVE TypeOK'
    <3> USE <2>3
    <3>1. job[p].s \in Session /\ job[p].text \in Records /\ job[p].text[job[p].s] \in SUBSET Event
      BY JobParts DEF TypeOK, WriteLog, Records, Content
    <3>2. log' \in Records
      BY <3>1, RecordUpdate DEF TypeOK, WriteLog, Content
    <3>3. staleLogs' \in [Proc -> SUBSET Session]
      BY <3>1, LogChangedType DEF WriteLog
    <3>4. kept' \in [Session -> SUBSET Event]
      BY <3>1 DEF WriteLog, TypeOK
    <3> QED
      BY <3>2, <3>3, <3>4, EndTypes DEF WriteLog, TypeOK, TextSteps
  <2>4. ASSUME NEW p \in Proc, OpenHeld(p) PROVE TypeOK'
    <3> USE <2>4
    <3>1. job[p].s \in Session
      BY DEF TypeOK, OpenHeld
    <3>2. held' \in Records
      BY <3>1, RecordUpdate DEF TypeOK, OpenHeld, Content
    <3> QED
      BY <3>1, <3>2 DEF OpenHeld, Goto, TypeOK, Step
  <2>5. ASSUME NEW p \in Proc, WriteHeld(p) PROVE TypeOK'
    <3> USE <2>5
    <3>1. job[p].s \in Session /\ job[p].text \in Records /\ job[p].text[job[p].s] \in SUBSET Event
      BY JobParts DEF TypeOK, WriteHeld, Records, Content
    <3>2. held' \in Records
      BY <3>1, RecordUpdate DEF TypeOK, WriteHeld, Content
    <3> QED
      BY <3>2, EndTypes DEF WriteHeld, TypeOK, TextSteps
  <2>6. ASSUME NEW p \in Proc, NEW s \in Session, Release(p, s) PROVE TypeOK'
    <3> USE <2>6
    <3>1. held[s] \in SUBSET Event
      BY DEF Release, TypeOK, Records, Content
    <3>2. [NoRecords EXCEPT ![s] = held[s]] \in Records /\ [NoRecords EXCEPT ![s] = held[s]][s] # Absent
      BY <3>1, Blanks, RecordUpdate DEF Release, Content, Records
    <3>3. /\ pc' \in [Proc -> Step]
          /\ job' \in [Proc -> Job]
          /\ \A q \in Proc : pc'[q] \in TextSteps
               => job'[q].s \in Session /\ job'[q].text[job'[q].s] # Absent
      <4>1. "openRelease" \in Step
        BY DEF Step
      <4> QED
        BY <4>1, <3>2, BeginTypes DEF Release
    <3> QED
      BY <3>1, <3>3 DEF Release, TypeOK, TextSteps
  <2>7. ASSUME NEW p \in Proc, WriteRelease(p) PROVE TypeOK'
    <3> USE <2>7
    <3>1. job[p].s \in Session /\ job[p].text \in Records /\ job[p].text[job[p].s] \in SUBSET Event
      BY JobParts DEF TypeOK, WriteRelease, Records, Content
    <3>2. log' \in Records
      BY <3>1, RecordUpdate DEF TypeOK, WriteRelease, Content
    <3>3. staleLogs' \in [Proc -> SUBSET Session]
      BY <3>1, LogChangedType DEF WriteRelease
    <3>4. kept' \in [Session -> SUBSET Event]
      BY <3>1 DEF WriteRelease, TypeOK
    <3> QED
      BY <3>1, <3>2, <3>3, <3>4 DEF WriteRelease, Goto, TypeOK, Step
  <2>8. ASSUME NEW p \in Proc, CommitSucceeds(p) PROVE TypeOK'
    BY <2>8 DEF CommitSucceeds, Goto, TypeOK, Step
  <2>9. ASSUME NEW p \in Proc, CommitFails(p) PROVE TypeOK'
    <3> USE <2>9
    <3>1. job[p].s \in Session
      BY DEF TypeOK, CommitFails
    <3>2. log' \in Records
      BY <3>1, RecordUpdate DEF TypeOK, CommitFails, Content
    <3>3. staleLogs' \in [Proc -> SUBSET Session]
      BY <3>1, LogChangedType DEF CommitFails
    <3>4. kept' \in [Session -> SUBSET Event]
      BY <3>1 DEF CommitFails, TypeOK
    <3>5. breach' \subseteq Breaches
      BY DEF CommitFails, Blame, TypeOK, Breaches
    <3> QED
      BY <3>2, <3>3, <3>4, <3>5, EndTypes DEF CommitFails, TypeOK, TextSteps
  <2>10. ASSUME NEW p \in Proc, DropHeld(p) PROVE TypeOK'
    <3> USE <2>10
    <3>1. job[p].s \in Session
      BY DEF TypeOK, DropHeld
    <3>2. held' \in Records
      BY <3>1, RecordUpdate DEF TypeOK, DropHeld, Content
    <3> QED
      BY <3>1, <3>2, EndTypes DEF DropHeld, TypeOK, TextSteps
  <2>11. ASSUME NEW p \in Proc, NEW s \in Session, Discard(p, s) PROVE TypeOK'
    <3> USE <2>11
    <3>1. held' \in Records
      BY RecordUpdate DEF TypeOK, Discard, Content
    <3> QED
      BY <3>1 DEF Discard, TypeOK
  <2>12. ASSUME NEW p \in Proc, NEW due \in SUBSET Session, Archive(p, due) PROVE TypeOK'
    <3> USE <2>12
    <3>1. [s \in Session |-> IF s \in due THEN log[s] ELSE Absent] \in Records
      BY DEF TypeOK, Records, Content
    <3>2. /\ pc' \in [Proc -> Step]
          /\ job' \in [Proc -> Job]
          /\ \A q \in Proc : pc'[q] \in TextSteps
               => job'[q].s \in Session /\ job'[q].text[job'[q].s] # Absent
      <4>1. "readGz" \in Step /\ "readGz" \notin TextSteps
        BY DEF Step, TextSteps
      <4> HIDE DEF Held
      <4> QED
        BY <4>1, <3>1, BeginTypes DEF Archive
    <3> QED
      BY <3>2 DEF Archive, TypeOK, TextSteps
  <2>13. ASSUME NEW p \in Proc, ReadGz(p) PROVE TypeOK'
    <3> USE <2>13
    <3>1. Merged(job[p].due, job[p].text) \in Records
      BY JobParts DEF Merged, TypeOK, Records
    <3>2. job' \in [Proc -> Job] /\ \A q \in Proc \ {p} : job'[q] = job[q]
      BY <3>1, SMTT(40) DEF ReadGz, TypeOK, Job
    <3> QED
      BY <3>2 DEF ReadGz, Goto, TypeOK, Step
  <2>14. ASSUME NEW p \in Proc, ReadGzRaises(p) PROVE TypeOK'
    <3> USE <2>14
    <3> QED
      BY EndTypes DEF ReadGzRaises, TypeOK, TextSteps
  <2>15. ASSUME NEW p \in Proc, OpenGz(p) PROVE TypeOK'
    <3> USE <2>15
    <3>1. breach' \subseteq Breaches
      BY DEF OpenGz, TypeOK, Breaches
    <3>2. kept' \in [Session -> SUBSET Event]
      BY DEF OpenGz, TypeOK
    <3>3. pc' \in [Proc -> Step] /\ pc'[p] \in {"openIndex", "writeGz"} /\ torn' \in BOOLEAN /\ orphan' \subseteq Proc
      BY DEF OpenGz, Goto, TypeOK, Step
    <3>4. \A q \in Proc \ {p} : pc'[q] = pc[q]
      BY DEF OpenGz, Goto, TypeOK
    <3> QED
      BY <3>1, <3>2, <3>3, <3>4, Blanks DEF OpenGz, TypeOK
  <2>16. ASSUME NEW p \in Proc, WriteGz(p) PROVE TypeOK'
    <3> USE <2>16
    <3> QED
      BY JobParts DEF WriteGz, Goto, TypeOK, Step
  <2>17. ASSUME NEW p \in Proc, OpenIndex(p) PROVE TypeOK'
    <3> USE <2>17
    <3>1. job' \in [Proc -> Job] /\ \A q \in Proc \ {p} : job'[q] = job[q]
      BY DEF OpenIndex, TypeOK, Job
    <3>2. breach' \subseteq Breaches
      BY DEF OpenIndex, Blame, TypeOK, Breaches
    <3> QED
      BY <3>1, <3>2 DEF OpenIndex, Goto, TypeOK, Step
  <2>18. ASSUME NEW p \in Proc, WriteIndex(p) PROVE TypeOK'
    <3> USE <2>18
    <3>1. breach' \subseteq Breaches
      BY DEF WriteIndex, Blame, TypeOK, Breaches
    <3>2. index' \in {Absent, Torn} \union SUBSET Session
      BY JobParts DEF WriteIndex, TypeOK
    <3>3. CASE job[p].s = Absent
      BY <3>1, <3>2, <3>3 DEF WriteIndex, Goto, TypeOK, Step
    <3>4. CASE job[p].s # Absent
      <4>1. job[p].s \in Session
        BY <3>4, JobParts DEF TypeOK
      <4> QED
        BY <3>1, <3>2, <3>4, <4>1, EndTypes DEF WriteIndex, TypeOK, TextSteps
    <3> QED
      BY <3>3, <3>4
  <2>19. ASSUME NEW p \in Proc, NEW s \in Session, UnlinkLog(p, s) PROVE TypeOK'
    <3> USE <2>19
    <3>1. log' \in Records
      BY RecordUpdate DEF TypeOK, UnlinkLog, Content
    <3>2. breach' \subseteq Breaches
      BY DEF UnlinkLog, Blame, TypeOK, Breaches
    <3>3. staleLogs' \in [Proc -> SUBSET Session]
      BY LogChangedType DEF UnlinkLog
    <3>4. CASE job[p].due = {s}
      BY <3>1, <3>2, <3>3, <3>4, EndTypes DEF UnlinkLog, TypeOK, TextSteps
    <3>5. CASE job[p].due # {s}
      <4>1. job' \in [Proc -> Job] /\ \A q \in Proc \ {p} : job'[q] = job[q]
        BY <3>5 DEF UnlinkLog, TypeOK, Job
      <4> QED
        BY <3>1, <3>2, <3>3, <3>5, <4>1 DEF UnlinkLog, TypeOK
    <3> QED
      BY <3>4, <3>5
  <2>20. ASSUME NEW p \in Proc, NEW s \in Session, PurgeLog(p, s) PROVE TypeOK'
    <3> USE <2>20
    <3>1. log' \in Records
      BY RecordUpdate DEF TypeOK, PurgeLog, Content
    <3>2. breach' \subseteq Breaches
      BY DEF PurgeLog, Blame, TypeOK, Breaches
    <3>3. staleLogs' \in [Proc -> SUBSET Session]
      BY LogChangedType DEF PurgeLog
    <3> QED
      BY <3>1, <3>2, <3>3 DEF PurgeLog, TypeOK
  <2>21. ASSUME NEW p \in Proc, NEW s \in Session, PurgeArchive(p, s) PROVE TypeOK'
    <3> USE <2>21
    <3>1. [gz EXCEPT ![s] = Absent] \in Records
      BY RecordUpdate DEF TypeOK, Content
    <3>2. /\ pc' \in [Proc -> Step]
          /\ job' \in [Proc -> Job]
          /\ \A q \in Proc : pc'[q] \in TextSteps
               => job'[q].s \in Session /\ job'[q].text[job'[q].s] # Absent
      <4>1. "openGz" \in Step /\ "openGz" \notin TextSteps
        BY DEF Step, TextSteps
      <4> QED
        BY <4>1, <3>1, BeginTypes DEF PurgeArchive
    <3> QED
      BY <3>2 DEF PurgeArchive, TypeOK, TextSteps
  <2>22. ASSUME NEW p \in Proc, PurgeIndex(p) PROVE TypeOK'
    <3> USE <2>22
    <3>1. breach' \subseteq Breaches
      BY DEF PurgeIndex, Blame, TypeOK, Breaches
    <3>2. NamesWithout(job[p].s) \subseteq Session
      BY DEF NamesWithout, TypeOK
    <3>3. CASE NamesWithout(job[p].s) # {}
      <4>1. job' \in [Proc -> Job] /\ \A q \in Proc \ {p} : job'[q] = job[q]
        BY <3>2, <3>3, SMTT(40) DEF PurgeIndex, TypeOK, Job
      <4> QED
        BY <3>1, <3>3, <4>1 DEF PurgeIndex, Goto, TypeOK, Step
    <3>4. CASE NamesWithout(job[p].s) = {}
      <4>1. job[p].s \in Session
        BY JobParts DEF TypeOK, PurgeIndex
      <4> QED
        BY <3>1, <3>4, <4>1, EndTypes DEF PurgeIndex, TypeOK, TextSteps
    <3> QED
      BY <3>3, <3>4
  <2>23. ASSUME NEW p \in Proc, Crash(p) PROVE TypeOK'
    <3> USE <2>23
    <3>1. breach' \subseteq Breaches
      BY DEF Crash, Blame, TypeOK, Breaches
    <3>2. crashes' \in 0 .. MaxCrashes
      BY CrashesAreBounded DEF Crash, TypeOK
    <3> QED
      BY <3>1, <3>2, EndTypes DEF Crash, TypeOK, TextSteps
  <2>24. CASE UNCHANGED vars
    BY <2>24 DEF vars, TypeOK
  <2> QED
    <3>1. ASSUME NEW p \in Proc, Recording(p) PROVE TypeOK'
      BY <3>1, <2>1, <2>2, <2>3, <2>4, <2>5 DEF Recording, AppendEvent, Capture, OpenLog, TypeOK, Records, Content
    <3>2. ASSUME NEW p \in Proc, Reviewing(p) PROVE TypeOK'
      BY <3>2, <2>6, <2>11, <2>2, <2>7, <2>8, <2>9, <2>10 DEF Reviewing, OpenRelease
    <3>3. ASSUME NEW p \in Proc, Archiving(p) \/ Purging(p) PROVE TypeOK'
      BY <3>3, <2>12, <2>13, <2>14, <2>15, <2>16, <2>17, <2>18, <2>19, <2>20, <2>21, <2>22 DEF Archiving, Purging
    <3> QED
      BY <3>1, <3>2, <3>3, <2>24, <2>23 DEF Next
<1> QED
  BY <1>1, <1>2, PTL DEF Spec

-----------------------------------------------------------------------------
(* Refusal holds.                                                           *)

\* No unscanned turn, and no binary one that a human has not released.
Fit(c) == Held(c) \intersect Unsafe = {} /\ Held(c) \intersect Binary \subseteq passed

\* The same of what is in memory now, after a step.
FitLater(c) == Held(c) \intersect Unsafe = {} /\ Held(c) \intersect Binary \subseteq passed'

\* The steps at which a call has in memory what it will write to log or archive.
PublishSteps == {"openLog", "writeLog", "openRelease", "writeRelease",
                 "readGz", "openGz", "writeGz"}

\* The invariant: what is on disk is fit, and so is what is about to be written there.
RefusalInv ==
  /\ \A s \in Session : Fit(log[s]) /\ Fit(gz[s])
  /\ \A p \in Proc : pc[p] \in PublishSteps => \A s \in Session : Fit(job[p].text[s])

\* A call that begins with fit records keeps the invariant of the calls.
LEMMA BeginFits ==
  ASSUME TypeOK, RefusalInv, passed \subseteq passed', log' = log, gz' = gz,
         NEW p \in Proc, NEW step \in Step, NEW s \in Session \union {Absent},
         NEW text \in Records, NEW due \in SUBSET Session, Begin(p, step, s, text, due),
         step \in PublishSteps => \A r \in Session : FitLater(text[r])
  PROVE  RefusalInv'
<1>1. \A q \in Proc : pc'[q] = IF q = p THEN step ELSE pc[q]
  BY DEF Begin, TypeOK
<1>2. \A q \in Proc : job'[q].text = IF q = p THEN text ELSE job[q].text
  BY DEF Begin, TypeOK
<1> QED
  BY <1>1, <1>2 DEF RefusalInv, Fit, FitLater

\* A call that goes on: what it puts on disk it had in memory, and what it has in
\* memory it had before or read from disk.
LEMMA StepFits ==
  ASSUME TypeOK, RefusalInv, passed' = passed,
         \A s \in Session : \/ log'[s] \in {log[s], Absent, {}}
                            \/ \E q \in Proc : pc[q] \in PublishSteps /\ log'[s] = job[q].text[s],
         \A s \in Session : \/ gz'[s] \in {gz[s], Absent}
                            \/ \E q \in Proc : pc[q] \in PublishSteps /\ gz'[s] = job[q].text[s],
         \A q \in Proc : pc'[q] \in PublishSteps =>
           /\ pc[q] \in PublishSteps
           /\ \A s \in Session : job'[q].text[s] \in {job[q].text[s], gz[s]}
  PROVE  RefusalInv'
<1>1. \A s \in Session : Fit(log[s])' /\ Fit(gz[s])'
  BY MarkersAreNoFiles DEF RefusalInv, Fit, Held
<1>2. \A q \in Proc : pc'[q] \in PublishSteps => \A s \in Session : Fit(job[q].text[s])'
  BY DEF RefusalInv, Fit
<1> QED
  BY <1>1, <1>2 DEF RefusalInv

\* A call that ends publishes nothing more.
LEMMA EndSteps ==
  ASSUME TypeOK, NEW p \in Proc, End(p)
  PROVE  \A q \in Proc : pc'[q] \in PublishSteps => q # p /\ pc'[q] = pc[q] /\ job'[q] = job[q]
  BY DEF End, TypeOK, PublishSteps

\* Neither log nor archive ever holds an unscanned turn or a binary one that no
\* human released, however appends, captures, releases, archiving, purges and
\* crashes interleave.
THEOREM RefusalsHold == Spec => []RefusalHolds
<1>1. Init => RefusalInv
  BY MarkersAreNoFiles DEF Init, RefusalInv, NoRecords, PublishSteps, Fit, Held
<1>2. TypeOK /\ RefusalInv /\ [Next]_vars => RefusalInv'
  <2> SUFFICES ASSUME TypeOK, RefusalInv, [Next]_vars PROVE RefusalInv'
    OBVIOUS
  <2> USE DEF disk, work, promises
  <2>1. ASSUME NEW p \in Proc, NEW s \in Session, NEW text \in SUBSET Event, Store(p, s, text) PROVE RefusalInv'
    <3> DEFINE first == IF text \intersect (Binary \union Unsafe) = {} THEN "openLog" ELSE "openHeld"
    <3> DEFINE mine == [NoRecords EXCEPT ![s] = text]
    <3>1. mine \in Records /\ first \in Step /\ {} \in SUBSET Session
      BY Blanks, RecordUpdate DEF Content, Step
    <3>2. Begin(p, first, s, mine, {}) /\ passed' = passed /\ log' = log /\ gz' = gz
      BY <2>1 DEF Store
    <3>3. \A r \in Session : mine[r] = IF r = s THEN text ELSE Absent
      BY DEF NoRecords
    <3>4. first \in PublishSteps => text \intersect (Binary \union Unsafe) = {}
      BY DEF PublishSteps
    <3>5. first \in PublishSteps => \A r \in Session : FitLater(mine[r])
      BY <3>2, <3>3, <3>4 DEF FitLater, Fit, Held
    <3> HIDE DEF first, mine
    <3> QED
      BY <3>1, <3>2, <3>5, BeginFits
  <2>2. ASSUME NEW p \in Proc, TruncateLog(p, "openLog", "writeLog") \/ TruncateLog(p, "openRelease", "writeRelease") PROVE RefusalInv'
    <3> USE <2>2
    <3>1. \A r \in Session : log'[r] \in {log[r], {}}
      BY DEF TruncateLog, TypeOK, Records
    <3>2. \A q \in Proc : pc'[q] \in PublishSteps => pc[q] \in PublishSteps
      BY DEF TruncateLog, Goto, TypeOK, PublishSteps
    <3> QED
      BY <3>1, <3>2, StepFits DEF TruncateLog
  <2>3. ASSUME NEW p \in Proc, WriteLog(p) PROVE RefusalInv'
    <3> USE <2>3
    <3>1. \A r \in Session : log'[r] = log[r] \/ log'[r] = job[p].text[r]
      BY DEF WriteLog, TypeOK, Records
    <3>2. pc[p] \in PublishSteps
      BY DEF WriteLog, PublishSteps
    <3> QED
      BY <3>1, <3>2, EndSteps, StepFits DEF WriteLog
  <2>4. ASSUME NEW p \in Proc, OpenHeld(p) PROVE RefusalInv'
    <3>1. \A q \in Proc : pc'[q] \in PublishSteps => pc[q] \in PublishSteps
      BY <2>4 DEF OpenHeld, Goto, TypeOK, PublishSteps
    <3> QED
      BY <2>4, <3>1, StepFits DEF OpenHeld
  <2>5. ASSUME NEW p \in Proc, WriteHeld(p) \/ DropHeld(p) \/ ReadGzRaises(p) \/ Crash(p) PROVE RefusalInv'
    BY <2>5, EndSteps, StepFits DEF WriteHeld, DropHeld, ReadGzRaises, Crash
  <2>6. ASSUME NEW p \in Proc, NEW s \in Session, Release(p, s) PROVE RefusalInv'
    <3> DEFINE mine == [NoRecords EXCEPT ![s] = held[s]]
    <3>1. mine \in Records
      BY Blanks, RecordUpdate DEF TypeOK, Records
    <3>2. "openRelease" \in Step /\ s \in Session \union {Absent} /\ {} \in SUBSET Session
      BY DEF Step
    <3>3. \A r \in Session : mine[r] = IF r = s THEN held[s] ELSE Absent
      BY DEF NoRecords
    <3>4. held[s] # Absent /\ held[s] \intersect Unsafe = {} /\ passed' = passed \union held[s]
      BY <2>6 DEF Release
    <3>5. \A r \in Session : FitLater(mine[r])
      BY <3>3, <3>4 DEF FitLater, Held
    <3>6. Begin(p, "openRelease", s, mine, {}) /\ log' = log /\ gz' = gz
      BY <2>6 DEF Release
    <3> HIDE DEF mine
    <3> QED
      BY <3>1, <3>2, <3>4, <3>5, <3>6, BeginFits
  <2>7. ASSUME NEW p \in Proc, WriteRelease(p) PROVE RefusalInv'
    <3> USE <2>7
    <3>1. \A r \in Session : log'[r] = log[r] \/ log'[r] = job[p].text[r]
      BY DEF WriteRelease, TypeOK, Records
    <3>2. pc[p] \in PublishSteps /\ \A q \in Proc : pc'[q] \in PublishSteps => pc[q] \in PublishSteps
      BY DEF WriteRelease, Goto, TypeOK, PublishSteps
    <3> QED
      BY <3>1, <3>2, StepFits DEF WriteRelease
  <2>8. ASSUME NEW p \in Proc, CommitSucceeds(p) PROVE RefusalInv'
    <3>1. \A q \in Proc : pc'[q] \in PublishSteps => pc[q] \in PublishSteps
      BY <2>8 DEF CommitSucceeds, Goto, TypeOK, PublishSteps
    <3> QED
      BY <2>8, <3>1, StepFits DEF CommitSucceeds
  <2>9. ASSUME NEW p \in Proc, CommitFails(p) PROVE RefusalInv'
    <3>1. \A r \in Session : log'[r] \in {log[r], Absent}
      BY <2>9 DEF CommitFails, TypeOK, Records
    <3> QED
      BY <2>9, <3>1, EndSteps, StepFits DEF CommitFails
  <2>10. ASSUME NEW p \in Proc, NEW s \in Session, Discard(p, s) PROVE RefusalInv'
    BY <2>10, StepFits DEF Discard
  <2>11. ASSUME NEW p \in Proc, NEW due \in SUBSET Session, Archive(p, due) PROVE RefusalInv'
    <3> DEFINE mine == [s \in Session |-> IF s \in due THEN log[s] ELSE Absent]
    <3>1. mine \in Records
      BY DEF TypeOK, Records, Content
    <3>2. "readGz" \in Step /\ Absent \in Session \union {Absent}
      BY DEF Step
    <3>3. passed' = passed /\ log' = log /\ gz' = gz /\ Begin(p, "readGz", Absent, mine, due)
      BY <2>11 DEF Archive
    <3>4. \A r \in Session : FitLater(mine[r])
      BY <3>3 DEF RefusalInv, FitLater, Fit, Held
    <3> HIDE DEF mine
    <3> QED
      BY <3>1, <3>2, <3>3, <3>4, BeginFits
  <2>12. ASSUME NEW p \in Proc, ReadGz(p) PROVE RefusalInv'
    <3> USE <2>12
    <3>1. \A q \in Proc, s \in Session : job'[q].text[s] \in {job[q].text[s], gz[s]}
      BY DEF ReadGz, Merged, TypeOK, Job
    <3>2. \A q \in Proc : pc'[q] \in PublishSteps => pc[q] \in PublishSteps
      BY DEF ReadGz, Goto, TypeOK, PublishSteps
    <3> QED
      BY <3>1, <3>2, StepFits DEF ReadGz
  <2>13. ASSUME NEW p \in Proc, OpenGz(p) PROVE RefusalInv'
    <3> USE <2>13
    <3>1. \A s \in Session : gz'[s] = Absent
      BY DEF OpenGz, NoRecords
    <3>2. \A q \in Proc : pc'[q] \in PublishSteps => pc[q] \in PublishSteps
      BY DEF OpenGz, Goto, TypeOK, PublishSteps
    <3> QED
      BY <3>1, <3>2, StepFits DEF OpenGz
  <2>14. ASSUME NEW p \in Proc, WriteGz(p) PROVE RefusalInv'
    <3> USE <2>14
    <3>1. \A s \in Session : gz'[s] = gz[s] \/ gz'[s] = job[p].text[s]
      BY DEF WriteGz
    <3>2. pc[p] \in PublishSteps /\ \A q \in Proc : pc'[q] \in PublishSteps => pc[q] \in PublishSteps
      BY DEF WriteGz, Goto, TypeOK, PublishSteps
    <3> QED
      BY <3>1, <3>2, StepFits DEF WriteGz
  <2>15. ASSUME NEW p \in Proc, OpenIndex(p) PROVE RefusalInv'
    <3> USE <2>15
    <3>1. \A q \in Proc : pc'[q] \in PublishSteps => pc[q] \in PublishSteps
      BY DEF OpenIndex, Goto, TypeOK, PublishSteps
    <3>2. \A q \in Proc : job'[q].text = job[q].text
      BY DEF OpenIndex, TypeOK, Job
    <3> QED
      BY <3>1, <3>2, StepFits DEF OpenIndex
  <2>16. ASSUME NEW p \in Proc, WriteIndex(p) PROVE RefusalInv'
    <3> USE <2>16
    <3>1. \A q \in Proc : pc'[q] \in PublishSteps => pc[q] \in PublishSteps /\ job'[q] = job[q]
      BY EndSteps DEF WriteIndex, Goto, TypeOK, PublishSteps
    <3> QED
      BY <3>1, StepFits DEF WriteIndex
  <2>17. ASSUME NEW p \in Proc, NEW s \in Session, UnlinkLog(p, s) PROVE RefusalInv'
    <3> USE <2>17
    <3>1. \A r \in Session : log'[r] \in {log[r], Absent}
      BY DEF UnlinkLog, TypeOK, Records
    <3>2. \A q \in Proc : pc'[q] \in PublishSteps => pc[q] \in PublishSteps /\ job'[q] = job[q]
      BY EndSteps DEF UnlinkLog, TypeOK, PublishSteps
    <3> QED
      BY <3>1, <3>2, StepFits DEF UnlinkLog
  <2>18. ASSUME NEW p \in Proc, NEW s \in Session, PurgeLog(p, s) PROVE RefusalInv'
    <3>1. \A r \in Session : log'[r] \in {log[r], Absent}
      BY <2>18 DEF PurgeLog, TypeOK, Records
    <3> QED
      BY <2>18, <3>1, StepFits DEF PurgeLog
  <2>19. ASSUME NEW p \in Proc, NEW s \in Session, PurgeArchive(p, s) PROVE RefusalInv'
    <3> DEFINE mine == [gz EXCEPT ![s] = Absent]
    <3>1. mine \in Records
      BY RecordUpdate DEF TypeOK, Content
    <3>2. "openGz" \in Step /\ s \in Session \union {Absent} /\ {} \in SUBSET Session
      BY DEF Step
    <3>3. passed' = passed /\ log' = log /\ gz' = gz /\ Begin(p, "openGz", s, mine, {})
      BY <2>19 DEF PurgeArchive
    <3>4. \A r \in Session : mine[r] = IF r = s THEN Absent ELSE gz[r]
      BY DEF TypeOK, Records
    <3>5. \A r \in Session : FitLater(mine[r])
      BY <3>3, <3>4 DEF RefusalInv, FitLater, Fit, Held
    <3> HIDE DEF mine
    <3> QED
      BY <3>1, <3>2, <3>3, <3>5, BeginFits
  <2>20. ASSUME NEW p \in Proc, PurgeIndex(p) PROVE RefusalInv'
    <3> USE <2>20
    <3>1. CASE NamesWithout(job[p].s) # {}
      <4>1. \A q \in Proc : job'[q].text = job[q].text
        BY <3>1 DEF PurgeIndex, TypeOK, Job
      <4>2. \A q \in Proc : pc'[q] \in PublishSteps => pc[q] \in PublishSteps
        BY <3>1 DEF PurgeIndex, Goto, TypeOK, PublishSteps
      <4> QED
        BY <4>1, <4>2, StepFits DEF PurgeIndex
    <3>2. CASE NamesWithout(job[p].s) = {}
      BY <3>2, EndSteps, StepFits DEF PurgeIndex
    <3> QED
      BY <3>1, <3>2
  <2>21. CASE UNCHANGED vars
    BY <2>21 DEF vars, RefusalInv, Fit
  <2> QED
    <3>1. ASSUME NEW p \in Proc, Recording(p) PROVE RefusalInv'
      BY <3>1, <2>1, <2>2, <2>3, <2>4, <2>5 DEF Recording, AppendEvent, Capture, OpenLog, TypeOK, Records, Content, Held
    <3>2. ASSUME NEW p \in Proc, Reviewing(p) PROVE RefusalInv'
      BY <3>2, <2>2, <2>5, <2>6, <2>7, <2>8, <2>9, <2>10 DEF Reviewing, OpenRelease
    <3>3. ASSUME NEW p \in Proc, Archiving(p) \/ Purging(p) PROVE RefusalInv'
      BY <3>3, <2>5, <2>11, <2>12, <2>13, <2>14, <2>15, <2>16, <2>17, <2>18, <2>19, <2>20 DEF Archiving, Purging
    <3> QED
      BY <3>1, <3>2, <3>3, <2>5, <2>21 DEF Next
<1>3. RefusalInv => RefusalHolds
  BY DEF RefusalInv, RefusalHolds, Fit
<1> QED
  BY <1>1, <1>2, <1>3, TypeCorrect, PTL DEF Spec

-----------------------------------------------------------------------------
(* No recorded turn is lost, and what is only in the archive is named by    *)
(* its index, as long as no step destroys a file its process has not read.  *)

\* StoreInv in a state without a breach.
AllStored == \A s \in Session : \A e \in kept[s] : Stored(s, e)

Sound ==
  /\ NoOrphans
  /\ LogWriterIsAlone
  /\ LogReadersAreSound
  /\ GzWriterIsAlone
  /\ GzReadersAreSound
  /\ ArchivedBeforeUnlinked
  /\ AllStored

-----------------------------------------------------------------------------
(* What the helpers of the actions do, process by process.                  *)

\* A call begins.
LEMMA BeginFacts ==
  ASSUME TypeOK, NEW p \in Proc, NEW step, NEW s, NEW text, NEW due, Begin(p, step, s, text, due)
  PROVE  /\ pc[p] = "idle"
         /\ pc'[p] = step
         /\ job'[p].s = s /\ job'[p].text = text /\ job'[p].due = due
         /\ \A q \in Proc \ {p} : pc'[q] = pc[q] /\ job'[q] = job[q]
  BY DEF Begin, TypeOK

\* A call goes on.
LEMMA GotoFacts ==
  ASSUME TypeOK, NEW p \in Proc, NEW step, Goto(p, step)
  PROVE  pc'[p] = step /\ \A q \in Proc \ {p} : pc'[q] = pc[q]
  BY DEF Goto, TypeOK

\* A call ends.
LEMMA EndFacts ==
  ASSUME TypeOK, NEW p \in Proc, End(p)
  PROVE  /\ pc'[p] = "idle"
         /\ \A q \in Proc \ {p} : /\ pc'[q] = pc[q] /\ job'[q] = job[q]
                                  /\ q \in staleGz' <=> q \in staleGz
  BY DEF End, TypeOK

\* A changed log is stale for all others that are busy, other logs are not touched.
LEMMA LogChangedFacts ==
  ASSUME TypeOK, NEW p \in Proc, NEW s \in Session
  PROVE  /\ LogChanged(p, s)[p] = staleLogs[p] \ {s}
         /\ \A q \in Proc \ {p} : pc[q] # "idle" => s \in LogChanged(p, s)[q]
         /\ \A q \in Proc : \A r \in Session \ {s} :
              r \in LogChanged(p, s)[q] <=> r \in staleLogs[q]
  BY DEF LogChanged, Others, TypeOK

\* A log that is written is known to be changed, or would be blamed.
LEMMA NoBlame ==
  ASSUME NEW bad \in BOOLEAN, NEW kind, Blame(bad, kind), breach' = {}
  PROVE  breach = {} /\ ~bad
  BY DEF Blame

-----------------------------------------------------------------------------
(* Steps that leave logs, archive and promises alone.                       *)

\* One call moves on: what it relies on from then on has to be sound.
LEMMA OneCallMoves ==
  ASSUME TypeOK, Sound, NEW p \in Proc,
         log' = log, gz' = gz, kept' = kept,
         \A q \in Proc \ {p} : pc'[q] = pc[q] /\ job'[q] = job[q] /\ staleLogs'[q] = staleLogs[q],
         \A q \in Proc \ {p} : q \in staleGz' <=> q \in staleGz,
         orphan' \subseteq Proc,
         \A q \in orphan' : pc'[q] \in {"writeHeld", "writeIndex"},
         pc[p] \notin {"writeLog", "writeGz"},
         pc'[p] \notin {"writeLog", "writeRelease", "writeGz"},
         \A s \in Session : Relies(p, s)' /\ s \notin staleLogs'[p] =>
           /\ \A q \in Proc \ {p} : ~WritesLog(q, s)
           /\ pc'[p] = "openLog" => kept[s] \intersect Held(log[s]) \subseteq Held(job'[p].text[s])
           /\ pc'[p] = "openRelease" => log[s] = Absent
           /\ pc'[p] = "commit" => Held(log[s]) \subseteq Held(job'[p].text[s])
           /\ pc'[p] \in ArchiveSteps => log[s] = job'[p].text[s],
         pc'[p] = "openGz" /\ p \notin staleGz' =>
           /\ \A q \in Proc \ {p} : pc[q] # "writeGz"
           /\ \A s \in Session \ (job'[p].due \union {job'[p].s}) : job'[p].text[s] = gz[s],
         pc'[p] \in {"openIndex", "writeIndex", "unlinkLogs"} =>
           /\ pc[p] \in {"openIndex", "writeIndex"}
           /\ job'[p].due = job[p].due /\ job'[p].text = job[p].text
           /\ staleLogs'[p] = staleLogs[p]
  PROVE  Sound'
<1>1. NoOrphans'
  BY DEF NoOrphans
<1>2. LogWriterIsAlone'
  BY DEF Sound, LogWriterIsAlone, WritesLog, Relies
<1>3. LogReadersAreSound'
  BY DEF Sound, LogReadersAreSound, Relies
<1>4. GzWriterIsAlone'
  BY DEF Sound, GzWriterIsAlone
<1>5. GzReadersAreSound'
  BY DEF Sound, GzReadersAreSound
<1>6. ArchivedBeforeUnlinked'
  BY DEF Sound, ArchivedBeforeUnlinked
<1>7. AllStored'
  BY <1>1 DEF Sound, AllStored, Stored, InFlight, NoOrphans
<1> QED
  BY <1>1, <1>2, <1>3, <1>4, <1>5, <1>6, <1>7 DEF Sound

\* A call that has ended relies on nothing.
LEMMA OneCallEnds ==
  ASSUME TypeOK, Sound, NEW p \in Proc, log' = log, gz' = gz, kept' = kept, End(p),
         \A q \in Proc \ {p} : staleLogs'[q] = staleLogs[q],
         orphan' \subseteq Proc, \A q \in orphan' : pc'[q] \in {"writeHeld", "writeIndex"},
         pc[p] \notin {"writeLog", "writeGz"}
  PROVE  Sound'
<1>1. pc'[p] = "idle"
  BY EndFacts
<1>2. \A q \in Proc \ {p} : pc'[q] = pc[q] /\ job'[q] = job[q] /\ (q \in staleGz' <=> q \in staleGz)
  BY EndFacts
<1>3. \A s \in Session : ~Relies(p, s)'
  BY <1>1 DEF Relies, ArchiveSteps
<1> QED
  BY <1>1, <1>2, <1>3, OneCallMoves

\* write_session and append_session_event begin: the text has all that is kept of
\* the log it will replace.
LEMMA StoreKeeps ==
  ASSUME TypeOK, Sound, NEW p \in Proc, NEW s \in Session, NEW text \in SUBSET Event,
         kept[s] \intersect Held(log[s]) \subseteq text, Store(p, s, text)
  PROVE  Sound'
<1> DEFINE first == IF text \intersect (Binary \union Unsafe) = {} THEN "openLog" ELSE "openHeld"
<1> DEFINE mine == [NoRecords EXCEPT ![s] = text]
<1>1. /\ Begin(p, first, s, mine, {})
      /\ log' = log /\ gz' = gz /\ kept' = kept /\ orphan' = orphan /\ staleGz' = staleGz
      /\ staleLogs' = [staleLogs EXCEPT ![p] = IF LogWriters(s) = {} THEN {} ELSE {s}]
  BY DEF Store, disk
<1>2. first \in {"openLog", "openHeld"} /\ Held(mine[s]) = text
  BY MarkersAreNoFiles DEF NoRecords, Held
<1> HIDE DEF first, mine
<1>3. /\ pc[p] = "idle" /\ pc'[p] = first
      /\ job'[p].s = s /\ job'[p].text = mine
      /\ \A q \in Proc \ {p} : pc'[q] = pc[q] /\ job'[q] = job[q]
  BY <1>1, BeginFacts
<1>4. /\ \A q \in Proc \ {p} : staleLogs'[q] = staleLogs[q]
      /\ staleLogs'[p] = IF LogWriters(s) = {} THEN {} ELSE {s}
  BY <1>1 DEF TypeOK
<1>5. LogWriters(s) = {} => \A q \in Proc \ {p} : ~WritesLog(q, s)
  BY DEF LogWriters, WritesLog, Sound, NoOrphans
<1>6. \A r \in Session : Relies(p, r)' => r = s /\ pc'[p] = "openLog"
  BY <1>2, <1>3 DEF Relies, ArchiveSteps
<1>7. \A q \in orphan' : q \in Proc /\ pc'[q] \in {"writeHeld", "writeIndex"}
  BY <1>1, <1>3 DEF Sound, NoOrphans, TypeOK
<1>8. pc'[p] \notin ArchiveSteps /\ pc'[p] \notin {"openGz", "openIndex", "writeIndex", "unlinkLogs"}
  BY <1>2, <1>3 DEF ArchiveSteps
<1> QED
  BY <1>1, <1>2, <1>3, <1>4, <1>5, <1>6, <1>7, <1>8, OneCallMoves

\* A release begins only when there is no log, so nobody is writing one.
LEMMA ReleaseKeeps ==
  ASSUME TypeOK, Sound, NEW p \in Proc, NEW s \in Session, Release(p, s)
  PROVE  Sound'
<1> DEFINE mine == [NoRecords EXCEPT ![s] = held[s]]
<1>1. /\ Begin(p, "openRelease", s, mine, {})
      /\ log[s] = Absent /\ log' = log /\ gz' = gz /\ kept' = kept
      /\ orphan' = orphan /\ staleGz' = staleGz /\ staleLogs' = staleLogs
  BY DEF Release, disk
<1> HIDE DEF mine
<1>2. /\ pc[p] = "idle" /\ pc'[p] = "openRelease" /\ job'[p].s = s
      /\ \A q \in Proc \ {p} : pc'[q] = pc[q] /\ job'[q] = job[q]
  BY <1>1, BeginFacts
<1>3. \A q \in Proc : ~WritesLog(q, s)
  BY <1>1, MarkersAreNoFiles DEF Sound, LogWriterIsAlone
<1>4. \A r \in Session : Relies(p, r)' => r = s
  BY <1>2 DEF Relies, ArchiveSteps
<1>5. \A q \in orphan' : q \in Proc /\ pc'[q] \in {"writeHeld", "writeIndex"}
  BY <1>1, <1>2 DEF Sound, NoOrphans, TypeOK
<1>6. pc'[p] \notin ArchiveSteps
  BY <1>2 DEF ArchiveSteps
<1> QED
  BY <1>1, <1>2, <1>3, <1>4, <1>5, <1>6, OneCallMoves

\* archive_sessions reads logs that are not empty, so nobody is writing them.
LEMMA ArchiveKeeps ==
  ASSUME TypeOK, Sound, NEW p \in Proc, NEW due \in SUBSET Session, Archive(p, due)
  PROVE  Sound'
<1> DEFINE mine == [s \in Session |-> IF s \in due THEN log[s] ELSE Absent]
<1>1. /\ Begin(p, "readGz", Absent, mine, due)
      /\ \A s \in due : Held(log[s]) # {} /\ mine[s] = log[s]
      /\ log' = log /\ gz' = gz /\ kept' = kept
      /\ orphan' = orphan /\ staleGz' = staleGz /\ staleLogs' = staleLogs
  BY DEF Archive, disk, promises
<1> HIDE DEF mine
<1>2. /\ pc[p] = "idle" /\ pc'[p] = "readGz"
      /\ job'[p].text = mine /\ job'[p].due = due
      /\ \A q \in Proc \ {p} : pc'[q] = pc[q] /\ job'[q] = job[q]
  BY <1>1, BeginFacts
<1>3. \A s \in due : \A q \in Proc : ~WritesLog(q, s)
  BY <1>1 DEF Sound, LogWriterIsAlone, Held
<1>4. \A r \in Session : Relies(p, r)' => r \in due
  BY <1>2 DEF Relies
<1>5. \A q \in orphan' : q \in Proc /\ pc'[q] \in {"writeHeld", "writeIndex"}
  BY <1>1, <1>2 DEF Sound, NoOrphans, TypeOK
<1> QED
  BY <1>1, <1>2, <1>3, <1>4, <1>5, OneCallMoves

\* A purge reads an archive, and knows if it is being written.
LEMMA PurgeArchiveKeeps ==
  ASSUME TypeOK, Sound, NEW p \in Proc, NEW s \in Session, PurgeArchive(p, s)
  PROVE  Sound'
<1> DEFINE mine == [gz EXCEPT ![s] = Absent]
<1>1. /\ Begin(p, "openGz", s, mine, {})
      /\ log' = log /\ gz' = gz /\ kept' = kept /\ orphan' = orphan /\ staleLogs' = staleLogs
      /\ staleGz' = IF GzWriters = {} THEN staleGz ELSE staleGz \union {p}
  BY DEF PurgeArchive, disk, promises
<1>2. \A r \in Session \ {s} : mine[r] = gz[r]
  BY DEF TypeOK, Records
<1> HIDE DEF mine
<1>3. /\ pc[p] = "idle" /\ pc'[p] = "openGz"
      /\ job'[p].s = s /\ job'[p].text = mine /\ job'[p].due = {}
      /\ \A q \in Proc \ {p} : pc'[q] = pc[q] /\ job'[q] = job[q]
  BY <1>1, BeginFacts
<1>4. \A r \in Session : ~Relies(p, r)'
  BY <1>3 DEF Relies
<1>5. GzWriters = {} => \A q \in Proc : pc[q] # "writeGz"
  BY DEF GzWriters, Sound, NoOrphans
<1>6. \A q \in orphan' : q \in Proc /\ pc'[q] \in {"writeHeld", "writeIndex"}
  BY <1>1, <1>3 DEF Sound, NoOrphans, TypeOK
<1>7. p \notin staleGz' => GzWriters = {}
  BY <1>1
<1>8. \A q \in Proc \ {p} : q \in staleGz' <=> q \in staleGz
  BY <1>1
<1> QED
  BY <1>1, <1>2, <1>3, <1>4, <1>5, <1>6, <1>7, <1>8, OneCallMoves

\* The quarantine, the index and the end of a call matter to no log or archive.
LEMMA AsideKeeps ==
  ASSUME TypeOK, Sound, NEW p \in Proc, breach' = {},
         \/ OpenHeld(p) \/ WriteHeld(p) \/ DropHeld(p) \/ (\E s \in Session : Discard(p, s))
         \/ CommitSucceeds(p) \/ ReadGzRaises(p) \/ OpenIndex(p) \/ WriteIndex(p)
         \/ PurgeIndex(p) \/ Crash(p)
  PROVE  Sound'
<1>0. \A q \in orphan : q \in Proc /\ pc[q] \in {"writeHeld", "writeIndex"}
  BY DEF Sound, NoOrphans, TypeOK
<1>1. CASE OpenHeld(p)
  <2>1. /\ pc[p] = "openHeld" /\ pc'[p] = "writeHeld" /\ \A q \in Proc \ {p} : pc'[q] = pc[q]
        /\ log' = log /\ gz' = gz /\ kept' = kept /\ orphan' = orphan /\ job' = job
        /\ staleLogs' = staleLogs /\ staleGz' = staleGz
    BY <1>1, GotoFacts DEF OpenHeld, promises
  <2>2. \A s \in Session : ~Relies(p, s)'
    BY <2>1 DEF Relies, ArchiveSteps
  <2> QED
    BY <1>0, <2>1, <2>2, OneCallMoves
<1>2. CASE WriteHeld(p) \/ DropHeld(p) \/ ReadGzRaises(p) \/ Crash(p)
  <2>1. /\ End(p) /\ log' = log /\ gz' = gz /\ kept' = kept
        /\ \A q \in Proc \ {p} : staleLogs'[q] = staleLogs[q]
    BY <1>2 DEF WriteHeld, DropHeld, ReadGzRaises, Crash, disk, promises, TypeOK
  <2>2. \A q \in orphan' : q \in Proc \ {p} /\ pc[q] \in {"writeHeld", "writeIndex"}
    <3>1. CASE WriteHeld(p) \/ Crash(p)
      BY <1>0, <3>1 DEF WriteHeld, Crash
    <3>2. CASE DropHeld(p)
      BY <1>0, <3>2 DEF DropHeld, HeldWriters
    <3>3. CASE ReadGzRaises(p)
      BY <1>0, <3>3 DEF ReadGzRaises
    <3> QED
      BY <1>2, <3>1, <3>2, <3>3
  <2>3. pc[p] \notin {"writeLog", "writeGz"}
    BY <1>0, <1>2, NoBlame DEF WriteHeld, DropHeld, ReadGzRaises, Crash
  <2> QED
    BY <1>0, <2>1, <2>2, <2>3, EndFacts, OneCallEnds
<1>3. CASE \E s \in Session : Discard(p, s)
  <2>1. /\ pc[p] = "idle" /\ pc' = pc /\ job' = job
        /\ log' = log /\ gz' = gz /\ kept' = kept
        /\ staleLogs' = staleLogs /\ staleGz' = staleGz
    BY <1>3 DEF Discard
  <2>2. \A q \in orphan' : q \in Proc /\ pc'[q] \in {"writeHeld", "writeIndex"}
    BY <1>0, <1>3, <2>1 DEF Discard, HeldWriters
  <2>3. \A s \in Session : ~Relies(p, s)'
    BY <2>1 DEF Relies, ArchiveSteps
  <2> QED
    BY <2>1, <2>2, <2>3, OneCallMoves
<1>4. CASE CommitSucceeds(p)
  <2>1. /\ pc[p] = "commit" /\ pc'[p] = "drop" /\ \A q \in Proc \ {p} : pc'[q] = pc[q]
        /\ log' = log /\ gz' = gz /\ kept' = kept /\ orphan' = orphan /\ job' = job
        /\ staleLogs' = staleLogs /\ staleGz' = staleGz
    BY <1>4, GotoFacts DEF CommitSucceeds, disk, promises
  <2>2. \A s \in Session : ~Relies(p, s)'
    BY <2>1 DEF Relies, ArchiveSteps
  <2> QED
    BY <1>0, <2>1, <2>2, OneCallMoves
<1>5. ASSUME pc[p] \in {"openIndex", "writeIndex"}, pc'[p] \in {"writeIndex", "unlinkLogs"},
             \A q \in Proc \ {p} : pc'[q] = pc[q] /\ job'[q] = job[q],
             job'[p].s = job[p].s, job'[p].text = job[p].text, job'[p].due = job[p].due,
             log' = log, gz' = gz, kept' = kept, orphan' \subseteq orphan, p \notin orphan',
             staleLogs' = staleLogs, staleGz' = staleGz
      PROVE  Sound'
  <2> USE <1>5
  <2>1. \A s \in Session : Relies(p, s)' => Relies(p, s)
    BY DEF Relies, ArchiveSteps
  <2>2. \A s \in Session : Relies(p, s) /\ s \notin staleLogs[p] =>
          (\A q \in Proc \ {p} : ~WritesLog(q, s)) /\ log[s] = job[p].text[s]
    BY DEF Sound, LogWriterIsAlone, LogReadersAreSound, ArchiveSteps
  <2> QED
    BY <1>0, <2>1, <2>2, OneCallMoves
<1>6. CASE OpenIndex(p)
  <2>1. /\ pc'[p] = "writeIndex" /\ \A q \in Proc \ {p} : pc'[q] = pc[q]
        /\ pc[p] = "openIndex"
    BY <1>6, GotoFacts DEF OpenIndex
  <2>2. /\ \A q \in Proc \ {p} : job'[q] = job[q]
        /\ job'[p].s = job[p].s /\ job'[p].text = job[p].text /\ job'[p].due = job[p].due
    BY <1>6 DEF OpenIndex, TypeOK, Job
  <2> QED
    BY <1>0, <1>5, <1>6, <2>1, <2>2 DEF OpenIndex, promises
<1>7. CASE WriteIndex(p)
  <2>1. CASE job[p].s = Absent
    <3>1. /\ pc'[p] = "unlinkLogs" /\ \A q \in Proc \ {p} : pc'[q] = pc[q]
          /\ pc[p] = "writeIndex"
      BY <1>7, <2>1, GotoFacts DEF WriteIndex
    <3> QED
      BY <1>0, <1>5, <1>7, <2>1, <3>1 DEF WriteIndex
  <2>2. CASE job[p].s # Absent
    <3>1. End(p) /\ \A q \in Proc \ {p} : staleLogs'[q] = staleLogs[q]
      BY <1>7, <2>2 DEF WriteIndex, TypeOK
    <3> QED
      BY <1>0, <1>7, <3>1, EndFacts, OneCallEnds DEF WriteIndex
  <2> QED
    BY <2>1, <2>2
<1>8. CASE PurgeIndex(p)
  <2>1. CASE NamesWithout(job[p].s) # {}
    <3>1. /\ pc'[p] = "writeIndex" /\ \A q \in Proc \ {p} : pc'[q] = pc[q]
          /\ pc[p] = "openIndex"
      BY <1>8, <2>1, GotoFacts DEF PurgeIndex
    <3>2. /\ \A q \in Proc \ {p} : job'[q] = job[q]
          /\ job'[p].s = job[p].s /\ job'[p].text = job[p].text /\ job'[p].due = job[p].due
      BY <1>8, <2>1 DEF PurgeIndex, TypeOK, Job
    <3> QED
      BY <1>0, <1>5, <1>8, <2>1, <3>1, <3>2 DEF PurgeIndex
  <2>2. CASE NamesWithout(job[p].s) = {}
    <3>1. /\ End(p) /\ pc[p] = "openIndex"
          /\ \A q \in Proc \ {p} : staleLogs'[q] = staleLogs[q]
      BY <1>8, <2>2 DEF PurgeIndex, TypeOK
    <3>2. \A q \in orphan' : q \in Proc /\ q # p /\ pc[q] \in {"writeHeld", "writeIndex"}
      BY <1>0, <1>8, <2>2 DEF PurgeIndex, IndexWriters
    <3> QED
      BY <1>8, <3>1, <3>2, EndFacts, OneCallEnds DEF PurgeIndex
  <2> QED
    BY <2>1, <2>2
<1> QED
  BY <1>1, <1>2, <1>3, <1>4, <1>6, <1>7, <1>8

\* ReadGz reads the archive after the logs; it knows if the archive is being written.
LEMMA ReadGzKeeps ==
  ASSUME TypeOK, Sound, NEW p \in Proc, ReadGz(p)
  PROVE  Sound'
<1>1. /\ pc[p] = "readGz" /\ pc'[p] = "openGz" /\ \A q \in Proc \ {p} : pc'[q] = pc[q]
      /\ log' = log /\ gz' = gz /\ kept' = kept /\ orphan' = orphan /\ staleLogs' = staleLogs
      /\ staleGz' = IF GzWriters = {} THEN staleGz \ {p} ELSE staleGz \union {p}
  BY GotoFacts DEF ReadGz, disk, promises
<1>2. /\ \A q \in Proc \ {p} : job'[q] = job[q]
      /\ job'[p].s = job[p].s /\ job'[p].due = job[p].due
      /\ job'[p].text = Merged(job[p].due, job[p].text)
  BY DEF ReadGz, TypeOK, Job
<1>3. \A s \in Session : job'[p].text[s] = IF s \in job[p].due THEN job[p].text[s] ELSE gz[s]
  BY <1>2 DEF Merged
<1>4. \A s \in Session : Relies(p, s)' => Relies(p, s) /\ s \in job[p].due
  BY <1>1, <1>2 DEF Relies, ArchiveSteps
<1>5. \A s \in Session : Relies(p, s) /\ s \notin staleLogs[p] =>
        (\A q \in Proc \ {p} : ~WritesLog(q, s)) /\ log[s] = job[p].text[s]
  BY <1>1 DEF Sound, LogWriterIsAlone, LogReadersAreSound, ArchiveSteps
<1>6. \A q \in orphan' : q \in Proc /\ q # p /\ pc'[q] \in {"writeHeld", "writeIndex"}
  BY <1>1 DEF Sound, NoOrphans, TypeOK
<1>7. p \notin staleGz' => \A q \in Proc : pc[q] # "writeGz"
  BY <1>1 DEF GzWriters, Sound, NoOrphans
<1>8. \A q \in Proc \ {p} : q \in staleGz' <=> q \in staleGz
  BY <1>1
<1> QED
  BY <1>1, <1>2, <1>3, <1>4, <1>5, <1>6, <1>7, <1>8, OneCallMoves

-----------------------------------------------------------------------------
(* Steps that change a log.                                                 *)

\* p changes the log of s, which nobody else is writing: all others that rely on
\* the log learn of it, and what is kept of s is stored elsewhere or in memory.
LEMMA OneLogChanges ==
  ASSUME TypeOK, Sound, NEW p \in Proc, NEW s \in Session,
         gz' = gz,
         \A r \in Session \ {s} : log'[r] = log[r] /\ kept'[r] = kept[r],
         \A q \in Proc \ {p} :
           /\ pc'[q] = pc[q] /\ job'[q] = job[q] /\ ~WritesLog(q, s)
           /\ pc[q] # "idle" => s \in staleLogs'[q]
           /\ \A r \in Session \ {s} : r \in staleLogs'[q] <=> r \in staleLogs[q]
           /\ q \in staleGz' <=> q \in staleGz,
         \A q \in orphan' : q \in Proc /\ pc'[q] \in {"writeHeld", "writeIndex"},
         pc[p] # "writeGz", pc'[p] \notin {"writeGz", "openGz"},
         pc[p] = "writeLog" => job[p].s = s,
         \A r \in Session : WritesLog(p, r)' => r = s /\ log'[s] = {},
         Relies(p, s)' /\ s \notin staleLogs'[p] =>
           pc'[p] = "commit" /\ Held(log'[s]) \subseteq Held(job'[p].text[s]),
         \A r \in Session \ {s} : Relies(p, r)' =>
           /\ pc[p] = "unlinkLogs" /\ pc'[p] = "unlinkLogs"
           /\ r \in job[p].due /\ job'[p].text = job[p].text
           /\ r \in staleLogs'[p] <=> r \in staleLogs[p],
         pc'[p] \in {"openIndex", "writeIndex", "unlinkLogs"} => job'[p].due \subseteq Session \ {s},
         \A e \in kept'[s] :
           \/ e \in Held(log'[s]) \/ e \in Held(gz[s])
           \/ \E q \in Proc : pc[q] = "writeGz" /\ e \in Held(job[q].text[s])
           \/ WritesLog(p, s)' /\ pc'[p] = "writeLog" /\ e \in Held(job'[p].text[s])
  PROVE  Sound'
<1>1. NoOrphans'
  BY DEF NoOrphans
<1>2. LogWriterIsAlone'
  <2> SUFFICES ASSUME NEW w \in Proc, NEW r \in Session, WritesLog(w, r)'
               PROVE  /\ log'[r] = {}
                      /\ \A q \in Proc \ {w} : /\ ~WritesLog(q, r)'
                                               /\ Relies(q, r)' => r \in staleLogs'[q]
    BY DEF LogWriterIsAlone
  <2>1. CASE w = p
    BY <2>1 DEF WritesLog, Relies, ArchiveSteps
  <2>2. CASE w # p
    <3>1. WritesLog(w, r) /\ r # s
      BY <2>2 DEF WritesLog
    <3>2. ~WritesLog(p, r)'
      BY <3>1
    <3>3. Relies(p, r)' => r \in staleLogs'[p]
      BY <2>2, <3>1 DEF Sound, LogWriterIsAlone, Relies, ArchiveSteps
    <3>4. log'[r] = {}
      BY <3>1 DEF Sound, LogWriterIsAlone
    <3>5. \A q \in Proc \ {w, p} : ~WritesLog(q, r)' /\ (Relies(q, r)' => r \in staleLogs'[q])
      BY <3>1 DEF Sound, LogWriterIsAlone, WritesLog, Relies
    <3> QED
      BY <3>2, <3>3, <3>4, <3>5
  <2> QED
    BY <2>1, <2>2
<1>3. LogReadersAreSound'
  <2> SUFFICES ASSUME NEW q \in Proc, NEW r \in Session, Relies(q, r)', r \notin staleLogs'[q]
               PROVE  /\ pc'[q] = "openLog" => kept'[r] \intersect Held(log'[r]) \subseteq Held(job'[q].text[r])
                      /\ pc'[q] = "openRelease" => log'[r] = Absent
                      /\ pc'[q] = "commit" => Held(log'[r]) \subseteq Held(job'[q].text[r])
                      /\ pc'[q] \in ArchiveSteps => log'[r] = job'[q].text[r]
    BY DEF LogReadersAreSound
  <2>1. CASE q = p /\ r = s
    BY <2>1 DEF ArchiveSteps
  <2>2. CASE q = p /\ r # s
    BY <2>2 DEF Sound, LogReadersAreSound, Relies, ArchiveSteps
  <2>3. CASE q # p
    <3>1. r # s /\ Relies(q, r) /\ r \notin staleLogs[q]
      BY <2>3 DEF Relies, ArchiveSteps
    <3> QED
      BY <2>3, <3>1 DEF Sound, LogReadersAreSound
  <2> QED
    BY <2>1, <2>2, <2>3
<1>4. GzWriterIsAlone'
  BY DEF Sound, GzWriterIsAlone
<1>5. GzReadersAreSound'
  BY DEF Sound, GzReadersAreSound
<1>6. ArchivedBeforeUnlinked'
  <2> SUFFICES ASSUME NEW q \in Proc, pc'[q] \in {"openIndex", "writeIndex", "unlinkLogs"},
                      NEW r \in job'[q].due \ staleLogs'[q],
                      NEW e \in kept'[r] \intersect Held(job'[q].text[r])
               PROVE  \/ e \in Held(gz'[r])
                      \/ \E x \in Proc : pc'[x] = "writeGz" /\ e \in Held(job'[x].text[r])
    BY DEF ArchivedBeforeUnlinked
  <2>0. job'[q].due \subseteq Session
    BY DEF TypeOK, Job
  <2>1. r # s
    BY <2>0
  <2>2. pc[q] \in {"openIndex", "writeIndex", "unlinkLogs"} /\ r \in job[q].due \ staleLogs[q]
        /\ e \in kept[r] \intersect Held(job[q].text[r])
    BY <2>0, <2>1 DEF Relies, ArchiveSteps
  <2> QED
    BY <2>2 DEF Sound, ArchivedBeforeUnlinked
<1>7. AllStored'
  <2> SUFFICES ASSUME NEW r \in Session, NEW e \in kept'[r] PROVE Stored(r, e)'
    BY DEF AllStored
  <2>1. CASE r = s
    BY <1>1, <2>1 DEF Stored, InFlight, NoOrphans, WritesLog
  <2>2. CASE r # s
    BY <1>1, <2>2 DEF Sound, AllStored, Stored, InFlight, NoOrphans
  <2> QED
    BY <2>1, <2>2
<1> QED
  BY <1>1, <1>2, <1>3, <1>4, <1>5, <1>6, <1>7 DEF Sound

\* A process at openLog, openRelease, commit or unlinkLogs that no change has
\* reached is alone with the log it is about to destroy.
LEMMA NobodyElseWrites ==
  ASSUME Sound, NEW p \in Proc, NEW s \in Session, Relies(p, s),
         s \notin staleLogs[p] \/ log[s] = Absent
  PROVE  \A q \in Proc \ {p} : ~WritesLog(q, s)
  BY MarkersAreNoFiles DEF Sound, LogWriterIsAlone

\* The log is truncated: what was kept in it is in memory, or there was none.
LEMMA TruncateLogKeeps ==
  ASSUME TypeOK, Sound, NEW p \in Proc, OpenLog(p) \/ OpenRelease(p), breach' = {}
  PROVE  Sound'
<1>1. PICK s \in Session : s = job[p].s
  BY DEF TypeOK, OpenLog, OpenRelease, TruncateLog
<1>2. s \notin staleLogs[p] \/ log[s] = Absent
  BY <1>1, NoBlame DEF OpenLog, OpenRelease, TruncateLog
<1>3. /\ pc[p] \in {"openLog", "openRelease"}
      /\ pc'[p] = IF pc[p] = "openLog" THEN "writeLog" ELSE "writeRelease"
      /\ \A q \in Proc \ {p} : pc'[q] = pc[q]
  BY GotoFacts DEF OpenLog, OpenRelease, TruncateLog
<1>4. /\ gz' = gz /\ job' = job /\ orphan' = orphan /\ staleGz' = staleGz /\ kept' = kept
      /\ log' = [log EXCEPT ![s] = {}] /\ staleLogs' = LogChanged(p, s)
  BY <1>1 DEF OpenLog, OpenRelease, TruncateLog, promises
<1>5. log'[s] = {} /\ \A r \in Session \ {s} : log'[r] = log[r]
  BY <1>1, <1>4 DEF TypeOK, Records
<1>6. Relies(p, s)
  BY <1>1, <1>3 DEF Relies
<1>7. \A q \in Proc \ {p} : ~WritesLog(q, s)
  BY <1>1, <1>2, <1>6, NobodyElseWrites
<1>8. \A e \in kept[s] : e \in Held(log[s]) => pc'[p] = "writeLog" /\ e \in Held(job[p].text[s])
  BY <1>1, <1>2, <1>3, <1>6 DEF Sound, LogReadersAreSound, Held
<1>9. \A e \in kept[s] : e \in Held(log[s]) \/ e \in Held(gz[s])
                         \/ \E q \in Proc : pc[q] = "writeGz" /\ e \in Held(job[q].text[s])
  BY <1>1, <1>3, <1>7 DEF Sound, AllStored, Stored, InFlight, WritesLog
<1>10. \A q \in orphan' : q \in Proc /\ pc'[q] \in {"writeHeld", "writeIndex"}
  BY <1>3, <1>4 DEF Sound, NoOrphans, TypeOK
<1>11. WritesLog(p, s)' /\ \A r \in Session : WritesLog(p, r)' => r = s
  BY <1>1, <1>3, <1>4 DEF WritesLog
<1>12. \A r \in Session : ~Relies(p, r)'
  BY <1>3 DEF Relies, ArchiveSteps
<1>13. \A q \in Proc \ {p} :
          /\ pc'[q] = pc[q] /\ job'[q] = job[q] /\ ~WritesLog(q, s)
          /\ pc[q] # "idle" => s \in staleLogs'[q]
          /\ \A r \in Session \ {s} : r \in staleLogs'[q] <=> r \in staleLogs[q]
          /\ q \in staleGz' <=> q \in staleGz
  BY <1>3, <1>4, <1>7, LogChangedFacts
<1>14. /\ \A r \in Session \ {s} : log'[r] = log[r] /\ kept'[r] = kept[r]
       /\ \A r \in Session : WritesLog(p, r)' => r = s /\ log'[s] = {}
  BY <1>4, <1>5, <1>11
<1>15. /\ pc[p] # "writeGz" /\ pc'[p] \notin {"writeGz", "openGz"} /\ pc[p] # "writeLog"
       /\ pc'[p] \notin {"openIndex", "writeIndex", "unlinkLogs"}
  BY <1>3
<1>16. \A e \in kept'[s] :
         \/ e \in Held(log'[s]) \/ e \in Held(gz[s])
         \/ \E q \in Proc : pc[q] = "writeGz" /\ e \in Held(job[q].text[s])
         \/ WritesLog(p, s)' /\ pc'[p] = "writeLog" /\ e \in Held(job'[p].text[s])
  BY <1>4, <1>8, <1>9, <1>11, SMTT(40)
<1> QED
  BY <1>4, <1>10, <1>12, <1>13, <1>14, <1>15, <1>16, OneLogChanges, SMTT(30)

\* The text appears: all that was kept is in it, in the archive or on its way there.
LEMMA WriteLogKeeps ==
  ASSUME TypeOK, Sound, NEW p \in Proc, WriteLog(p) \/ WriteRelease(p)
  PROVE  Sound'
<1>1. PICK s \in Session : s = job[p].s /\ job[p].text[s] # Absent
  BY DEF TypeOK, WriteLog, WriteRelease
<1>2. p \notin orphan /\ pc[p] \in {"writeLog", "writeRelease"} /\ WritesLog(p, s)
  BY <1>1 DEF Sound, NoOrphans, WriteLog, WriteRelease, WritesLog
<1>3. /\ gz' = gz /\ orphan' = orphan \ {p}
      /\ log' = [log EXCEPT ![s] = job[p].text[s]]
      /\ kept' = [kept EXCEPT ![s] = @ \union job[p].text[s]]
  BY <1>1, <1>2 DEF WriteLog, WriteRelease
<1>4. /\ log'[s] = job[p].text[s] /\ kept'[s] = kept[s] \union job[p].text[s]
      /\ \A r \in Session \ {s} : log'[r] = log[r] /\ kept'[r] = kept[r]
  BY <1>1, <1>3 DEF TypeOK, Records
<1>5. \/ pc[p] = "writeLog" /\ pc'[p] = "idle"
      \/ pc[p] = "writeRelease" /\ pc'[p] = "commit" /\ job' = job
  BY EndFacts, GotoFacts DEF WriteLog, WriteRelease
<1>6. \A q \in Proc \ {p} : pc'[q] = pc[q] /\ job'[q] = job[q] /\ (q \in staleGz' <=> q \in staleGz)
  BY EndFacts, GotoFacts DEF WriteLog, WriteRelease
<1>7. \A q \in Proc \ {p} : staleLogs'[q] = LogChanged(p, s)[q]
  BY <1>1, LogChangedType DEF WriteLog, WriteRelease
<1>8. log[s] = {} /\ \A q \in Proc \ {p} : ~WritesLog(q, s)
  BY <1>1, <1>2 DEF Sound, LogWriterIsAlone
<1>9. \A e \in kept[s] : \/ e \in job[p].text[s] \/ e \in Held(gz[s])
                         \/ \E q \in Proc : pc[q] = "writeGz" /\ e \in Held(job[q].text[s])
  BY <1>1, <1>8 DEF Sound, AllStored, Stored, InFlight, WritesLog, Held
<1>10. \A q \in orphan' : q \in Proc /\ pc'[q] \in {"writeHeld", "writeIndex"}
  BY <1>3, <1>6 DEF Sound, NoOrphans, TypeOK
<1>11. \A r \in Session : /\ ~WritesLog(p, r)'
                          /\ Relies(p, r)' => r = s /\ pc'[p] = "commit" /\ job' = job
  BY <1>1, <1>5 DEF WritesLog, Relies, ArchiveSteps
<1>12. Held(log'[s]) = job[p].text[s]
  BY <1>1, <1>4 DEF Held
<1>13. \A e \in kept'[s] : \/ e \in Held(log'[s]) \/ e \in Held(gz[s])
                           \/ \E q \in Proc : pc[q] = "writeGz" /\ e \in Held(job[q].text[s])
  BY <1>4, <1>9, <1>12
<1>14. \A q \in Proc \ {p} : /\ pc[q] # "idle" => s \in staleLogs'[q]
                             /\ \A r \in Session \ {s} : r \in staleLogs'[q] <=> r \in staleLogs[q]
  BY <1>1, <1>7, LogChangedFacts
<1>15. (pc[p] = "writeLog" => job[p].s = s) /\ (Relies(p, s)' => Held(log'[s]) \subseteq Held(job'[p].text[s]))
  BY <1>1, <1>4, <1>11
<1>16. pc'[p] \notin {"writeGz", "openGz", "openIndex", "writeIndex", "unlinkLogs"} /\ pc[p] # "writeGz"
  BY <1>5
<1> QED
  BY <1>1, <1>3, <1>4, <1>6, <1>8, <1>10, <1>11, <1>13, <1>14, <1>15, <1>16, OneLogChanges, SMTT(30)

\* A release is taken back: the log has nothing but the released text.
LEMMA CommitFailsKeeps ==
  ASSUME TypeOK, Sound, NEW p \in Proc, CommitFails(p), breach' = {}
  PROVE  Sound'
<1>1. PICK s \in Session : s = job[p].s /\ job[p].text[s] # Absent
  BY DEF TypeOK, CommitFails
<1>2. s \notin staleLogs[p] \/ log[s] = Absent
  BY <1>1, NoBlame DEF CommitFails
<1>3. pc[p] = "commit" /\ Relies(p, s)
  BY <1>1 DEF CommitFails, Relies
<1>4. \A q \in Proc \ {p} : ~WritesLog(q, s)
  BY <1>2, <1>3, NobodyElseWrites
<1>5. Held(log[s]) \subseteq job[p].text[s]
  BY <1>1, <1>2, <1>3 DEF Sound, LogReadersAreSound, Held
<1>6. /\ gz' = gz
      /\ log'[s] = Absent /\ kept'[s] = kept[s] \ job[p].text[s]
      /\ \A r \in Session \ {s} : log'[r] = log[r] /\ kept'[r] = kept[r]
  BY <1>1 DEF CommitFails, TypeOK, Records
<1>7. /\ pc'[p] = "idle"
      /\ \A q \in Proc \ {p} : pc'[q] = pc[q] /\ job'[q] = job[q] /\ (q \in staleGz' <=> q \in staleGz)
  BY EndFacts DEF CommitFails
<1>8. \A q \in Proc \ {p} : staleLogs'[q] = LogChanged(p, s)[q]
  BY <1>1, LogChangedType DEF CommitFails
<1>9. \A q \in Proc \ {p} : /\ pc[q] # "idle" => s \in staleLogs'[q]
                            /\ \A r \in Session \ {s} : r \in staleLogs'[q] <=> r \in staleLogs[q]
  BY <1>8, LogChangedFacts
<1>10. \A q \in orphan' : q \in Proc /\ pc'[q] \in {"writeHeld", "writeIndex"}
  BY <1>1, <1>3, <1>4, <1>7 DEF CommitFails, LogWriters, WritesLog, Sound, NoOrphans, TypeOK
<1>11. \A r \in Session : ~WritesLog(p, r)' /\ ~Relies(p, r)'
  BY <1>7 DEF WritesLog, Relies, ArchiveSteps
<1>12. \A e \in kept'[s] : \/ e \in Held(gz[s])
                           \/ \E q \in Proc : pc[q] = "writeGz" /\ e \in Held(job[q].text[s])
  BY <1>3, <1>4, <1>5, <1>6 DEF Sound, AllStored, Stored, InFlight, WritesLog
<1> QED
  BY <1>3, <1>4, <1>6, <1>7, <1>9, <1>10, <1>11, <1>12, OneLogChanges, SMTT(30)

\* An archived log is unlinked: its text is in the archive, or on its way there.
LEMMA UnlinkLogKeeps ==
  ASSUME TypeOK, Sound, NEW p \in Proc, NEW s \in Session, UnlinkLog(p, s), breach' = {}
  PROVE  Sound'
<1>1. s \notin staleLogs[p] \/ log[s] = Absent
  BY NoBlame DEF UnlinkLog
<1>2. pc[p] = "unlinkLogs" /\ s \in job[p].due /\ Relies(p, s)
  BY DEF UnlinkLog, Relies, ArchiveSteps
<1>3. \A q \in Proc \ {p} : ~WritesLog(q, s)
  BY <1>1, <1>2, NobodyElseWrites
<1>4. /\ gz' = gz /\ kept' = kept
      /\ log'[s] = Absent /\ \A r \in Session \ {s} : log'[r] = log[r]
  BY DEF UnlinkLog, TypeOK, Records, promises
<1>5. /\ \A q \in Proc \ {p} : pc'[q] = pc[q] /\ job'[q] = job[q] /\ (q \in staleGz' <=> q \in staleGz)
      /\ \/ pc'[p] = "idle"
         \/ /\ pc'[p] = "unlinkLogs" /\ job'[p].due = job[p].due \ {s}
            /\ job'[p].text = job[p].text /\ staleLogs' = LogChanged(p, s)
  <2>1. CASE job[p].due = {s}
    BY <2>1, EndFacts DEF UnlinkLog
  <2>2. CASE job[p].due # {s}
    BY <1>2, <2>2 DEF UnlinkLog, TypeOK, Job
  <2> QED
    BY <2>1, <2>2
<1>6. \A q \in Proc \ {p} : staleLogs'[q] = LogChanged(p, s)[q]
  BY LogChangedType DEF UnlinkLog
<1>7. \A q \in Proc \ {p} : /\ pc[q] # "idle" => s \in staleLogs'[q]
                            /\ \A r \in Session \ {s} : r \in staleLogs'[q] <=> r \in staleLogs[q]
  BY <1>6, LogChangedFacts
<1>8. \A q \in orphan' : q \in Proc /\ pc'[q] \in {"writeHeld", "writeIndex"}
  BY <1>2, <1>3, <1>5 DEF UnlinkLog, LogWriters, WritesLog, Sound, NoOrphans, TypeOK
<1>9. \A r \in Session : ~WritesLog(p, r)' /\ (Relies(p, r)' => r \in job'[p].due /\ pc'[p] = "unlinkLogs")
  BY <1>5 DEF WritesLog, Relies, ArchiveSteps
<1>10. \A r \in Session : Relies(p, r)' =>
         r # s /\ r \in job[p].due /\ job'[p].text = job[p].text /\ (r \in staleLogs'[p] <=> r \in staleLogs[p])
  BY <1>5, <1>9, LogChangedFacts
<1>11. \A e \in kept[s] : e \in Held(log[s]) =>
         \/ e \in Held(gz[s])
         \/ \E q \in Proc : pc[q] = "writeGz" /\ e \in Held(job[q].text[s])
  <2>1. CASE log[s] = Absent
    BY <2>1 DEF Held
  <2>2. CASE s \notin staleLogs[p]
    <3>1. log[s] = job[p].text[s]
      BY <1>2, <2>2 DEF Sound, LogReadersAreSound, ArchiveSteps
    <3> QED
      BY <1>2, <2>2, <3>1 DEF Sound, ArchivedBeforeUnlinked
  <2> QED
    BY <1>1, <2>1, <2>2
<1>12. \A e \in kept[s] : \/ e \in Held(gz[s])
                          \/ \E q \in Proc : pc[q] = "writeGz" /\ e \in Held(job[q].text[s])
  BY <1>2, <1>3, <1>11 DEF Sound, AllStored, Stored, InFlight, WritesLog
<1>13. job'[p].due \subseteq Session \ {s} \/ pc'[p] = "idle"
  BY <1>5 DEF TypeOK, Job
<1> QED
  BY <1>2, <1>3, <1>4, <1>5, <1>7, <1>8, <1>9, <1>10, <1>12, <1>13, OneLogChanges, SMTT(30)

\* A purge unlinks a log: nothing of the session is kept any more.
LEMMA PurgeLogKeeps ==
  ASSUME TypeOK, Sound, NEW p \in Proc, NEW s \in Session, PurgeLog(p, s), breach' = {}
  PROVE  Sound'
<1>1. LogWriters(s) = {}
  BY NoBlame DEF PurgeLog
<1>2. \A q \in Proc : ~WritesLog(q, s)
  BY <1>1 DEF LogWriters, WritesLog, Sound, NoOrphans
<1>3. /\ pc[p] = "idle" /\ gz' = gz /\ pc' = pc /\ job' = job /\ orphan' = orphan
      /\ staleGz' = staleGz /\ staleLogs' = LogChanged(p, s)
      /\ kept'[s] = {} /\ \A r \in Session \ {s} : log'[r] = log[r] /\ kept'[r] = kept[r]
  BY <1>1 DEF PurgeLog, TypeOK, Records
<1>4. \A r \in Session : ~WritesLog(p, r)' /\ ~Relies(p, r)'
  BY <1>3 DEF WritesLog, Relies, ArchiveSteps
<1>5. \A q \in orphan' : q \in Proc /\ pc'[q] \in {"writeHeld", "writeIndex"}
  BY <1>3 DEF Sound, NoOrphans, TypeOK
<1> QED
  BY <1>2, <1>3, <1>4, <1>5, LogChangedFacts, OneLogChanges, SMTT(30)

-----------------------------------------------------------------------------
(* Steps that change the archive.                                           *)

\* p rewrites the archive from memory, alone: the logs are not touched, those who
\* have read the archive learn of it, and what it had is in memory or not kept.
LEMMA ArchiveChanges ==
  ASSUME TypeOK, Sound, NEW p \in Proc,
         log' = log, staleLogs' = staleLogs, job' = job,
         \A s \in Session : kept'[s] \subseteq kept[s],
         \A q \in Proc \ {p} : /\ pc'[q] = pc[q] /\ pc[q] # "writeGz"
                               /\ pc[q] = "openGz" => q \in staleGz',
         pc[p] \in {"openGz", "writeGz"}, pc'[p] \in {"writeGz", "openIndex"},
         pc'[p] = "writeGz" => gz' = NoRecords,
         \A q \in orphan' : q \in Proc /\ pc'[q] \in {"writeHeld", "writeIndex"},
         \A s \in Session : \A e \in kept'[s] :
           e \in Held(gz[s]) \/ (pc[p] = "writeGz" /\ e \in Held(job[p].text[s])) =>
             e \in Held(gz'[s]) \/ (pc'[p] = "writeGz" /\ e \in Held(job[p].text[s])),
         pc'[p] = "openIndex" => \A s \in Session : Held(job[p].text[s]) \subseteq Held(gz'[s])
  PROVE  Sound'
<1>1. NoOrphans'
  BY DEF NoOrphans
<1>2. \A q \in Proc, s \in Session : /\ WritesLog(q, s)' <=> WritesLog(q, s)
                                     /\ Relies(q, s)' <=> Relies(q, s)
  BY DEF WritesLog, Relies, ArchiveSteps
<1>3. LogWriterIsAlone'
  BY <1>2 DEF Sound, LogWriterIsAlone
<1>4. LogReadersAreSound'
  <2> SUFFICES ASSUME NEW q \in Proc, NEW r \in Session, Relies(q, r)', r \notin staleLogs'[q]
               PROVE  /\ pc'[q] = "openLog" => kept'[r] \intersect Held(log'[r]) \subseteq Held(job'[q].text[r])
                      /\ pc'[q] = "openRelease" => log'[r] = Absent
                      /\ pc'[q] = "commit" => Held(log'[r]) \subseteq Held(job'[q].text[r])
                      /\ pc'[q] \in ArchiveSteps => log'[r] = job'[q].text[r]
    BY DEF LogReadersAreSound
  <2> QED
    BY <1>2 DEF Sound, LogReadersAreSound, ArchiveSteps
<1>5. GzWriterIsAlone'
  BY DEF GzWriterIsAlone
<1>6. GzReadersAreSound'
  BY DEF GzReadersAreSound
<1>7. \A s \in Session : \A e \in kept'[s] :
        (e \in Held(gz[s]) \/ \E q \in Proc : pc[q] = "writeGz" /\ e \in Held(job[q].text[s]))
          => e \in Held(gz'[s]) \/ (pc'[p] = "writeGz" /\ e \in Held(job[p].text[s]))
  OBVIOUS
<1>8. ArchivedBeforeUnlinked'
  <2> SUFFICES ASSUME NEW q \in Proc, pc'[q] \in {"openIndex", "writeIndex", "unlinkLogs"},
                      NEW r \in job[q].due \ staleLogs[q],
                      NEW e \in kept'[r] \intersect Held(job[q].text[r])
               PROVE  \/ e \in Held(gz'[r])
                      \/ \E x \in Proc : pc'[x] = "writeGz" /\ e \in Held(job[x].text[r])
    BY DEF ArchivedBeforeUnlinked
  <2>1. r \in Session
    BY DEF TypeOK, Job
  <2>2. CASE q = p
    BY <2>1, <2>2
  <2>3. CASE q # p
    BY <1>7, <2>1, <2>3 DEF Sound, ArchivedBeforeUnlinked
  <2> QED
    BY <2>2, <2>3
<1>9. AllStored'
  <2> SUFFICES ASSUME NEW r \in Session, NEW e \in kept'[r] PROVE Stored(r, e)'
    BY DEF AllStored
  <2>1. e \in kept[r]
    OBVIOUS
  <2>2. CASE e \in Held(log[r])
    BY <2>2 DEF Stored
  <2>3. CASE e \in Held(gz[r]) \/ \E q \in Proc : pc[q] = "writeGz" /\ e \in Held(job[q].text[r])
    BY <1>1, <1>7, <2>3 DEF Stored, InFlight, NoOrphans
  <2>4. CASE \E q \in Proc : pc[q] = "writeLog" /\ job[q].s = r /\ e \in Held(job[q].text[r])
    BY <1>1, <2>4 DEF Stored, InFlight, NoOrphans
  <2> QED
    BY <2>1, <2>2, <2>3, <2>4 DEF Sound, AllStored, Stored, InFlight
<1> QED
  BY <1>1, <1>3, <1>4, <1>5, <1>6, <1>8, <1>9 DEF Sound

\* The archive is truncated: its text is in memory, or replaced by a log's that has
\* it, or purged.
LEMMA OpenGzKeeps ==
  ASSUME TypeOK, Sound, NEW p \in Proc, OpenGz(p), breach' = {}
  PROVE  Sound'
<1>1. p \notin staleGz /\ ~Resumes(p)
  BY DEF OpenGz
<1>2. /\ pc[p] = "openGz" /\ \A q \in Proc \ {p} : pc'[q] = pc[q]
      /\ pc'[p] = IF job[p].text = NoRecords THEN "openIndex" ELSE "writeGz"
  BY GotoFacts DEF OpenGz
<1>3. \A q \in Proc : pc[q] # "writeGz"
  BY <1>1, <1>2 DEF Sound, GzWriterIsAlone
<1>4. orphan' = orphan
  BY <1>3 DEF OpenGz, GzWriters
<1>5. /\ log' = log /\ staleLogs' = staleLogs /\ job' = job /\ gz' = NoRecords
      /\ \A q \in Proc \ {p} : pc[q] = "openGz" => q \in staleGz'
  BY DEF OpenGz, Others
<1>6. \A s \in Session : kept'[s] = IF s = job[p].s THEN kept[s] \ Held(gz[s]) ELSE kept[s]
  BY DEF OpenGz
<1>7. \A s \in Session : \A e \in kept'[s] : e \in Held(gz[s]) => e \in Held(job[p].text[s])
  <2> SUFFICES ASSUME NEW s \in Session, NEW e \in kept'[s], e \in Held(gz[s]) PROVE e \in Held(job[p].text[s])
    OBVIOUS
  <2>1. s # job[p].s
    BY <1>6
  <2>2. CASE s \in job[p].due
    BY <1>1, <2>2 DEF Resumes
  <2>3. CASE s \notin job[p].due
    BY <1>1, <1>2, <2>1, <2>3 DEF Sound, GzReadersAreSound
  <2> QED
    BY <2>2, <2>3
<1>8. job[p].text = NoRecords => \A s \in Session : Held(job[p].text[s]) = {}
  BY DEF NoRecords, Held
<1>9. \A q \in orphan' : q \in Proc /\ pc'[q] \in {"writeHeld", "writeIndex"}
  BY <1>2, <1>4 DEF Sound, NoOrphans, TypeOK
<1> QED
  BY <1>2, <1>3, <1>5, <1>6, <1>7, <1>8, <1>9, ArchiveChanges, ZenonT(60)

\* The archive's text appears.
LEMMA WriteGzKeeps ==
  ASSUME TypeOK, Sound, NEW p \in Proc, WriteGz(p)
  PROVE  Sound'
<1>1. /\ pc[p] = "writeGz" /\ pc'[p] = "openIndex" /\ \A q \in Proc \ {p} : pc'[q] = pc[q]
      /\ p \notin orphan
  BY GotoFacts DEF WriteGz, Sound, NoOrphans
<1>2. /\ log' = log /\ staleLogs' = staleLogs /\ job' = job /\ kept' = kept
      /\ gz' = job[p].text /\ orphan' = orphan \ {p}
      /\ \A q \in Proc \ {p} : pc[q] = "openGz" => q \in staleGz'
  BY <1>1 DEF WriteGz, Others, promises
<1>3. gz = NoRecords /\ \A q \in Proc \ {p} : pc[q] # "writeGz"
  BY <1>1 DEF Sound, GzWriterIsAlone
<1>4. \A s \in Session : Held(gz[s]) = {}
  BY <1>3 DEF NoRecords, Held
<1>5. \A q \in orphan' : q \in Proc /\ pc'[q] \in {"writeHeld", "writeIndex"}
  BY <1>1, <1>2 DEF Sound, NoOrphans, TypeOK
<1> QED
  BY <1>1, <1>2, <1>3, <1>4, <1>5, ArchiveChanges

-----------------------------------------------------------------------------

\* The invariant holds: as long as no step has destroyed a file its process had not
\* read, a log has one writer, whoever relies on a log or archive that has changed
\* is known, and what is kept is stored.
THEOREM InvariantHolds == Spec => []StoreInv
<1>1. StoreInv <=> (breach = {} => Sound)
  BY DEF StoreInv, Sound, AllStored
<1>2. Init => StoreInv
  BY <1>1 DEF Init, Sound, NoOrphans, LogWriterIsAlone, WritesLog, LogReadersAreSound, Relies,
     GzWriterIsAlone, GzReadersAreSound, ArchivedBeforeUnlinked, AllStored, ArchiveSteps
<1>3. TypeOK /\ StoreInv /\ [Next]_vars => StoreInv'
  <2> SUFFICES ASSUME TypeOK, breach = {} => Sound, [Next]_vars, breach' = {} PROVE Sound'
    BY DEF StoreInv, Sound, AllStored
  <2>1. ASSUME NEW p \in Proc, Recording(p) PROVE Sound'
    <3>1. breach = {}
      BY <2>1, NoBlame DEF Recording, AppendEvent, Capture, Store, OpenLog, TruncateLog,
         WriteLog, OpenHeld, WriteHeld
    <3>2. ASSUME NEW s \in Session, NEW e \in Event, AppendEvent(p, s, e) PROVE Sound'
      <4>1. Held(log[s]) \union {e} \in SUBSET Event
        BY DEF TypeOK, Records, Content, Held
      <4> QED
        BY <3>1, <3>2, <4>1, StoreKeeps DEF AppendEvent
    <3>3. ASSUME NEW s \in Session, NEW turns \in SUBSET Event, Capture(p, s, turns) PROVE Sound'
      BY <3>1, <3>3, StoreKeeps DEF Capture
    <3> QED
      BY <2>1, <3>1, <3>2, <3>3, TruncateLogKeeps, WriteLogKeeps, AsideKeeps DEF Recording
  <2>2. ASSUME NEW p \in Proc, Reviewing(p) PROVE Sound'
    <3>1. breach = {}
      BY <2>2, NoBlame DEF Reviewing, Release, Discard, OpenRelease, TruncateLog, WriteRelease,
         CommitSucceeds, CommitFails, DropHeld
    <3> QED
      BY <2>2, <3>1, ReleaseKeeps, AsideKeeps, TruncateLogKeeps, WriteLogKeeps, CommitFailsKeeps
         DEF Reviewing
  <2>3. ASSUME NEW p \in Proc, Archiving(p) PROVE Sound'
    <3>1. breach = {}
      <4>1. CASE OpenGz(p)
        BY <4>1 DEF OpenGz
      <4>2. CASE OpenIndex(p) \/ WriteIndex(p) \/ \E s \in Session : UnlinkLog(p, s)
        BY <4>2 DEF OpenIndex, WriteIndex, UnlinkLog, Blame
      <4>3. CASE ReadGz(p) \/ ReadGzRaises(p) \/ WriteGz(p) \/ \E due \in SUBSET Session : Archive(p, due)
        BY <4>3 DEF Archive, ReadGz, ReadGzRaises, WriteGz
      <4> QED
        BY <2>3, <4>1, <4>2, <4>3 DEF Archiving
    <3> QED
      BY <2>3, <3>1, ArchiveKeeps, ReadGzKeeps, AsideKeeps, OpenGzKeeps, WriteGzKeeps,
         UnlinkLogKeeps DEF Archiving
  <2>4. ASSUME NEW p \in Proc, Purging(p) PROVE Sound'
    <3>1. breach = {}
      BY <2>4, NoBlame DEF Purging, PurgeLog, PurgeArchive, PurgeIndex
    <3> QED
      BY <2>4, <3>1, PurgeLogKeeps, PurgeArchiveKeeps, AsideKeeps DEF Purging
  <2>5. ASSUME NEW p \in Proc, Crash(p) PROVE Sound'
    <3>1. breach = {}
      BY <2>5, NoBlame DEF Crash
    <3> QED
      BY <2>5, <3>1, AsideKeeps
  <2>6. CASE UNCHANGED vars
    <3>1. UNCHANGED <<log, gz, pc, job, orphan, staleLogs, staleGz, kept, breach>>
      BY <2>6 DEF vars, disk, work, promises
    <3>2. NoOrphans' /\ LogWriterIsAlone'
      BY <3>1 DEF Sound, NoOrphans, LogWriterIsAlone, WritesLog, Relies
    <3>3. LogReadersAreSound'
      BY <3>1 DEF Sound, LogReadersAreSound, Relies
    <3>4. GzWriterIsAlone' /\ GzReadersAreSound' /\ ArchivedBeforeUnlinked'
      BY <3>1 DEF Sound, GzWriterIsAlone, GzReadersAreSound, ArchivedBeforeUnlinked
    <3>5. AllStored'
      BY <3>1 DEF Sound, AllStored, Stored, InFlight
    <3> QED
      BY <3>2, <3>3, <3>4, <3>5 DEF Sound
  <2> QED
    BY <2>1, <2>2, <2>3, <2>4, <2>5, <2>6 DEF Next
<1> QED
  BY <1>2, <1>3, TypeCorrect, PTL DEF Spec

\* No recorded turn is lost by any overlap, short of such a step: it stays in the
\* session's log or archive, or in the hands of a process that is writing it there.
THEOREM TurnsAreKept == Spec => []EventsKept
<1>1. StoreInv => EventsKept
  BY DEF StoreInv, EventsKept
<1> QED
  BY <1>1, InvariantHolds, PTL

-----------------------------------------------------------------------------
(* What is only in the archive is named by its index.                       *)

\* IndexInv in a state without a breach.
Indexed ==
  /\ CutFilesHaveWriters
  /\ OneRewriterKnows
  /\ RewritersAreSound
  /\ OnlyArchivedIsNamed

-----------------------------------------------------------------------------
(* What is only archived.                                                   *)

\* A session of which the archive alone has turns is in it, while nobody rewrites it.
LEMMA OnlyArchivedIsThere ==
  ASSUME TypeOK, Sound, NEW s \in Session, OnlyArchived(s), \A p \in Proc : pc[p] # "writeGz"
  PROVE  gz[s] # Absent
<1>1. \A e \in kept[s] : \/ e \in Held(log[s]) \/ e \in Held(gz[s])
                         \/ \E p \in Proc : pc[p] = "writeLog" /\ job[p].s = s
  BY DEF Sound, AllStored, Stored, InFlight
<1>2. CASE log[s] = Absent /\ kept[s] # {}
  <2>1. \A p \in Proc : ~WritesLog(p, s)
    BY <1>2, MarkersAreNoFiles DEF Sound, LogWriterIsAlone
  <2> QED
    BY <1>1, <1>2, <2>1 DEF Held, WritesLog
<1>3. ASSUME NEW p \in Proc, MayUnlink(p, s), pc[p] \in {"writeRelease", "commit"}
      PROVE  gz[s] # Absent
  <2>1. job[p].s = s /\ \E e \in kept[s] : e \notin Held(job[p].text[s])
    BY <1>3 DEF MayUnlink
  <2>2. PICK e \in kept[s] : e \notin Held(job[p].text[s])
    BY <2>1
  <2>3. Held(log[s]) \subseteq Held(job[p].text[s])
    BY <1>3, <2>1 DEF MayUnlink, Sound, LogWriterIsAlone, LogReadersAreSound, WritesLog, Relies, Held
  <2>4. \A q \in Proc : ~(pc[q] = "writeLog" /\ job[q].s = s)
    BY <1>3, <2>1 DEF MayUnlink, Sound, LogWriterIsAlone, WritesLog, Relies
  <2> QED
    BY <1>1, <2>2, <2>3, <2>4 DEF Held
<1>4. ASSUME NEW p \in Proc, MayUnlink(p, s), pc[p] = "unlinkLogs"
      PROVE  gz[s] # Absent
  <2>1. Relies(p, s) /\ s \notin staleLogs[p] /\ s \in job[p].due /\ kept[s] # {}
    BY <1>4 DEF MayUnlink, Relies, ArchiveSteps
  <2>2. log[s] = job[p].text[s] /\ \A q \in Proc : ~(pc[q] = "writeLog" /\ job[q].s = s)
    BY <1>4, <2>1 DEF Sound, LogWriterIsAlone, LogReadersAreSound, WritesLog, ArchiveSteps
  <2>3. \A e \in kept[s] \intersect Held(job[p].text[s]) : e \in Held(gz[s])
    BY <1>4, <2>1 DEF Sound, ArchivedBeforeUnlinked
  <2> QED
    BY <1>1, <2>1, <2>2, <2>3 DEF Held
<1> QED
  BY <1>2, <1>3, <1>4 DEF OnlyArchived, MayUnlink

\* Nothing comes to be only archived by a step of p that leaves logs and others alone.
LEMMA NothingIsUnlinked ==
  ASSUME NEW p \in Proc, log' = log, \A s \in Session : kept'[s] \subseteq kept[s],
         \A q \in Proc \ {p} : pc'[q] = pc[q] /\ job'[q] = job[q] /\ staleLogs'[q] = staleLogs[q],
         \A s \in Session : MayUnlink(p, s)' => MayUnlink(p, s)
  PROVE  \A s \in Session : OnlyArchived(s)' => OnlyArchived(s)
  BY DEF OnlyArchived, MayUnlink

\* Nor by one that changes a log nobody else is writing, if what p leaves only in the
\* archive was only there, or p was about to do so.
LEMMA OneLogIsUnlinked ==
  ASSUME NEW p \in Proc, NEW s \in Session,
         \A r \in Session \ {s} : log'[r] = log[r] /\ kept'[r] = kept[r],
         \A q \in Proc \ {p} :
           /\ pc'[q] = pc[q] /\ job'[q] = job[q] /\ ~WritesLog(q, s)
           /\ pc[q] # "idle" => s \in staleLogs'[q]
           /\ \A r \in Session \ {s} : r \in staleLogs'[q] <=> r \in staleLogs[q],
         \A r \in Session \ {s} : MayUnlink(p, r)' => MayUnlink(p, r),
         MayUnlink(p, s)' \/ (log'[s] = Absent /\ kept'[s] # {}) => OnlyArchived(s)
  PROVE  \A r \in Session : OnlyArchived(r)' => OnlyArchived(r)
<1> SUFFICES ASSUME NEW r \in Session, OnlyArchived(r)' PROVE OnlyArchived(r)
  OBVIOUS
<1>1. CASE r = s
  <2>1. \A q \in Proc \ {p} : ~MayUnlink(q, s)'
    BY DEF MayUnlink, WritesLog
  <2> QED
    BY <1>1, <2>1 DEF OnlyArchived
<1>2. CASE r # s
  <2>1. \A q \in Proc \ {p} : MayUnlink(q, r)' => MayUnlink(q, r)
    BY <1>2 DEF MayUnlink
  <2> QED
    BY <1>2, <2>1 DEF OnlyArchived
<1> QED
  BY <1>1, <1>2

-----------------------------------------------------------------------------
(* Steps that leave archive and index alone.                                *)

\* Nothing is claimed of such a call but what it begins with.
LEMMA AsideOfIndex ==
  ASSUME Indexed, NEW p \in Proc, index' = index, gz' = gz, torn' = torn,
         \A q \in Proc \ {p} : /\ pc'[q] = pc[q] /\ job'[q] = job[q]
                               /\ q \in staleGz' <=> q \in staleGz,
         pc[p] \notin {"writeGz", "writeIndex"}, pc'[p] \notin RewriteSteps,
         \A q \in orphan' : pc'[q] # "writeIndex",
         pc'[p] = "readGz" => job'[p].s = Absent,
         pc'[p] = "openGz" /\ job'[p].s # Absent => job'[p].text[job'[p].s] = Absent,
         \A s \in Session : OnlyArchived(s)' => OnlyArchived(s)
  PROVE  Indexed'
<1>1. \A q \in Proc : /\ pc'[q] = "writeIndex" <=> pc[q] = "writeIndex"
                      /\ pc'[q] = "writeGz" <=> pc[q] = "writeGz"
                      /\ pc'[q] \in RewriteSteps => q # p
  BY DEF RewriteSteps
<1>2. CutFilesHaveWriters'
  BY <1>1 DEF Indexed, CutFilesHaveWriters
<1>3. OneRewriterKnows'
  BY <1>1 DEF Indexed, OneRewriterKnows
<1>4. RewritersAreSound'
  BY <1>1 DEF Indexed, RewritersAreSound, RewriteSteps
<1>5. OnlyArchivedIsNamed'
  BY <1>1 DEF Indexed, OnlyArchivedIsNamed, RewriteSteps
<1> QED
  BY <1>2, <1>3, <1>4, <1>5 DEF Indexed

\* A call begins: a purge drops its session in memory, and no log changes.
LEMMA BeginLeavesIndex ==
  ASSUME TypeOK, Sound, Indexed, NEW p \in Proc, NEW step, NEW s, NEW text, NEW due,
         Begin(p, step, s, text, due), step \in {"openLog", "openHeld", "openRelease", "readGz", "openGz"},
         step = "openGz" => text[s] = Absent, step = "readGz" => s = Absent,
         UNCHANGED <<log, gz, torn, index, kept, orphan>>,
         \A q \in Proc \ {p} : staleLogs'[q] = staleLogs[q] /\ (q \in staleGz' <=> q \in staleGz)
  PROVE  Indexed'
<1>1. /\ pc[p] = "idle" /\ pc'[p] = step /\ job'[p].s = s /\ job'[p].text = text
      /\ \A q \in Proc \ {p} : pc'[q] = pc[q] /\ job'[q] = job[q]
  BY BeginFacts
<1>2. \A r \in Session : ~MayUnlink(p, r)'
  BY <1>1 DEF MayUnlink
<1>3. \A r \in Session : OnlyArchived(r)' => OnlyArchived(r)
  BY <1>1, <1>2, NothingIsUnlinked
<1>4. \A q \in orphan' : pc'[q] # "writeIndex"
  BY <1>1 DEF Indexed, CutFilesHaveWriters, TypeOK
<1> QED
  BY <1>1, <1>3, <1>4, AsideOfIndex DEF RewriteSteps

\* A call ends that writes neither archive nor index.
LEMMA EndLeavesIndex ==
  ASSUME TypeOK, Sound, Indexed, NEW p \in Proc, End(p), UNCHANGED <<log, gz, torn, index, kept>>,
         pc[p] \notin {"writeGz", "writeIndex"},
         \A q \in Proc \ {p} : staleLogs'[q] = staleLogs[q],
         \A q \in orphan' : q \in orphan \/ pc[q] # "writeIndex"
  PROVE  Indexed'
<1>1. /\ pc'[p] = "idle"
      /\ \A q \in Proc \ {p} : pc'[q] = pc[q] /\ job'[q] = job[q] /\ (q \in staleGz' <=> q \in staleGz)
  BY EndFacts
<1>2. \A r \in Session : OnlyArchived(r)' => OnlyArchived(r)
  <2>1. \A r \in Session : ~MayUnlink(p, r)'
    BY <1>1 DEF MayUnlink
  <2> QED
    BY <1>1, <2>1, NothingIsUnlinked
<1>3. \A q \in orphan' : pc'[q] # "writeIndex"
  <2> SUFFICES ASSUME NEW q \in orphan', pc'[q] = "writeIndex" PROVE FALSE
    OBVIOUS
  <2>1. pc[q] # "writeIndex"
    BY DEF Indexed, CutFilesHaveWriters
  <2>2. pc' = [pc EXCEPT ![p] = "idle"] /\ pc \in [Proc -> Step]
    BY DEF End, TypeOK
  <2> QED
    BY <2>1, <2>2
<1> QED
  BY <1>1, <1>2, <1>3, AsideOfIndex DEF RewriteSteps

\* The quarantine, a release committed, an archive that cannot be read, a crash.
LEMMA AsideLeavesIndex ==
  ASSUME TypeOK, Sound, Indexed, NEW p \in Proc, breach' = {},
         \/ OpenHeld(p) \/ WriteHeld(p) \/ DropHeld(p) \/ (\E s \in Session : Discard(p, s))
         \/ CommitSucceeds(p) \/ ReadGzRaises(p) \/ Crash(p)
  PROVE  Indexed'
<1>0. \A q \in orphan : q \in Proc /\ pc[q] # "writeIndex"
  BY DEF Indexed, CutFilesHaveWriters, TypeOK
<1>1. CASE OpenHeld(p) \/ CommitSucceeds(p)
  <2>1. /\ pc[p] \in {"openHeld", "commit"} /\ pc'[p] \in {"writeHeld", "drop"}
        /\ \A q \in Proc \ {p} : pc'[q] = pc[q]
        /\ UNCHANGED <<log, gz, torn, index, kept, job, orphan, staleLogs, staleGz>>
    BY <1>1, GotoFacts DEF OpenHeld, CommitSucceeds, disk, promises
  <2>2. \A s \in Session : ~MayUnlink(p, s)'
    BY <2>1 DEF MayUnlink
  <2>3. \A s \in Session : OnlyArchived(s)' => OnlyArchived(s)
    BY <2>1, <2>2, NothingIsUnlinked
  <2>4. \A q \in orphan' : pc'[q] # "writeIndex"
    BY <1>0, <2>1
  <2> QED
    BY <2>1, <2>3, <2>4, AsideOfIndex DEF RewriteSteps
<1>2. CASE WriteHeld(p) \/ DropHeld(p) \/ ReadGzRaises(p) \/ Crash(p)
  <2>1. /\ End(p) /\ UNCHANGED <<log, gz, torn, index, kept>>
        /\ \A q \in Proc \ {p} : staleLogs'[q] = staleLogs[q]
    BY <1>2 DEF WriteHeld, DropHeld, ReadGzRaises, Crash, disk, promises, TypeOK
  <2>2. pc[p] \notin {"writeGz", "writeIndex"}
    <3>1. CASE Crash(p)
      BY <1>0, <3>1, NoBlame DEF Crash, Sound, NoOrphans
    <3> QED
      BY <1>2, <3>1 DEF WriteHeld, DropHeld, ReadGzRaises
  <2>3. \A q \in orphan' : q \in orphan \/ pc[q] # "writeIndex"
    BY <1>2 DEF WriteHeld, DropHeld, ReadGzRaises, Crash, HeldWriters
  <2> QED
    BY <2>1, <2>2, <2>3, EndLeavesIndex
<1>3. CASE \E s \in Session : Discard(p, s)
  <2>1. /\ pc[p] = "idle" /\ UNCHANGED <<log, gz, torn, index, kept, pc, job, staleLogs, staleGz>>
        /\ \A q \in orphan' : q \in orphan \/ pc[q] # "writeIndex"
    BY <1>3 DEF Discard, HeldWriters
  <2>2. \A s \in Session : OnlyArchived(s)' => OnlyArchived(s)
    BY <2>1, NothingIsUnlinked DEF MayUnlink
  <2>3. \A q \in orphan' : pc'[q] # "writeIndex"
    BY <1>0, <2>1
  <2> QED
    BY <2>1, <2>2, <2>3, AsideOfIndex DEF RewriteSteps
<1> QED
  BY <1>1, <1>2, <1>3

\* ReadGz goes on to the archive; the call is an archiver's.
LEMMA ReadGzLeavesIndex ==
  ASSUME TypeOK, Sound, Indexed, NEW p \in Proc, ReadGz(p)
  PROVE  Indexed'
<1>1. /\ pc[p] = "readGz" /\ pc'[p] = "openGz" /\ \A q \in Proc \ {p} : pc'[q] = pc[q]
      /\ UNCHANGED <<log, gz, torn, index, kept, orphan, staleLogs>>
      /\ \A q \in Proc \ {p} : q \in staleGz' <=> q \in staleGz
  BY GotoFacts DEF ReadGz, disk, promises
<1>2. (\A q \in Proc \ {p} : job'[q] = job[q]) /\ job'[p].s = job[p].s
  BY DEF ReadGz, TypeOK, Job
<1>3. \A s \in Session : OnlyArchived(s)' => OnlyArchived(s)
  BY <1>1, <1>2, NothingIsUnlinked DEF MayUnlink
<1>4. \A q \in orphan' : pc'[q] # "writeIndex"
  BY <1>1 DEF Indexed, CutFilesHaveWriters, TypeOK
<1> QED
  BY <1>1, <1>2, <1>3, <1>4, AsideOfIndex DEF RewriteSteps, Indexed, RewritersAreSound

\* A log changes: who else is busy learns of it, and p leaves nothing in the archive
\* alone that was not.
LEMMA LogStepLeavesIndex ==
  ASSUME TypeOK, Sound, Indexed, NEW p \in Proc, NEW s \in Session,
         UNCHANGED <<gz, torn, index>>,
         \A r \in Session \ {s} : log'[r] = log[r] /\ kept'[r] = kept[r],
         \A q \in Proc \ {p} : /\ pc'[q] = pc[q] /\ job'[q] = job[q] /\ ~WritesLog(q, s)
                               /\ q \in staleGz' <=> q \in staleGz
                               /\ staleLogs'[q] = LogChanged(p, s)[q],
         \A q \in orphan' : q \in Proc /\ pc[q] # "writeIndex",
         pc[p] \notin {"writeGz", "writeIndex"}, pc'[p] \notin RewriteSteps \union {"readGz", "openGz"},
         \A r \in Session \ {s} : MayUnlink(p, r)' => MayUnlink(p, r),
         MayUnlink(p, s)' \/ (log'[s] = Absent /\ kept'[s] # {}) => OnlyArchived(s)
  PROVE  Indexed'
<1>1. \A q \in Proc \ {p} : /\ pc[q] # "idle" => s \in staleLogs'[q]
                            /\ \A r \in Session \ {s} : r \in staleLogs'[q] <=> r \in staleLogs[q]
  BY LogChangedFacts
<1>2. \A r \in Session : OnlyArchived(r)' => OnlyArchived(r)
  BY <1>1, OneLogIsUnlinked
<1>3. \A q \in orphan' : pc'[q] # "writeIndex"
  BY DEF RewriteSteps
<1> QED
  BY <1>2, <1>3, AsideOfIndex

\* A log is truncated: if it is for a release there was none.
LEMMA TruncateLogLeavesIndex ==
  ASSUME TypeOK, Sound, Indexed, NEW p \in Proc, OpenLog(p) \/ OpenRelease(p), breach' = {}
  PROVE  Indexed'
<1>0. \A q \in orphan : q \in Proc /\ pc[q] # "writeIndex"
  BY DEF Indexed, CutFilesHaveWriters, TypeOK
<1>1. PICK s \in Session : s = job[p].s
  BY DEF TypeOK, OpenLog, OpenRelease, TruncateLog
<1>2. s \notin staleLogs[p] \/ log[s] = Absent
  BY <1>1, NoBlame DEF OpenLog, OpenRelease, TruncateLog
<1>3. /\ pc[p] \in {"openLog", "openRelease"}
      /\ pc'[p] = IF pc[p] = "openLog" THEN "writeLog" ELSE "writeRelease"
      /\ \A q \in Proc \ {p} : pc'[q] = pc[q]
  BY GotoFacts DEF OpenLog, OpenRelease, TruncateLog
<1>4. /\ UNCHANGED <<gz, torn, index, job, orphan, staleGz, kept>>
      /\ log' = [log EXCEPT ![s] = {}] /\ staleLogs' = LogChanged(p, s)
  BY <1>1 DEF OpenLog, OpenRelease, TruncateLog, promises
<1>5. log'[s] # Absent /\ \A r \in Session \ {s} : log'[r] = log[r]
  BY <1>1, <1>4, MarkersAreNoFiles DEF TypeOK, Records
<1>6. Relies(p, s)
  BY <1>1, <1>3 DEF Relies
<1>7. \A q \in Proc \ {p} : ~WritesLog(q, s)
  BY <1>1, <1>2, <1>6, NobodyElseWrites
<1>8. \A r \in Session : MayUnlink(p, r)' => r = s /\ pc[p] = "openRelease" /\ kept[s] # {}
  BY <1>1, <1>3, <1>4 DEF MayUnlink
<1>9. pc[p] = "openRelease" => log[s] = Absent
  BY <1>2, <1>6 DEF Sound, LogReadersAreSound
<1>10. \A r \in Session \ {s} : ~MayUnlink(p, r)'
  BY <1>8
<1>11. MayUnlink(p, s)' \/ (log'[s] = Absent /\ kept'[s] # {}) => OnlyArchived(s)
  BY <1>5, <1>8, <1>9 DEF OnlyArchived
<1>12. /\ pc[p] \notin {"writeGz", "writeIndex"}
       /\ pc'[p] \notin RewriteSteps \union {"readGz", "openGz"}
  BY <1>3 DEF RewriteSteps
<1> QED
  BY <1>0, <1>3, <1>4, <1>5, <1>7, <1>10, <1>11, <1>12, LogStepLeavesIndex

\* The text appears; what the released text lacks was only archived before.
LEMMA WriteLogLeavesIndex ==
  ASSUME TypeOK, Sound, Indexed, NEW p \in Proc, WriteLog(p) \/ WriteRelease(p)
  PROVE  Indexed'
<1>0. \A q \in orphan : q \in Proc /\ pc[q] # "writeIndex"
  BY DEF Indexed, CutFilesHaveWriters, TypeOK
<1>1. PICK s \in Session : s = job[p].s /\ job[p].text[s] # Absent
  BY DEF TypeOK, WriteLog, WriteRelease
<1>2. p \notin orphan /\ pc[p] \in {"writeLog", "writeRelease"} /\ WritesLog(p, s)
  BY <1>1 DEF Sound, NoOrphans, WriteLog, WriteRelease, WritesLog
<1>3. /\ UNCHANGED <<gz, torn, index>> /\ orphan' = orphan \ {p}
      /\ log' = [log EXCEPT ![s] = job[p].text[s]]
      /\ kept' = [kept EXCEPT ![s] = @ \union job[p].text[s]]
  BY <1>1, <1>2 DEF WriteLog, WriteRelease
<1>4. /\ log'[s] = job[p].text[s] /\ kept'[s] = kept[s] \union job[p].text[s]
      /\ \A r \in Session \ {s} : log'[r] = log[r] /\ kept'[r] = kept[r]
  BY <1>1, <1>3 DEF TypeOK, Records
<1>5. \/ pc[p] = "writeLog" /\ pc'[p] = "idle"
      \/ pc[p] = "writeRelease" /\ pc'[p] = "commit" /\ job' = job
  BY EndFacts, GotoFacts DEF WriteLog, WriteRelease
<1>6. \A q \in Proc \ {p} : pc'[q] = pc[q] /\ job'[q] = job[q] /\ (q \in staleGz' <=> q \in staleGz)
  BY EndFacts, GotoFacts DEF WriteLog, WriteRelease
<1>7. \A q \in Proc \ {p} : staleLogs'[q] = LogChanged(p, s)[q]
  BY <1>1, LogChangedType DEF WriteLog, WriteRelease
<1>8. \A q \in Proc \ {p} : ~WritesLog(q, s)
  BY <1>1, <1>2 DEF Sound, LogWriterIsAlone
<1>9. \A r \in Session : MayUnlink(p, r)' =>
        /\ r = s /\ pc[p] = "writeRelease"
        /\ ~(kept[s] \union job[p].text[s] \subseteq Held(job[p].text[s]))
  BY <1>1, <1>4, <1>5 DEF MayUnlink
<1>10. MayUnlink(p, s)' => MayUnlink(p, s)
  BY <1>1, <1>9 DEF MayUnlink, Held
<1>11. MayUnlink(p, s)' \/ (log'[s] = Absent /\ kept'[s] # {}) => OnlyArchived(s)
  BY <1>1, <1>4, <1>10 DEF OnlyArchived
<1>12. /\ \A r \in Session \ {s} : ~MayUnlink(p, r)'
       /\ pc[p] \notin {"writeGz", "writeIndex"}
       /\ pc'[p] \notin RewriteSteps \union {"readGz", "openGz"}
       /\ \A q \in orphan' : q \in Proc /\ pc[q] # "writeIndex"
  BY <1>0, <1>3, <1>5, <1>9 DEF RewriteSteps
<1> QED
  BY <1>3, <1>4, <1>6, <1>7, <1>8, <1>11, <1>12, LogStepLeavesIndex

\* A release is taken back: what else was kept was only archived before.
LEMMA CommitFailsLeavesIndex ==
  ASSUME TypeOK, Sound, Indexed, NEW p \in Proc, CommitFails(p), breach' = {}
  PROVE  Indexed'
<1>0. \A q \in orphan : q \in Proc /\ pc[q] # "writeIndex"
  BY DEF Indexed, CutFilesHaveWriters, TypeOK
<1>1. PICK s \in Session : s = job[p].s /\ job[p].text[s] # Absent
  BY DEF TypeOK, CommitFails
<1>2. s \notin staleLogs[p] \/ log[s] = Absent
  BY <1>1, NoBlame DEF CommitFails
<1>3. pc[p] = "commit" /\ Relies(p, s)
  BY <1>1 DEF CommitFails, Relies
<1>4. \A q \in Proc \ {p} : ~WritesLog(q, s)
  BY <1>2, <1>3, NobodyElseWrites
<1>5. /\ UNCHANGED <<gz, torn, index>>
      /\ kept'[s] = kept[s] \ job[p].text[s]
      /\ \A r \in Session \ {s} : log'[r] = log[r] /\ kept'[r] = kept[r]
  BY <1>1 DEF CommitFails, TypeOK, Records
<1>6. /\ pc'[p] = "idle"
      /\ \A q \in Proc \ {p} : pc'[q] = pc[q] /\ job'[q] = job[q] /\ (q \in staleGz' <=> q \in staleGz)
  BY EndFacts DEF CommitFails
<1>7. \A q \in Proc \ {p} : staleLogs'[q] = LogChanged(p, s)[q]
  BY <1>1, LogChangedType DEF CommitFails
<1>8. \A q \in orphan' : q \in Proc /\ pc[q] # "writeIndex"
  BY <1>0, <1>1 DEF CommitFails, LogWriters
<1>9. \A r \in Session : ~MayUnlink(p, r)'
  BY <1>6 DEF MayUnlink
<1>10. kept'[s] # {} => OnlyArchived(s)
  BY <1>1, <1>2, <1>3, <1>5 DEF OnlyArchived, MayUnlink, Held
<1> QED
  BY <1>3, <1>4, <1>5, <1>6, <1>7, <1>8, <1>9, <1>10, LogStepLeavesIndex DEF RewriteSteps

\* An archiver unlinks a log: it was about to.
LEMMA UnlinkLogLeavesIndex ==
  ASSUME TypeOK, Sound, Indexed, NEW p \in Proc, NEW s \in Session, UnlinkLog(p, s), breach' = {}
  PROVE  Indexed'
<1>0. \A q \in orphan : q \in Proc /\ pc[q] # "writeIndex"
  BY DEF Indexed, CutFilesHaveWriters, TypeOK
<1>1. s \notin staleLogs[p] \/ log[s] = Absent
  BY NoBlame DEF UnlinkLog
<1>2. pc[p] = "unlinkLogs" /\ s \in job[p].due /\ Relies(p, s)
  BY DEF UnlinkLog, Relies, ArchiveSteps
<1>3. \A q \in Proc \ {p} : ~WritesLog(q, s)
  BY <1>1, <1>2, NobodyElseWrites
<1>4. /\ UNCHANGED <<gz, torn, index, kept>> /\ \A r \in Session \ {s} : log'[r] = log[r]
  BY DEF UnlinkLog, TypeOK, Records, promises
<1>5. /\ \A q \in Proc \ {p} : pc'[q] = pc[q] /\ job'[q] = job[q] /\ (q \in staleGz' <=> q \in staleGz)
      /\ \/ pc'[p] = "idle"
         \/ pc'[p] = "unlinkLogs" /\ job'[p].due = job[p].due \ {s} /\ staleLogs' = LogChanged(p, s)
  <2>1. CASE job[p].due = {s}
    BY <2>1, EndFacts DEF UnlinkLog
  <2>2. CASE job[p].due # {s}
    BY <1>2, <2>2 DEF UnlinkLog, TypeOK, Job
  <2> QED
    BY <2>1, <2>2
<1>6. \A q \in Proc \ {p} : staleLogs'[q] = LogChanged(p, s)[q]
  BY LogChangedType DEF UnlinkLog
<1>7. \A q \in orphan' : q \in Proc /\ pc[q] # "writeIndex"
  BY <1>0 DEF UnlinkLog, LogWriters
<1>8. ~MayUnlink(p, s)' /\ \A r \in Session \ {s} : MayUnlink(p, r)' => MayUnlink(p, r)
  BY <1>2, <1>4, <1>5, LogChangedFacts DEF MayUnlink
<1>9. kept'[s] # {} => OnlyArchived(s)
  BY <1>1, <1>2, <1>4 DEF OnlyArchived, MayUnlink
<1>10. pc[p] \notin {"writeGz", "writeIndex"} /\ pc'[p] \notin RewriteSteps \union {"readGz", "openGz"}
  BY <1>2, <1>5 DEF RewriteSteps
<1> QED
  BY <1>3, <1>4, <1>5, <1>6, <1>7, <1>8, <1>9, <1>10, LogStepLeavesIndex

\* A purge unlinks a log: nothing of the session is kept any more.
LEMMA PurgeLogLeavesIndex ==
  ASSUME TypeOK, Sound, Indexed, NEW p \in Proc, NEW s \in Session, PurgeLog(p, s), breach' = {}
  PROVE  Indexed'
<1>0. \A q \in orphan : q \in Proc /\ pc[q] # "writeIndex"
  BY DEF Indexed, CutFilesHaveWriters, TypeOK
<1>1. LogWriters(s) = {}
  BY NoBlame DEF PurgeLog
<1>2. \A q \in Proc : ~WritesLog(q, s)
  BY <1>1 DEF LogWriters, WritesLog, Sound, NoOrphans
<1>3. /\ pc[p] = "idle" /\ UNCHANGED <<gz, torn, index, pc, job, orphan, staleGz>>
      /\ staleLogs' = LogChanged(p, s)
      /\ kept'[s] = {} /\ \A r \in Session \ {s} : log'[r] = log[r] /\ kept'[r] = kept[r]
  BY <1>1 DEF PurgeLog, TypeOK, Records
<1>4. \A r \in Session : ~MayUnlink(p, r)'
  BY <1>3 DEF MayUnlink
<1> QED
  BY <1>0, <1>2, <1>3, <1>4, LogStepLeavesIndex DEF RewriteSteps

-----------------------------------------------------------------------------
(* Steps that rewrite the archive or the index.                             *)

\* The archive is truncated: p alone knows of it, and whoever writes the index is stale.
LEMMA OpenGzKeepsIndex ==
  ASSUME TypeOK, Sound, Indexed, NEW p \in Proc, OpenGz(p), breach' = {}
  PROVE  Indexed'
<1>1. /\ pc[p] = "openGz" /\ \A q \in Proc \ {p} : pc'[q] = pc[q]
      /\ pc'[p] = IF job[p].text = NoRecords THEN "openIndex" ELSE "writeGz"
  BY GotoFacts DEF OpenGz
<1>2. \A q \in Proc : pc[q] # "writeGz"
  BY <1>1 DEF OpenGz, Sound, GzWriterIsAlone
<1>3. /\ UNCHANGED <<log, staleLogs, job, index, orphan>> /\ gz' = NoRecords
      /\ torn' => pc'[p] = "writeGz"
      /\ p \notin staleGz' /\ \A q \in Proc \ {p} : pc[q] # "idle" => q \in staleGz'
      /\ \A s \in Session : kept'[s] \subseteq kept[s]
  BY ZenonT(60), <1>1, <1>2 DEF OpenGz, Others, GzWriters, TypeOK
<1>4. CutFilesHaveWriters'
  <2>1. \A q \in Proc : pc'[q] = "writeIndex" <=> pc[q] = "writeIndex"
    BY <1>1
  <2>2. \A q \in orphan : q \in Proc
    BY DEF TypeOK
  <2> QED
    BY <1>3, <2>1, <2>2 DEF Indexed, CutFilesHaveWriters
<1>5. OneRewriterKnows'
  BY <1>1, <1>2, <1>3 DEF OneRewriterKnows, RewriteSteps
<1>6. RewritersAreSound'
  BY <1>1, <1>3 DEF Indexed, RewritersAreSound, RewriteSteps
<1>7. \A s \in Session : OnlyArchived(s)' => OnlyArchived(s)
  BY <1>1, <1>3, NothingIsUnlinked DEF MayUnlink
<1>8. OnlyArchivedIsNamed'
  BY <1>1, <1>3, <1>7 DEF Indexed, OnlyArchivedIsNamed
<1> QED
  BY <1>4, <1>5, <1>6, <1>8 DEF Indexed

\* The archive's text appears: p alone knows of it.
LEMMA WriteGzKeepsIndex ==
  ASSUME TypeOK, Sound, Indexed, NEW p \in Proc, WriteGz(p)
  PROVE  Indexed'
<1>1. /\ pc[p] = "writeGz" /\ pc'[p] = "openIndex" /\ \A q \in Proc \ {p} : pc'[q] = pc[q]
      /\ p \notin orphan
  BY GotoFacts DEF WriteGz, Sound, NoOrphans
<1>2. p \notin staleGz /\ \A q \in Proc \ {p} : pc[q] # "writeGz"
  BY <1>1 DEF Indexed, OneRewriterKnows, RewriteSteps, Sound, GzWriterIsAlone
<1>3. /\ UNCHANGED <<log, staleLogs, job, index, kept>> /\ gz' = job[p].text /\ ~torn'
      /\ orphan' = orphan \ {p}
      /\ p \notin staleGz' /\ \A q \in Proc \ {p} : pc[q] # "idle" => q \in staleGz'
  BY <1>1, <1>2 DEF WriteGz, Others, promises
<1>4. CutFilesHaveWriters'
  <2>1. \A q \in Proc : pc'[q] = "writeIndex" <=> pc[q] = "writeIndex"
    BY <1>1
  <2>2. \A q \in orphan : q \in Proc
    BY DEF TypeOK
  <2> QED
    BY <1>3, <2>1, <2>2 DEF Indexed, CutFilesHaveWriters
<1>5. OneRewriterKnows'
  BY <1>1, <1>2, <1>3 DEF OneRewriterKnows, RewriteSteps
<1>6. RewritersAreSound'
  BY <1>1, <1>3 DEF Indexed, RewritersAreSound, RewriteSteps
<1>7. \A s \in Session : OnlyArchived(s)' => OnlyArchived(s)
  BY <1>1, <1>3, NothingIsUnlinked DEF MayUnlink
<1>8. OnlyArchivedIsNamed'
  BY <1>1, <1>3, <1>7 DEF Indexed, OnlyArchivedIsNamed
<1> QED
  BY <1>4, <1>5, <1>6, <1>8 DEF Indexed

\* An archiver begins the index with all that is in the archive.
LEMMA OpenIndexKeepsIndex ==
  ASSUME TypeOK, Sound, Indexed, NEW p \in Proc, OpenIndex(p), breach' = {}
  PROVE  Indexed'
<1>1. /\ pc[p] = "openIndex" /\ pc'[p] = "writeIndex" /\ \A q \in Proc \ {p} : pc'[q] = pc[q]
      /\ p \notin staleGz /\ job[p].s = Absent
  BY GotoFacts, NoBlame DEF OpenIndex
<1>2. UNCHANGED <<log, gz, torn, orphan, staleLogs, staleGz, kept>> /\ index' = Torn
  BY DEF OpenIndex, promises
<1>3. /\ \A q \in Proc \ {p} : job'[q] = job[q]
      /\ job'[p].s = job[p].s /\ job'[p].text = job[p].text /\ job'[p].due = job[p].due
      /\ job'[p].names = {s \in Session : job[p].text[s] # Absent}
  BY DEF OpenIndex, TypeOK, Job
<1>4. gz = job[p].text /\ \A q \in Proc : pc[q] # "writeGz"
  BY <1>1 DEF Indexed, RewritersAreSound, OneRewriterKnows, RewriteSteps
<1>5. CutFilesHaveWriters'
  BY <1>1, <1>2, <1>4 DEF Indexed, CutFilesHaveWriters, Sound, NoOrphans, TypeOK
<1>6. OneRewriterKnows'
  BY <1>1, <1>2 DEF Indexed, OneRewriterKnows, RewriteSteps
<1>7. RewritersAreSound'
  BY <1>1, <1>2, <1>3, <1>4 DEF Indexed, RewritersAreSound, RewriteSteps
<1>8. \A s \in Session : OnlyArchived(s)' => OnlyArchived(s)
  BY <1>1, <1>2, <1>3, NothingIsUnlinked DEF MayUnlink
<1>9. \A s \in Session : OnlyArchived(s)' => s \in job'[p].names
  BY <1>3, <1>4, <1>8, OnlyArchivedIsThere
<1>10. \A q \in Proc \ {p} : pc'[q] = "writeIndex" => q \in staleGz'
  BY <1>1, <1>2 DEF Indexed, OneRewriterKnows, RewriteSteps
<1>11. OnlyArchivedIsNamed'
  BY <1>1, <1>9, <1>10 DEF OnlyArchivedIsNamed
<1> QED
  BY <1>5, <1>6, <1>7, <1>11 DEF Indexed

\* A purge begins the index without its session, or unlinks one that names no other:
\* nobody else is writing it, and what it purged is not in the archive.
LEMMA PurgeIndexKeepsIndex ==
  ASSUME TypeOK, Sound, Indexed, NEW p \in Proc, PurgeIndex(p), breach' = {}
  PROVE  Indexed'
<1>1. PICK s \in Session : s = job[p].s
  BY DEF PurgeIndex, TypeOK, Job
<1>2. pc[p] = "openIndex" /\ p \notin staleGz /\ IndexWriters = {}
  BY NoBlame DEF PurgeIndex
<1>3. \A q \in Proc : pc[q] \notin {"writeGz", "writeIndex"}
  BY <1>2 DEF Indexed, OneRewriterKnows, CutFilesHaveWriters, RewriteSteps, IndexWriters
<1>4. gz[s] = Absent
  BY <1>1, <1>2, MarkersAreNoFiles DEF Indexed, RewritersAreSound, RewriteSteps
<1>5. ~OnlyArchived(s)
  BY <1>3, <1>4, OnlyArchivedIsThere
<1>6. \A r \in Session : OnlyArchived(r) => r \in NamesWithout(s)
  BY <1>3, <1>5 DEF Indexed, OnlyArchivedIsNamed, NamesWithout
<1>7. UNCHANGED <<log, gz, torn, kept>>
  BY DEF PurgeIndex
<1>8. CASE NamesWithout(s) # {}
  <2>1. /\ pc'[p] = "writeIndex" /\ (\A q \in Proc \ {p} : pc'[q] = pc[q])
        /\ index' = Torn /\ UNCHANGED <<orphan, staleLogs, staleGz>>
    BY <1>1, <1>8, GotoFacts DEF PurgeIndex
  <2>2. /\ \A q \in Proc \ {p} : job'[q] = job[q]
        /\ job'[p].s = job[p].s /\ job'[p].text = job[p].text
        /\ job'[p].names = NamesWithout(s)
    BY <1>1, <1>8 DEF PurgeIndex, TypeOK, Job
  <2>3. CutFilesHaveWriters'
    BY <1>2, <1>7, <2>1, <1>3 DEF Indexed, CutFilesHaveWriters, Sound, NoOrphans, TypeOK
  <2>4. OneRewriterKnows'
    BY <1>2, <2>1 DEF Indexed, OneRewriterKnows, RewriteSteps
  <2>5. RewritersAreSound'
    BY <1>1, <1>2, <1>7, <2>1, <2>2, MarkersAreNoFiles DEF Indexed, RewritersAreSound, RewriteSteps
  <2>6. \A r \in Session : OnlyArchived(r)' => OnlyArchived(r)
    BY <1>7, <2>1, <2>2, NothingIsUnlinked DEF MayUnlink
  <2>7. OnlyArchivedIsNamed'
    BY <1>3, <1>6, <2>1, <2>2, <2>6 DEF OnlyArchivedIsNamed
  <2> QED
    BY <2>3, <2>4, <2>5, <2>7 DEF Indexed
<1>9. CASE NamesWithout(s) = {}
  <2>1. /\ End(p) /\ index' = Absent /\ orphan' = orphan
        /\ \A q \in Proc \ {p} : staleLogs'[q] = staleLogs[q]
    BY <1>1, <1>2, <1>9 DEF PurgeIndex, TypeOK
  <2>2. /\ pc'[p] = "idle"
        /\ \A q \in Proc \ {p} : pc'[q] = pc[q] /\ job'[q] = job[q] /\ (q \in staleGz' <=> q \in staleGz)
    BY <2>1, EndFacts
  <2>3. CutFilesHaveWriters'
    BY <1>3, <1>7, <2>1, <2>2, MarkersAreNoFiles DEF Indexed, CutFilesHaveWriters, TypeOK
  <2>4. OneRewriterKnows'
    BY <2>2 DEF Indexed, OneRewriterKnows, RewriteSteps
  <2>5. RewritersAreSound'
    BY <1>7, <2>2 DEF Indexed, RewritersAreSound, RewriteSteps
  <2>6. \A r \in Session : OnlyArchived(r)' => OnlyArchived(r)
    BY <1>7, <2>1, <2>2, NothingIsUnlinked DEF MayUnlink
  <2>7. OnlyArchivedIsNamed'
    BY <1>6, <1>9, <2>6 DEF OnlyArchivedIsNamed
  <2> QED
    BY <2>3, <2>4, <2>5, <2>7 DEF Indexed
<1> QED
  BY <1>8, <1>9

\* The index appears, with the sessions whose logs its archiver is about to unlink.
LEMMA WriteIndexKeepsIndex ==
  ASSUME TypeOK, Sound, Indexed, NEW p \in Proc, WriteIndex(p), breach' = {}
  PROVE  Indexed'
<1>1. pc[p] = "writeIndex" /\ p \notin staleGz /\ p \notin orphan
  BY NoBlame DEF WriteIndex, Indexed, CutFilesHaveWriters
<1>2. UNCHANGED <<log, gz, torn, kept>> /\ index' = job[p].names /\ orphan' = orphan \ {p}
  BY <1>1 DEF WriteIndex
<1>3. gz = job[p].text /\ \A q \in Proc : pc[q] # "writeGz"
  BY <1>1 DEF Indexed, RewritersAreSound, OneRewriterKnows, RewriteSteps
<1>4. \A q \in Proc \ {p} : pc[q] \in RewriteSteps => q \in staleGz
  BY <1>1 DEF Indexed, OneRewriterKnows, RewriteSteps
<1>5. /\ \A q \in Proc \ {p} : /\ pc'[q] = pc[q] /\ job'[q] = job[q] /\ (q \in staleGz' <=> q \in staleGz)
                               /\ staleLogs'[q] = staleLogs[q]
      /\ \/ pc'[p] = "idle"
         \/ job[p].s = Absent /\ pc'[p] = "unlinkLogs" /\ job' = job /\ staleLogs' = staleLogs
  <2>1. CASE job[p].s = Absent
    BY <2>1, GotoFacts DEF WriteIndex
  <2>2. CASE job[p].s # Absent
    BY <2>2, EndFacts DEF WriteIndex, TypeOK
  <2> QED
    BY <2>1, <2>2
<1>6. index' \in SUBSET Session /\ index' \notin {Absent, Torn}
  BY <1>2, MarkersAreNoFiles DEF TypeOK, Job
<1>7. CutFilesHaveWriters'
  <2>1. \A q \in orphan' : q \in Proc /\ q # p /\ pc'[q] # "writeIndex"
    BY <1>2, <1>5 DEF Indexed, CutFilesHaveWriters, TypeOK
  <2> QED
    BY <1>2, <1>3, <1>6, <2>1 DEF Indexed, CutFilesHaveWriters
<1>8. OneRewriterKnows'
  BY <1>5 DEF Indexed, OneRewriterKnows, RewriteSteps
<1>9. RewritersAreSound'
  BY <1>2, <1>5 DEF Indexed, RewritersAreSound, RewriteSteps
<1>10. ASSUME NEW s \in Session, OnlyArchived(s)' PROVE s \in job[p].names
  <2>1. CASE OnlyArchived(s)
    BY <1>1, <2>1 DEF Indexed, OnlyArchivedIsNamed
  <2>2. CASE MayUnlink(p, s)'
    <3>1. /\ job[p].s = Absent /\ kept[s] # {}
          /\ s \in job[p].due \ staleLogs[p]
      BY <1>2, <1>5, <2>2 DEF MayUnlink
    <3>2. Relies(p, s)
      BY <1>1, <3>1 DEF Relies, ArchiveSteps
    <3>3. log[s] = job[p].text[s] /\ \A q \in Proc : ~(pc[q] = "writeLog" /\ job[q].s = s)
      BY <1>1, <3>1, <3>2 DEF Sound, LogWriterIsAlone, LogReadersAreSound, WritesLog, ArchiveSteps
    <3>4. \A e \in kept[s] : e \in Held(log[s]) \/ e \in Held(gz[s])
      BY <1>3, <3>3 DEF Sound, AllStored, Stored, InFlight
    <3>5. job[p].text[s] # Absent
      BY <1>3, <3>1, <3>3, <3>4 DEF Held
    <3> QED
      BY <1>1, <3>1, <3>5 DEF Indexed, RewritersAreSound
  <2>3. \A q \in Proc \ {p} : MayUnlink(q, s)' => MayUnlink(q, s)
    BY <1>2, <1>5 DEF MayUnlink
  <2> QED
    BY <1>2, <1>10, <2>1, <2>2, <2>3 DEF OnlyArchived
<1>11. OnlyArchivedIsNamed'
  BY <1>2, <1>4, <1>5, <1>6, <1>10 DEF OnlyArchivedIsNamed, RewriteSteps
<1> QED
  BY <1>7, <1>8, <1>9, <1>11 DEF Indexed

-----------------------------------------------------------------------------

\* What the index is for: cut files have writers, one call at most still knows what is in the
\* archive it has opened, and what is only archived is named.
THEOREM IndexHolds == Spec => []IndexInv
<1>1. (IndexInv <=> (breach = {} => Indexed)) /\ (StoreInv <=> (breach = {} => Sound))
  BY DEF IndexInv, Indexed, StoreInv, Sound, AllStored
<1>2. Init => IndexInv
  BY <1>1, MarkersAreNoFiles DEF Init, Indexed, CutFilesHaveWriters, OneRewriterKnows,
     RewritersAreSound, OnlyArchivedIsNamed, OnlyArchived, MayUnlink, RewriteSteps
<1>3. TypeOK /\ StoreInv /\ IndexInv /\ [Next]_vars => IndexInv'
  <2> SUFFICES ASSUME TypeOK, breach = {} => Sound, breach = {} => Indexed, [Next]_vars, breach' = {}
               PROVE  Indexed'
    BY <1>1 DEF IndexInv, Indexed
  <2>1. ASSUME NEW p \in Proc, Recording(p) PROVE Indexed'
    <3>1. breach = {}
      BY <2>1, NoBlame DEF Recording, AppendEvent, Capture, Store, OpenLog, TruncateLog,
         WriteLog, OpenHeld, WriteHeld
    <3>2. ASSUME NEW s \in Session, NEW text, Store(p, s, text) PROVE Indexed'
      BY <3>1, <3>2, BeginLeavesIndex DEF Store, disk, TypeOK
    <3> QED
      BY <2>1, <3>1, <3>2, TruncateLogLeavesIndex, WriteLogLeavesIndex, AsideLeavesIndex
         DEF Recording, AppendEvent, Capture
  <2>2. ASSUME NEW p \in Proc, Reviewing(p) PROVE Indexed'
    <3>1. breach = {}
      BY <2>2, NoBlame DEF Reviewing, Release, Discard, OpenRelease, TruncateLog, WriteRelease,
         CommitSucceeds, CommitFails, DropHeld
    <3>2. ASSUME NEW s \in Session, Release(p, s) PROVE Indexed'
      BY <3>1, <3>2, BeginLeavesIndex DEF Release, disk
    <3> QED
      BY <2>2, <3>1, <3>2, AsideLeavesIndex, TruncateLogLeavesIndex, WriteLogLeavesIndex,
         CommitFailsLeavesIndex DEF Reviewing
  <2>3. ASSUME NEW p \in Proc, Archiving(p) PROVE Indexed'
    <3>1. breach = {}
      <4>1. CASE OpenGz(p)
        BY <4>1 DEF OpenGz
      <4>2. CASE OpenIndex(p) \/ WriteIndex(p) \/ \E s \in Session : UnlinkLog(p, s)
        BY <4>2 DEF OpenIndex, WriteIndex, UnlinkLog, Blame
      <4>3. CASE ReadGz(p) \/ ReadGzRaises(p) \/ WriteGz(p) \/ \E due \in SUBSET Session : Archive(p, due)
        BY <4>3 DEF Archive, ReadGz, ReadGzRaises, WriteGz
      <4> QED
        BY <2>3, <4>1, <4>2, <4>3 DEF Archiving
    <3>2. ASSUME NEW due \in SUBSET Session, Archive(p, due) PROVE Indexed'
      BY <3>1, <3>2, BeginLeavesIndex DEF Archive, disk, promises
    <3> QED
      BY <2>3, <3>1, <3>2, ReadGzLeavesIndex, AsideLeavesIndex, OpenGzKeepsIndex, WriteGzKeepsIndex,
         OpenIndexKeepsIndex, WriteIndexKeepsIndex, UnlinkLogLeavesIndex DEF Archiving
  <2>4. ASSUME NEW p \in Proc, Purging(p) PROVE Indexed'
    <3>1. breach = {}
      BY <2>4, NoBlame DEF Purging, PurgeLog, PurgeArchive, PurgeIndex
    <3>2. ASSUME NEW s \in Session, PurgeArchive(p, s) PROVE Indexed'
      <4>1. [gz EXCEPT ![s] = Absent][s] = Absent
        BY DEF TypeOK, Records
      <4> QED
        BY <3>1, <3>2, <4>1, BeginLeavesIndex DEF PurgeArchive, disk, promises
    <3> QED
      BY <2>4, <3>1, <3>2, PurgeLogLeavesIndex, PurgeIndexKeepsIndex DEF Purging
  <2>5. ASSUME NEW p \in Proc, Crash(p) PROVE Indexed'
    BY <2>5, NoBlame, AsideLeavesIndex DEF Crash
  <2>6. CASE UNCHANGED vars
    <3>1. UNCHANGED <<log, gz, torn, index, pc, job, orphan, staleLogs, staleGz, kept, breach>>
      BY <2>6 DEF vars, disk, work, promises
    <3>2. CutFilesHaveWriters' /\ OneRewriterKnows' /\ RewritersAreSound'
      BY <3>1 DEF Indexed, CutFilesHaveWriters, OneRewriterKnows, RewritersAreSound
    <3>3. OnlyArchivedIsNamed'
      BY <3>1 DEF Indexed, OnlyArchivedIsNamed, OnlyArchived, MayUnlink
    <3> QED
      BY <3>2, <3>3 DEF Indexed
  <2> QED
    BY <2>1, <2>2, <2>3, <2>4, <2>5, <2>6 DEF Next
<1> QED
  BY <1>2, <1>3, TypeCorrect, InvariantHolds, PTL DEF Spec

\* Outside the rewriting of the archive or the index, a session whose log is gone is found
\* by every reader: the log goes last and names leave the index last.
THEOREM ArchivedIsFound == Spec => []ArchivedIsIndexed
<1>1. StoreInv /\ IndexInv => ArchivedIsIndexed
  <2> SUFFICES ASSUME StoreInv, IndexInv, breach = {}, \A p \in Proc : pc[p] \notin {"writeGz", "writeIndex"},
                      NEW s \in Session, log[s] = Absent, NEW e \in kept[s]
               PROVE  e \in Readable(s)
    BY DEF ArchivedIsIndexed
  <2>1. \A p \in Proc : ~WritesLog(p, s)
    BY MarkersAreNoFiles DEF StoreInv, LogWriterIsAlone
  <2>2. e \in Held(gz[s])
    BY <2>1 DEF StoreInv, Stored, InFlight, Held, WritesLog
  <2>3. ~torn /\ index \notin {Absent, Torn} /\ s \in index
    BY DEF IndexInv, CutFilesHaveWriters, OnlyArchivedIsNamed, OnlyArchived
  <2> QED
    BY <2>2, <2>3 DEF Readable
<1> QED
  BY <1>1, InvariantHolds, IndexHolds, PTL
============================================================================
