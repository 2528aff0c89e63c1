--------------------------- MODULE ContextParts_proofs ---------------------------
(***************************************************************************)
(* What the parts of Context guarantee, for every value of their           *)
(* constants.  Each part is an instance on variables of its own (where     *)
(* names meet, those of Clones, Gate, Reports, Remote, Review, Captured,   *)
(* Index and Vectors begin with c, g, r, m, v, t, i and e), declared where *)
(* its proofs begin; a theorem about one says nothing of the variables of  *)
(* the others.                                                             *)
(***************************************************************************)
EXTENDS Integers, Sequences, FiniteSets, SequencesExt, FiniteSetTheorems, SequenceTheorems,
        WellFoundedInduction, TLAPS

-----------------------------------------------------------------------------
(* The queue of pushes (PushQueue).                                         *)

CONSTANTS Proc, Unsafe, MaxCommits, MaxRounds, MaxActs
VARIABLES
  main, origin, track, stuck, queue, pc, prog, own, swept, round, acts, owed, waived, breach

Queue == INSTANCE PushQueue WITH
  MaxActs <- MaxActs["Queue"]

Steps == {"idle", "commit", "fetch", "pull", "scan", "drain", "push", "again", "remove", "enqueue"}

Shape ==
  /\ pc \in [Proc -> Steps]
  /\ prog \in [Proc -> Queue!Program]
  /\ track \subseteq origin

\* What the queued pushes were to send is on main, and a program about to remove the entry
\* knows that GitHub has it, unless a push was queued behind its back.
OwedInv ==
  /\ owed \subseteq main
  /\ "lost" \notin breach =>
       /\ owed \subseteq origin \/ queue
       /\ \A p \in Proc : pc[p] = "remove" => owed \subseteq origin

\* GitHub has nothing unsafe of this clone that is not waived, nor has what a program that has
\* scanned would push.
Excused == waived \union {Queue!Alien}
ScanInv ==
  /\ origin \intersect Unsafe \subseteq Excused
  /\ \A p \in Proc : prog[p] # "start" /\ Queue!InPush(p) => main \intersect Unsafe \subseteq Excused

-----------------------------------------------------------------------------
\* A rebase keeps what main had, and brings nothing but what GitHub has.
LEMMA RebaseKeeps ==
  ASSUME Queue!Rebase
  PROVE  /\ main \subseteq main' /\ main' \subseteq main \union origin /\ track' = origin
  BY DEF Queue!Rebase

\* One program moves.
LEMMA OneMoves ==
  ASSUME Shape, NEW p \in Proc, NEW step \in Steps, Queue!Goto(p, step)
  PROVE  /\ pc' \in [Proc -> Steps] /\ pc'[p] = step
         /\ \A q \in Proc : q # p => pc'[q] = pc[q]
  BY DEF Queue!Goto, Shape

\* What follows the drain of the queue is the push or the end.
LEMMA RestMoves ==
  ASSUME Shape, NEW p \in Proc, Queue!Rest(p)
  PROVE  /\ pc' \in [Proc -> Steps] /\ pc'[p] \in {"push", "idle"}
         /\ \A q \in Proc : q # p => pc'[q] = pc[q]
  BY OneMoves DEF Queue!Rest, Queue!Goto, Shape, Steps

-----------------------------------------------------------------------------
\* A queued push stays queued until GitHub has it, short of the race that breach names, and
\* what the scan refuses reaches GitHub only through another clone, session_start or a commit
\* made after a scan, with any number of programs at any steps.
THEOREM PushesStaySafe == Queue!Spec => []Queue!PushesAreSafe
<1> DEFINE Inv == Shape /\ OwedInv /\ ScanInv
<1>1. Queue!Init => Inv
  BY DEF Queue!Init, Shape, OwedInv, ScanInv, Excused, Steps, Queue!Program, Queue!InPush
<1>2. Inv /\ [Queue!Next]_Queue!vars => Inv'
  <2> SUFFICES ASSUME Inv, [Queue!Next]_Queue!vars PROVE Inv'
    OBVIOUS
  <2>1. ASSUME NEW p \in Proc, NEW program \in Queue!Program, Queue!Begin(p, program) PROVE Inv'
    BY <2>1 DEF Queue!Begin, Queue!Goto, Shape, OwedInv, ScanInv, Excused, Steps, Queue!Program, Queue!InPush
  <2>2. ASSUME NEW p \in Proc, Queue!CommitPending(p) PROVE Inv'
    BY <2>2 DEF Queue!CommitPending, Queue!Goto, Queue!Waive, Queue!Scanned, Shape, OwedInv,
       ScanInv, Excused, Steps, Queue!InPush
  <2>3. ASSUME NEW p \in Proc, Queue!Fetch(p) PROVE Inv'
    BY <2>3 DEF Queue!Fetch, Queue!Goto, Shape, OwedInv, ScanInv, Excused, Steps, Queue!InPush
  <2>4. ASSUME NEW p \in Proc, Queue!Pull(p) PROVE Inv'
    BY <2>4, RebaseKeeps DEF Queue!Pull, Queue!Goto, Shape, OwedInv, ScanInv, Excused, Steps,
       Queue!InPush
  <2>5. ASSUME NEW p \in Proc, Queue!Scan(p) PROVE Inv'
    BY <2>5 DEF Queue!Scan, Queue!Goto, Shape, OwedInv, ScanInv, Excused, Steps, Queue!InPush
  <2>6. ASSUME NEW p \in Proc, Queue!Drain(p) PROVE Inv'
    BY <2>6, RestMoves DEF Queue!Drain, Queue!Goto, Shape, OwedInv, ScanInv, Excused, Steps, Queue!InPush
  <2>7. ASSUME NEW p \in Proc, Queue!Push(p) PROVE Inv'
    BY <2>7 DEF Queue!Push, Queue!Goto, Queue!Waive, Shape, OwedInv, ScanInv, Excused, Steps, Queue!InPush
  <2>8. ASSUME NEW p \in Proc, Queue!PullAgain(p) PROVE Inv'
    BY <2>8, RebaseKeeps DEF Queue!PullAgain, Queue!Goto, Shape, OwedInv, ScanInv, Excused,
       Steps, Queue!InPush
  <2>9. ASSUME NEW p \in Proc, Queue!Remove(p) PROVE Inv'
    BY <2>9, RestMoves DEF Queue!Remove, Shape, OwedInv, ScanInv, Excused, Steps, Queue!InPush
  <2>10. ASSUME NEW p \in Proc, Queue!Enqueue(p) PROVE Inv'
    BY <2>10, RestMoves DEF Queue!Enqueue, Shape, OwedInv, ScanInv, Excused, Steps, Queue!InPush
  <2>11. ASSUME NEW p \in Proc, Queue!Die(p) PROVE Inv'
    BY <2>11 DEF Queue!Die, Queue!Goto, Shape, OwedInv, ScanInv, Excused, Steps, Queue!InPush
  <2>12. CASE Queue!Advance
    BY <2>12 DEF Queue!Advance, Queue!process, Shape, OwedInv, ScanInv, Excused, Queue!InPush
  <2>13. CASE Queue!Resolve
    BY <2>13 DEF Queue!Resolve, Queue!process, Shape, OwedInv,
       ScanInv, Excused, Queue!InPush
  <2>14. CASE UNCHANGED Queue!vars
    BY <2>14 DEF Queue!vars, Queue!process, Shape, OwedInv, ScanInv, Excused, Queue!InPush
  <2> QED
    BY <2>1, <2>2, <2>3, <2>4, <2>5, <2>6, <2>7, <2>8, <2>9, <2>10, <2>11, <2>12, <2>13, <2>14
    DEF Queue!Next
<1>3. Inv => Queue!PushesAreSafe
  BY DEF OwedInv, ScanInv, Excused, Queue!PushesAreSafe, Queue!QueuedUntilPushed, Queue!ScannedBeforePushed
<1> QED
  BY <1>1, <1>2, <1>3, PTL DEF Queue!Spec

-----------------------------------------------------------------------------
(* The dreams of several clones (Fleet).                                    *)

CONSTANTS Clone, MaxRuns
VARIABLES log, cMain, cOrigin, cTrack, cStuck, cPc, run, old, next, cActs, pulled

Clones == INSTANCE Fleet WITH
  MaxActs <- MaxActs["Clones"], main <- cMain, origin <- cOrigin, track <- cTrack,
  stuck <- cStuck, pc <- cPc, acts <- cActs

Kind == {"started", "completed", "failed"}
Ends(r) == {<<r, "completed">>, <<r, "failed">>}
Start(r) == <<r, "started">>

FleetTypes ==
  /\ cPc \in [Clone -> {"idle", "start", "commit", "fetch", "push", "work", "end", "raise"}]
  /\ log \in [Clone -> SUBSET Clones!Event] /\ cMain \in [Clone -> SUBSET Clones!Event]
  /\ cTrack \in [Clone -> SUBSET Clones!Event] /\ cOrigin \subseteq Clones!Event
  /\ run \in [Clone -> Clones!Run \union {0}] /\ next \in 1 .. MaxRuns + 1

\* A branch is in the working tree, and origin/main was GitHub's.
BranchesGrow == \A c \in Clone : cMain[c] \subseteq log[c] /\ cTrack[c] \subseteq cOrigin

\* Runs have begun, and each is one clone's.
RunsAreOwn ==
  /\ \A c \in Clone : run[c] < next /\ (cPc[c] # "idle" => run[c] # 0)
  /\ \A c, d \in Clone : c # d /\ run[c] # 0 => run[c] # run[d]
  /\ \A e \in cOrigin : e[1] < next
  /\ \A c \in Clone : \A e \in log[c] : e[1] < next

\* What a run has written that is on GitHub or in another clone is on main of its own.
OwnFirst ==
  \A d \in Clone : run[d] # 0 =>
    /\ \A e \in cOrigin : e[1] = run[d] => e \in cMain[d]
    /\ \A c \in Clone \ {d} : \A e \in log[c] : e[1] = run[d] => e \in cMain[d]

\* A start is in the log, on main, and on GitHub, in this order.
StartIsPublished(c) ==
  c \notin pulled =>
    /\ cPc[c] = "commit" => Start(run[c]) \in log[c]
    /\ cPc[c] \in {"fetch", "push"} => Start(run[c]) \in cMain[c]
    /\ cPc[c] = "work" => Start(run[c]) \in cOrigin
StartsArePublished == \A c \in Clone : StartIsPublished(c)

Publishes(c) == cPc[c] \in {"start", "commit", "fetch", "push"} /\ Ends(run[c]) \intersect log[c] = {}
AtWork(c) == cPc[c] \in {"start", "commit", "fetch", "push", "work"} /\ Ends(run[c]) \intersect cMain[c] = {}
Knows(c, r) == Start(r) \in cMain[c] \/ (c \notin cStuck /\ Start(r) \in log[c])

\* Whoever is about to publish a start knows of no run that is at work and not old.
Unended(c) == cPc[c] \in {"start", "work"} => Ends(run[c]) \intersect log[c] = {}
LooksAreSound ==
  \A c, d \in Clone : c # d /\ c \notin pulled /\ Publishes(c) /\ AtWork(d) /\ Knows(c, run[d])
                      => run[d] \in old

FleetInv == /\ FleetTypes /\ BranchesGrow /\ RunsAreOwn /\ OwnFirst /\ StartsArePublished
            /\ (\A c \in Clone : Unended(c)) /\ LooksAreSound /\ Clones!OneDreamAtATime

\* A step of c leaves the others alone.
Elsewhere(c) ==
  \A d \in Clone \ {c} : /\ log'[d] = log[d] /\ cMain'[d] = cMain[d] /\ cTrack'[d] = cTrack[d]
                         /\ cPc'[d] = cPc[d] /\ run'[d] = run[d]
                         /\ (d \in cStuck' <=> d \in cStuck) /\ (d \in pulled' <=> d \in pulled)

\* What c writes is of its own run, or was written before; a run it begins is new.
Writes(c) ==
  /\ Elsewhere(c)
  /\ cMain[c] \subseteq cMain'[c] /\ cMain'[c] \subseteq log'[c] /\ cTrack'[c] \subseteq cOrigin'
  /\ cOrigin \subseteq cOrigin' /\ cOrigin' \subseteq cOrigin \union cMain[c]
  /\ \A e \in log'[c] : e \in log[c] \/ e \in cOrigin \/ (e[1] = run[c] /\ run[c] # 0)
  /\ cPc'[c] # "idle" => cPc[c] # "idle" \/ run'[c] = next
  /\ \/ run'[c] = run[c] /\ next' = next
     \/ run'[c] = next /\ next' = next + 1 /\ log' = log /\ cOrigin' = cOrigin

\* A new run has a number that no run had.
LEMMA Numbers ==
  ASSUME MaxRuns \in Nat, FleetTypes
  PROVE  /\ next \in Nat /\ next >= 1
         /\ \A d \in Clone : run[d] \in Nat
         /\ \A d \in Clone : \A e \in log[d] : e[1] \in Nat
         /\ \A e \in cOrigin : e[1] \in Nat
<1>1. \A e \in Clones!Event : e[1] \in Nat
  BY DEF Clones!Event, Clones!Run
<1> QED
  BY <1>1 DEF FleetTypes, Clones!Run

\* Who dreams has a run.
LEMMA RunOfDream ==
  ASSUME MaxRuns \in Nat, FleetTypes, RunsAreOwn, NEW c \in Clone, cPc[c] # "idle"
  PROVE run[c] \in Clones!Run
  BY DEF FleetTypes, RunsAreOwn, Clones!Run

\* Branches stay in the tree when one clone adds to its own.
LEMMA BranchesStayGrown ==
  ASSUME NEW c \in Clone, Writes(c), BranchesGrow PROVE BranchesGrow'
  BY DEF BranchesGrow, Writes, Elsewhere

\* Runs stay their clones' own when one clone writes of its own.
LEMMA RunsStayOwn ==
  ASSUME MaxRuns \in Nat, FleetTypes, FleetTypes', BranchesGrow, RunsAreOwn, NEW c \in Clone,
         Writes(c)
  PROVE  RunsAreOwn'
<1>1. next' \in Nat /\ next \in Nat /\ next >= 1 /\ next <= next'
  BY Numbers DEF Writes, FleetTypes
<1>2. \A d \in Clone : run[d] \in Nat /\ run'[d] \in Nat
  BY DEF FleetTypes, Clones!Run
<1>3. \A e \in Clones!Event : e[1] \in Nat
  BY DEF Clones!Event, Clones!Run
<1>4. \A d \in Clone : run'[d] < next' /\ (cPc'[d] # "idle" => run'[d] # 0)
  BY <1>1, <1>2 DEF RunsAreOwn, Writes, Elsewhere
<1>5. ASSUME NEW d \in Clone, NEW e \in Clone, d # e, run'[d] # 0 PROVE run'[d] # run'[e]
  <2>1. CASE d = c
    BY <1>1, <1>2, <1>5, <2>1 DEF RunsAreOwn, Writes, Elsewhere
  <2>2. CASE e = c
    BY <1>1, <1>2, <1>5, <2>2 DEF RunsAreOwn, Writes, Elsewhere
  <2>3. CASE d # c /\ e # c
    BY <1>5, <2>3 DEF RunsAreOwn, Writes, Elsewhere
  <2> QED
    BY <2>1, <2>2, <2>3
<1>6. \A e \in cOrigin' : e[1] < next'
  BY <1>1, <1>3 DEF RunsAreOwn, BranchesGrow, FleetTypes, Writes
<1>7. ASSUME NEW d \in Clone, NEW e \in log'[d] PROVE e[1] < next'
  <2>1. CASE d = c
    <3>1. e \in log[c] \/ e \in cOrigin \/ e[1] = run[c]
      BY <1>7, <2>1 DEF Writes
    <3>2. e[1] < next
      BY <3>1 DEF RunsAreOwn
    <3>3. e[1] \in Nat
      BY <1>3, <1>7 DEF FleetTypes
    <3> QED
      BY <1>1, <3>2, <3>3
  <2>2. CASE d # c
    <3>1. e[1] < next /\ e[1] \in Nat
      BY <1>3, <1>7, <2>2 DEF RunsAreOwn, Writes, Elsewhere, FleetTypes
    <3> QED
      BY <1>1, <3>1
  <2> QED
    BY <2>1, <2>2
<1> QED
  BY <1>4, <1>5, <1>6, <1>7 DEF RunsAreOwn

\* What others have of a run stays on main of its clone.
LEMMA OwnStaysFirst ==
  ASSUME MaxRuns \in Nat, FleetTypes, BranchesGrow, RunsAreOwn, OwnFirst, NEW c \in Clone, Writes(c)
  PROVE  OwnFirst'
<1> SUFFICES ASSUME NEW d \in Clone, run'[d] # 0
             PROVE  /\ \A e \in cOrigin' : e[1] = run'[d] => e \in cMain'[d]
                    /\ \A x \in Clone \ {d} : \A e \in log'[x] : e[1] = run'[d] => e \in cMain'[d]
  BY DEF OwnFirst
<1>1. CASE run'[d] = run[d]
  <2>1. cMain[d] \subseteq cMain'[d]
    BY DEF Writes, Elsewhere
  <2>2. ASSUME NEW e \in cOrigin', e[1] = run'[d] PROVE e \in cMain'[d]
    <3>1. CASE e \in cOrigin
      BY <1>1, <2>1, <2>2, <3>1 DEF OwnFirst
    <3>2. CASE e \in cMain[c]
      BY <1>1, <2>1, <2>2, <3>2 DEF OwnFirst, BranchesGrow
    <3> QED
      BY <2>2, <3>1, <3>2 DEF Writes
  <2>3. ASSUME NEW x \in Clone \ {d}, NEW e \in log'[x], e[1] = run'[d] PROVE e \in cMain'[d]
    <3>1. CASE x # c
      BY <1>1, <2>1, <2>3, <3>1 DEF OwnFirst, Writes, Elsewhere
    <3>2. CASE x = c
      <4>1. e[1] # run[c] \/ run[c] = 0
        BY <1>1, <2>3, <3>2 DEF RunsAreOwn
      <4>2. e \in log[c] \/ e \in cOrigin
        BY <2>3, <3>2, <4>1 DEF Writes
      <4> QED
        BY <1>1, <2>1, <2>3, <3>2, <4>2 DEF OwnFirst
    <3> QED
      BY <3>1, <3>2
  <2> QED
    BY <2>2, <2>3
<1>2. CASE run'[d] # run[d]
  <2>1. d = c /\ run'[d] = next /\ log' = log /\ cOrigin' = cOrigin
    BY <1>2 DEF Writes, Elsewhere
  <2> QED
    BY <2>1, Numbers DEF RunsAreOwn
<1> QED
  BY <1>1, <1>2

\* A step of c after which no run at work that it knows is young, and which starts at most a
\* run that nobody knows.
LEMMA LooksStaySound ==
  ASSUME MaxRuns \in Nat, FleetTypes, BranchesGrow, RunsAreOwn, LooksAreSound, NEW c \in Clone,
         Elsewhere(c),
         old \subseteq old',
         c \notin pulled' /\ Publishes(c)' =>
           \A d \in Clone \ {c} : AtWork(d) /\ Knows(c, run[d])' => run[d] \in old,
         AtWork(c)' => \/ AtWork(c) /\ run'[c] = run[c]
                       \/ run'[c] = next
  PROVE  LooksAreSound'
<1>2. ASSUME NEW x \in Clone, NEW d \in Clone, x # d, x \notin pulled', Publishes(x)', AtWork(d)',
             Knows(x, run[d])'
      PROVE  run'[d] \in old'
  <2>1. CASE x = c
    <3>1. AtWork(d) /\ run'[d] = run[d]
      BY <1>2, <2>1 DEF Elsewhere, AtWork
    <3> QED
      BY <1>2, <2>1, <3>1
  <2>2. CASE x # c /\ d # c
    <3>1. AtWork(d) /\ run'[d] = run[d] /\ Publishes(x) /\ Knows(x, run[d]) /\ x \notin pulled
      BY <1>2, <2>2 DEF Elsewhere, AtWork, Publishes, Knows
    <3> QED
      BY <1>2, <3>1 DEF LooksAreSound
  <2>3. CASE d = c
    <3>1. Publishes(x) /\ x \notin pulled /\ log'[x] = log[x] /\ cMain'[x] = cMain[x] /\ Knows(x, run'[d])
      BY <1>2, <2>3 DEF Elsewhere, Publishes, Knows
    <3>2. Start(run'[d]) \in log[x]
      BY <3>1 DEF Knows, BranchesGrow
    <3>3. run'[d] # next
      BY <3>2, Numbers DEF RunsAreOwn, Start
    <3> QED
      BY <1>2, <2>3, <3>1, <3>3 DEF LooksAreSound
  <2> QED
    BY <2>1, <2>2, <2>3
<1> QED
  BY <1>2 DEF LooksAreSound

\* What is left to show of a step of c.
LEMMA FleetKeeps ==
  ASSUME MaxRuns \in Nat, FleetInv, FleetTypes', NEW c \in Clone, Writes(c), old' = old,
         StartIsPublished(c)', Unended(c)',
         c \notin pulled' /\ Publishes(c)' =>
           \A d \in Clone \ {c} : AtWork(d) /\ Knows(c, run[d])' => run[d] \in old,
         AtWork(c)' => \/ AtWork(c) /\ run'[c] = run[c]
                       \/ run'[c] = next,
         cPc'[c] = "work" /\ c \notin pulled' =>
            \A d \in Clone \ {c} : cPc[d] = "work" /\ d \notin pulled => {run'[c], run[d]} \intersect old # {}
  PROVE  FleetInv'
<1> USE DEF FleetInv
<1>1. BranchesGrow' /\ RunsAreOwn' /\ OwnFirst'
  BY BranchesStayGrown, RunsStayOwn, OwnStaysFirst
<1>2. LooksAreSound'
  BY LooksStaySound DEF Writes
<1>3. \A d \in Clone \ {c} : StartIsPublished(d)' /\ Unended(d)'
  BY DEF Writes, Elsewhere, StartsArePublished, StartIsPublished, Unended
<1>4. Clones!OneDreamAtATime'
  BY DEF Writes, Elsewhere, Clones!OneDreamAtATime
<1> QED
  BY <1>1, <1>2, <1>3, <1>4 DEF StartsArePublished

\* The ends of a clone's run that are on GitHub are in its log.
LEMMA EndsComeHome ==
  ASSUME FleetInv, NEW c \in Clone, run[c] # 0
  PROVE  Ends(run[c]) \intersect cOrigin \subseteq cMain[c]
  BY DEF FleetInv, OwnFirst, Ends

\* A dream begins only if its clone knows of no run at work.
LEMMA LookKeeps ==
  ASSUME MaxRuns \in Nat, FleetInv, NEW c \in Clone, Clones!Look(c) PROVE FleetInv'
<1> USE DEF FleetInv, Clones!Goto, Clones!Append, Clones!clone, Clones!dream
<1>1. FleetTypes'
  BY DEF FleetTypes, Clones!Event, Clones!Run, Kind, Clones!Look, Clones!Active
<1>2. Writes(c) /\ old' = old
  BY DEF FleetTypes, Kind, Clones!Event, RunsAreOwn, BranchesGrow, Writes, Elsewhere, Clones!Look,
         Clones!Active
<1>3. StartIsPublished(c)'
  BY DEF FleetTypes, StartsArePublished, StartIsPublished, BranchesGrow, Start, Clones!Look,
         Clones!Active
<1>4. Unended(c)'
  <2>1. \A e \in log[c] : e[1] # next
    BY Numbers DEF RunsAreOwn
  <2>2. run'[c] = next /\ log'[c] = log[c]
    BY DEF Clones!Look, FleetTypes
  <2> QED
    BY <2>1, <2>2 DEF Unended, Ends
<1>5. c \notin pulled' /\ Publishes(c)' =>
        \A d \in Clone \ {c} : AtWork(d) /\ Knows(c, run[d])' => run[d] \in old
  <2> SUFFICES ASSUME NEW d \in Clone \ {c}, AtWork(d), Knows(c, run[d])' PROVE run[d] \in old
    OBVIOUS
  <2>1. run[d] \in Clones!Run /\ run[d] # 0
    BY RunOfDream DEF AtWork, RunsAreOwn
  <2>2. Start(run[d]) \in log[c] /\ run' = [run EXCEPT ![c] = next]
    BY DEF Knows, BranchesGrow, Clones!Look
  <2>3. Ends(run[d]) \intersect (log[c] \union cTrack[c]) = {}
    <3>1. ASSUME NEW e \in Ends(run[d]), e \in log[c] \/ e \in cTrack[c] PROVE e \in cMain[d]
      BY <2>1, <3>1 DEF OwnFirst, BranchesGrow, Ends
    <3> QED
      BY <3>1 DEF AtWork
  <2> QED
    BY <2>1, <2>2, <2>3 DEF Clones!Look, Clones!Active, Start, Ends
<1>6. AtWork(c)' => \/ AtWork(c) /\ run'[c] = run[c]
                    \/ run'[c] = next
  BY DEF FleetTypes, AtWork, Ends, Clones!Look, Clones!Active
<1>7. cPc'[c] = "work" /\ c \notin pulled' =>
         \A d \in Clone \ {c} : cPc[d] = "work" /\ d \notin pulled => {run'[c], run[d]} \intersect old # {}
  BY DEF FleetTypes, Clones!OneDreamAtATime, Clones!Look, Clones!Active
<1> QED
  BY <1>1, <1>2, <1>3, <1>4, <1>5, <1>6, <1>7, FleetKeeps

\* The start is written to the log.
LEMMA StartRunKeeps ==
  ASSUME MaxRuns \in Nat, FleetInv, NEW c \in Clone, Clones!StartRun(c) PROVE FleetInv'
<1> USE DEF FleetInv, Clones!Goto, Clones!Append, Clones!clone, Clones!dream
<1>1. FleetTypes'
  <2>1. run[c] \in Clones!Run
    BY RunOfDream DEF Clones!StartRun
  <2> QED
    BY <2>1 DEF FleetTypes, Clones!Event, Kind, Clones!StartRun
<1>2. Writes(c) /\ old' = old
  BY DEF FleetTypes, Kind, Clones!Event, RunsAreOwn, BranchesGrow, Writes, Elsewhere,
         Clones!StartRun
<1>3. StartIsPublished(c)'
  BY DEF FleetTypes, StartsArePublished, StartIsPublished, BranchesGrow, Start, Clones!StartRun
<1>4. Unended(c)'
  BY DEF FleetTypes, Unended, BranchesGrow, Start, Ends, Clones!StartRun
<1>5. c \notin pulled' /\ Publishes(c)' =>
        \A d \in Clone \ {c} : AtWork(d) /\ Knows(c, run[d])' => run[d] \in old
  <2> SUFFICES ASSUME NEW d \in Clone \ {c}, c \notin pulled', Publishes(c)', AtWork(d), Knows(c, run[d])'
               PROVE  run[d] \in old
    OBVIOUS
  <2>1. run[d] # run[c] /\ run' = run /\ log'[c] = log[c] \union {Start(run[c])} /\ UNCHANGED <<cMain, cStuck, pulled>>
    BY DEF Clones!StartRun, RunsAreOwn, FleetTypes, Start, AtWork
  <2>2. Knows(c, run[d])
    BY <2>1 DEF Knows, Start
  <2>3. Publishes(c)
    BY <2>1 DEF Publishes, Clones!StartRun, Ends
  <2> QED
    BY <2>1, <2>2, <2>3 DEF LooksAreSound
<1>6. AtWork(c)' => \/ AtWork(c) /\ run'[c] = run[c]
                    \/ run'[c] = next
  BY DEF FleetTypes, AtWork, Ends, Clones!StartRun
<1>7. cPc'[c] = "work" /\ c \notin pulled' =>
         \A d \in Clone \ {c} : cPc[d] = "work" /\ d \notin pulled => {run'[c], run[d]} \intersect old # {}
  BY DEF FleetTypes, Clones!OneDreamAtATime, Clones!StartRun
<1> QED
  BY <1>1, <1>2, <1>3, <1>4, <1>5, <1>6, <1>7, FleetKeeps

\* The log is committed to main.
LEMMA CommitKeeps ==
  ASSUME MaxRuns \in Nat, FleetInv, NEW c \in Clone, Clones!Commit(c) PROVE FleetInv'
<1> USE DEF FleetInv, Clones!Goto, Clones!Append, Clones!clone, Clones!dream
<1>1. FleetTypes'
  BY DEF FleetTypes, Clones!Event, Clones!Run, Kind, Clones!Commit, Clones!GiveUp, Clones!Closed
<1>2. Writes(c) /\ old' = old
  BY DEF FleetTypes, Kind, Clones!Event, RunsAreOwn, BranchesGrow, Writes, Elsewhere,
         Clones!Commit, Clones!GiveUp, Clones!Closed
<1>3. StartIsPublished(c)'
  BY DEF FleetTypes, StartsArePublished, StartIsPublished, BranchesGrow, Start, Clones!Commit,
         Clones!GiveUp, Clones!Closed
<1>4. Unended(c)'
  BY DEF FleetTypes, Unended, BranchesGrow, Start, Ends, Clones!Commit, Clones!GiveUp, Clones!Closed
<1>5. c \notin pulled' /\ Publishes(c)' =>
        \A d \in Clone \ {c} : AtWork(d) /\ Knows(c, run[d])' => run[d] \in old
  BY DEF FleetTypes, LooksAreSound, BranchesGrow, Publishes, Knows, Ends, Start, Clones!Commit,
         Clones!GiveUp, Clones!Closed
<1>6. AtWork(c)' => \/ AtWork(c) /\ run'[c] = run[c]
                    \/ run'[c] = next
  BY <1>2 DEF AtWork, Writes, Clones!Commit, Clones!GiveUp, Clones!Closed
<1>7. cPc'[c] = "work" /\ c \notin pulled' =>
         \A d \in Clone \ {c} : cPc[d] = "work" /\ d \notin pulled => {run'[c], run[d]} \intersect old # {}
  BY DEF FleetTypes, Clones!OneDreamAtATime, Clones!Commit, Clones!GiveUp, Clones!Closed
<1> QED
  BY <1>1, <1>2, <1>3, <1>4, <1>5, <1>6, <1>7, FleetKeeps

\* The fetch before the push of the log.
LEMMA FetchKeeps ==
  ASSUME MaxRuns \in Nat, FleetInv, NEW c \in Clone, Clones!Fetch(c) PROVE FleetInv'
<1> USE DEF FleetInv, Clones!Goto, Clones!Append, Clones!clone, Clones!dream
<1>1. FleetTypes'
  BY DEF FleetTypes, Clones!Event, Clones!Run, Kind, Clones!Fetch
<1>2. Writes(c) /\ old' = old
  BY DEF FleetTypes, Kind, Clones!Event, RunsAreOwn, BranchesGrow, Writes, Elsewhere, Clones!Fetch
<1>3. StartIsPublished(c)'
  BY DEF FleetTypes, StartsArePublished, StartIsPublished, BranchesGrow, Start, Clones!Fetch
<1>4. Unended(c)'
  BY DEF FleetTypes, Unended, BranchesGrow, Start, Ends, Clones!Fetch
<1>5. c \notin pulled' /\ Publishes(c)' =>
        \A d \in Clone \ {c} : AtWork(d) /\ Knows(c, run[d])' => run[d] \in old
  BY DEF FleetTypes, LooksAreSound, BranchesGrow, Publishes, Knows, Ends, Start, Clones!Fetch
<1>6. AtWork(c)' => \/ AtWork(c) /\ run'[c] = run[c]
                    \/ run'[c] = next
  BY DEF FleetTypes, AtWork, Ends, Clones!Fetch
<1>7. cPc'[c] = "work" /\ c \notin pulled' =>
         \A d \in Clone \ {c} : cPc[d] = "work" /\ d \notin pulled => {run'[c], run[d]} \intersect old # {}
  BY DEF FleetTypes, Clones!OneDreamAtATime, Clones!Fetch
<1> QED
  BY <1>1, <1>2, <1>3, <1>4, <1>5, <1>6, <1>7, FleetKeeps

\* The push: who is refused goes back; who is not was the first.
LEMMA PushLogKeeps ==
  ASSUME MaxRuns \in Nat, FleetInv, NEW c \in Clone, Clones!PushLog(c) PROVE FleetInv'
<1> USE DEF FleetInv, Clones!Goto, Clones!Append, Clones!clone, Clones!dream
<1>1. FleetTypes'
  BY DEF FleetTypes, Clones!Event, Clones!Run, Kind, Clones!PushLog, Clones!AfterPush,
         Clones!GiveUp, Clones!Closed
<1>2. Writes(c) /\ old' = old
  BY DEF FleetTypes, Kind, Clones!Event, RunsAreOwn, BranchesGrow, Writes, Elsewhere,
         Clones!PushLog, Clones!AfterPush, Clones!GiveUp, Clones!Closed
<1>3. StartIsPublished(c)'
  BY DEF FleetTypes, StartsArePublished, StartIsPublished, BranchesGrow, Start, Clones!PushLog,
         Clones!AfterPush, Clones!GiveUp, Clones!Closed
<1>4. Unended(c)'
  BY DEF FleetTypes, Unended, BranchesGrow, Start, Ends, Clones!PushLog, Clones!AfterPush,
         Clones!GiveUp, Clones!Closed
<1>5. c \notin pulled' /\ Publishes(c)' =>
        \A d \in Clone \ {c} : AtWork(d) /\ Knows(c, run[d])' => run[d] \in old
  BY DEF FleetTypes, LooksAreSound, BranchesGrow, Publishes, Knows, Ends, Start, Clones!PushLog,
         Clones!AfterPush, Clones!GiveUp, Clones!Closed
<1>6. AtWork(c)' => \/ AtWork(c) /\ run'[c] = run[c]
                    \/ run'[c] = next
  BY DEF FleetTypes, AtWork, Ends, Clones!PushLog, Clones!AfterPush, Clones!GiveUp, Clones!Closed
<1>7. cPc'[c] = "work" /\ c \notin pulled' =>
         \A d \in Clone \ {c} : cPc[d] = "work" /\ d \notin pulled => {run'[c], run[d]} \intersect old # {}
  <2> SUFFICES ASSUME cPc'[c] = "work", c \notin pulled', NEW d \in Clone \ {c}, cPc[d] = "work",
                      d \notin pulled
               PROVE  run[d] \in old
    BY DEF Clones!PushLog
  <2>1. cOrigin \subseteq cMain[c] /\ cPc[c] = "push" /\ Ends(run[c]) \intersect log[c] = {} /\ c \notin pulled
    BY DEF Clones!PushLog, Clones!AfterPush, Clones!GiveUp, Clones!Closed, FleetTypes, Ends
  <2>2. Start(run[d]) \in cOrigin /\ Ends(run[d]) \intersect log[d] = {}
    BY DEF StartsArePublished, StartIsPublished, Unended
  <2>3. Publishes(c) /\ AtWork(d) /\ Knows(c, run[d])
    BY <2>1, <2>2 DEF Publishes, AtWork, Knows, BranchesGrow
  <2> QED
    BY <2>1, <2>3 DEF LooksAreSound
<1> QED
  BY <1>1, <1>2, <1>3, <1>4, <1>5, <1>6, <1>7, FleetKeeps

\* The work ends, or raises.
LEMMA EndRunKeeps ==
  ASSUME MaxRuns \in Nat, FleetInv, NEW c \in Clone, Clones!EndRun(c) PROVE FleetInv'
<1> USE DEF FleetInv, Clones!Goto, Clones!Append, Clones!clone, Clones!dream
<1>1. FleetTypes'
  <2>1. run[c] \in Clones!Run
    BY RunOfDream DEF Clones!EndRun
  <2> QED
    BY <2>1 DEF FleetTypes, Clones!Event, Kind, Clones!EndRun
<1>2. Writes(c) /\ old' = old
  BY DEF FleetTypes, Kind, Clones!Event, RunsAreOwn, BranchesGrow, Writes, Elsewhere, Clones!EndRun
<1>3. StartIsPublished(c)'
  <2> SUFFICES ASSUME c \notin pulled PROVE Start(run[c]) \in log'[c]
    BY DEF StartIsPublished, Clones!EndRun, FleetTypes
  <2>1. Start(run[c]) \in cOrigin /\ run[c] # 0
    BY DEF Clones!EndRun, StartsArePublished, StartIsPublished, RunsAreOwn
  <2>2. Start(run[c]) \in log[c]
    BY <2>1 DEF OwnFirst, BranchesGrow, Start
  <2> QED
    BY <2>2 DEF Clones!EndRun, FleetTypes
<1>4. Unended(c)'
  BY DEF FleetTypes, Unended, BranchesGrow, Start, Ends, Clones!EndRun
<1>5. c \notin pulled' /\ Publishes(c)' =>
        \A d \in Clone \ {c} : AtWork(d) /\ Knows(c, run[d])' => run[d] \in old
  BY DEF FleetTypes, LooksAreSound, BranchesGrow, Publishes, Knows, Ends, Start, Clones!EndRun
<1>6. AtWork(c)' => \/ AtWork(c) /\ run'[c] = run[c]
                    \/ run'[c] = next
  BY DEF FleetTypes, AtWork, Ends, Clones!EndRun
<1>7. cPc'[c] = "work" /\ c \notin pulled' =>
         \A d \in Clone \ {c} : cPc[d] = "work" /\ d \notin pulled => {run'[c], run[d]} \intersect old # {}
  BY DEF FleetTypes, Clones!OneDreamAtATime, Clones!EndRun
<1> QED
  BY <1>1, <1>2, <1>3, <1>4, <1>5, <1>6, <1>7, FleetKeeps

\* A start that was not published ends as failed.
LEMMA RefusedKeeps ==
  ASSUME MaxRuns \in Nat, FleetInv, NEW c \in Clone, Clones!Refused(c) PROVE FleetInv'
<1> USE DEF FleetInv, Clones!Goto, Clones!Append, Clones!clone, Clones!dream
<1>1. FleetTypes'
  <2>1. run[c] \in Clones!Run
    BY RunOfDream DEF Clones!Refused
  <2> QED
    BY <2>1 DEF FleetTypes, Clones!Event, Kind, Clones!Refused
<1>2. Writes(c) /\ old' = old
  BY DEF FleetTypes, Kind, Clones!Event, RunsAreOwn, BranchesGrow, Writes, Elsewhere, Clones!Refused
<1>3. StartIsPublished(c)'
  BY DEF FleetTypes, StartsArePublished, StartIsPublished, BranchesGrow, Start, Clones!Refused
<1>4. Unended(c)'
  BY DEF FleetTypes, Unended, BranchesGrow, Start, Ends, Clones!Refused
<1>5. c \notin pulled' /\ Publishes(c)' =>
        \A d \in Clone \ {c} : AtWork(d) /\ Knows(c, run[d])' => run[d] \in old
  BY DEF FleetTypes, LooksAreSound, BranchesGrow, Publishes, Knows, Ends, Start, Clones!Refused
<1>6. AtWork(c)' => \/ AtWork(c) /\ run'[c] = run[c]
                    \/ run'[c] = next
  BY DEF FleetTypes, AtWork, Ends, Clones!Refused
<1>7. cPc'[c] = "work" /\ c \notin pulled' =>
         \A d \in Clone \ {c} : cPc[d] = "work" /\ d \notin pulled => {run'[c], run[d]} \intersect old # {}
  BY DEF FleetTypes, Clones!OneDreamAtATime, Clones!Refused
<1> QED
  BY <1>1, <1>2, <1>3, <1>4, <1>5, <1>6, <1>7, FleetKeeps

\* The fetch or the push fails.
LEMMA FailKeeps ==
  ASSUME MaxRuns \in Nat, FleetInv, NEW c \in Clone, Clones!Fail(c) PROVE FleetInv'
<1> USE DEF FleetInv, Clones!Goto, Clones!Append, Clones!clone, Clones!dream
<1>1. FleetTypes'
  BY DEF FleetTypes, Clones!Event, Clones!Run, Kind, Clones!Fail, Clones!GiveUp, Clones!Closed,
         Clones!Act
<1>2. Writes(c) /\ old' = old
  BY DEF FleetTypes, Kind, Clones!Event, RunsAreOwn, BranchesGrow, Writes, Elsewhere, Clones!Fail,
         Clones!GiveUp, Clones!Closed, Clones!Act
<1>3. StartIsPublished(c)'
  BY DEF FleetTypes, StartsArePublished, StartIsPublished, BranchesGrow, Start, Clones!Fail,
         Clones!GiveUp, Clones!Closed, Clones!Act
<1>4. Unended(c)'
  BY DEF FleetTypes, Unended, BranchesGrow, Start, Ends, Clones!Fail, Clones!GiveUp, Clones!Closed,
         Clones!Act
<1>5. c \notin pulled' /\ Publishes(c)' =>
        \A d \in Clone \ {c} : AtWork(d) /\ Knows(c, run[d])' => run[d] \in old
  BY DEF FleetTypes, LooksAreSound, BranchesGrow, Publishes, Knows, Ends, Start, Clones!Fail,
         Clones!GiveUp, Clones!Closed, Clones!Act
<1>6. AtWork(c)' => \/ AtWork(c) /\ run'[c] = run[c]
                    \/ run'[c] = next
  BY DEF FleetTypes, AtWork, Ends, Clones!Fail, Clones!GiveUp, Clones!Closed, Clones!Act
<1>7. cPc'[c] = "work" /\ c \notin pulled' =>
         \A d \in Clone \ {c} : cPc[d] = "work" /\ d \notin pulled => {run'[c], run[d]} \intersect old # {}
  BY DEF FleetTypes, Clones!OneDreamAtATime, Clones!Fail, Clones!GiveUp, Clones!Closed, Clones!Act
<1> QED
  BY <1>1, <1>2, <1>3, <1>4, <1>5, <1>6, <1>7, FleetKeeps

\* A program dies.
LEMMA DieKeeps ==
  ASSUME MaxRuns \in Nat, FleetInv, NEW c \in Clone, Clones!Die(c) PROVE FleetInv'
<1> USE DEF FleetInv, Clones!Goto, Clones!Append, Clones!clone, Clones!dream
<1>1. FleetTypes'
  BY DEF FleetTypes, Clones!Event, Clones!Run, Kind, Clones!Die, Clones!Act
<1>2. Writes(c) /\ old' = old
  BY DEF FleetTypes, Kind, Clones!Event, RunsAreOwn, BranchesGrow, Writes, Elsewhere, Clones!Die,
         Clones!Act
<1>3. StartIsPublished(c)'
  BY DEF FleetTypes, StartsArePublished, StartIsPublished, BranchesGrow, Start, Clones!Die,
         Clones!Act
<1>4. Unended(c)'
  BY DEF FleetTypes, Unended, BranchesGrow, Start, Ends, Clones!Die, Clones!Act
<1>5. c \notin pulled' /\ Publishes(c)' =>
        \A d \in Clone \ {c} : AtWork(d) /\ Knows(c, run[d])' => run[d] \in old
  BY DEF FleetTypes, LooksAreSound, BranchesGrow, Publishes, Knows, Ends, Start, Clones!Die,
         Clones!Act
<1>6. AtWork(c)' => \/ AtWork(c) /\ run'[c] = run[c]
                    \/ run'[c] = next
  BY DEF FleetTypes, AtWork, Ends, Clones!Die, Clones!Act
<1>7. cPc'[c] = "work" /\ c \notin pulled' =>
         \A d \in Clone \ {c} : cPc[d] = "work" /\ d \notin pulled => {run'[c], run[d]} \intersect old # {}
  BY DEF FleetTypes, Clones!OneDreamAtATime, Clones!Die, Clones!Act
<1> QED
  BY <1>1, <1>2, <1>3, <1>4, <1>5, <1>6, <1>7, FleetKeeps

\* A sync pulls between dreams, or behind a dream's back.
LEMMA PullKeeps ==
  ASSUME MaxRuns \in Nat, FleetInv, NEW c \in Clone, Clones!Pull(c) PROVE FleetInv'
<1> USE DEF FleetInv, Clones!Goto, Clones!Append, Clones!clone, Clones!dream
<1>1. FleetTypes'
  BY DEF FleetTypes, Clones!Event, Clones!Run, Kind, Clones!Pull, Clones!Conflict, Clones!Seen,
         Clones!Act
<1>2. Writes(c) /\ old' = old
  BY DEF FleetTypes, Kind, Clones!Event, RunsAreOwn, BranchesGrow, Writes, Elsewhere, Clones!Pull,
         Clones!Conflict, Clones!Seen, Clones!Act
<1>3. StartIsPublished(c)'
  BY DEF FleetTypes, StartsArePublished, StartIsPublished, BranchesGrow, Start, Clones!Pull,
         Clones!Conflict, Clones!Seen, Clones!Act
<1>4. Unended(c)'
  <2> SUFFICES ASSUME cPc[c] \in {"start", "work"} PROVE Ends(run[c]) \intersect log'[c] = {}
    BY DEF Unended, Clones!Pull
  <2>1. log'[c] \subseteq log[c] \union cOrigin
    BY DEF Clones!Pull, FleetTypes, BranchesGrow
  <2>2. Ends(run[c]) \intersect cOrigin \subseteq log[c]
    BY EndsComeHome DEF RunsAreOwn, BranchesGrow
  <2>3. Ends(run[c]) \intersect log[c] = {}
    BY DEF Unended
  <2> QED
    BY <2>1, <2>2, <2>3
<1>5. c \notin pulled' /\ Publishes(c)' =>
        \A d \in Clone \ {c} : AtWork(d) /\ Knows(c, run[d])' => run[d] \in old
  BY DEF FleetTypes, LooksAreSound, BranchesGrow, Publishes, Knows, Ends, Start, Clones!Pull,
         Clones!Conflict, Clones!Seen, Clones!Act
<1>6. AtWork(c)' => \/ AtWork(c) /\ run'[c] = run[c]
                    \/ run'[c] = next
  BY DEF FleetTypes, AtWork, Ends, Clones!Pull, Clones!Conflict, Clones!Seen, Clones!Act
<1>7. cPc'[c] = "work" /\ c \notin pulled' =>
         \A d \in Clone \ {c} : cPc[d] = "work" /\ d \notin pulled => {run'[c], run[d]} \intersect old # {}
  BY DEF FleetTypes, Clones!OneDreamAtATime, Clones!Pull, Clones!Conflict, Clones!Seen, Clones!Act
<1> QED
  BY <1>1, <1>2, <1>3, <1>4, <1>5, <1>6, <1>7, FleetKeeps

\* A sync pushes.
LEMMA PushKeeps ==
  ASSUME MaxRuns \in Nat, FleetInv, NEW c \in Clone, Clones!Push(c) PROVE FleetInv'
<1> USE DEF FleetInv, Clones!Goto, Clones!Append, Clones!clone, Clones!dream
<1>1. FleetTypes'
  BY DEF FleetTypes, Clones!Event, Clones!Run, Kind, Clones!Push, Clones!Act
<1>2. Writes(c) /\ old' = old
  BY DEF FleetTypes, Kind, Clones!Event, RunsAreOwn, BranchesGrow, Writes, Elsewhere, Clones!Push,
         Clones!Act
<1>3. StartIsPublished(c)'
  BY DEF FleetTypes, StartsArePublished, StartIsPublished, BranchesGrow, Start, Clones!Push,
         Clones!Act
<1>4. Unended(c)'
  BY DEF FleetTypes, Unended, BranchesGrow, Start, Ends, Clones!Push, Clones!Act
<1>5. c \notin pulled' /\ Publishes(c)' =>
        \A d \in Clone \ {c} : AtWork(d) /\ Knows(c, run[d])' => run[d] \in old
  BY DEF FleetTypes, LooksAreSound, BranchesGrow, Publishes, Knows, Ends, Start, Clones!Push,
         Clones!Act
<1>6. AtWork(c)' => \/ AtWork(c) /\ run'[c] = run[c]
                    \/ run'[c] = next
  BY DEF FleetTypes, AtWork, Ends, Clones!Push, Clones!Act
<1>7. cPc'[c] = "work" /\ c \notin pulled' =>
         \A d \in Clone \ {c} : cPc[d] = "work" /\ d \notin pulled => {run'[c], run[d]} \intersect old # {}
  BY DEF FleetTypes, Clones!OneDreamAtATime, Clones!Push, Clones!Act
<1> QED
  BY <1>1, <1>2, <1>3, <1>4, <1>5, <1>6, <1>7, FleetKeeps

\* A person settles a rebase that got stuck.
LEMMA RepairKeeps ==
  ASSUME MaxRuns \in Nat, FleetInv, NEW c \in Clone, Clones!Repair(c) PROVE FleetInv'
<1> USE DEF FleetInv, Clones!Goto, Clones!Append, Clones!clone, Clones!dream
<1>1. FleetTypes'
  BY DEF FleetTypes, Clones!Event, Clones!Run, Kind, Clones!Repair, Clones!Seen, Clones!Act
<1>2. Writes(c) /\ old' = old
  BY DEF FleetTypes, Kind, Clones!Event, RunsAreOwn, BranchesGrow, Writes, Elsewhere,
         Clones!Repair, Clones!Seen, Clones!Act
<1>3. StartIsPublished(c)'
  BY DEF FleetTypes, StartsArePublished, StartIsPublished, BranchesGrow, Start, Clones!Repair,
         Clones!Seen, Clones!Act
<1>4. Unended(c)'
  <2> SUFFICES ASSUME cPc[c] \in {"start", "work"} PROVE Ends(run[c]) \intersect log'[c] = {}
    BY DEF Unended, Clones!Repair
  <2>1. log'[c] \subseteq log[c] \union cOrigin
    BY DEF Clones!Repair, FleetTypes, BranchesGrow
  <2>2. Ends(run[c]) \intersect cOrigin \subseteq log[c]
    BY EndsComeHome DEF RunsAreOwn, BranchesGrow
  <2>3. Ends(run[c]) \intersect log[c] = {}
    BY DEF Unended
  <2> QED
    BY <2>1, <2>2, <2>3
<1>5. c \notin pulled' /\ Publishes(c)' =>
        \A d \in Clone \ {c} : AtWork(d) /\ Knows(c, run[d])' => run[d] \in old
  BY DEF FleetTypes, LooksAreSound, BranchesGrow, Publishes, Knows, Ends, Start, Clones!Repair,
         Clones!Seen, Clones!Act
<1>6. AtWork(c)' => \/ AtWork(c) /\ run'[c] = run[c]
                    \/ run'[c] = next
  BY <1>2 DEF AtWork, Writes, Clones!Repair
<1>7. cPc'[c] = "work" /\ c \notin pulled' =>
         \A d \in Clone \ {c} : cPc[d] = "work" /\ d \notin pulled => {run'[c], run[d]} \intersect old # {}
  BY DEF FleetTypes, Clones!OneDreamAtATime, Clones!Repair, Clones!Seen, Clones!Act
<1> QED
  BY <1>1, <1>2, <1>3, <1>4, <1>5, <1>6, <1>7, FleetKeeps

\* Half an hour passes over a dream.
LEMMA AgeKeeps ==
  ASSUME FleetInv, NEW r \in Clones!Run, Clones!Age(r) PROVE FleetInv'
<1> USE DEF Clones!Age, Clones!clone, Clones!dream
<1>1. FleetTypes' /\ BranchesGrow' /\ RunsAreOwn' /\ OwnFirst'
  BY DEF FleetInv, FleetTypes, BranchesGrow, RunsAreOwn, OwnFirst
<1>2. StartsArePublished' /\ \A c \in Clone : Unended(c)'
  BY DEF FleetInv, StartsArePublished, StartIsPublished, Unended
<1>3. LooksAreSound'
  BY DEF FleetInv, LooksAreSound, Publishes, AtWork, Knows
<1>4. Clones!OneDreamAtATime'
  BY DEF FleetInv, Clones!OneDreamAtATime
<1> QED
  BY <1>1, <1>2, <1>3, <1>4 DEF FleetInv

\* Nothing happens.
LEMMA FleetStutters == ASSUME FleetInv, UNCHANGED Clones!vars PROVE FleetInv'
<1> USE DEF Clones!vars, Clones!clone, Clones!dream
<1>1. FleetTypes' /\ BranchesGrow' /\ RunsAreOwn' /\ OwnFirst'
  BY DEF FleetInv, FleetTypes, BranchesGrow, RunsAreOwn, OwnFirst
<1>2. StartsArePublished' /\ \A c \in Clone : Unended(c)'
  BY DEF FleetInv, StartsArePublished, StartIsPublished, Unended
<1>3. LooksAreSound' /\ Clones!OneDreamAtATime'
  BY DEF FleetInv, LooksAreSound, Publishes, AtWork, Knows, Clones!OneDreamAtATime
<1> QED
  BY <1>1, <1>2, <1>3 DEF FleetInv

\* Two clones do not dream at once, however many there are, short of what OneDreamAtATime
\* excepts: a dream of more than half an hour, and a pull between a look and a push.
THEOREM DreamsTakeTurns == MaxRuns \in Nat => (Clones!Spec => []Clones!OneDreamAtATime)
<1> SUFFICES ASSUME MaxRuns \in Nat PROVE Clones!Spec => []Clones!OneDreamAtATime
  OBVIOUS
<1>1. Clones!Init => FleetInv
  BY DEF Clones!Init, FleetInv, FleetTypes, Clones!Event, Clones!Run, BranchesGrow, RunsAreOwn,
         OwnFirst, StartsArePublished,
         StartIsPublished, Unended, LooksAreSound, AtWork, Clones!OneDreamAtATime
<1>2. FleetInv /\ [Clones!Next]_Clones!vars => FleetInv'
  BY FleetStutters, LookKeeps, StartRunKeeps, CommitKeeps, FetchKeeps, PushLogKeeps, EndRunKeeps,
     RefusedKeeps, FailKeeps, DieKeeps, PullKeeps, PushKeeps, RepairKeeps, AgeKeeps DEF Clones!Next
<1>3. FleetInv => Clones!OneDreamAtATime
  BY DEF FleetInv
<1> QED
  BY <1>1, <1>2, <1>3, PTL DEF Clones!Spec

-----------------------------------------------------------------------------
(* The gate of dreams (DreamGate).                                          *)

CONSTANTS Session, Threshold, Cap
VARIABLES
  file, stored, gPc, todo, state, took, dreamer, gOld, gActs, since, marked, again, gBreach

Gate == INSTANCE DreamGate WITH
  MaxActs <- MaxActs["Gate"], pc <- gPc, old <- gOld, acts <- gActs, breach <- gBreach

\* The operators that DreamGate takes from the library are the library's.
LEMMA GateLibrary ==
  /\ \A f : Gate!Range(f) = Range(f)
  /\ \A S : Gate!SetToSeq(S) = SetToSeq(S) /\ Gate!Cardinality(S) = Cardinality(S)
  BY DEF Gate!Range, Range, Gate!SetToSeq, SetToSeq, Gate!IsInjective, IsInjective,
         Gate!Cardinality, Cardinality

\* A finite set is enumerated once.
LEMMA Enumeration ==
  ASSUME NEW S, IsFiniteSet(S)
  PROVE  /\ SetToSeq(S) \in Seq(S) /\ Range(SetToSeq(S)) = S
         /\ Len(SetToSeq(S)) = Cardinality(S) /\ Cardinality(S) \in Nat
<1> DEFINE n == Cardinality(S)
<1>1. n \in Nat /\ ExistsBijection(1 .. n, S)
  BY FS_CardinalityType
<1>2. PICK f \in Bijection(1 .. n, S) : TRUE
  BY <1>1 DEF ExistsBijection
<1>3. f \in [1 .. n -> S] /\ IsInjective(f)
  BY <1>2 DEF Bijection, Injection
<1>4. SetToSeq(S) \in [1 .. n -> S] /\ IsInjective(SetToSeq(S))
  BY <1>3 DEF SetToSeq
<1>5. SetToSeq(S) \in Injection(1 .. n, S)
  BY <1>4 DEF Injection
<1>6. Cardinality(1 .. n) = n
  BY <1>1, FS_Interval
<1>7. SetToSeq(S) \in Surjection(1 .. n, S)
  BY <1>5, <1>6, FS_Injection
<1>8. Range(SetToSeq(S)) = S
  BY <1>4, <1>7 DEF Surjection, Range
<1>9. SetToSeq(S) \in Seq(S) /\ Len(SetToSeq(S)) = n
  BY <1>1, <1>4
<1> QED
  BY <1>1, <1>8, <1>9

Record == [count : Nat, dreamt : BOOLEAN, gathered : Seq(Session)]
Todo == {<<>>, <<"count">>, <<"gathered", "complete">>, <<"complete">>}

GateTypes ==
  /\ file \in Record \union {Gate!Absent, Gate!Torn} /\ since \in Nat
  /\ gPc \in [Proc -> {"idle", "read", "truncate", "write", "dream"}]
  /\ todo \in [Proc -> Todo] /\ state \in [Proc -> Record]
  /\ took \in [Proc -> SUBSET Session]
  /\ stored \subseteq Session /\ IsFiniteSet(stored) /\ \A p \in Proc : took[p] \subseteq stored
  /\ \A p \in Proc : gPc[p] \in {"read", "truncate", "write"} => todo[p] # <<>>

\* What the file, and a program that is about to write it, counts and remembers.
Tells(s) == s.count = since /\ marked \subseteq Gate!Gathered(s)

\* As long as nothing went wrong: one program updates the file at a time, from what is in it.
Single ==
  gBreach = {} =>
     /\ file # Gate!Torn => Tells(Gate!Loaded)
     /\ \A p \in Proc : gPc[p] \in {"truncate", "write"} => Tells(state[p])
     /\ \A p, q \in Proc :
          p # q /\ gPc[p] \in {"truncate", "write"} => gPc[q] \notin {"truncate", "write"}
     /\ again = {}

GateInv == GateTypes /\ Single

\* A record is no marker.
LEMMA RecordsAreApart ==
  /\ Gate!Absent # Gate!Torn /\ Gate!Empty \in Record
  /\ file \in Record \union {Gate!Absent, Gate!Torn} /\ file # Gate!Torn => Gate!Loaded \in Record
  BY DEF Gate!Absent, Gate!Torn, Gate!Empty, Record, Gate!Loaded

\* Unless a session over the cap was forgotten, marking adds sessions and forgets none.
LEMMA MarkingAdds ==
  ASSUME Cap \in Nat, NEW s \in Record, NEW new \in SUBSET Session, IsFiniteSet(new)
  PROVE  /\ Gate!Marked(s, new) \in Record /\ Gate!Marked(s, new).count = s.count
         /\ Len(s.gathered) + Cardinality(new) <= Cap =>
              new \union Gate!Gathered(s) \subseteq Gate!Gathered(Gate!Marked(s, new))
<1> DEFINE fresh == new \ Range(s.gathered)
           all == s.gathered \o SetToSeq(fresh)
<1>1. IsFiniteSet(fresh) /\ Cardinality(fresh) <= Cardinality(new) /\ Cardinality(new) \in Nat
  BY FS_Subset, FS_CardinalityType
<1>2. SetToSeq(fresh) \in Seq(Session) /\ Range(SetToSeq(fresh)) = fresh /\ Len(SetToSeq(fresh)) = Cardinality(fresh)
  <2>1. SetToSeq(fresh) \in Seq(fresh) /\ Range(SetToSeq(fresh)) = fresh /\ Len(SetToSeq(fresh)) = Cardinality(fresh)
    BY <1>1, Enumeration
  <2>2. Seq(fresh) \subseteq Seq(Session)
    BY SeqMonotonic
  <2> QED
    BY <2>1, <2>2
<1>3. all \in Seq(Session) /\ Len(all) = Len(s.gathered) + Cardinality(fresh)
  BY <1>2 DEF Record
<1>4. Range(all) = Range(s.gathered) \union fresh
  <2>1. s.gathered \in Seq(Session)
    BY DEF Record
  <2> HIDE DEF fresh
  <2>2. Range(s.gathered \o SetToSeq(fresh)) = Range(s.gathered) \union Range(SetToSeq(fresh))
    BY <1>2, <2>1, RangeConcatenation
  <2> QED
    BY <1>2, <2>2
<1>5. Gate!Remembered(s, new) = IF Len(all) > Cap THEN SubSeq(all, Len(all) - Cap + 1, Len(all)) ELSE all
  BY GateLibrary DEF Gate!Remembered, Gate!Gathered
<1> HIDE DEF all
<1>6. Gate!Remembered(s, new) \in Seq(Session)
  <2>1. Len(all) \in Nat /\ \A i \in 1 .. Len(all) : all[i] \in Session
    BY <1>3, LenProperties, ElementOfSeq
  <2>2. ASSUME Len(all) > Cap PROVE SubSeq(all, Len(all) - Cap + 1, Len(all)) \in Seq(Session)
    BY <2>1, <2>2, SubSeqProperties
  <2> QED
    BY <1>3, <1>5, <2>2
<1>7. Gate!Marked(s, new) = [s EXCEPT !.gathered = Gate!Remembered(s, new)]
  BY DEF Gate!Marked
<1>8. Gate!Marked(s, new) \in Record /\ Gate!Marked(s, new).count = s.count
      /\ Gate!Marked(s, new).gathered = Gate!Remembered(s, new)
  BY <1>6, <1>7 DEF Record
<1>9. ASSUME Len(s.gathered) + Cardinality(new) <= Cap
      PROVE  new \union Gate!Gathered(s) \subseteq Gate!Gathered(Gate!Marked(s, new))
  <2>1. Len(all) <= Cap
    BY <1>1, <1>3, <1>9, FS_CardinalityType DEF Record
  <2>2. Gate!Remembered(s, new) = all
    BY <1>3, <1>5, <2>1
  <2> QED
    BY <1>4, <1>8, <2>2, GateLibrary DEF Gate!Gathered
<1> QED
  BY <1>8, <1>9

\* The gate starts with an empty record.
LEMMA GateStarts == Gate!Init => GateInv
  <1> SUFFICES ASSUME Gate!Init PROVE GateInv
    OBVIOUS
  <1>1. Gate!Gathered(Gate!Empty) = {}
    BY GateLibrary DEF Gate!Gathered, Gate!Empty, Range
  <1>2. GateTypes
    BY FS_EmptySet, RecordsAreApart DEF Gate!Init, GateTypes, Todo
  <1>3. Single
    BY DEF Gate!Init, Single, Tells, Gate!Loaded, Gate!Empty
  <1> QED
    BY <1>2, <1>3 DEF GateInv

\* A program that ends keeps the types.
LEMMA FinishKeepsTypes ==
  ASSUME GateTypes, NEW p \in Proc, Gate!Finish(p)
  PROVE  /\ gPc' \in [Proc -> {"idle", "read", "truncate", "write", "dream"}]
         /\ todo' \in [Proc -> Todo] /\ state' \in [Proc -> Record]
         /\ took' \in [Proc -> SUBSET Session]
         /\ \A q \in Proc : took'[q] \subseteq took[q] /\ (gPc'[q] = "idle" \/ (gPc'[q] = gPc[q] /\ q # p))
         /\ \A q \in Proc : q # p => state'[q] = state[q] /\ todo'[q] = todo[q]
<1> USE DEF GateTypes, Gate!Finish, Gate!Set
<1>1. gPc' \in [Proc -> {"idle", "read", "truncate", "write", "dream"}]
  OBVIOUS
<1>2. <<>> \in Todo /\ Gate!Empty \in Record
  BY RecordsAreApart DEF Todo
<1>3. todo' \in [Proc -> Todo] /\ state' \in [Proc -> Record] /\ took' \in [Proc -> SUBSET Session]
  BY <1>2
<1>4. \A q \in Proc : took'[q] \subseteq took[q] /\ (gPc'[q] = "idle" \/ (gPc'[q] = gPc[q] /\ q # p))
  OBVIOUS
<1>5. \A q \in Proc : q # p => state'[q] = state[q] /\ todo'[q] = todo[q]
  OBVIOUS
<1> QED
  BY <1>1, <1>3, <1>4, <1>5

\* Steps that write nothing.
LEMMA QuietSteps ==
  ASSUME GateInv, UNCHANGED <<file, since, marked>>, gBreach \subseteq gBreach',
         gBreach' = {} => again' = {},
         \A q \in Proc : gPc'[q] \in {"truncate", "write"} => gPc[q] \in {"truncate", "write"} /\ state'[q] = state[q]
  PROVE  Single'
  BY DEF GateInv, Single, Tells, Gate!Loaded, Gate!Gathered, Gate!Absent, Gate!Torn, Gate!Empty

\* Every step keeps the invariant.
LEMMA GateStep == ASSUME Cap \in Nat, GateInv, [Gate!Next]_(Gate!vars) PROVE GateInv'
<1> USE DEF Gate!program, Gate!ghost, Gate!Set, Gate!Act
<1>1. ASSUME NEW p \in Proc, Gate!Read(p) PROVE GateInv'
  <2>1. GateTypes'
    BY <1>1, RecordsAreApart, FinishKeepsTypes DEF GateInv, GateTypes, Gate!Read, Todo
  <2>2. CASE file = Gate!Torn
    <3>1. Gate!Finish(p) /\ UNCHANGED <<file, since, marked, again>> /\ gBreach \subseteq gBreach'
      BY <1>1, <2>2 DEF Gate!Read
    <3>2. \A q \in Proc : gPc'[q] \in {"truncate", "write"} =>
                            gPc[q] \in {"truncate", "write"} /\ state'[q] = state[q]
      BY <3>1, FinishKeepsTypes DEF GateInv
    <3> QED
      BY <2>1, <3>1, <3>2, QuietSteps DEF GateInv, Single
  <2>3. CASE file # Gate!Torn
    <3>1. state'[p] = Gate!Loaded /\ gPc'[p] = "truncate"
          /\ \A q \in Proc : q # p => state'[q] = state[q] /\ gPc'[q] = gPc[q]
      BY <1>1, <2>3 DEF GateInv, GateTypes, Gate!Read
    <3>2. gBreach' = {} => gBreach = {} /\ \A q \in Proc : gPc[q] \notin {"truncate", "write"}
      BY <1>1 DEF Gate!Read
    <3> QED
      BY <1>1, <2>1, <2>3, <3>1, <3>2 DEF GateInv, Single, Tells, Gate!Read, Gate!Loaded,
         Gate!Gathered
  <2> QED
    BY <2>1, <2>2, <2>3 DEF GateInv
<1>2. ASSUME NEW p \in Proc, Gate!Truncate(p) PROVE GateInv'
  <2>1. GateTypes'
    BY <1>2, RecordsAreApart DEF GateInv, GateTypes, Gate!Truncate
  <2>2. Single'
    BY <1>2 DEF GateInv, GateTypes, Single, Tells, Gate!Truncate, Gate!Gathered, Gate!Torn
  <2> QED
    BY <2>1, <2>2 DEF GateInv
<1>3. ASSUME NEW p \in Proc, Gate!Write(p) PROVE GateInv'
  <2>1. Head(todo[p]) \in {"count", "gathered", "complete"} /\ todo[p] # <<>> /\ Tail(todo[p]) \in Todo
        /\ (Len(todo[p]) # 1 => Tail(todo[p]) # <<>>)
    <3>1. todo[p] \in Todo /\ todo[p] # <<>>
      BY <1>3 DEF Gate!Write, GateInv, GateTypes
    <3>2. CASE todo[p] = <<"count">>
      BY <3>2 DEF Todo
    <3>3. CASE todo[p] = <<"gathered", "complete">>
      BY <3>3 DEF Todo
    <3>4. CASE todo[p] = <<"complete">>
      BY <3>4 DEF Todo
    <3> QED
      BY <3>1, <3>2, <3>3, <3>4 DEF Todo
  <2>2. IsFiniteSet(took[p])
    BY FS_Subset DEF GateInv, GateTypes
  <2>3. state[p] \in Record /\ took[p] \in SUBSET Session
    BY DEF GateInv, GateTypes
  <2>4. Gate!Changed(p) \in Record
    <3>1. CASE Head(todo[p]) = "count"
      BY <2>3, <3>1 DEF Gate!Changed, Gate!Counted, Record
    <3>2. CASE Head(todo[p]) = "gathered"
      BY <2>2, <2>3, <3>2, MarkingAdds DEF Gate!Changed
    <3>3. CASE Head(todo[p]) = "complete"
      BY <2>3, <3>3 DEF Gate!Changed, Gate!Completed, Record
    <3> QED
      BY <2>1, <3>1, <3>2, <3>3
  <2>5. GateTypes'
    <3>1. file' \in Record /\ since' \in Nat /\ stored' = stored
      BY <1>3, <2>1, <2>4 DEF GateInv, GateTypes, Gate!Write
    <3>2. CASE Len(todo[p]) = 1
      BY <1>3, <3>1, <3>2, FinishKeepsTypes DEF GateInv, GateTypes, Gate!Write
    <3>3. CASE Len(todo[p]) # 1
      BY <1>3, <2>1, <3>1, <3>3, RecordsAreApart DEF GateInv, GateTypes, Gate!Write
    <3> QED
      BY <3>2, <3>3
  <2>6. ASSUME gBreach' = {}
        PROVE Gate!Changed(p).count = since' /\ marked' \subseteq Gate!Gathered(Gate!Changed(p))
    <3>1. Tells(state[p])
      BY <1>3, <2>6 DEF GateInv, Single, Gate!Write
    <3>2. CASE Head(todo[p]) = "count"
      BY <1>3, <2>3, <3>1, <3>2, GateLibrary DEF Tells, Gate!Write, Gate!Changed, Gate!Counted,
         Gate!Gathered, Record
    <3>3. CASE Head(todo[p]) = "gathered"
      <4>1. since' = since /\ marked' = marked \union took[p] /\ Gate!Changed(p) = Gate!Marked(state[p], took[p])
        BY <1>3, <3>3 DEF Gate!Write, Gate!Changed
      <4>2. (took[p] \union Gate!Gathered(state[p])) \subseteq Gate!Gathered(Gate!Changed(p))
            \/ ~(Len(state[p].gathered) + Cardinality(took[p]) > Cap)
        BY <1>3, <2>6, <3>3, GateLibrary DEF Gate!Write
      <4>3. Len(state[p].gathered) \in Nat /\ Cardinality(took[p]) \in Nat
        BY <2>2, <2>3, FS_CardinalityType DEF Record
      <4> QED
        BY <2>2, <2>3, <3>1, <4>1, <4>2, <4>3, MarkingAdds DEF Tells
    <3>4. CASE Head(todo[p]) = "complete"
      BY <1>3, <2>3, <3>1, <3>4, GateLibrary DEF Tells, Gate!Write, Gate!Changed, Gate!Completed,
         Gate!Gathered, Record
    <3> QED
      BY <2>1, <3>2, <3>3, <3>4
  <2>7. Single'
    <3>1. file' = Gate!Changed(p) /\ file' # Gate!Absent
      BY <1>3, <2>4 DEF Gate!Write, Gate!Absent, Record
    <3>2. gBreach' = {} => gBreach = {}
      BY <1>3 DEF Gate!Write
    <3>3. \A q \in Proc : q # p => gPc'[q] = gPc[q] /\ state'[q] = state[q]
      BY <1>3 DEF Gate!Write, Gate!Finish, GateInv, GateTypes
    <3>4. gPc'[p] \notin {"truncate", "write"} /\ again' = again /\ gPc[p] = "write"
      BY <1>3 DEF Gate!Write, Gate!Finish, GateInv, GateTypes
    <3> QED
      BY <2>6, <3>1, <3>2, <3>3, <3>4 DEF GateInv, Single, Tells, Gate!Loaded, Gate!Gathered
  <2> QED
    BY <2>5, <2>7 DEF GateInv
<1>4. ASSUME NEW p \in Proc, Gate!SessionStart(p) PROVE GateInv'
  <2>1. GateTypes'
    BY <1>4, RecordsAreApart DEF GateInv, GateTypes, Gate!SessionStart, Todo
  <2> QED
    BY <1>4, <2>1, QuietSteps DEF GateInv, GateTypes, Single, Gate!SessionStart
<1>5. ASSUME NEW p \in Proc, NEW s \in Session, Gate!Collect(p, s) PROVE GateInv'
  <2>1. GateTypes'
    BY <1>5, RecordsAreApart, FS_AddElement DEF GateInv, GateTypes, Gate!Collect, Todo
  <2> QED
    BY <1>5, <2>1, QuietSteps DEF GateInv, GateTypes, Single, Gate!Collect
<1>6. ASSUME NEW p \in Proc, Gate!Dream(p) PROVE GateInv'
  <2>1. GateTypes'
    BY <1>6, RecordsAreApart DEF GateInv, GateTypes, Gate!Dream
  <2> QED
    BY <1>6, <2>1, QuietSteps DEF GateInv, GateTypes, Single, Gate!Dream
<1>7. ASSUME NEW p \in Proc, NEW native \in SUBSET Session, Gate!Gather(p, native) PROVE GateInv'
  <2>1. GateTypes'
    BY <1>7, FinishKeepsTypes, RecordsAreApart DEF GateInv, GateTypes, Gate!Gather, Todo
  <2>2. CASE file = Gate!Torn
    BY <1>7, <2>1, <2>2, FinishKeepsTypes, QuietSteps DEF GateInv, Single, Gate!Gather
  <2>3. CASE file # Gate!Torn
    <3>1. gBreach' = {} => again' = {}
      BY <1>7, <2>3 DEF GateInv, Single, Tells, Gate!Gather
    <3> QED
      BY <1>7, <2>1, <2>3, <3>1, QuietSteps DEF GateInv, GateTypes, Gate!Gather
  <2> QED
    BY <2>2, <2>3
<1>8. ASSUME NEW p \in Proc, Gate!Saved(p) PROVE GateInv'
  <2>1. GateTypes'
    BY <1>8, FinishKeepsTypes, RecordsAreApart DEF GateInv, GateTypes, Gate!Saved
  <2> QED
    BY <1>8, <2>1, FinishKeepsTypes, QuietSteps DEF GateInv, GateTypes, Single, Gate!Saved
<1>9. ASSUME NEW p \in Proc, Gate!Die(p) PROVE GateInv'
  <2>1. GateTypes'
    BY <1>9, FinishKeepsTypes, RecordsAreApart DEF GateInv, GateTypes, Gate!Die
  <2> QED
    BY <1>9, <2>1, FinishKeepsTypes, QuietSteps DEF GateInv, GateTypes, Single, Gate!Die
<1>10. ASSUME NEW s \in Session, Gate!SessionEnd(s) PROVE GateInv'
  <2>1. GateTypes'
    BY <1>10, RecordsAreApart, FS_AddElement DEF GateInv, GateTypes, Gate!SessionEnd
  <2> QED
    BY <1>10, <2>1, QuietSteps DEF GateInv, GateTypes, Single, Gate!SessionEnd
<1>11. ASSUME Gate!Day PROVE GateInv'
  <2>1. GateTypes'
    BY <1>11, RecordsAreApart DEF GateInv, GateTypes, Gate!Day
  <2> QED
    BY <1>11, <2>1, QuietSteps DEF GateInv, GateTypes, Single, Gate!Day
<1>12. CASE UNCHANGED Gate!vars
  <2>1. GateTypes'
    BY <1>12 DEF Gate!vars, GateInv, GateTypes, Gate!Absent, Gate!Torn
  <2> QED
    BY <1>12, <2>1, QuietSteps DEF Gate!vars, GateInv, Single
<1> QED
  BY <1>1, <1>2, <1>3, <1>4, <1>5, <1>6, <1>7, <1>8, <1>9, <1>10, <1>11, <1>12 DEF Gate!Next

\* Unless two updates overlapped or a program died in one, the gate tells when a dream is due.
THEOREM DreamsComeWhenDue == Cap \in Nat => (Gate!Spec => [](Gate!GateOpensWhenDue /\ Gate!MarkedIsReadOnce))
<1> SUFFICES ASSUME Cap \in Nat
             PROVE Gate!Spec => [](Gate!GateOpensWhenDue /\ Gate!MarkedIsReadOnce)
  OBVIOUS
<1>1. GateInv => Gate!GateOpensWhenDue /\ Gate!MarkedIsReadOnce
  BY DEF GateInv, Single, Tells, Gate!GateOpensWhenDue, Gate!MarkedIsReadOnce, Gate!Quiet, Gate!Due
<1> QED
  BY GateStarts, GateStep, <1>1, PTL DEF Gate!Spec

-----------------------------------------------------------------------------
(* The reports of use (Telemetry).                                          *)

CONSTANTS Batch, MaxQueue, MaxEvents
VARIABLES
  rQueue, rState, server, got, rPc, seen, mine, made, rActs, dropped, off, sentOff, rBreach

Reports == INSTANCE Telemetry WITH
  MaxActs <- MaxActs["Reports"], queue <- rQueue, state <- rState, pc <- rPc, acts <- rActs,
  breach <- rBreach

\* The operators that Telemetry takes from the library are the library's.
LEMMA ReportsLibrary ==
  /\ \A f : Reports!Range(f) = Range(f)
  /\ \A a, b \in Int : Reports!Min({a, b}) = IF a <= b THEN a ELSE b
  /\ \A a, b \in Int : Reports!Max({a, b}) = IF a <= b THEN b ELSE a
  BY DEF Reports!Range, Range, Reports!Min, Reports!Max

Distinct(s) == \A i, j \in 1 .. Len(s) : s[i] = s[j] => i = j

\* A piece of a sequence.
LEMMA Piece ==
  ASSUME NEW S, NEW s \in Seq(S), NEW m \in Int, NEW n \in Int, 1 <= m, n <= Len(s), m <= n + 1
  PROVE  /\ SubSeq(s, m, n) \in Seq(S) /\ Len(SubSeq(s, m, n)) = n - m + 1
         /\ Range(SubSeq(s, m, n)) = {s[i] : i \in m .. n}
         /\ Distinct(s) => Distinct(SubSeq(s, m, n))
<1> DEFINE t == SubSeq(s, m, n)
<1>1. Len(s) \in Nat /\ \A i \in m .. n : s[i] \in S
  BY LenProperties, ElementOfSeq
<1>2. t \in Seq(S) /\ Len(t) = (IF m <= n THEN n - m + 1 ELSE 0) /\ \A i \in 1 .. n - m + 1 : t[i] = s[m + i - 1]
  BY <1>1, SubSeqProperties
<1>3. Len(t) = n - m + 1
  BY <1>2
<1>4. Range(t) = {t[i] : i \in 1 .. Len(t)}
  BY <1>2, RangeEquality
<1> HIDE DEF t
<1>5. ASSUME NEW i \in 1 .. Len(t) PROVE m + i - 1 \in m .. n /\ t[i] = s[m + i - 1]
  BY <1>2, <1>3
<1>6. ASSUME NEW i \in m .. n PROVE s[i] \in {t[j] : j \in 1 .. Len(t)}
  <2>1. i - m + 1 \in 1 .. Len(t) /\ t[i - m + 1] = s[i]
    BY <1>2, <1>3
  <2> QED
    BY <2>1
<1>7. ASSUME Distinct(s), NEW i \in 1 .. Len(t), NEW j \in 1 .. Len(t), t[i] = t[j] PROVE i = j
  <2>1. m + i - 1 \in 1 .. Len(s) /\ m + j - 1 \in 1 .. Len(s)
    BY <1>1, <1>3
  <2>2. m + i - 1 = m + j - 1
    BY <1>5, <1>7, <2>1 DEF Distinct
  <2> QED
    BY <2>2
<1>8. Range(t) = {s[i] : i \in m .. n}
  <2>1. ASSUME NEW x \in Range(t) PROVE x \in {s[i] : i \in m .. n}
    <3>1. PICK i \in 1 .. Len(t) : x = t[i]
      BY <1>4, <2>1
    <3> QED
      BY <1>5, <3>1
  <2> QED
    BY <1>4, <1>6, <2>1
<1>9. Distinct(s) => Distinct(t)
  BY <1>7 DEF Distinct
<1> QED
  BY <1>2, <1>3, <1>8, <1>9 DEF t

\* A sequence and the rest of it.
LEMMA TakenAndLeft ==
  ASSUME NEW S, NEW s \in Seq(S), NEW n \in 0 .. Len(s)
  PROVE  /\ SubSeq(s, 1, n) \in Seq(S) /\ SubSeq(s, n + 1, Len(s)) \in Seq(S)
         /\ Len(SubSeq(s, 1, n)) = n
         /\ Range(s) = Range(SubSeq(s, 1, n)) \union Range(SubSeq(s, n + 1, Len(s)))
         /\ Distinct(s) => /\ Range(SubSeq(s, 1, n)) \intersect Range(SubSeq(s, n + 1, Len(s))) = {}
                           /\ Distinct(SubSeq(s, n + 1, Len(s)))
<1>1. Len(s) \in Int /\ n \in Int /\ n + 1 \in Int /\ 1 <= n + 1 /\ n <= Len(s) /\ n + 1 <= Len(s) + 1
  BY LenProperties
<1>2. SubSeq(s, 1, n) \in Seq(S) /\ Len(SubSeq(s, 1, n)) = n /\ Range(SubSeq(s, 1, n)) = {s[i] : i \in 1 .. n}
  <2>1. /\ SubSeq(s, 1, n) \in Seq(S) /\ Len(SubSeq(s, 1, n)) = n - 1 + 1
        /\ Range(SubSeq(s, 1, n)) = {s[i] : i \in 1 .. n}
    BY <1>1, Piece
  <2> QED
    BY <1>1, <2>1
<1>3. /\ SubSeq(s, n + 1, Len(s)) \in Seq(S)
      /\ Range(SubSeq(s, n + 1, Len(s))) = {s[i] : i \in n + 1 .. Len(s)}
      /\ Distinct(s) => Distinct(SubSeq(s, n + 1, Len(s)))
  <2>1. 1 <= n + 1 /\ Len(s) <= Len(s)
    BY <1>1
  <2> QED
    BY <1>1, <2>1, Piece
<1>4. Range(s) = {s[i] : i \in 1 .. Len(s)}
  BY RangeEquality
<1>5. {s[i] : i \in 1 .. Len(s)} = {s[i] : i \in 1 .. n} \union {s[i] : i \in n + 1 .. Len(s)}
  BY <1>1
<1>6. Distinct(s) => {s[i] : i \in 1 .. n} \intersect {s[i] : i \in n + 1 .. Len(s)} = {}
  BY <1>1 DEF Distinct
<1> QED
  BY <1>2, <1>3, <1>4, <1>5, <1>6

ReportTypes ==
  /\ rQueue \in Seq(Reports!Event) /\ got \in [Reports!Event -> Nat]
  /\ rPc \in [Proc -> {"idle", "save", "load", "send", "stored", "failed", "off", "cut", "clear"}]
  /\ mine \in [Proc -> Seq(Reports!Event)] /\ made \in 0 .. MaxEvents
  /\ sentOff \in BOOLEAN /\ off \in BOOLEAN

\* What the command of p has in memory and what the queue has.
InMemory(p) ==
  /\ rPc[p] = "save" => Range(rQueue) \subseteq Range(mine[p])
  /\ rPc[p] \in {"send", "stored"} => \E n \in 0 .. Len(rQueue) : mine[p] = SubSeq(rQueue, 1, n)
  /\ rPc[p] = "stored" => \A e \in Range(mine[p]) : got[e] > 0
  /\ rPc[p] = "cut" => \A e \in Range(rQueue) : e \in Range(mine[p]) \/ got[e] > 0

OneCommand == \A p, q \in Proc : p # q /\ rPc[p] # "idle" => rPc[q] = "idle"
Arrives == \A e \in 1 .. made : e \in Range(rQueue) \union dropped \union Reports!Writing \/ got[e] > 0
IsOff == ~sentOff /\ (off => rState = "disabled" /\ \A p \in Proc : rPc[p] \in {"idle", "clear"})

\* Events that were not sent yet.
Unsent(s) == Distinct(s) /\ \A e \in Range(s) : got[e] = 0 /\ e <= made

\* Nothing that was sent is sent again.
Once ==
  /\ \A e \in Reports!Event : got[e] <= 1 /\ (got[e] > 0 => e <= made)
  /\ \A p \in Proc : rPc[p] \in {"save", "cut"} => Unsent(mine[p])
  /\ Distinct(rQueue) /\ \A e \in Range(rQueue) : e <= made
  /\ (\A p \in Proc : rPc[p] \notin {"stored", "cut"}) => Unsent(rQueue)
  /\ \A p \in Proc : rPc[p] = "stored" => \A e \in Range(rQueue) \ Range(mine[p]) : got[e] = 0

ReportsInv ==
  /\ ReportTypes
  /\ rBreach \subseteq {"unheard"} => OneCommand /\ (\A p \in Proc : InMemory(p)) /\ Arrives /\ IsOff
  /\ rBreach = {} => Once

\* Reports start with nothing.
LEMMA ReportsStart == ASSUME MaxEvents \in Nat, Reports!Init PROVE ReportsInv
<1>1. Range(<<>>) = {}
  BY DEF Range
<1>2. ReportTypes
  <2>1. <<>> \in Seq(Reports!Event) /\ 0 \in 0 .. MaxEvents
    OBVIOUS
  <2> QED
    BY <2>1 DEF Reports!Init, ReportTypes
<1> QED
  BY <1>1, <1>2 DEF Reports!Init, ReportsInv, OneCommand, InMemory, Arrives, IsOff, Once, Unsent,
     Distinct

\* A command that goes on alone: what the other commands have is unchanged, for they are idle.
OthersIdle(p) == \A q \in Proc \ {p} : rPc[q] = "idle" /\ rPc'[q] = "idle"

\* A step of one command keeps what holds of the others.
LEMMA ReportsKeep ==
  ASSUME ReportsInv, ReportTypes', NEW p \in Proc,
         rBreach' \subseteq {"unheard"} => rBreach \subseteq {"unheard"} /\ OthersIdle(p) /\ InMemory(p)' /\ IsOff',
         rBreach' \subseteq {"unheard"} =>
            \A e \in 1 .. made' : \/ e \in Range(rQueue') \union dropped' \/ got'[e] > 0
                                  \/ rPc'[p] \in {"save", "cut"} /\ e \in Range(mine'[p]),
         rBreach' = {} =>
            /\ \A e \in Reports!Event : got'[e] <= 1 /\ (got'[e] > 0 => e <= made')
            /\ rPc'[p] \in {"save", "cut"} => Unsent(mine[p])'
            /\ Distinct(rQueue') /\ \A e \in Range(rQueue') : e <= made'
            /\ rPc'[p] \notin {"stored", "cut"} => Unsent(rQueue)'
            /\ rPc'[p] = "stored" => \A e \in Range(rQueue') \ Range(mine'[p]) : got'[e] = 0
  PROVE  ReportsInv'
<1>1. ASSUME rBreach' \subseteq {"unheard"}
      PROVE OneCommand' /\ (\A q \in Proc : InMemory(q)') /\ Arrives' /\ IsOff'
  <2>1. OneCommand' /\ \A q \in Proc : InMemory(q)'
    BY <1>1 DEF OthersIdle, OneCommand, InMemory
  <2>2. Arrives'
    BY <1>1, ReportsLibrary DEF Arrives, Reports!Writing
  <2> QED
    BY <1>1, <2>1, <2>2
<1>2. ASSUME rBreach' = {} PROVE Once'
  BY <1>2 DEF Once, OthersIdle, Unsent
<1> QED
  BY <1>1, <1>2 DEF ReportsInv

\* An event is appended.
LEMMA AppendAdds ==
  ASSUME NEW S, NEW s \in Seq(S), NEW e \in S
  PROVE  /\ Append(s, e) \in Seq(S) /\ Range(Append(s, e)) = Range(s) \union {e}
         /\ Distinct(s) /\ e \notin Range(s) => Distinct(Append(s, e))
<1>1. /\ Len(s) \in Nat /\ Append(s, e) \in Seq(S) /\ Len(Append(s, e)) = Len(s) + 1
      /\ \A i \in 1 .. Len(s) : Append(s, e)[i] = s[i]
      /\ Append(s, e)[Len(s) + 1] = e
  BY LenProperties, AppendProperties
<1>2. Range(s) = {s[i] : i \in 1 .. Len(s)} /\ Range(Append(s, e)) = {Append(s, e)[i] : i \in 1 .. Len(s) + 1}
  BY <1>1, RangeEquality
<1>3. \A i \in 1 .. Len(s) + 1 : i \in 1 .. Len(s) \/ i = Len(s) + 1
  BY <1>1
<1>4. \A i \in 1 .. Len(s) : i \in 1 .. Len(s) + 1
  BY <1>1
<1>5. Len(s) + 1 \in 1 .. Len(s) + 1
  BY <1>1
<1>6. Range(Append(s, e)) = Range(s) \union {e}
  BY <1>1, <1>2, <1>3, <1>4, <1>5
<1>7. ASSUME Distinct(s), e \notin Range(s) PROVE Distinct(Append(s, e))
  BY <1>1, <1>2, <1>3, <1>7 DEF Distinct
<1> QED
  BY <1>1, <1>6, <1>7

\* The queue is cut to its last events.
LEMMA LastAreKept ==
  ASSUME MaxQueue \in Nat, NEW S, NEW s \in Seq(S)
  PROVE  /\ Reports!Kept(s) \in Seq(S) /\ Range(Reports!Kept(s)) \subseteq Range(s)
         /\ Distinct(s) => Distinct(Reports!Kept(s))
<1>1. Len(s) \in Nat /\ Range(s) = {s[i] : i \in 1 .. Len(s)}
  BY LenProperties, RangeEquality
<1> DEFINE m == Reports!Max({1, Len(s) - MaxQueue + 1})
<1>2. m \in Int /\ 1 <= m /\ m <= Len(s) + 1
  <2> DEFINE n == Len(s) - MaxQueue + 1
  <2>1. 1 \in Int /\ n \in Int /\ n <= Len(s) + 1
    BY <1>1
  <2> HIDE DEF n
  <2>2. Reports!Max({1, n}) = IF 1 <= n THEN n ELSE 1
    BY <2>1, ReportsLibrary, SMTT(30)
  <2>3. m = Reports!Max({1, n})
    BY Zenon DEF m, n
  <2> QED
    BY <1>1, <2>1, <2>2, <2>3
<1>3. Reports!Kept(s) = SubSeq(s, m, Len(s))
  BY DEF Reports!Kept
<1> HIDE DEF m
<1>4. /\ Reports!Kept(s) \in Seq(S) /\ Range(Reports!Kept(s)) = {s[i] : i \in m .. Len(s)}
      /\ Distinct(s) => Distinct(Reports!Kept(s))
  <2>1. Len(s) \in Int /\ Len(s) <= Len(s)
    BY <1>1
  <2> QED
    BY <1>2, <1>3, <2>1, Piece
<1>5. \A i \in m .. Len(s) : i \in 1 .. Len(s)
  BY <1>1, <1>2
<1> QED
  BY <1>1, <1>4, <1>5

\* A command ends.
LEMMA CommandEnds ==
  ASSUME ReportTypes, NEW p \in Proc, Reports!Finish(p)
  PROVE  /\ rPc' \in [Proc -> {"idle", "save", "load", "send", "stored", "failed", "off", "cut", "clear"}]
         /\ mine' \in [Proc -> Seq(Reports!Event)]
         /\ rPc'[p] = "idle" /\ \A q \in Proc \ {p} : rPc'[q] = rPc[q]
  BY DEF ReportTypes, Reports!Finish, Reports!Goto, Reports!Set, Reports!State

\* A step of a program that leaves the files and the programs alone.
LEMMA NothingMoves ==
  ASSUME ReportsInv, UNCHANGED <<rQueue, got, rPc, seen, mine, off, sentOff>>, rBreach' = rBreach,
         rBreach \subseteq {"unheard"} /\ off /\ rState = "disabled" => rState' = rState, made' \in made .. MaxEvents, made \in Nat,
         \A e \in 1 .. made' : e \in 1 .. made \/ e \in dropped', dropped \subseteq dropped'
  PROVE  ReportsInv'
<1>1. ReportTypes'
  BY DEF ReportsInv, ReportTypes
<1>2. (rBreach \subseteq {"unheard"}) => (OneCommand /\ (\A p \in Proc : InMemory(p)) /\ Arrives /\ IsOff)'
  BY DEF ReportsInv, OneCommand, InMemory, Arrives, IsOff, Reports!Writing
<1>3. \A e \in Reports!Event : e \in Nat
  BY DEF Reports!Event
<1>4. made <= made' /\ made' \in Nat
  OBVIOUS
<1>5. ASSUME NEW s \in Seq(Reports!Event), Unsent(s)
      PROVE (\A e \in Range(s) : got'[e] = 0 /\ e <= made') /\ Distinct(s)
  <2>1. Range(s) \subseteq Reports!Event
    BY RangeOfSeq
  <2> QED
    BY <1>3, <1>4, <1>5, <2>1 DEF Unsent
<1>6. Once => Once'
  BY <1>3, <1>4, <1>5, RangeOfSeq DEF Once, Unsent, ReportsInv, ReportTypes
<1> QED
  BY <1>1, <1>2, <1>6 DEF ReportsInv

\* A command records an event.
LEMMA RecordKeeps ==
  ASSUME MaxEvents \in Nat, ReportsInv, NEW p \in Proc, Reports!Record(p) PROVE ReportsInv'
<1> USE DEF Reports!Set, Reports!Goto, Reports!program, Reports!ghost
<1>1. made \in Nat /\ made' = made + 1 /\ made + 1 \in Reports!Event
  BY DEF ReportsInv, ReportTypes, Reports!Record, Reports!Event
<1>2. CASE rState = "disabled"
  BY <1>1, <1>2, NothingMoves DEF Reports!Record, Reports!Event
<1>3. CASE rState # "disabled"
  <2> DEFINE s == Append(rQueue, made + 1)
  <2>1. /\ s \in Seq(Reports!Event) /\ Range(s) = Range(rQueue) \union {made + 1}
        /\ Distinct(rQueue) /\ (made + 1) \notin Range(rQueue) => Distinct(s)
    BY <1>1, AppendAdds DEF ReportsInv, ReportTypes
  <2> HIDE DEF s
  <2>2. /\ rPc[p] = "idle" /\ rPc' = [rPc EXCEPT ![p] = "save"] /\ mine' = [mine EXCEPT ![p] = s]
        /\ seen' = [seen EXCEPT ![p] = rState] /\ UNCHANGED <<rQueue, rState, got, off, sentOff, dropped>>
        /\ rBreach' = rBreach \union (IF \E q \in Proc : rPc[q] # "idle" THEN {"overlap"} ELSE {})
    BY <1>1, <1>3 DEF Reports!Record, s
  <2>3. ReportTypes'
    BY <1>1, <2>1, <2>2 DEF ReportsInv, ReportTypes, Reports!Record, Reports!State, Reports!Event
  <2>4. rPc'[p] = "save" /\ mine'[p] = s
    BY <2>2 DEF ReportsInv, ReportTypes
  <2>5. ASSUME rBreach' \subseteq {"unheard"} 
        PROVE  rBreach \subseteq {"unheard"} /\ (\A q \in Proc : rPc[q] = "idle") /\ OthersIdle(p) /\ InMemory(p)' /\ IsOff'
    BY <1>3, <2>1, <2>2, <2>4, <2>5 DEF ReportsInv, InMemory, OthersIdle, IsOff
  <2>6. ASSUME rBreach' \subseteq {"unheard"}, NEW e \in 1 .. made'
        PROVE  e \in Range(rQueue') \union dropped' \/ got'[e] > 0 \/ e \in Range(mine'[p])
    <3>1. e \in 1 .. made \/ e = made + 1
      BY <1>1
    <3> QED
      BY <2>1, <2>2, <2>4, <2>5, <2>6, <3>1, ReportsLibrary DEF ReportsInv, Arrives, Reports!Writing
  <2>7. ASSUME rBreach' = {}
        PROVE  /\ \A e \in Reports!Event : got'[e] <= 1 /\ (got'[e] > 0 => e <= made')
               /\ Unsent(mine[p])' /\ Distinct(rQueue') /\ \A e \in Range(rQueue') : e <= made'
    <3>1. rBreach = {} /\ \A q \in Proc : rPc[q] = "idle"
      BY <2>2, <2>7
    <3>2. Once /\ Unsent(rQueue)
      BY <3>1 DEF ReportsInv, Once
    <3>3. Range(rQueue) \subseteq Reports!Event /\ \A e \in Reports!Event : e \in Nat /\ got[e] \in Nat
      BY RangeOfSeq DEF ReportsInv, ReportTypes, Reports!Event
    <3>4. \A e \in Reports!Event : got'[e] <= 1 /\ (got'[e] > 0 => e <= made')
      BY <1>1, <2>2, <3>2, <3>3 DEF Once
    <3>5. got[made + 1] = 0 /\ (made + 1) \notin Range(rQueue)
      BY <1>1, <3>2, <3>3 DEF Once
    <3>6. Distinct(rQueue) /\ \A e \in Range(rQueue) : e <= made + 1 /\ got[e] = 0
      BY <1>1, <3>2, <3>3 DEF Unsent
    <3>7. Unsent(mine[p])'
      BY <1>1, <2>1, <2>2, <2>4, <3>5, <3>6 DEF Unsent
    <3> QED
      BY <1>1, <2>2, <3>4, <3>6, <3>7
  <2>8. rBreach' = {} => rBreach' \subseteq {"unheard"}
    OBVIOUS
  <2>9. rBreach' = {} => rPc'[p] \notin {"stored"} /\ rPc'[p] = "save"
    BY <2>4
  <2>10. rBreach' = {} => Unsent(rQueue)'
    BY <2>7, <2>1, <2>2, <2>4, RangeOfSeq DEF Unsent
  <2> QED
    BY <2>3, <2>4, <2>5, <2>6, <2>7, <2>10, ReportsKeep
<1> QED
  BY <1>2, <1>3

\* The queue is saved, its oldest events dropped.
LEMMA SaveKeeps ==
  ASSUME MaxQueue \in Nat, MaxEvents \in Nat, ReportsInv, NEW p \in Proc, Reports!SaveQueue(p)
  PROVE  ReportsInv'
<1> USE DEF Reports!Set, Reports!Goto
<1>1. mine[p] \in Seq(Reports!Event) /\ rPc[p] = "save"
  BY DEF ReportsInv, ReportTypes, Reports!SaveQueue
<1>2. /\ rQueue' \in Seq(Reports!Event) /\ Range(rQueue') \subseteq Range(mine[p])
      /\ Distinct(mine[p]) => Distinct(rQueue')
  BY <1>1, LastAreKept DEF Reports!SaveQueue
<1>3. dropped' = dropped \union (Range(mine[p]) \ Range(rQueue')) /\ UNCHANGED <<rState, got, made, off, sentOff, rBreach>>
  BY ReportsLibrary DEF Reports!SaveQueue
<1>4. ReportTypes' /\ rPc'[p] \in {"idle", "load"} /\ \A q \in Proc \ {p} : rPc'[q] = rPc[q]
  <2>1. CASE seen[p] = "waiting"
    BY <1>2, <1>3, <2>1, CommandEnds DEF ReportsInv, ReportTypes, Reports!SaveQueue
  <2>2. CASE seen[p] # "waiting"
    BY <1>2, <1>3, <2>2 DEF ReportsInv, ReportTypes, Reports!SaveQueue
  <2> QED
    BY <2>1, <2>2
<1>5. ASSUME rBreach \subseteq {"unheard"} PROVE OthersIdle(p) /\ InMemory(p)' /\ IsOff'
  BY <1>1, <1>3, <1>4, <1>5 DEF ReportsInv, OneCommand, OthersIdle, InMemory, IsOff
<1>6. ASSUME rBreach \subseteq {"unheard"}, NEW e \in 1 .. made
      PROVE  e \in Range(rQueue') \union dropped' \/ got[e] > 0
  <2>1. e \in Range(rQueue) \union dropped \union Range(mine[p]) \/ got[e] > 0
    BY <1>1, <1>6, ReportsLibrary DEF ReportsInv, Arrives, Reports!Writing, OneCommand
  <2> QED
    BY <1>1, <1>3, <1>6, <2>1 DEF ReportsInv, InMemory
<1>7. ASSUME rBreach = {} PROVE Once /\ Unsent(rQueue)'
  <2>1. Once /\ Unsent(mine[p])
    BY <1>1, <1>7 DEF ReportsInv, Once
  <2> QED
    BY <1>2, <1>3, <2>1 DEF Unsent
<1> QED
  BY <1>3, <1>4, <1>5, <1>6, <1>7, ReportsKeep DEF Once, Unsent

\* A batch is loaded.
LEMMA LoadKeeps ==
  ASSUME Batch \in Nat, MaxEvents \in Nat, ReportsInv, NEW p \in Proc, Reports!LoadBatch(p)
  PROVE  ReportsInv'
<1> USE DEF Reports!Set, Reports!Goto, Reports!ghost
<1>1. rPc[p] = "load" /\ UNCHANGED <<rQueue, rState, got, made, dropped, off, sentOff, rBreach>>
  BY DEF Reports!LoadBatch
<1>2. rQueue \in Seq(Reports!Event) /\ Len(rQueue) \in Nat
  BY LenProperties DEF ReportsInv, ReportTypes
<1>3. ReportTypes' /\ rPc'[p] \in {"idle", "send"} /\ \A q \in Proc \ {p} : rPc'[q] = rPc[q]
  <2>1. CASE rQueue = <<>>
    BY <1>1, <2>1, CommandEnds DEF ReportsInv, ReportTypes, Reports!LoadBatch
  <2>2. CASE rQueue # <<>>
    <3>1. SubSeq(rQueue, 1, Reports!Min({Batch, Len(rQueue)})) \in Seq(Reports!Event)
      BY SMTT(30), <1>2, ReportsLibrary, TakenAndLeft
    <3> QED
      BY <1>1, <2>2, <3>1 DEF ReportsInv, ReportTypes, Reports!LoadBatch
  <2> QED
    BY <2>1, <2>2
<1>4. rPc'[p] = "send" => \E n \in 0 .. Len(rQueue) : mine'[p] = SubSeq(rQueue, 1, n)
  <2>1. Reports!Min({Batch, Len(rQueue)}) \in 0 .. Len(rQueue)
    BY <1>2, ReportsLibrary
  <2> QED
    BY <2>1, CommandEnds DEF Reports!LoadBatch, ReportsInv, ReportTypes
<1>5. ASSUME rBreach \subseteq {"unheard"} PROVE OthersIdle(p) /\ InMemory(p)' /\ IsOff'
  BY <1>1, <1>3, <1>4, <1>5 DEF ReportsInv, OneCommand, OthersIdle, InMemory, IsOff
<1>6. ASSUME rBreach \subseteq {"unheard"}, NEW e \in 1 .. made
      PROVE  e \in Range(rQueue) \union dropped \/ got[e] > 0
  BY <1>1, <1>6, ReportsLibrary DEF ReportsInv, Arrives, Reports!Writing, OneCommand
<1>7. ASSUME rBreach = {} PROVE Once /\ Unsent(rQueue)
  BY <1>1, <1>7 DEF ReportsInv, Once, OneCommand
<1> QED
  BY <1>1, <1>3, <1>5, <1>6, <1>7, ReportsKeep DEF Once, Unsent

ServerKnown == server \in {"up", "down", "off"}

\* A batch is sent, and may go unheard.
LEMMA SendKeeps ==
  ASSUME MaxEvents \in Nat, ReportsInv, ServerKnown, NEW p \in Proc, Reports!SendBatch(p)
  PROVE  ReportsInv'
<1> DEFINE step == CASE server = "up" -> "stored" [] server = "down" -> "failed" [] server = "off" -> "off"
<1>1. PICK stores \in BOOLEAN :
        /\ (server = "up" => stores) /\ (server = "off" => ~stores)
        /\ got' = [e \in Reports!Event |-> IF stores /\ e \in Range(mine[p]) THEN got[e] + 1 ELSE got[e]]
        /\ rPc' = [rPc EXCEPT ![p] = step]
        /\ rBreach' = rBreach \union (IF stores /\ server = "down" THEN {"unheard"} ELSE {})
  BY ReportsLibrary DEF Reports!SendBatch, Reports!Goto, Reports!Set
<1>2. /\ rPc[p] = "send" /\ UNCHANGED <<rQueue, rState, mine, made, dropped, off>>
      /\ sentOff' = (sentOff \/ off)
  BY DEF Reports!SendBatch
<1>3. step \in {"stored", "failed", "off"} /\ (step = "stored" <=> server = "up")
  BY DEF ServerKnown
<1> HIDE DEF step
<1>4. rPc'[p] = step /\ \A q \in Proc \ {p} : rPc'[q] = rPc[q]
  BY <1>1 DEF ReportsInv, ReportTypes
<1>5. \A e \in Reports!Event : got[e] \in Nat /\ got'[e] \in Nat /\ got[e] <= got'[e]
                              /\ (got'[e] = got[e] \/ (stores /\ e \in Range(mine[p]) /\ got'[e] = got[e] + 1))
  BY <1>1 DEF ReportsInv, ReportTypes
<1>6. ReportTypes'
  BY <1>1, <1>2, <1>3, <1>5 DEF ReportsInv, ReportTypes
<1>7. Range(rQueue) \subseteq Reports!Event /\ Range(mine[p]) \subseteq Reports!Event
  BY RangeOfSeq DEF ReportsInv, ReportTypes
<1>8. rBreach' \subseteq {"unheard"} => rBreach \subseteq {"unheard"}
  BY <1>1
<1>9. ASSUME rBreach \subseteq {"unheard"} PROVE OthersIdle(p) /\ InMemory(p)' /\ IsOff'
  <2>1. OthersIdle(p)
    BY <1>2, <1>4, <1>9 DEF ReportsInv, OneCommand, OthersIdle
  <2>2. off = FALSE /\ sentOff = FALSE
    BY <1>2, <1>9 DEF ReportsInv, ReportTypes, IsOff
  <2>3. \E n \in 0 .. Len(rQueue) : mine[p] = SubSeq(rQueue, 1, n)
    BY <1>2, <1>9 DEF ReportsInv, InMemory
  <2>4. rPc'[p] = "stored" => \A e \in Range(mine[p]) : got'[e] > 0
    <3> SUFFICES ASSUME rPc'[p] = "stored", NEW e \in Range(mine[p]) PROVE got'[e] > 0
      OBVIOUS
    <3>1. stores /\ e \in Reports!Event
      BY <1>1, <1>3, <1>4, <1>7
    <3> QED
      BY <1>1, <1>5, <3>1
  <2> QED
    BY <1>2, <1>3, <1>4, <2>1, <2>2, <2>3, <2>4 DEF InMemory, IsOff
<1>10. ASSUME rBreach \subseteq {"unheard"}, NEW e \in 1 .. made
       PROVE  e \in Range(rQueue) \union dropped \/ got'[e] > 0
  <2>1. e \in Range(rQueue) \union dropped \/ got[e] > 0
    BY <1>2, <1>10, ReportsLibrary DEF ReportsInv, Arrives, Reports!Writing, OneCommand
  <2>2. e \in Reports!Event
    BY DEF ReportsInv, ReportTypes, Reports!Event
  <2> QED
    BY <1>5, <2>1, <2>2
<1>11. ASSUME rBreach' = {}
       PROVE  /\ \A e \in Reports!Event : got'[e] <= 1 /\ (got'[e] > 0 => e <= made)
              /\ Distinct(rQueue) /\ \A e \in Range(rQueue) : e <= made
              /\ rPc'[p] # "stored" => Unsent(rQueue)'
              /\ rPc'[p] = "stored" => \A e \in Range(rQueue) \ Range(mine[p]) : got'[e] = 0
  <2>1. rBreach = {} /\ (stores => server = "up")
    BY <1>1, <1>11 DEF ServerKnown
  <2>2. Once /\ Unsent(rQueue)
    BY <1>2, <2>1 DEF ReportsInv, Once, OneCommand
  <2>3. Range(mine[p]) \subseteq Range(rQueue)
    <3>1. PICK n \in 0 .. Len(rQueue) : mine[p] = SubSeq(rQueue, 1, n)
      BY <1>2, <2>1 DEF ReportsInv, InMemory
    <3> QED
      BY <3>1, TakenAndLeft DEF ReportsInv, ReportTypes
  <2>4. \A e \in Reports!Event : got'[e] <= 1 /\ (got'[e] > 0 => e <= made)
    BY <1>5, <2>2, <2>3 DEF Once, Unsent
  <2>5. rPc'[p] # "stored" => \A e \in Range(rQueue) : got'[e] = got[e]
    BY <1>1, <1>3, <1>4, <1>5, <1>7, <2>1
  <2>6. \A e \in Range(rQueue) \ Range(mine[p]) : got'[e] = got[e]
    BY <1>5, <1>7
  <2> QED
    BY <1>2, <2>2, <2>4, <2>5, <2>6 DEF Once, Unsent
<1> QED
  BY <1>2, <1>3, <1>4, <1>6, <1>8, <1>9, <1>10, <1>11, ReportsKeep

\* The server took the batch.
LEMMA StoredKeeps ==
  ASSUME MaxEvents \in Nat, ReportsInv, NEW p \in Proc, Reports!Stored(p) PROVE ReportsInv'
<1> USE DEF Reports!Set, Reports!Goto, Reports!ghost
<1>1. rPc[p] = "stored" /\ UNCHANGED <<rQueue, got, made, dropped, off, sentOff, rBreach>>
  BY DEF Reports!Stored
<1>2. mine'[p] = Reports!Remaining(p) /\ rPc'[p] = "cut" /\ \A q \in Proc \ {p} : rPc'[q] = rPc[q]
  BY DEF Reports!Stored, ReportsInv, ReportTypes
<1> DEFINE rest == Reports!Remaining(p)
<1>3. rQueue \in Seq(Reports!Event) /\ mine[p] \in Seq(Reports!Event) /\ Len(rQueue) \in Nat /\ Len(mine[p]) \in Nat
  BY LenProperties DEF ReportsInv, ReportTypes
<1>4. rest \in Seq(Reports!Event)
  <2>1. \A i \in Len(mine[p]) + 1 .. Len(rQueue) : rQueue[i] \in Reports!Event
    BY <1>3, ElementOfSeq
  <2> QED
    BY <1>3, <2>1, SubSeqProperties DEF Reports!Remaining
<1>5. ReportTypes'
  BY <1>1, <1>4 DEF ReportsInv, ReportTypes, Reports!Stored
<1>6. ASSUME rBreach \subseteq {"unheard"}
      PROVE  /\ Range(rQueue) = Range(mine[p]) \union Range(rest)
             /\ \A e \in Range(mine[p]) : got[e] > 0
             /\ Distinct(rQueue) => Range(mine[p]) \intersect Range(rest) = {} /\ Distinct(rest)
  <2>1. PICK n \in 0 .. Len(rQueue) : mine[p] = SubSeq(rQueue, 1, n)
    BY <1>1, <1>6 DEF ReportsInv, InMemory
  <2>2. Len(mine[p]) = n
    BY <1>3, <2>1, TakenAndLeft
  <2> QED
    BY <1>1, <1>3, <1>6, <2>1, <2>2, TakenAndLeft DEF ReportsInv, InMemory, Reports!Remaining
<1> HIDE DEF rest
<1>7. ASSUME rBreach \subseteq {"unheard"} PROVE OthersIdle(p) /\ InMemory(p)' /\ IsOff'
  BY <1>1, <1>2, <1>6, <1>7 DEF ReportsInv, OneCommand, OthersIdle, InMemory, IsOff, rest
<1>8. ASSUME rBreach \subseteq {"unheard"}, NEW e \in 1 .. made
      PROVE  e \in Range(rQueue) \union dropped \/ got[e] > 0
  BY <1>1, <1>8, ReportsLibrary DEF ReportsInv, Arrives, Reports!Writing, OneCommand
<1>9. ASSUME rBreach = {} PROVE Once /\ Unsent(rest)
  <2>1. Once /\ \A e \in Range(rQueue) \ Range(mine[p]) : got[e] = 0
    BY <1>1, <1>9 DEF ReportsInv, Once
  <2> QED
    BY <1>6, <1>9, <2>1 DEF Once, Unsent
<1> QED
  BY <1>1, <1>2, <1>5, <1>7, <1>8, <1>9, ReportsKeep DEF Once, Unsent, rest

\* The queue is cut.
LEMMA CutKeeps ==
  ASSUME MaxEvents \in Nat, ReportsInv, NEW p \in Proc, Reports!CutQueue(p) PROVE ReportsInv'
<1>1. rPc[p] = "cut" /\ rQueue' = mine[p] /\ Reports!Finish(p) /\ UNCHANGED <<rState, got, made, dropped, off, sentOff, rBreach>>
  BY DEF Reports!CutQueue, Reports!ghost
<1>2. mine[p] \in Seq(Reports!Event)
  BY DEF ReportsInv, ReportTypes
<1>3. ReportTypes' /\ rPc'[p] = "idle" /\ \A q \in Proc \ {p} : rPc'[q] = rPc[q]
  BY <1>1, <1>2, CommandEnds DEF ReportsInv, ReportTypes
<1>4. ASSUME rBreach \subseteq {"unheard"} PROVE OthersIdle(p) /\ InMemory(p)' /\ IsOff'
  BY <1>1, <1>3, <1>4 DEF ReportsInv, OneCommand, OthersIdle, InMemory, IsOff
<1>5. ASSUME rBreach \subseteq {"unheard"}, NEW e \in 1 .. made
      PROVE  e \in Range(rQueue') \union dropped \/ got[e] > 0
  BY <1>1, <1>5, ReportsLibrary DEF ReportsInv, Arrives, Reports!Writing, OneCommand, InMemory
<1>6. ASSUME rBreach = {} PROVE Once /\ Unsent(rQueue)'
  BY <1>1, <1>6 DEF ReportsInv, Once, Unsent
<1> QED
  BY <1>1, <1>3, <1>4, <1>5, <1>6, ReportsKeep DEF Once, Unsent

\* A batch failed.
LEMMA FailedKeeps ==
  ASSUME MaxEvents \in Nat, ReportsInv, NEW p \in Proc, Reports!Failed(p) PROVE ReportsInv'
<1>1. rPc[p] = "failed" /\ Reports!Finish(p) /\ UNCHANGED <<rQueue, got, made, dropped, off, sentOff, rBreach>>
  BY DEF Reports!Failed, Reports!ghost
<1>2. ReportTypes' /\ rPc'[p] = "idle" /\ \A q \in Proc \ {p} : rPc'[q] = rPc[q]
  BY <1>1, CommandEnds DEF ReportsInv, ReportTypes
<1>3. ASSUME rBreach \subseteq {"unheard"} PROVE OthersIdle(p) /\ InMemory(p)' /\ IsOff'
  BY <1>1, <1>2, <1>3 DEF ReportsInv, OneCommand, OthersIdle, InMemory, IsOff
<1>4. ASSUME rBreach \subseteq {"unheard"}, NEW e \in 1 .. made
      PROVE  e \in Range(rQueue) \union dropped \/ got[e] > 0
  BY <1>1, <1>4, ReportsLibrary DEF ReportsInv, Arrives, Reports!Writing, OneCommand
<1>5. ASSUME rBreach = {} PROVE Once /\ Unsent(rQueue)
  BY <1>1, <1>5 DEF ReportsInv, Once, OneCommand
<1> QED
  BY <1>1, <1>2, <1>3, <1>4, <1>5, ReportsKeep DEF Once, Unsent

\* Reports are switched off.
LEMMA SwitchOffKeeps ==
  ASSUME MaxEvents \in Nat, ReportsInv, NEW p \in Proc, Reports!SwitchOff(p) PROVE ReportsInv'
<1>1. /\ rPc[p] = "off" /\ rState' = "disabled" /\ off' = TRUE /\ rPc' = [rPc EXCEPT ![p] = "clear"]
      /\ UNCHANGED <<rQueue, got, mine, made, dropped, sentOff, rBreach>>
  BY DEF Reports!SwitchOff, Reports!Goto, Reports!Set
<1>2. ReportTypes' /\ rPc'[p] = "clear" /\ \A q \in Proc \ {p} : rPc'[q] = rPc[q]
  BY <1>1 DEF ReportsInv, ReportTypes
<1>3. ASSUME rBreach \subseteq {"unheard"} PROVE OthersIdle(p) /\ InMemory(p)' /\ IsOff'
  BY <1>1, <1>2, <1>3 DEF ReportsInv, OneCommand, OthersIdle, InMemory, IsOff
<1>4. ASSUME rBreach \subseteq {"unheard"}, NEW e \in 1 .. made
      PROVE  e \in Range(rQueue) \union dropped \/ got[e] > 0
  BY <1>1, <1>4, ReportsLibrary DEF ReportsInv, Arrives, Reports!Writing, OneCommand
<1>5. ASSUME rBreach = {} PROVE Once /\ Unsent(rQueue)
  BY <1>1, <1>5 DEF ReportsInv, Once, OneCommand
<1> QED
  BY <1>1, <1>2, <1>3, <1>4, <1>5, ReportsKeep DEF Once, Unsent

\* The queue is cleared.
LEMMA ClearKeeps ==
  ASSUME MaxEvents \in Nat, ReportsInv, NEW p \in Proc, Reports!ClearQueue(p) PROVE ReportsInv'
<1>1. /\ rPc[p] = "clear" /\ rQueue' = <<>> /\ dropped' = dropped \union Range(rQueue) /\ Reports!Finish(p)
      /\ UNCHANGED <<rState, got, made, off, sentOff, rBreach>>
  BY ReportsLibrary DEF Reports!ClearQueue
<1>2. Range(<<>>) = {} /\ <<>> \in Seq(Reports!Event) /\ Distinct(<<>>)
  BY DEF Range, Distinct
<1>3. ReportTypes' /\ rPc'[p] = "idle" /\ \A q \in Proc \ {p} : rPc'[q] = rPc[q]
  BY <1>1, <1>2, CommandEnds DEF ReportsInv, ReportTypes
<1>4. ASSUME rBreach \subseteq {"unheard"} PROVE OthersIdle(p) /\ InMemory(p)' /\ IsOff'
  BY <1>1, <1>3, <1>4 DEF ReportsInv, OneCommand, OthersIdle, InMemory, IsOff
<1>5. ASSUME rBreach \subseteq {"unheard"}, NEW e \in 1 .. made
      PROVE  e \in Range(rQueue') \union dropped' \/ got[e] > 0
  BY <1>1, <1>5, ReportsLibrary DEF ReportsInv, Arrives, Reports!Writing, OneCommand
<1>6. ASSUME rBreach = {} PROVE Once /\ Unsent(rQueue)'
  BY <1>1, <1>2, <1>6 DEF ReportsInv, Once, Unsent
<1> QED
  BY <1>1, <1>3, <1>4, <1>5, <1>6, ReportsKeep DEF Once, Unsent

\* A command dies, and what it wrote is torn.
LEMMA DeathKeeps ==
  ASSUME MaxEvents \in Nat, MaxQueue \in Nat, ReportsInv, NEW p \in Proc, Reports!Die(p)
  PROVE ReportsInv'
<1>1. "died" \in rBreach' /\ Reports!Finish(p) /\ UNCHANGED <<got, made, off, sentOff>>
  BY DEF Reports!Die
<1>2. mine[p] \in Seq(Reports!Event) /\ Len(mine[p]) \in Nat
  BY LenProperties DEF ReportsInv, ReportTypes
<1>3. Reports!Min({MaxQueue, Len(mine[p])}) \in 0 .. Len(mine[p])
  BY <1>2, ReportsLibrary
<1>4. \A n \in 0 .. Reports!Min({MaxQueue, Len(mine[p])}) : SubSeq(mine[p], 1, n) \in Seq(Reports!Event)
  BY <1>2, <1>3, TakenAndLeft
<1>5. rQueue' \in Seq(Reports!Event)
  BY <1>4 DEF Reports!Die, ReportsInv, ReportTypes
<1>6. ReportTypes'
  BY <1>1, <1>5, CommandEnds DEF ReportsInv, ReportTypes
<1> QED
  BY <1>1, <1>6 DEF ReportsInv

\* Every step keeps the invariant.
LEMMA ReportsStep ==
  ASSUME Batch \in Nat, MaxQueue \in Nat, MaxEvents \in Nat, ReportsInv, ServerKnown,
         [Reports!Next]_(Reports!vars)
  PROVE  ReportsInv' /\ ServerKnown'
<1>1. ServerKnown'
  BY DEF ServerKnown, Reports!Next, Reports!vars, Reports!Record, Reports!SaveQueue,
         Reports!LoadBatch,
         Reports!SendBatch, Reports!Stored, Reports!CutQueue, Reports!Failed, Reports!SwitchOff,
         Reports!ClearQueue, Reports!Die, Reports!ServerChanges, Reports!DelayEnds
<1>2. \A p \in Proc : 
        /\ Reports!Record(p) => ReportsInv'
        /\ Reports!SaveQueue(p) => ReportsInv'
        /\ Reports!LoadBatch(p) => ReportsInv'
        /\ Reports!SendBatch(p) => ReportsInv'
        /\ Reports!Stored(p) => ReportsInv'
        /\ Reports!CutQueue(p) => ReportsInv'
        /\ Reports!Failed(p) => ReportsInv'
        /\ Reports!SwitchOff(p) => ReportsInv'
        /\ Reports!ClearQueue(p) => ReportsInv'
        /\ Reports!Die(p) => ReportsInv'
  BY RecordKeeps, SaveKeeps, LoadKeeps, SendKeeps, StoredKeeps, CutKeeps, FailedKeeps,
     SwitchOffKeeps, ClearKeeps, DeathKeeps
<1>3. made \in Nat /\ made \in made .. MaxEvents
  BY DEF ReportsInv, ReportTypes
<1>4. Reports!ServerChanges => ReportsInv'
  BY <1>3, NothingMoves DEF Reports!ServerChanges, Reports!program, Reports!ghost
<1>5. Reports!DelayEnds => ReportsInv'
  BY <1>3, NothingMoves DEF Reports!DelayEnds, Reports!program, Reports!ghost
<1>6. UNCHANGED Reports!vars => ReportsInv'
  BY <1>3, NothingMoves DEF Reports!vars, Reports!program, Reports!ghost
<1> QED
  BY <1>1, <1>2, <1>4, <1>5, <1>6 DEF Reports!Next

\* Whatever the sizes and however many commands there are, an event is lost, or sent twice, or
\* sent after the switch, only if commands overlapped, died, or got no answer.
THEOREM ReportsArrive ==
  Batch \in Nat /\ MaxQueue \in Nat /\ MaxEvents \in Nat =>
    (Reports!Spec => [](Reports!EventsArriveOnce /\ Reports!SwitchedOffForGood))
<1> SUFFICES ASSUME Batch \in Nat, MaxQueue \in Nat, MaxEvents \in Nat
             PROVE  Reports!Spec => [](Reports!EventsArriveOnce /\ Reports!SwitchedOffForGood)
  OBVIOUS
<1>1. Reports!Init => ReportsInv /\ ServerKnown
  BY ReportsStart DEF Reports!Init, ServerKnown
<1>2. ReportsInv => Reports!EventsArriveOnce /\ Reports!SwitchedOffForGood
  BY ReportsLibrary DEF ReportsInv, Arrives, IsOff, Once, Reports!EventsArriveOnce,
     Reports!SwitchedOffForGood, Reports!Writing
<1>3. (ReportsInv /\ ServerKnown) /\ [Reports!Next]_(Reports!vars) => (ReportsInv /\ ServerKnown)'
  BY ReportsStep
<1> QED
  BY <1>1, <1>2, <1>3, PTL DEF Reports!Spec

-----------------------------------------------------------------------------
(* The setup of a remote (RemoteSetup).                                     *)

CONSTANTS Machine, MaxAttempts, MaxFiles
VARIABLES
  local, files, flows, created, mMain, mPc, tries, adopted, mNext, mActs, done, held, raced

Remote == INSTANCE RemoteSetup WITH
  MaxActs <- MaxActs["Remote"], MaxCommits <- MaxFiles, main <- mMain, pc <- mPc,
  next <- mNext, acts <- mActs

\* The operators that RemoteSetup takes from the library are the library's.
LEMMA RemoteLibrary == \A S : Remote!Cardinality(S) = Cardinality(S)
  BY DEF Remote!Cardinality, Cardinality, Remote!IsFiniteSet, IsFiniteSet

RemoteTypes ==
  /\ local \in [Machine -> SUBSET Remote!Commit] /\ files \in [Machine -> SUBSET Remote!Commit]
  /\ mPc \in [Machine -> {"idle", "auth", "view", "create", "remote", "fresh", "clone", "commit", "push"}]
  /\ adopted \in [Machine -> BOOLEAN] /\ raced \in BOOLEAN
  /\ mNext \in 1 .. MaxFiles + 1

\* Numbers are given once, and what is only written is in nobody's history.
Apart ==
  /\ \A c \in mMain \union held \union flows : c \in Remote!Commit /\ c < mNext
  /\ \A m \in Machine : \A c \in local[m] \union files[m] : c < mNext
  /\ \A m, n \in Machine : files[m] \intersect local[n] = {} /\ (m # n => files[m] \intersect files[n] = {})
  /\ \A m \in Machine : files[m] \intersect mMain = {} /\ files[m] \intersect held = {}

\* A history begins with a commit that holds neither facts nor workflows.
Rooted(S) == S # {} => \E r \in S : r \notin held /\ r \notin flows
AllRooted == Rooted(mMain) /\ \A m \in Machine : Rooted(local[m])

\* More than the first commit.
Grown(S) == \E a, b \in S : a # b

\* A program has a repository to set up, replaces only one that was never set up, and pushes
\* what has grown.
Underway ==
  \A m \in Machine :
    /\ mPc[m] # "idle" => local[m] # {}
    /\ mPc[m] \in {"auth", "view", "create", "fresh", "clone"} => ~adopted[m]
    /\ mPc[m] = "clone" => m \notin done /\ mMain # {} /\ (~raced => local[m] \intersect held = {})
    /\ mPc[m] = "push" => Grown(local[m])
    /\ m \in done => Grown(local[m])

\* Whoever has main at some time has what main had first.
Owner(m) == m \in done \/ (adopted[m] /\ mPc[m] \in {"commit", "push"})
OneHistory ==
  \/ mMain = {} /\ \A m \in Machine : ~Owner(m)
  \/ \E r \in mMain : \A m \in Machine : Owner(m) => r \in local[m]

RemoteInv == /\ RemoteTypes /\ Apart /\ AllRooted /\ Underway /\ OneHistory
             /\ done \subseteq Machine /\ Remote!CommittedStays

\* There are finitely many commits.
LEMMA CommitsAreFinite == ASSUME MaxFiles \in Nat, NEW S \in SUBSET Remote!Commit PROVE IsFiniteSet(S)
<1>1. IsFiniteSet(1 .. MaxFiles)
  BY FS_Interval
<1> QED
  BY <1>1, FS_Subset DEF Remote!Commit

\* A repository with more than one commit is no fresh one.
LEMMA FreshIsNotGrown ==
  ASSUME MaxFiles \in Nat, NEW S \in SUBSET Remote!Commit, Remote!Cardinality(S) = 1 PROVE ~Grown(S)
<1>1. IsFiniteSet(S)
  BY CommitsAreFinite
<1>2. \E x : S = {x}
  BY <1>1, FS_Singleton, RemoteLibrary
<1> QED
  BY <1>2 DEF Grown

\* The fresh repository of a machine holds no fact.
LEMMA FreshHoldsNothing ==
  ASSUME MaxFiles \in Nat, RemoteInv, NEW m \in Machine, Remote!Bootstrapped(m)
  PROVE  local[m] \intersect held = {} /\ m \notin done
<1>1. local[m] \in SUBSET Remote!Commit /\ Remote!Cardinality(local[m]) = 1
  BY DEF Remote!Bootstrapped, RemoteInv, RemoteTypes
<1>2. IsFiniteSet(local[m])
  BY <1>1, CommitsAreFinite
<1>3. PICK x : local[m] = {x}
  BY <1>1, <1>2, FS_Singleton, RemoteLibrary
<1>4. x \notin held
  BY <1>3 DEF RemoteInv, AllRooted, Rooted
<1> QED
  BY <1>1, <1>3, <1>4, FreshIsNotGrown DEF RemoteInv, Underway

\* A program goes on or ends, and touches no commit.
LEMMA ProgramMoves ==
  ASSUME RemoteInv, RemoteTypes', NEW m \in Machine,
         UNCHANGED <<local, files, flows, mMain, mNext, done, held, raced>>,
         \A n \in Machine \ {m} : mPc'[n] = mPc[n] /\ adopted'[n] = adopted[n],
         /\ mPc'[m] # "idle" => local[m] # {}
         /\ mPc'[m] \in {"auth", "view", "create", "fresh", "clone"} => ~adopted'[m]
         /\ mPc'[m] = "clone" => m \notin done /\ mMain # {} /\ (~raced => local[m] \intersect held = {})
         /\ mPc'[m] # "push"
         /\ Owner(m)' => Owner(m)
  PROVE  RemoteInv'
<1>1. Apart' /\ AllRooted' /\ done' \subseteq Machine /\ Remote!CommittedStays'
  BY DEF RemoteInv, Apart, AllRooted, Rooted, Remote!CommittedStays
<1>2. Underway'
  BY DEF RemoteInv, Underway, Grown
<1>3. \A n \in Machine : Owner(n)' => Owner(n)
  BY DEF Owner
<1>4. OneHistory'
  BY <1>3 DEF RemoteInv, OneHistory
<1> QED
  BY <1>1, <1>2, <1>4 DEF RemoteInv

\* A history is begun.
LEMMA InitKeeps ==
  ASSUME MaxFiles \in Nat, RemoteInv, NEW m \in Machine, Remote!InitProject(m) PROVE RemoteInv'
<1>1. /\ local[m] = {} /\ mPc[m] = "idle" /\ mNext \in Remote!Commit /\ mNext' = mNext + 1
      /\ local' = [local EXCEPT ![m] = {mNext}]
      /\ UNCHANGED <<files, flows, mMain, mPc, adopted, done, held, raced>>
  BY DEF Remote!InitProject, Remote!New, Remote!Set, Remote!Commit, Remote!github, Remote!program,
         RemoteInv, RemoteTypes
<1>2. RemoteTypes'
  BY <1>1 DEF RemoteInv, RemoteTypes, Remote!Commit
<1>3. Apart'
  BY <1>1 DEF RemoteInv, RemoteTypes, Apart, Remote!Commit
<1>4. AllRooted'
  BY <1>1 DEF RemoteInv, RemoteTypes, AllRooted, Rooted, Apart, Remote!Commit
<1>5. m \notin done
  BY <1>1 DEF RemoteInv, Underway, Grown
<1>6. Underway'
  BY <1>1, <1>5 DEF RemoteInv, RemoteTypes, Underway, Grown
<1>7. \A n \in Machine : (Owner(n)' <=> Owner(n)) /\ (Owner(n) => local'[n] = local[n])
  BY <1>1, <1>5 DEF Owner, RemoteInv, RemoteTypes
<1>8. OneHistory'
  BY <1>1, <1>7 DEF RemoteInv, OneHistory
<1>9. Remote!CommittedStays'
  BY <1>1 DEF RemoteInv, RemoteTypes, Remote!CommittedStays
<1> QED
  BY <1>1, <1>2, <1>3, <1>4, <1>6, <1>8, <1>9 DEF RemoteInv

\* Facts and sessions are saved.
LEMMA SaveOnKeeps ==
  ASSUME MaxFiles \in Nat, RemoteInv, NEW m \in Machine, Remote!Save(m) PROVE RemoteInv'
<1>1. /\ local[m] # {} /\ mNext \in Remote!Commit /\ mNext' = mNext + 1
      /\ \/ local' = [local EXCEPT ![m] = @ \union {mNext}] /\ held' = held \union {mNext} /\ UNCHANGED files
         \/ files' = [files EXCEPT ![m] = @ \union {mNext}] /\ UNCHANGED <<local, held>>
      /\ raced' = (raced \/ mPc[m] = "clone")
      /\ UNCHANGED <<flows, mMain, mPc, adopted, done>>
  BY DEF Remote!Save, Remote!New, Remote!Commit, Remote!github, Remote!program, RemoteInv,
         RemoteTypes
<1>2. RemoteTypes'
  BY <1>1 DEF RemoteInv, RemoteTypes, Remote!Commit
<1>3. Apart'
  BY <1>1 DEF RemoteInv, RemoteTypes, Apart, Remote!Commit
<1>4. AllRooted'
  BY <1>1 DEF RemoteInv, RemoteTypes, AllRooted, Rooted, Apart, Remote!Commit
<1>5. \A n \in Machine : local[n] \subseteq local'[n] /\ (n # m => local'[n] = local[n])
  BY <1>1 DEF RemoteInv, RemoteTypes
<1>6. \A n \in Machine : mNext \notin local[n]
  BY <1>1 DEF RemoteInv, RemoteTypes, Apart, Remote!Commit
<1>7. Underway'
  <2> SUFFICES ASSUME NEW n \in Machine
               PROVE  /\ mPc[n] # "idle" => local'[n] # {}
                      /\ mPc[n] \in {"auth", "view", "create", "fresh", "clone"} => ~adopted[n]
                      /\ mPc[n] = "clone" => n \notin done /\ mMain # {} /\ (~raced' => local'[n] \intersect held' = {})
                      /\ mPc[n] = "push" => Grown(local'[n])
                      /\ n \in done => Grown(local'[n])
    BY <1>1 DEF Underway, Grown
  <2>1. Grown(local[n]) => Grown(local'[n])
    BY <1>5 DEF Grown
  <2>2. ASSUME mPc[n] = "clone", ~raced' PROVE local'[n] \intersect held' = {}
    <3>1. n # m /\ ~raced /\ held' \subseteq held \union {mNext}
      BY <1>1, <2>2 DEF RemoteInv, RemoteTypes
    <3> QED
      BY <1>5, <1>6, <2>2, <3>1 DEF RemoteInv, Underway
  <2> QED
    BY <1>5, <2>1, <2>2 DEF RemoteInv, Underway
<1>8. OneHistory'
  BY <1>1, <1>5 DEF RemoteInv, OneHistory, Owner
<1>9. Remote!CommittedStays'
  BY <1>1, <1>5 DEF RemoteInv, RemoteTypes, Remote!CommittedStays
<1> QED
  BY <1>1, <1>2, <1>3, <1>4, <1>7, <1>8, <1>9 DEF RemoteInv

\* What replaces a repository is main, or nothing: nobody who has been set up is concerned.
LEMMA Replaced ==
  ASSUME MaxFiles \in Nat, RemoteInv, NEW m \in Machine, mPc[m] = "clone", RemoteTypes',
         local' = [local EXCEPT ![m] = local'[m]], files' = [files EXCEPT ![m] = {}],
         UNCHANGED <<flows, mMain, mNext, done, held, raced>>,
         \A n \in Machine \ {m} : mPc'[n] = mPc[n] /\ adopted'[n] = adopted[n],
         \/ local'[m] = mMain /\ mPc'[m] = "commit"
         \/ local'[m] = {} /\ mPc'[m] = "idle"
  PROVE  RemoteInv'
<1>1. \A n \in Machine : /\ n # m => local'[n] = local[n] /\ files'[n] = files[n]
                         /\ files'[n] \subseteq files[n]
  BY DEF RemoteInv, RemoteTypes
<1>2. m \notin done /\ mMain # {} /\ (~raced => local[m] \intersect held = {})
  BY DEF RemoteInv, Underway
<1>3. Apart'
  BY <1>1 DEF RemoteInv, RemoteTypes, Apart
<1>4. AllRooted'
  BY <1>1 DEF RemoteInv, AllRooted, Rooted
<1>5. Underway'
  BY <1>1, <1>2 DEF RemoteInv, Underway, Grown
<1>6. OneHistory'
  <2>1. PICK r \in mMain : \A n \in Machine : Owner(n) => r \in local[n]
    BY <1>2 DEF RemoteInv, OneHistory
  <2>2. \A n \in Machine : Owner(n)' => r \in local'[n]
    BY <1>1, <1>2, <2>1 DEF Owner
  <2> QED
    BY <2>1, <2>2 DEF OneHistory
<1>7. Remote!CommittedStays'
  BY <1>1, <1>2 DEF RemoteInv, Remote!CommittedStays
<1> QED
  BY <1>3, <1>4, <1>5, <1>6, <1>7 DEF RemoteInv

\* Everything is committed, with the workflows.
LEMMA CommitAllKeeps ==
  ASSUME MaxFiles \in Nat, RemoteInv, NEW m \in Machine, Remote!CommitAll(m) PROVE RemoteInv'
<1> DEFINE new == local[m] \intersect flows = {}
           added == IF new THEN {mNext} ELSE {}
<1>1. /\ mPc[m] = "commit" /\ local' = [local EXCEPT ![m] = local[m] \union files[m] \union added]
      /\ files' = [files EXCEPT ![m] = {}] /\ flows' = flows \union added /\ held' = held \union files[m]
      /\ new => mNext \in Remote!Commit /\ mNext' = mNext + 1
      /\ ~new => mNext' = mNext
      /\ UNCHANGED <<mMain, adopted, raced>>
      /\ \/ /\ adopted[m] /\ ~new /\ files[m] = {}
            /\ mPc' = [mPc EXCEPT ![m] = "idle"] /\ done' = done \union {m}
         \/ mPc' = [mPc EXCEPT ![m] = "push"] /\ done' = done
  BY DEF Remote!CommitAll, Remote!New, Remote!Set, Remote!Goto, Remote!Commit, Remote!github,
         RemoteInv, RemoteTypes
<1>2. /\ local[m] # {} /\ local'[m] = local[m] \union files[m] \union added
      /\ \A n \in Machine : /\ n # m => local'[n] = local[n] /\ files'[n] = files[n] /\ mPc'[n] = mPc[n]
                            /\ local[n] \subseteq local'[n]
      /\ files'[m] = {} /\ mPc'[m] # "clone"
  BY <1>1 DEF RemoteInv, RemoteTypes, Underway
<1>3. RemoteTypes'
  BY <1>1 DEF RemoteInv, RemoteTypes, Remote!Commit
<1>4. mNext \in Nat /\ mNext' \in Nat /\ mNext <= mNext' /\ (new => mNext < mNext')
  BY <1>1 DEF RemoteInv, RemoteTypes, Remote!Commit
<1>5. \A n \in Machine : mNext \notin local[n] /\ mNext \notin files[n] /\ mNext \notin mMain /\ mNext \notin held
  BY <1>4 DEF RemoteInv, Apart
<1>6. Apart'
  <2>1. \A c \in mMain \union held' \union flows' : c \in Remote!Commit /\ c < mNext'
    BY <1>1, <1>4 DEF RemoteInv, RemoteTypes, Apart, Remote!Commit
  <2>2. \A n \in Machine : \A c \in local'[n] \union files'[n] : c < mNext'
    <3> TAKE n \in Machine
    <3>1. \A c \in local[n] \union files[n] \union files[m] : c \in Nat /\ c < mNext
      BY <1>4 DEF RemoteInv, RemoteTypes, Apart, Remote!Commit
    <3> QED
      BY <1>2, <1>4, <3>1
  <2>3. \A n, k \in Machine : files'[n] \intersect local'[k] = {} /\ (n # k => files'[n] \intersect files'[k] = {})
    BY <1>2, <1>5 DEF RemoteInv, Apart
  <2>4. \A n \in Machine : files'[n] \intersect mMain = {} /\ files'[n] \intersect held' = {}
    BY <1>1, <1>2 DEF RemoteInv, Apart
  <2> QED
    BY <1>1, <2>1, <2>2, <2>3, <2>4 DEF Apart
<1>7. ASSUME NEW r, r \notin held, r \notin flows, r # mNext, r \notin files[m]
      PROVE r \notin held' /\ r \notin flows'
  BY <1>1, <1>7
<1>8. AllRooted'
  BY <1>1, <1>2, <1>5, <1>7 DEF RemoteInv, AllRooted, Rooted, Apart
<1>9. Grown(local'[m])
  <2>1. PICK r \in local[m] : r \notin flows
    BY <1>2 DEF RemoteInv, AllRooted, Rooted
  <2>2. PICK f \in local'[m] : f # r
    BY <1>2, <1>5, <2>1
  <2> QED
    BY <1>2, <2>1, <2>2 DEF Grown
<1>10. Underway'
  BY <1>1, <1>2, <1>9 DEF RemoteInv, RemoteTypes, Underway, Apart, Grown
<1>11. ASSUME NEW n \in Machine, Owner(n)' PROVE Owner(n)
  <2>1. /\ adopted' = adopted /\ mPc[m] = "commit" /\ done' \in {done, done \union {m}}
        /\ m \in done' => m \in done \/ adopted[m]
    BY <1>1
  <2>2. CASE n = m
    BY <1>11, <2>1, <2>2 DEF Owner
  <2>3. CASE n # m
    BY <1>2, <1>11, <2>1, <2>3 DEF Owner
  <2> QED
    BY <2>2, <2>3
<1>12. OneHistory'
  BY <1>1, <1>2, <1>11 DEF RemoteInv, OneHistory
<1>13. Remote!CommittedStays'
  BY <1>1, <1>2 DEF RemoteInv, Remote!CommittedStays
<1>14. done' \subseteq Machine
  BY <1>1 DEF RemoteInv
<1> QED
  BY <1>3, <1>6, <1>8, <1>10, <1>12, <1>13, <1>14 DEF RemoteInv

\* GitHub takes a history that has its own.
LEMMA PushesMain ==
  ASSUME RemoteInv, NEW m \in Machine, mPc[m] = "push", mMain \subseteq local[m], mMain' = local[m],
         mPc' = [mPc EXCEPT ![m] = "idle"], done' = done \union {m},
         UNCHANGED <<local, files, flows, adopted, mNext, held, raced>>
  PROVE  RemoteInv'
<1>1. local[m] # {} /\ Grown(local[m])
  BY DEF RemoteInv, Underway
<1>2. mPc'[m] = "idle" /\ \A n \in Machine : n # m => mPc'[n] = mPc[n]
  BY DEF RemoteInv, RemoteTypes
<1>3. RemoteTypes'
  BY DEF RemoteInv, RemoteTypes
<1>4. Apart'
  BY DEF RemoteInv, RemoteTypes, Apart
<1>5. AllRooted'
  BY DEF RemoteInv, AllRooted, Rooted
<1>6. Underway'
  BY <1>1, <1>2 DEF RemoteInv, Underway, Grown
<1>7. OneHistory'
  <2>1. \A n \in Machine : Owner(n)' => Owner(n) \/ n = m
    BY <1>2 DEF Owner
  <2>2. CASE mMain = {}
    <3>1. \A n \in Machine : ~Owner(n)
      BY <2>2 DEF RemoteInv, OneHistory
    <3> QED
      BY <1>1, <2>1, <3>1 DEF OneHistory
  <2>3. CASE mMain # {}
    <3>1. PICK r \in mMain : \A n \in Machine : Owner(n) => r \in local[n]
      BY <2>3 DEF RemoteInv, OneHistory
    <3> QED
      BY <2>1, <3>1 DEF OneHistory
  <2> QED
    BY <2>2, <2>3
<1>8. Remote!CommittedStays'
  BY DEF RemoteInv, Remote!CommittedStays
<1> QED
  BY <1>3, <1>4, <1>5, <1>6, <1>7, <1>8 DEF RemoteInv

\* Every step of a machine keeps the invariant.
LEMMA RemoteStep ==
  ASSUME MaxFiles \in Nat, RemoteInv, NEW m \in Machine,
         \/ (\E call \in {"auth", "view", "create"} : Remote!GhFails(m, call))
         \/ Remote!SetUp(m) \/ Remote!Auth(m) \/ Remote!View(m) \/ Remote!Create(m) \/ Remote!Fresh(m)
         \/ Remote!Clone(m) \/ Remote!Push(m) \/ Remote!Die(m)
  PROVE  RemoteInv'
<1> USE DEF Remote!Goto, Remote!Set, Remote!github, Remote!program
<1>1. ASSUME NEW call \in {"auth", "view", "create"}, Remote!GhFails(m, call) PROVE RemoteInv'
  <2>1. /\ mPc' = mPc \/ mPc' = [mPc EXCEPT ![m] = "idle"]
        /\ UNCHANGED <<local, files, flows, mMain, adopted, mNext, done, held, raced>>
        /\ mPc[m] \in {"auth", "view", "create"}
    BY <1>1 DEF Remote!GhFails
  <2>2. RemoteTypes'
    BY <2>1 DEF RemoteInv, RemoteTypes
  <2> QED
    BY <2>1, <2>2, ProgramMoves DEF RemoteInv, RemoteTypes, Underway, Owner
<1>2. CASE Remote!SetUp(m)
  <2>1. RemoteTypes'
    BY <1>2 DEF Remote!SetUp, RemoteInv, RemoteTypes
  <2>2. m \in done \/ ~Owner(m)'
    BY <1>2, <2>1 DEF Remote!SetUp, RemoteInv, RemoteTypes, Owner
  <2> QED
    BY <1>2, <2>1, <2>2, ProgramMoves DEF Remote!SetUp, RemoteInv, RemoteTypes, Owner
<1>3. CASE Remote!Auth(m) \/ Remote!View(m) \/ Remote!Create(m)
  <2>1. /\ \E step \in {"idle", "view", "create", "fresh"} : mPc' = [mPc EXCEPT ![m] = step]
        /\ UNCHANGED <<local, files, flows, mMain, adopted, mNext, done, held, raced>>
        /\ mPc[m] \in {"auth", "view", "create"}
    BY <1>3 DEF Remote!Auth, Remote!View, Remote!Create
  <2>2. RemoteTypes'
    BY <2>1 DEF RemoteInv, RemoteTypes
  <2> QED
    BY <2>1, <2>2, ProgramMoves DEF RemoteInv, RemoteTypes, Underway, Owner
<1>4. CASE Remote!Fresh(m)
  <2>1. /\ mPc[m] = "fresh"
        /\ \/ mPc' = [mPc EXCEPT ![m] = "commit"]
           \/ mPc' = [mPc EXCEPT ![m] = "clone"] /\ Remote!Bootstrapped(m) /\ mMain # {}
        /\ UNCHANGED <<local, files, flows, mMain, adopted, mNext, done, held, raced>>
    BY <1>4 DEF Remote!Fresh
  <2>2. RemoteTypes'
    BY <2>1 DEF RemoteInv, RemoteTypes
  <2>3. ~adopted[m] /\ local[m] # {}
    BY <2>1 DEF RemoteInv, Underway
  <2>4. mPc'[m] = "clone" => m \notin done /\ mMain # {} /\ local[m] \intersect held = {}
    BY <2>1, FreshHoldsNothing DEF RemoteInv, RemoteTypes
  <2>5. mPc'[m] # "push" /\ (\A n \in Machine \ {m} : mPc'[n] = mPc[n]) /\ (Owner(m)' => Owner(m))
    BY <2>1, <2>3 DEF RemoteInv, RemoteTypes, Owner
  <2> QED
    BY <2>1, <2>2, <2>3, <2>4, <2>5, ProgramMoves
<1>5. CASE Remote!Clone(m)
  <2> mMain \subseteq Remote!Commit /\ local \in [Machine -> SUBSET Remote!Commit]
    BY DEF RemoteInv, RemoteTypes, Apart
  <2>3. RemoteTypes'
    BY <1>5 DEF Remote!Clone, RemoteInv, RemoteTypes
  <2>1. PICK tree \in {mMain, {}} :
          /\ local' = [local EXCEPT ![m] = tree]
          /\ mPc' = [mPc EXCEPT ![m] = IF tree = mMain /\ mPc'[m] = "commit" THEN "commit" ELSE "idle"]
          /\ adopted' = [adopted EXCEPT ![m] = adopted'[m]]
          /\ (tree = mMain /\ mPc'[m] = "commit") \/ (tree = {} /\ mPc'[m] = "idle")
    BY <1>5 DEF Remote!Clone, RemoteInv, RemoteTypes
  <2>2. local'[m] = tree /\ \A n \in Machine \ {m} : mPc'[n] = mPc[n] /\ adopted'[n] = adopted[n]
    BY <2>1 DEF RemoteInv, RemoteTypes
  <2> QED
    BY <1>5, <2>1, <2>2, <2>3, Replaced DEF Remote!Clone
<1>6. CASE Remote!Push(m)
  <2>1. CASE UNCHANGED <<mMain, done>>
    <3>1. /\ mPc' = [mPc EXCEPT ![m] = "idle"]
          /\ UNCHANGED <<local, files, flows, mMain, adopted, mNext, done, held, raced>>
      BY <1>6, <2>1 DEF Remote!Push
    <3>2. RemoteTypes'
      BY <3>1 DEF RemoteInv, RemoteTypes
    <3> QED
      BY <3>1, <3>2, ProgramMoves DEF RemoteInv, RemoteTypes, Owner
  <2>2. CASE mMain \subseteq local[m] /\ mMain' = local[m] /\ done' = done \union {m}
    BY <1>6, <2>2, PushesMain DEF Remote!Push
  <2> QED
    BY <1>6, <2>1, <2>2 DEF Remote!Push
<1>7. CASE Remote!Die(m)
  <2>1. /\ mPc[m] # "idle" /\ mPc' = [mPc EXCEPT ![m] = "idle"]
        /\ UNCHANGED <<flows, mMain, adopted, mNext, done, held, raced>>
    BY <1>7 DEF Remote!Die
  <2>2. CASE UNCHANGED <<local, files>>
    <3>1. RemoteTypes'
      BY <2>1, <2>2 DEF RemoteInv, RemoteTypes
    <3> QED
      BY <2>1, <2>2, <3>1, ProgramMoves DEF RemoteInv, RemoteTypes, Owner
  <2>3. CASE mPc[m] = "clone" /\ local' = [local EXCEPT ![m] = {}] /\ files' = [files EXCEPT ![m] = {}]
    <3>1. RemoteTypes' /\ local'[m] = {} /\ mPc'[m] = "idle"
      BY <2>1, <2>3 DEF RemoteInv, RemoteTypes
    <3> QED
      BY <2>1, <2>3, <3>1, Replaced DEF RemoteInv, RemoteTypes
  <2> QED
    BY <1>7, <2>2, <2>3 DEF Remote!Die
<1> QED
  BY <1>1, <1>2, <1>3, <1>4, <1>5, <1>6, <1>7

\* No committed fact is lost by setups, however many machines there are and wherever programs
\* fail or die, short of a save between a look and a replacement; and machines that have been
\* set up share a history.
THEOREM SetUpKeeps ==
  MaxFiles \in Nat => (Remote!Spec => [](Remote!CommittedStays /\ Remote!SetUpTogether))
<1> SUFFICES ASSUME MaxFiles \in Nat
             PROVE  Remote!Spec => [](Remote!CommittedStays /\ Remote!SetUpTogether)
  OBVIOUS
<1>1. Remote!Init => RemoteInv
  <2> SUFFICES ASSUME Remote!Init PROVE RemoteInv
    OBVIOUS
  <2>1. RemoteTypes
    <3>1. local \in [Machine -> SUBSET Remote!Commit] /\ files \in [Machine -> SUBSET Remote!Commit]
      BY DEF Remote!Init
    <3>2. adopted \in [Machine -> BOOLEAN] /\ raced \in BOOLEAN
      BY DEF Remote!Init
    <3>3. mNext \in 1 .. MaxFiles + 1
      BY DEF Remote!Init
    <3>4. mPc \in [Machine -> {"idle", "auth", "view", "create", "remote", "fresh", "clone", "commit", "push"}]
      BY DEF Remote!Init
    <3> QED
      BY <3>1, <3>2, <3>3, <3>4 DEF RemoteTypes
  <2>3. Apart
    BY DEF Remote!Init, Apart
  <2>2. AllRooted /\ Underway /\ OneHistory
    BY DEF Remote!Init, AllRooted, Rooted, Underway, OneHistory, Owner
  <2> QED
    BY <2>1, <2>2, <2>3 DEF Remote!Init, RemoteInv, Remote!CommittedStays
<1>2. RemoteInv /\ [Remote!Next]_(Remote!vars) => RemoteInv'
  <2> SUFFICES ASSUME RemoteInv, [Remote!Next]_(Remote!vars) PROVE RemoteInv'
    OBVIOUS
  <2>1. CASE UNCHANGED Remote!vars
    BY <2>1 DEF Remote!vars, Remote!github, Remote!program, RemoteInv, RemoteTypes, Apart,
       AllRooted, Rooted, Underway,
                Grown, OneHistory, Owner, Remote!CommittedStays
  <2>2. ASSUME NEW m \in Machine, Remote!InitProject(m) \/ Remote!Save(m) \/ Remote!CommitAll(m)
        PROVE RemoteInv'
    BY <2>2, InitKeeps, SaveOnKeeps, CommitAllKeeps
  <2> QED
    BY <2>1, <2>2, RemoteStep DEF Remote!Next
<1>3. RemoteInv => Remote!CommittedStays /\ Remote!SetUpTogether
  BY DEF RemoteInv, OneHistory, Owner, Remote!SetUpTogether
<1> QED
  BY <1>1, <1>2, <1>3, PTL DEF Remote!Spec

-----------------------------------------------------------------------------
(* Proposals and their review (ProposalReview).                             *)

CONSTANTS Fact, Version, Rotation, Registered
VARIABLES vMain, pull, packet, settings, stage, plan, failed, result, merit

Review == INSTANCE ProposalReview WITH
  main <- vMain

\* The operators that ProposalReview takes from the library are the library's.
LEMMA ReviewLibrary == (\A S : Review!Cardinality(S) = Cardinality(S)) /\ (\A s : Review!ToSet(s) = ToSet(s))
  BY DEF Review!Cardinality, Cardinality, Review!IsFiniteSet, IsFiniteSet, Review!ToSet, ToSet

IsList(s) == \E S : s \in Seq(S)

\* What follows the first of a list is a list, and has the rest.
LEMMA FirstAndRest ==
  ASSUME NEW s, IsList(s), s # <<>>
  PROVE  IsList(Tail(s)) /\ ToSet(s) = {Head(s)} \union ToSet(Tail(s))
<1> PICK S : s \in Seq(S)
  BY DEF IsList
<1>1. /\ Len(s) \in Nat /\ Len(s) >= 1 /\ Head(s) = s[1] /\ DOMAIN s = 1 .. Len(s)
      /\ Tail(s) \in Seq(S) /\ Len(Tail(s)) = Len(s) - 1 /\ \A i \in 1 .. Len(s) - 1 : Tail(s)[i] = s[i + 1]
  BY HeadTailProperties, LenProperties, EmptySeq
<1>2. DOMAIN Tail(s) = 1 .. Len(s) - 1
  BY <1>1, LenProperties
<1>3. ASSUME NEW i \in DOMAIN s PROVE s[i] \in {Head(s)} \union ToSet(Tail(s))
  <2>1. CASE i = 1
    BY <1>1, <2>1
  <2>2. CASE i # 1
    <3>1. i - 1 \in DOMAIN Tail(s) /\ Tail(s)[i - 1] = s[i]
      BY <1>1, <1>2, <2>2
    <3> QED
      BY <3>1 DEF ToSet
  <2> QED
    BY <2>1, <2>2
<1>4. ASSUME NEW i \in DOMAIN Tail(s) PROVE Tail(s)[i] \in ToSet(s)
  <2>1. i + 1 \in DOMAIN s /\ Tail(s)[i] = s[i + 1]
    BY <1>1, <1>2
  <2> QED
    BY <2>1 DEF ToSet
<1>5. Head(s) \in ToSet(s)
  BY <1>1 DEF ToSet
<1>6. IsList(Tail(s))
  BY <1>1 DEF IsList
<1> QED
  BY <1>3, <1>4, <1>5, <1>6 DEF ToSet

\* Lists one after the other are a list.
LEMMA ListsAreLists == ASSUME NEW s, NEW t, IsList(s), IsList(t) PROVE IsList(s \o t)
<1>1. PICK S : s \in Seq(S)
  BY DEF IsList
<1>2. PICK T : t \in Seq(T)
  BY DEF IsList
<1>3. s \in Seq(S \union T) /\ t \in Seq(S \union T)
  BY <1>1, <1>2, SeqMonotonic
<1>4. s \o t \in Seq(S \union T)
  BY <1>3, ConcatProperties
<1> QED
  BY <1>4 DEF IsList

\* What a list keeps is a list.
LEMMA OnlyIsList == ASSUME NEW s, IsList(s), NEW S PROVE IsList(Review!Only(s, S))
<1> DEFINE at == {i \in DOMAIN s : s[i] \in S}
           kept == Review!Only(s, S)
<1>1. PICK Q : s \in Seq(Q)
  BY DEF IsList
<1>2. Len(s) \in Nat /\ DOMAIN s = 1 .. Len(s)
  BY <1>1, LenProperties
<1>3. IsFiniteSet(1 .. Len(s))
  BY <1>2, FS_Interval
<1>4. IsFiniteSet(at)
  BY <1>2, <1>3, FS_Subset
<1>5. Cardinality(at) \in Nat
  BY <1>4, FS_CardinalityType
<1>6. kept = [k \in 1 .. Cardinality(at) |-> kept[k]]
  BY ReviewLibrary DEF Review!Only
<1> HIDE DEF kept
<1>7. kept \in [1 .. Cardinality(at) -> {kept[k] : k \in 1 .. Cardinality(at)}]
  BY <1>6
<1>8. kept \in Seq({kept[k] : k \in 1 .. Cardinality(at)})
  BY <1>5, <1>7, SeqDef
<1> QED
  BY <1>8 DEF IsList, kept

\* One provider, or none, is a list.
LEMMA FewAreLists == IsList(<<>>) /\ \A p : IsList(<<p>>)
<1>1. <<>> \in Seq({}) /\ \A p : <<p>> \in Seq({p})
  OBVIOUS
<1> QED
  BY <1>1 DEF IsList

\* The plan of a review is a list, and begins with the provider that must decide, if there is one.
LEMMA PlanIsList ==
  ASSUME IsList(Rotation), NEW s
  PROVE  /\ \A known : IsList(Review!Plan(s, known))
         /\ IsList(Review!ReviewPlan(s))
         /\ Review!Required(s) # Review!None => Review!ReviewPlan(s) # <<>> /\ Head(Review!ReviewPlan(s)) = Review!Required(s)
<1>1. ASSUME NEW known PROVE IsList(Review!Plan(s, known))
  BY FewAreLists, ListsAreLists, OnlyIsList DEF Review!Plan
<1>2. ASSUME NEW p, NEW t, IsList(t)
      PROVE IsList(<<p>> \o t) /\ <<p>> \o t # <<>> /\ Head(<<p>> \o t) = p
  <2>1. PICK T : t \in Seq(T)
    BY <1>2 DEF IsList
  <2>2. <<p>> \in Seq(T \union {p}) /\ t \in Seq(T \union {p}) /\ Len(<<p>>) = 1 /\ <<p>>[1] = p
    BY <2>1, SeqMonotonic
  <2>3. /\ <<p>> \o t \in Seq(T \union {p}) /\ Len(<<p>> \o t) = 1 + Len(t) /\ Len(t) \in Nat
        /\ (<<p>> \o t)[1] = p
    BY <2>2, ConcatProperties, LenProperties
  <2>4. <<p>> \o t # <<>>
    BY <2>3, EmptySeq
  <2> QED
    BY <2>3, <2>4, HeadTailProperties DEF IsList
<1> DEFINE others == Review!Plan(s, Review!Reviewers)
<1>3. IsList(others) /\ \A S : IsList(Review!Only(others, S))
  BY <1>1, OnlyIsList
<1> HIDE DEF others
<1> QED
  BY <1>1, <1>2, <1>3 DEF Review!ReviewPlan, others

-----------------------------------------------------------------------------
\* Whom the builder wants people to look at, the review sees by other means.
Noticed ==
  pull.labels.human =>
    \/ pull.other \/ pull.tombs \/ Review!Changed \union Review!Gone = {}
    \/ \E f \in Review!Changed : pull.branch[f].user

Fair == merit.safe /\ ~merit.people

\* The review is on: its packet is that of a harmless change if the rules would approve, and
\* whoever was in its plan is asked or has failed.
UnderReview ==
  /\ settings.job = "review"
  /\ failed \union ToSet(plan) = ToSet(Review!ReviewPlan(settings))
  /\ Review!Required(settings) # Review!None => plan = Review!ReviewPlan(settings)

ReviewInv ==
  /\ IsList(plan)
  /\ stage \in {"proposal", "changed"} => packet = Review!NoPacket /\ failed = {}
  /\ stage = "changed" => Noticed
  /\ stage # "settled" => result = Review!NoResult
  /\ stage = "asking" /\ packet # Review!NoPacket => UnderReview
  /\ stage = "asking" /\ settings.job = "review" /\ Review!ByRules(packet) = "approve" => Fair
  /\ Review!RulesApproveOnlySafe /\ Review!PeopleAreAsked /\ Review!NamedReviewerDecides

\* What the rules approve is harmless, and nobody wanted people to look at it.
LEMMA ApprovedIsSafe ==
  ASSUME Review!Changed \union Review!Gone # {}, Review!ByRules(Review!Packet) = "approve", Noticed,
         ~pull.other
  PROVE  Review!Safe /\ ~pull.labels.human
<1> DEFINE told == IF Review!Changed # {} THEN Review!Classified(pull.branch, Review!Changed)
                   ELSE Review!Classified(vMain, Review!Gone)
<1>1. ~Review!Packet.invalid /\ ~Review!Escalates(Review!Packet)
  BY DEF Review!ByRules
<1>2. /\ Review!Packet.invalid <=> \E f \in Review!Changed : ~pull.branch[f].valid
      /\ Review!Packet.conflict <=> \E f \in Review!Changed : pull.branch[f].conflict
      /\ Review!Packet.labels = IF Review!Destructive THEN [told EXCEPT !.types = @ \union {"deletion"}] ELSE told
  BY DEF Review!Packet
<1>3. /\ ~Review!Packet.labels.global /\ ~Review!Packet.conflict
      /\ "principle" \notin Review!Packet.labels.types /\ "deletion" \notin Review!Packet.labels.types
  BY <1>1 DEF Review!Escalates
<1>4. told.types = told.types /\ DOMAIN told = {"types", "confidence", "global", "human"}
  BY DEF Review!Classified
<1>5. ~Review!Destructive
  BY <1>2, <1>3, <1>4
<1>6. Review!Gone = {} /\ ~pull.tombs /\ Review!Changed # {}
  BY <1>5 DEF Review!Destructive
<1>7. /\ Review!Packet.labels.global <=> \E f \in Review!Changed : pull.branch[f].user
      /\ Review!Packet.labels.types = Review!Types({pull.branch[f] : f \in Review!Changed})
  BY <1>2, <1>5, <1>6 DEF Review!Classified, Review!Contents
<1>8. \A f \in Review!Changed : ~pull.branch[f].principle
  BY <1>3, <1>7 DEF Review!Types
<1>9. \A f \in Review!Changed : Review!Harmless(pull.branch[f])
  BY <1>1, <1>2, <1>3, <1>7, <1>8 DEF Review!Harmless
<1>10. \A f \in Review!Facts(pull.branch) : pull.branch[f] = vMain[f] \/ Review!Harmless(pull.branch[f])
  BY <1>9 DEF Review!Changed
<1>11. ASSUME NEW f \in Review!Facts(vMain)
       PROVE  f \in Review!Facts(pull.branch) /\ Review!Kept(vMain[f], pull.branch[f])
  <2>1. f \in Review!Facts(pull.branch)
    BY <1>6, <1>11 DEF Review!Gone
  <2>2. CASE pull.branch[f] = vMain[f]
    BY <2>1, <2>2 DEF Review!Kept
  <2>3. CASE pull.branch[f] # vMain[f]
    <3>1. f \in Review!Changed \intersect Review!Facts(vMain)
      BY <1>11, <2>1, <2>3 DEF Review!Changed
    <3>2. ~Review!RewritesStrong(vMain[f], pull.branch[f]) /\ ~Review!RetiresStrong(vMain[f], pull.branch[f])
      BY <1>5, <3>1 DEF Review!Destructive
    <3> QED
      BY <2>1, <3>2 DEF Review!Kept, Review!RewritesStrong, Review!RetiresStrong
  <2> QED
    BY <2>2, <2>3
<1>12. ~pull.labels.human
  BY <1>3, <1>6, <1>7 DEF Noticed
<1> QED
  BY <1>10, <1>11, <1>12 DEF Review!Safe

\* A proposal is made: what people are to look at is outside the facts, removes facts, or is the
\* user's.
LEMMA ProposalIsNoticed ==
  ASSUME ReviewInv,
         \/ Review!Dream \/ Review!Lint \/ Review!Rederive \/ Review!Promote
         \/ Review!Forget \/ Review!RollBack
  PROVE  ReviewInv'
<1>1. ASSUME NEW labels, NEW branch, NEW tombs, NEW other, Review!Open(labels, branch, tombs,
             other),
             labels.human => \/ other \/ tombs
                             \/ {f \in Review!Facts(branch) : branch[f] # vMain[f]} \union
                                (Review!Facts(vMain) \ Review!Facts(branch)) = {}
                             \/ \E f \in Review!Facts(branch) : branch[f] # vMain[f] /\ branch[f].user
      PROVE  ReviewInv'
  <2>1. /\ stage' = "changed" /\ pull'.labels = labels /\ pull'.branch = branch /\ pull'.tombs = tombs
        /\ pull'.other = other /\ packet = Review!NoPacket /\ failed = {} /\ result = Review!NoResult
        /\ UNCHANGED <<vMain, packet, settings, plan, failed, result, merit>>
    BY <1>1 DEF Review!Open, ReviewInv
  <2>2. Noticed'
    BY <1>1, <2>1 DEF Noticed, Review!Changed, Review!Gone, Review!Facts
  <2> QED
    BY <2>1, <2>2 DEF ReviewInv, Review!RulesApproveOnlySafe, Review!PeopleAreAsked,
       Review!NamedReviewerDecides,
                      Review!NoResult, Review!None
<1>2. CASE Review!Dream
  <2>1. PICK branch \in Review!Tree :
          Review!Open(Review!Classified(branch, {f \in Review!Facts(branch) : branch[f] # vMain[f]}), branch, FALSE, FALSE)
    BY <1>2 DEF Review!Dream
  <2>2. ~Review!Classified(branch, {f \in Review!Facts(branch) : branch[f] # vMain[f]}).human
    BY DEF Review!Classified
  <2> QED
    BY <1>1, <2>1, <2>2
<1>3. CASE Review!Lint
  BY <1>1, <1>3 DEF Review!Lint
<1>4. CASE Review!Rederive
  <2>1. PICK gone \in SUBSET Review!Facts(vMain), fresh \in Review!Derived :
          LET branch == Review!Corrected(gone, fresh)
              added == Review!Facts(branch) \ Review!Facts(vMain)
              plain == Review!Classified(branch, added)
              lost == Review!Classified(vMain, gone)
          IN Review!Open(IF gone = {} THEN plain
                         ELSE [types |-> {"deletion"} \union IF added = {} THEN {} ELSE plain.types,
                               confidence |-> IF added = {} THEN lost.confidence ELSE plain.confidence,
                               global |-> plain.global \/ lost.global, human |-> FALSE],
                         branch, gone # {}, FALSE)
    BY <1>4 DEF Review!Rederive
  <2>2. \A tree, chosen : Review!Classified(tree, chosen).human = FALSE
    BY DEF Review!Classified
  <2>3. CASE gone = {}
    <3>1. PICK labels, branch, tombs : Review!Open(labels, branch, tombs, FALSE) /\ ~labels.human
      BY <2>1, <2>2, <2>3
    <3> QED
      BY <1>1, <3>1
  <2>4. CASE gone # {}
    <3>1. PICK types, confidence, global, branch, tombs :
            Review!Open([types |-> types, confidence |-> confidence, global |-> global, human |-> FALSE],
                        branch, tombs, FALSE)
      BY <2>1, <2>4, ZenonT(30)
    <3> QED
      BY <1>1, <3>1
  <2> QED
    BY <2>3, <2>4
<1>5. CASE Review!Promote
  <2>1. PICK f \in Fact \ Review!Facts(vMain), v \in {w \in Version : w.user} :
          Review!Open([types |-> {"promotion"}, confidence |-> "confidence:medium", global |-> TRUE, human |-> TRUE],
                      [vMain EXCEPT ![f] = v], FALSE, FALSE)
    BY <1>5 DEF Review!Promote
  <2> DEFINE branch == [vMain EXCEPT ![f] = v]
  <2>2. \/ {g \in Review!Facts(branch) : branch[g] # vMain[g]} \union (Review!Facts(vMain) \ Review!Facts(branch)) = {}
        \/ \E g \in Review!Facts(branch) : branch[g] # vMain[g] /\ branch[g].user
    BY DEF Review!Facts
  <2> QED
    BY <1>1, <2>1, <2>2
<1>6. CASE Review!Forget
  <2>1. PICK labels, branch : Review!Open(labels, branch, TRUE, FALSE)
    BY <1>6 DEF Review!Forget
  <2> QED
    BY <1>1, <2>1
<1>7. CASE Review!RollBack
  <2>1. PICK labels, branch : Review!Open(labels, branch, TRUE, FALSE)
    BY <1>7 DEF Review!RollBack
  <2> QED
    BY <1>1, <2>1
<1> QED
  BY <1>2, <1>3, <1>4, <1>5, <1>6, <1>7

\* The review looks at the change.
LEMMA LookIsFair == ASSUME IsList(Rotation), ReviewInv, Review!Look PROVE ReviewInv'
<1> USE DEF Review!NoResult, Review!None
<1>1. /\ stage = "changed" /\ packet = Review!NoPacket /\ failed = {} /\ result = Review!NoResult /\ Noticed
      /\ failed' = failed /\ settings'.job = "review" /\ merit' = [safe |-> Review!Safe, people |-> pull.labels.human]
  BY DEF Review!Look, ReviewInv
<1>2. CASE stage' = "settled" /\ packet' = packet /\ plan' = plan /\ result'.action # "approve"
  BY <1>1, <1>2 DEF ReviewInv, Review!RulesApproveOnlySafe, Review!PeopleAreAsked,
     Review!NamedReviewerDecides
<1>3. CASE /\ ~pull.other /\ Review!Changed \union Review!Gone # {}
           /\ stage' = "asking" /\ packet' = Review!Packet /\ plan' = Review!ReviewPlan(settings') /\ UNCHANGED result
  <2>1. IsList(plan')
    BY <1>3, PlanIsList
  <2>2. UnderReview'
    BY <1>1, <1>3 DEF UnderReview
  <2>3. Review!ByRules(packet') = "approve" => Fair'
    BY <1>1, <1>3, ApprovedIsSafe DEF Fair
  <2>4. stage' = "asking" /\ result' = Review!NoResult
    BY <1>1, <1>3
  <2>5. (Review!ByRules(packet) = "approve")' => Fair'
    BY <2>3 DEF Review!ByRules, Review!Escalates
  <2> QED
    BY <2>1, <2>2, <2>4, <2>5 DEF ReviewInv, Review!RulesApproveOnlySafe, Review!PeopleAreAsked,
       Review!NamedReviewerDecides
<1> QED
  BY <1>2, <1>3 DEF Review!Look, Review!Settle, Review!Payload

\* An answer is that of a provider, the one who must decide if there is one.
LEMMA AnswersAreNamed ==
  ASSUME IsList(Rotation), Registered \subseteq Review!Provider, ReviewInv, Review!Answer
  PROVE ReviewInv'
<1> USE DEF Review!NoResult, Review!None
<1>1. /\ stage = "asking" /\ stage' = "settled" /\ result'.by = Head(plan) /\ plan # <<>>
      /\ UNCHANGED <<packet, settings, plan, failed, merit>>
  BY DEF Review!Answer, Review!Settle, Review!Payload, Review!change
<1>2. Head(plan) \in Review!Provider
  BY DEF Review!Answer, Review!CanAsk, Review!Known, Review!Provider, Review!Reviewers
<1>3. Head(plan) # "rules"
  BY <1>2 DEF Review!Provider
<1>4. packet # Review!NoPacket /\ Review!Required(settings) # Review!None => Head(plan) = Review!Required(settings)
  BY <1>1, PlanIsList DEF ReviewInv, UnderReview
<1>5. Review!NamedReviewerDecides'
  BY <1>1, <1>3, <1>4 DEF Review!NamedReviewerDecides, Review!Required
<1> QED
  BY <1>1, <1>3, <1>5 DEF ReviewInv, Review!RulesApproveOnlySafe, Review!PeopleAreAsked

\* A provider does not answer: the next is asked, or the command ends.
LEMMA FailuresAreCounted ==
  ASSUME IsList(Rotation), ReviewInv, Review!NoAnswer PROVE ReviewInv'
<1> USE DEF Review!NoResult, Review!None
<1>1. /\ stage = "asking" /\ plan # <<>> /\ result = Review!NoResult
      /\ failed' = failed \union {Head(plan)} /\ plan' = Tail(plan)
      /\ UNCHANGED <<packet, settings, merit>>
      /\ \/ stage' = "settled" /\ result' = [action |-> "error", by |-> "none"]
         \/ ~Review!Must(Head(plan)) /\ UNCHANGED <<stage, result>>
  BY DEF Review!NoAnswer, Review!Settle, Review!Payload, Review!change, ReviewInv
<1>2. IsList(plan') /\ failed' \union ToSet(plan') = failed \union ToSet(plan)
  BY <1>1, FirstAndRest DEF ReviewInv
<1>3. CASE stage' = "settled" /\ result' = [action |-> "error", by |-> "none"]
  BY <1>2, <1>3 DEF ReviewInv, Review!RulesApproveOnlySafe, Review!PeopleAreAsked,
     Review!NamedReviewerDecides
<1>4. CASE ~Review!Must(Head(plan)) /\ UNCHANGED <<stage, result>>
  <2>1. packet # Review!NoPacket => UnderReview'
    <3>1. packet # Review!NoPacket => UnderReview /\ Review!Required(settings) = "none"
      BY <1>1, <1>4, PlanIsList DEF ReviewInv, UnderReview, Review!Must
    <3> QED
      BY <1>1, <1>2, <3>1 DEF UnderReview, Review!Required
  <2>2. stage' = "asking" /\ result' = Review!NoResult
    BY <1>1, <1>4
  <2> QED
    BY <1>1, <1>2, <2>1, <2>2 DEF ReviewInv, Fair, Review!RulesApproveOnlySafe,
       Review!PeopleAreAsked,
                        Review!NamedReviewerDecides, Review!ByRules, Review!Escalates
<1> QED
  BY <1>1, <1>3, <1>4

\* The rules decide when everybody has failed.
LEMMA RulesComeLast == ASSUME IsList(Rotation), ReviewInv, Review!FallBack PROVE ReviewInv'
<1> USE DEF Review!NoResult, Review!None
<1>1. /\ stage = "asking" /\ plan = <<>> /\ stage' = "settled"
      /\ UNCHANGED <<packet, settings, plan, failed, merit>>
      /\ \/ result' = [action |-> "approve", by |-> "native"] /\ settings.job = "extract"
         \/ result' = [action |-> Review!ByRules(packet), by |-> "rules"] /\ settings.job # "extract"
  BY DEF Review!FallBack, Review!Settle, Review!Payload, Review!change
<1>2. packet # Review!NoPacket => /\ settings.job = "review" /\ Review!Required(settings) = "none"
                                  /\ failed = ToSet(Review!ReviewPlan(settings))
  <2>1. ToSet(plan) = {}
    BY <1>1 DEF ToSet
  <2> QED
    BY <1>1, <2>1, PlanIsList DEF ReviewInv, UnderReview
<1>3. settings.job # "extract" => (packet = Review!NoPacket \/ settings.job = "review")
  BY <1>2
<1>4. ASSUME packet = Review!NoPacket PROVE Review!ByRules(packet) # "approve"
  BY <1>4 DEF Review!ByRules, Review!NoPacket, Review!NoLabels
<1>5. Review!RulesApproveOnlySafe' /\ Review!PeopleAreAsked'
  BY <1>1, <1>3, <1>4 DEF ReviewInv, Fair, Review!RulesApproveOnlySafe, Review!PeopleAreAsked
<1>6. Review!NamedReviewerDecides'
  BY <1>1, <1>2, ReviewLibrary DEF Review!NamedReviewerDecides, Review!Required, Review!ReviewPlan
<1> QED
  BY <1>1, <1>5, <1>6 DEF ReviewInv

\* Whatever a proposal changes and whoever can be asked: the rules approve only what is harmless
\* and nobody wanted people for, and nobody decides in place of the reviewer named.
THEOREM ReviewsStayFair ==
  IsList(Rotation) /\ Registered \subseteq Review!Provider =>
    (Review!Spec => [](Review!RulesApproveOnlySafe /\ Review!PeopleAreAsked /\ Review!NamedReviewerDecides))
<1> SUFFICES ASSUME IsList(Rotation), Registered \subseteq Review!Provider
             PROVE  Review!Spec => [](Review!RulesApproveOnlySafe /\ Review!PeopleAreAsked /\ Review!NamedReviewerDecides)
  OBVIOUS
<1>1. Review!Init => ReviewInv
  BY FewAreLists DEF Review!Init, ReviewInv, Review!NoResult, Review!None,
     Review!RulesApproveOnlySafe,
     Review!PeopleAreAsked, Review!NamedReviewerDecides
<1>2. ReviewInv /\ [Review!Next]_(Review!vars) => ReviewInv'
  <2> SUFFICES ASSUME ReviewInv, [Review!Next]_(Review!vars) PROVE ReviewInv'
    OBVIOUS
  <2>1. CASE UNCHANGED Review!vars
    BY <2>1 DEF Review!vars, Review!change, ReviewInv, UnderReview, Noticed, Fair, Review!Changed,
       Review!Gone, Review!Facts,
       Review!RulesApproveOnlySafe, Review!PeopleAreAsked, Review!NamedReviewerDecides, Review!ByRules, Review!Escalates
  <2>2. CASE Review!ReadSession
    <3>1. /\ IsList(plan') /\ stage' = "asking" /\ settings'.job = "extract" /\ packet' = Review!NoPacket
          /\ result' = Review!NoResult
      BY <2>2, PlanIsList DEF Review!ReadSession, ReviewInv
    <3> QED
      BY <3>1 DEF ReviewInv, Review!NoResult, Review!None, Review!RulesApproveOnlySafe,
         Review!PeopleAreAsked,
         Review!NamedReviewerDecides
  <2> QED
    BY <2>1, <2>2, ProposalIsNoticed, LookIsFair, AnswersAreNamed, FailuresAreCounted,
       RulesComeLast DEF Review!Next
<1>3. ReviewInv => Review!RulesApproveOnlySafe /\ Review!PeopleAreAsked /\ Review!NamedReviewerDecides
  BY DEF ReviewInv
<1> QED
  BY <1>1, <1>2, <1>3, PTL DEF Review!Spec

-----------------------------------------------------------------------------
(* The capture of transcripts (Capture).                                    *)

CONSTANTS Transcript, Short, Secret, MaxRecords
VARIABLES by, records, torn, tFile, clean, tPc, left, parsed, tActs, tGot, tBreach

Captured == INSTANCE Capture WITH
  MaxActs <- MaxActs["Captured"], file <- tFile, pc <- tPc, acts <- tActs, got <- tGot,
  breach <- tBreach

\* The operators that Capture takes from the library are the library's.
LEMMA CaptureLibrary == \A S : Captured!Cardinality(S) = Cardinality(S)
  BY DEF Captured!Cardinality, Cardinality, Captured!IsFiniteSet, IsFiniteSet

\* Of several numbers one is the least.
LEMMA HasLeast == ASSUME NEW S, S \subseteq Nat, S # {} PROVE \E m \in S : \A k \in S : m <= k
<1>1. PICK m \in S : \A k \in S : <<k, m>> \notin OpToRel(<, Nat)
  BY NatLessThanWellFounded, WFMin
<1>2. \A k \in S : ~(k < m)
  BY <1>1 DEF OpToRel
<1> QED
  BY <1>2

\* Transcripts are numbered in the order of a capture of everything.
Numbered == \A t \in Transcript : t \in Nat \ {0} /\ 1 .. t \subseteq Transcript

\* The name of a transcript's session, once the transcript has a date.
Dated(t) == <<1, Short[t]>>

CaptureTypes ==
  /\ records \in [Transcript -> Nat] /\ tGot \in [Transcript -> Nat]
  /\ tFile \in [Captured!Name -> [of : Transcript \union {0}, n : Int]]
  /\ parsed \in [Proc -> [Transcript -> [n : Int, name : Captured!Name]]]
  /\ tPc \in [Proc -> {"idle", "parse", "write", "commit"}]

\* Nobody saves or has parsed what is not there.
WithinRecords ==
  \A t \in Transcript : tGot[t] <= records[t] /\ \A p \in Proc : parsed[p][t].n <= records[t]

\* Who writes has something to write.
HasSome(p) == \E t \in Transcript : parsed[p][t] # Captured!Unread
WritersHaveSome == \A p \in Proc : tPc[p] = "write" => HasSome(p)

\* Without the breaches, what waits to be written is no older than what is saved, and what is
\* saved is in a file.
NothingShrinks ==
  tBreach = {} => \A t \in Transcript :
     /\ \A p \in Proc : parsed[p][t] # Captured!Unread => parsed[p][t].n >= tGot[t]
     /\ tGot[t] > 0 => \E name \in Captured!Name : tFile[name].of = t /\ tFile[name].n >= tGot[t]

\* A transcript that had its date is always named alike.
NamedAlike ==
  "early" \notin tBreach => \A t \in Transcript :
    /\ \A p \in Proc : parsed[p][t] # Captured!Unread => parsed[p][t].name = Dated(t)
    /\ \A name \in Captured!Name : tFile[name].of = t => name = Dated(t)

CaptureInv == CaptureTypes /\ WithinRecords /\ WritersHaveSome /\ NothingShrinks /\ NamedAlike

\* Names that sessions have.
LEMMA NamesAreNames ==
  /\ \A t \in Transcript : Dated(t) \in Captured!Name
  /\ Captured!Unread \in [n : Int, name : Captured!Name] /\ Captured!Unread.n = -1
  /\ \A t \in Transcript, d \in {0, 1, 2} : <<d, Short[t]>> \in Captured!Name
  /\ <<0, 0>> \in Captured!Name
  /\ 0 \notin Transcript \/ ~Numbered
  BY DEF Dated, Captured!Name, Captured!Undated, Captured!NoName, Captured!Unread, Numbered

\* What a tool's transcript reads as: at most its records, under its name or without a date.
LEMMA WhatIsRead ==
  ASSUME CaptureTypes, by \in Captured!Tool, NEW t \in Transcript
  PROVE  LET found == Captured!ReadBy(t) IN
         /\ found \in [n : Int, name : Captured!Name] /\ found.n \in 0 .. records[t]
         /\ found.name[1] = 0 \/ (found.name = Dated(t) /\ found.n = records[t])
<1> USE DEF Captured!Day, Captured!Undated, Captured!NoName, Dated
<1> DEFINE Right(found) ==
      /\ found \in [n : Int, name : Captured!Name] /\ found.n \in 0 .. records[t]
      /\ found.name[1] = 0 \/ (found.name = Dated(t) /\ found.n = records[t])
<1>1. records[t] \in Nat
  BY DEF CaptureTypes
<1>0. ASSUME NEW n \in 0 .. records[t], NEW name \in Captured!Name, name[1] = 0
      PROVE  Right([n |-> n, name |-> name])
  <2>1. [n |-> n, name |-> name] \in [n : Int, name : Captured!Name]
    BY <1>1
  <2> QED
    BY <1>0, <2>1
<1>7. /\ <<0, Short[t]>> \in Captured!Name /\ <<0, Short[t]>>[1] = 0
      /\ <<0, 0>> \in Captured!Name /\ <<0, 0>>[1] = 0
  BY NamesAreNames
<1>2. Right(Captured!ReadClaude(t)) /\ Right(Captured!ReadCopilot(t))
  <2>1. CASE records[t] = 0
    <3> HIDE DEF Right
    <3>1. /\ Captured!ReadClaude(t) = [n |-> 0, name |-> <<0, Short[t]>>]
          /\ Captured!ReadCopilot(t) = [n |-> 0, name |-> <<0, Short[t]>>]
      BY <2>1 DEF Captured!ReadClaude, Captured!ReadCopilot
    <3> QED
      BY <1>0, <1>1, <1>7, <3>1
  <2>2. CASE records[t] # 0
    BY <1>1, <2>2, NamesAreNames DEF Captured!ReadClaude, Captured!ReadCopilot
  <2> QED
    BY <2>1, <2>2
<1>3. Right(Captured!ReadCodex(t)) /\ Right(Captured!ReadOpenCode(t))
  BY <1>1, NamesAreNames DEF Captured!ReadCodex, Captured!ReadOpenCode
<1>4. Right(Captured!ReadGemini(t))
  <2>1. CASE torn[t]
    BY <1>1, <2>1, NamesAreNames DEF Captured!ReadGemini
  <2>2. CASE ~torn[t]
    BY <1>1, <2>2, NamesAreNames DEF Captured!ReadGemini
  <2> QED
    BY <2>1, <2>2
<1>5. Right(Captured!ReadAmp(t))
  <2>1. CASE torn[t]
    <3> HIDE DEF Right
    <3>1. Captured!ReadAmp(t) = [n |-> 0, name |-> <<0, Short[t]>>]
      BY <2>1 DEF Captured!ReadAmp
    <3> QED
      BY <1>0, <1>1, <1>7, <3>1
  <2>2. CASE ~torn[t]
    BY <1>1, <2>2, NamesAreNames DEF Captured!ReadAmp
  <2> QED
    BY <2>1, <2>2
<1> HIDE DEF Right
<1>6. Right(Captured!ReadBy(t))
  BY <1>2, <1>3, <1>4, <1>5 DEF Captured!Tool, Captured!ReadBy
<1> QED
  BY <1>6 DEF Right

\* The transcript a program writes next is one it has parsed.
LEMMA FirstIsParsed ==
  ASSUME Numbered, NEW p \in Proc, HasSome(p)
  PROVE  Captured!First(p) \in Transcript /\ parsed[p][Captured!First(p)] # Captured!Unread
<1> DEFINE S == {t \in Transcript : parsed[p][t] # Captured!Unread}
<1>1. S \subseteq Nat /\ S # {}
  BY DEF Numbered, HasSome
<1>2. PICK t \in S : \A u \in S : t <= u
  BY <1>1, HasLeast
<1>3. \A u \in 1 .. t - 1 : parsed[p][u] = Captured!Unread
  <2> SUFFICES ASSUME NEW u \in 1 .. t - 1, parsed[p][u] # Captured!Unread PROVE FALSE
    OBVIOUS
  <2>1. u \in Transcript /\ u < t
    BY <1>1 DEF Numbered
  <2> QED
    BY <1>1, <1>2, <2>1
<1>4. \E u \in Transcript : parsed[p][u] # Captured!Unread /\ \A w \in 1 .. u - 1 : parsed[p][w] = Captured!Unread
  BY <1>2, <1>3
<1> QED
  BY <1>4 DEF Captured!First

\* The tool writes its transcript.
LEMMA TranscriptsGrow ==
  ASSUME CaptureInv, NEW t \in Transcript, Captured!ToolWrites(t) PROVE CaptureInv'
<1>1. /\ records' \in [Transcript -> Nat] /\ \A u \in Transcript : records'[u] >= records[u]
  <2>1. records' = records \/ records' = [records EXCEPT ![t] = @ + 1]
    BY DEF Captured!ToolWrites
  <2>2. records \in [Transcript -> Nat] /\ records[t] + 1 \in Nat
    BY DEF CaptureInv, CaptureTypes
  <2>3. CASE records' = records
    BY <2>2, <2>3
  <2>4. CASE records' = [records EXCEPT ![t] = @ + 1]
    BY <2>2, <2>4
  <2> QED
    BY <2>1, <2>3, <2>4
<1>5. UNCHANGED <<tFile, tPc, parsed, tGot, tBreach>>
  BY DEF Captured!ToolWrites, Captured!programs
<1>2. CaptureTypes'
  BY <1>1, <1>5 DEF CaptureInv, CaptureTypes, Captured!Name
<1>3. WithinRecords'
  BY <1>1, <1>5 DEF CaptureInv, CaptureTypes, WithinRecords
<1>4. WritersHaveSome' /\ NothingShrinks' /\ NamedAlike'
  BY <1>1, <1>5 DEF CaptureInv, WritersHaveSome, HasSome, NothingShrinks, NamedAlike, Dated,
     Captured!Unread, Captured!Name
<1> QED
  BY <1>2, <1>3, <1>4 DEF CaptureInv

\* A program begins, commits what it wrote, or dies.
LEMMA ProgramsComeAndGo ==
  ASSUME CaptureInv, NEW p \in Proc,
         \/ \E targets \in SUBSET Transcript : Captured!Begin(p, targets)
         \/ Captured!Commit(p) \/ Captured!Die(p)
  PROVE  CaptureInv'
<1>1. UNCHANGED <<records, tFile, tGot, tBreach>>
  BY DEF Captured!Begin, Captured!Commit, Captured!Die, Captured!tool
<1>2. /\ tPc' \in [Proc -> {"idle", "parse", "write", "commit"}]
      /\ \A q \in Proc : tPc'[q] = "write" => q # p /\ tPc[q] = "write"
  BY DEF CaptureInv, CaptureTypes, Captured!Begin, Captured!Commit, Captured!Die, Captured!Goto
<1>3. /\ parsed' \in [Proc -> [Transcript -> [n : Int, name : Captured!Name]]]
      /\ \A q \in Proc : q # p => parsed'[q] = parsed[q]
      /\ \A t \in Transcript : parsed'[p][t] \in {parsed[p][t], Captured!Unread}
  <2>1. parsed' = parsed \/ parsed' = [parsed EXCEPT ![p] = [t \in Transcript |-> Captured!Unread]]
    BY DEF Captured!Begin, Captured!Commit, Captured!Die, Captured!Forget
  <2>2. parsed \in [Proc -> [Transcript -> [n : Int, name : Captured!Name]]]
    BY DEF CaptureInv, CaptureTypes
  <2>3. [t \in Transcript |-> Captured!Unread] \in [Transcript -> [n : Int, name : Captured!Name]]
    BY NamesAreNames
  <2>4. CASE parsed' = parsed
    BY <2>2, <2>4
  <2>5. CASE parsed' = [parsed EXCEPT ![p] = [t \in Transcript |-> Captured!Unread]]
    <3>1. parsed'[p] = [t \in Transcript |-> Captured!Unread] /\ \A q \in Proc : q # p => parsed'[q] = parsed[q]
      BY <2>2, <2>5
    <3>2. parsed' \in [Proc -> [Transcript -> [n : Int, name : Captured!Name]]]
      BY <2>2, <2>3, <2>5
    <3> QED
      BY <3>1, <3>2
  <2> QED
    BY <2>1, <2>4, <2>5
<1>4. CaptureTypes'
  BY <1>1, <1>2, <1>3 DEF CaptureInv, CaptureTypes, Captured!Name
<1>5. \A q \in Proc : \A t \in Transcript : parsed'[q][t] \in {parsed[q][t], Captured!Unread}
  BY <1>3
<1>6. WithinRecords'
  <2>1. \A w \in Transcript : records[w] \in Nat
    BY DEF CaptureInv, CaptureTypes
  <2> SUFFICES ASSUME NEW q \in Proc, NEW u \in Transcript PROVE parsed'[q][u].n <= records[u]
    BY <1>1 DEF CaptureInv, WithinRecords
  <2>2. CASE parsed'[q][u] = parsed[q][u]
    BY <2>2 DEF CaptureInv, WithinRecords
  <2>3. CASE parsed'[q][u] = Captured!Unread
    BY <2>1, <2>3, NamesAreNames
  <2> QED
    BY <1>5, <2>2, <2>3
<1>7. WritersHaveSome'
  BY ZenonT(60), <1>2, <1>3 DEF CaptureInv, WritersHaveSome, HasSome, Captured!Unread
<1>8. NothingShrinks' /\ NamedAlike'
  BY <1>1, <1>5 DEF CaptureInv, NothingShrinks, NamedAlike, Dated, Captured!Unread, Captured!Name
<1> QED
  BY <1>4, <1>6, <1>7, <1>8 DEF CaptureInv

\* A transcript is parsed.
LEMMA ParsedIsThere ==
  ASSUME CaptureInv, by \in Captured!Tool, NEW p \in Proc, NEW t \in Transcript, Captured!Parse(p,
         t)
  PROVE  CaptureInv'
<1> DEFINE found == Captured!ReadBy(t)
<1>1. /\ UNCHANGED <<records, tFile, tGot>> /\ tPc[p] = "parse"
      /\ parsed' = [parsed EXCEPT ![p][t] = found]
      /\ tBreach' = IF found.name[1] = 0 THEN tBreach \union {"early"} ELSE tBreach
      /\ tPc' \in {[tPc EXCEPT ![p] = "write"], [tPc EXCEPT ![p] = "parse"]}
  BY DEF Captured!Parse, Captured!tool, Captured!Goto, Captured!Undated
<1>2. /\ found \in [n : Int, name : Captured!Name] /\ found.n \in 0 .. records[t]
      /\ found.name[1] = 0 \/ (found.name = Dated(t) /\ found.n = records[t])
  BY WhatIsRead DEF CaptureInv
<1> HIDE DEF found
<1>3. /\ parsed'[p][t] = found /\ parsed' \in [Proc -> [Transcript -> [n : Int, name : Captured!Name]]]
      /\ \A q \in Proc, u \in Transcript : (q # p \/ u # t) => parsed'[q][u] = parsed[q][u]
  BY <1>1, <1>2 DEF CaptureInv, CaptureTypes
<1>4. CaptureTypes'
  BY <1>1, <1>3 DEF CaptureInv, CaptureTypes, Captured!Name
<1>5. WithinRecords'
  BY <1>1, <1>2, <1>3 DEF CaptureInv, CaptureTypes, WithinRecords
<1>6. found # Captured!Unread
  BY <1>2, NamesAreNames DEF CaptureInv, CaptureTypes
<1>7. WritersHaveSome'
  <2> SUFFICES ASSUME NEW q \in Proc, tPc'[q] = "write" PROVE HasSome(q)'
    BY DEF WritersHaveSome
  <2>1. CASE q = p
    BY <1>3, <1>6, <2>1 DEF HasSome, Captured!Unread
  <2>2. CASE q # p
    <3>1. HasSome(q)
      BY <1>1, <2>2 DEF CaptureInv, CaptureTypes, WritersHaveSome
    <3> QED
      BY <1>3, <2>2, <3>1 DEF HasSome, Captured!Unread
  <2> QED
    BY <2>1, <2>2
<1>8. NothingShrinks'
  <2> SUFFICES ASSUME tBreach' = {} PROVE NothingShrinks'
    BY DEF NothingShrinks
  <2>1. tBreach = {} /\ found.n = records[t]
    BY <1>1, <1>2
  <2>2. \A q \in Proc, u \in Transcript : parsed'[q][u] # Captured!Unread => parsed'[q][u].n >= tGot[u]
    BY SMTT(30), <1>3, <2>1 DEF CaptureInv, NothingShrinks, WithinRecords
  <2> QED
    BY <1>1, <2>1, <2>2 DEF CaptureInv, NothingShrinks, Captured!Unread, Captured!Name
<1>9. NamedAlike'
  <2> SUFFICES ASSUME "early" \notin tBreach' PROVE NamedAlike'
    BY DEF NamedAlike
  <2>1. "early" \notin tBreach /\ found.name = Dated(t)
    BY <1>1, <1>2
  <2>2. \A q \in Proc, u \in Transcript : parsed'[q][u] # Captured!Unread => parsed'[q][u].name = Dated(u)
    BY <1>3, <2>1 DEF CaptureInv, NamedAlike
  <2> QED
    BY <1>1, <2>1, <2>2 DEF CaptureInv, NamedAlike, Dated, Captured!Unread, Captured!Name
<1> QED
  BY <1>4, <1>5, <1>7, <1>8, <1>9 DEF CaptureInv

\* A session is written, or its capture refused.
LEMMA WrittenIsKept ==
  ASSUME Numbered, CaptureInv, NEW p \in Proc, Captured!Write(p) PROVE CaptureInv'
<1> DEFINE t == Captured!First(p)
           x == parsed[p][t]
<1>1. t \in Transcript /\ x # Captured!Unread
  BY FirstIsParsed DEF CaptureInv, WritersHaveSome, Captured!Write
<1> HIDE DEF t
<1>2. CASE Secret[t] \in 1 .. x.n
  <2>1. UNCHANGED <<records, tFile, tGot, tBreach>> /\ Captured!Goto(p, "idle") /\ Captured!Forget(p)
    BY <1>2 DEF Captured!Write, Captured!tool, t
  <2>2. /\ parsed' \in [Proc -> [Transcript -> [n : Int, name : Captured!Name]]]
        /\ \A q \in Proc : q # p => parsed'[q] = parsed[q]
        /\ \A u \in Transcript : parsed'[p][u] = Captured!Unread
    BY <2>1, NamesAreNames DEF CaptureInv, CaptureTypes, Captured!Forget
  <2>3. /\ tPc' \in [Proc -> {"idle", "parse", "write", "commit"}]
        /\ \A q \in Proc : tPc'[q] = "write" => q # p /\ tPc[q] = "write"
    BY <2>1 DEF CaptureInv, CaptureTypes, Captured!Goto
  <2>4. CaptureTypes'
    BY <2>1, <2>2, <2>3 DEF CaptureInv, CaptureTypes, Captured!Name
  <2>5. \A q \in Proc : \A u \in Transcript : parsed'[q][u] \in {parsed[q][u], Captured!Unread}
    BY <2>2
  <2>6. WithinRecords'
    <3>1. \A w \in Transcript : records[w] \in Nat
      BY DEF CaptureInv, CaptureTypes
    <3> SUFFICES ASSUME NEW q \in Proc, NEW u \in Transcript PROVE parsed'[q][u].n <= records[u]
      BY <2>1 DEF CaptureInv, WithinRecords
    <3>2. CASE parsed'[q][u] = parsed[q][u]
      BY <3>2 DEF CaptureInv, WithinRecords
    <3>3. CASE parsed'[q][u] = Captured!Unread
      BY <3>1, <3>3, NamesAreNames
    <3> QED
      BY <2>5, <3>2, <3>3
  <2>7. WritersHaveSome'
    BY <2>2, <2>3 DEF CaptureInv, WritersHaveSome, HasSome, Captured!Unread
  <2>8. NothingShrinks' /\ NamedAlike'
    BY <2>1, <2>5 DEF CaptureInv, NothingShrinks, NamedAlike, Dated, Captured!Unread, Captured!Name
  <2> QED
    BY <2>4, <2>6, <2>7, <2>8 DEF CaptureInv
<1>3. CASE Secret[t] \notin 1 .. x.n
  <2>1. /\ UNCHANGED records
        /\ tFile' = [tFile EXCEPT ![x.name] = [of |-> t, n |-> x.n]]
        /\ parsed' = [parsed EXCEPT ![p][t] = Captured!Unread]
        /\ tGot' = [tGot EXCEPT ![t] = IF x.n > @ THEN x.n ELSE @]
        /\ tBreach \subseteq tBreach'
        /\ tFile[x.name].of \notin {0, t} => "shared" \in tBreach'
        /\ (\E q \in Proc \ {p} : parsed[q][t] # Captured!Unread) => "overlapped" \in tBreach'
        /\ \/ tPc' = [tPc EXCEPT ![p] = "write"] /\ ~Captured!Written(p)
           \/ tPc' \in {[tPc EXCEPT ![p] = "commit"], [tPc EXCEPT ![p] = "idle"]}
    BY <1>3 DEF Captured!Write, Captured!tool, Captured!Goto, Captured!Saves, t
  <2>2. /\ x \in [n : Int, name : Captured!Name] /\ x.n <= records[t] /\ tGot[t] \in Nat /\ records[t] \in Nat
        /\ tGot[t] <= records[t]
    BY <1>1 DEF CaptureInv, CaptureTypes, WithinRecords
  <2>3. /\ tGot' \in [Transcript -> Nat] /\ tGot'[t] <= records[t] /\ tGot'[t] \in {tGot[t], x.n}
        /\ tGot'[t] >= x.n /\ tGot'[t] >= tGot[t]
        /\ \A u \in Transcript : u # t => tGot'[u] = tGot[u]
    BY <1>1, <2>1, <2>2 DEF CaptureInv, CaptureTypes
  <2>4. /\ parsed' \in [Proc -> [Transcript -> [n : Int, name : Captured!Name]]]
        /\ parsed'[p][t] = Captured!Unread
        /\ \A q \in Proc, u \in Transcript : (q # p \/ u # t) => parsed'[q][u] = parsed[q][u]
    BY <1>1, <2>1, NamesAreNames DEF CaptureInv, CaptureTypes
  <2>5. /\ tFile' \in [Captured!Name -> [of : Transcript \union {0}, n : Int]]
        /\ x.name \in Captured!Name /\ tFile'[x.name].of = t /\ tFile'[x.name].n = x.n
        /\ \A name \in Captured!Name : name # x.name => tFile'[name] = tFile[name]
    <3>1. x.name \in Captured!Name /\ [of |-> t, n |-> x.n] \in [of : Transcript \union {0}, n : Int]
      BY <1>1, <2>2
    <3> HIDE DEF x
    <3> QED
      BY <2>1, <3>1 DEF CaptureInv, CaptureTypes
  <2>6. /\ tPc' \in [Proc -> {"idle", "parse", "write", "commit"}]
        /\ \A q \in Proc : q # p => tPc'[q] = tPc[q]
        /\ tPc'[p] = "write" => HasSome(p)'
    BY <2>1 DEF CaptureInv, CaptureTypes, Captured!Written, HasSome, Captured!Unread
  <2> HIDE DEF x
  <2>7. CaptureTypes'
    BY <2>1, <2>3, <2>4, <2>5, <2>6 DEF CaptureInv, CaptureTypes, Captured!Name
  <2>8. WithinRecords'
    <3>1. -1 <= records[t]
      BY <2>2
    <3> QED
      BY <2>1, <2>3, <2>4, <3>1, NamesAreNames DEF CaptureInv, WithinRecords
  <2>9. WritersHaveSome'
    <3> SUFFICES ASSUME NEW q \in Proc, q # p, tPc'[q] = "write" PROVE HasSome(q)'
      BY <2>6 DEF WritersHaveSome
    <3>1. HasSome(q)
      BY <2>6 DEF CaptureInv, WritersHaveSome
    <3> QED
      BY <2>4, <3>1 DEF HasSome, Captured!Unread
  <2>10. NothingShrinks'
    <3> SUFFICES ASSUME tBreach' = {} PROVE NothingShrinks'
      BY DEF NothingShrinks
    <3>1. /\ tBreach = {} /\ tFile[x.name].of \in {0, t}
          /\ \A q \in Proc : q # p => parsed[q][t] = Captured!Unread
      BY <2>1
    <3>2. x.n >= tGot[t]
      BY <1>1, <3>1 DEF CaptureInv, NothingShrinks, x
    <3>3. tGot'[t] = x.n
      BY <2>2, <2>3, <3>2
    <3>4. ASSUME NEW u \in Transcript, NEW q \in Proc, parsed'[q][u] # Captured!Unread
          PROVE  parsed'[q][u].n >= tGot'[u]
      <4>1. u # t
        BY <2>4, <3>1, <3>4
      <4> QED
        BY <2>3, <2>4, <3>1, <3>4, <4>1 DEF CaptureInv, NothingShrinks
    <3>5. ASSUME NEW u \in Transcript, tGot'[u] > 0
          PROVE  \E name \in Captured!Name : tFile'[name].of = u /\ tFile'[name].n >= tGot'[u]
      <4>1. CASE u = t
        BY <2>2, <2>5, <3>3, <4>1
      <4>2. CASE u # t
        <5>1. PICK name \in Captured!Name : tFile[name].of = u /\ tFile[name].n >= tGot[u]
          BY <2>3, <3>1, <3>5, <4>2 DEF CaptureInv, NothingShrinks
        <5>2. u # 0
          BY NamesAreNames
        <5>3. name # x.name
          BY <3>1, <4>2, <5>1, <5>2
        <5> QED
          BY <2>3, <2>5, <4>2, <5>1, <5>3
      <4> QED
        BY <4>1, <4>2
    <3> QED
      BY <3>4, <3>5 DEF NothingShrinks, Captured!Unread, Captured!Name
  <2>11. NamedAlike'
    <3> SUFFICES ASSUME "early" \notin tBreach' PROVE NamedAlike'
      BY DEF NamedAlike
    <3>1. "early" \notin tBreach
      BY <2>1
    <3>2. x.name = Dated(t)
      BY <1>1, <3>1 DEF CaptureInv, NamedAlike, x
    <3>3. \A q \in Proc, u \in Transcript : parsed'[q][u] # Captured!Unread => parsed'[q][u].name = Dated(u)
      BY <2>4, <3>1 DEF CaptureInv, NamedAlike
    <3>4. \A u \in Transcript, name \in Captured!Name : tFile'[name].of = u => name = Dated(u)
      BY <2>5, <3>1, <3>2 DEF CaptureInv, NamedAlike
    <3> QED
      BY <3>3, <3>4 DEF NamedAlike, Dated, Captured!Unread, Captured!Name
  <2> QED
    BY <2>7, <2>8, <2>9, <2>10, <2>11 DEF CaptureInv
<1> QED
  BY <1>2, <1>3

\* Whatever tools write while captures of any transcripts overlap and die: a session has the
\* records that were saved, and a transcript one session, short of the breaches named.
THEOREM CapturesKeepAll ==
  Numbered => (Captured!Spec => [](Captured!CapturesGrow /\ Captured!OneSessionEach))
<1> SUFFICES ASSUME Numbered
             PROVE Captured!Spec => [](Captured!CapturesGrow /\ Captured!OneSessionEach)
  OBVIOUS
<1> DEFINE Inv == CaptureInv /\ by \in Captured!Tool
<1>1. Captured!Init => Inv
  <2> SUFFICES ASSUME Captured!Init PROVE Inv
    OBVIOUS
  <2>1. CaptureTypes
    BY NamesAreNames DEF Captured!Init, CaptureTypes, Captured!Nothing
  <2>2. \A name \in Captured!Name : tFile[name].of = 0
    BY DEF Captured!Init, Captured!Nothing
  <2>3. \A p \in Proc, t \in Transcript : parsed[p][t] = Captured!Unread
    BY DEF Captured!Init
  <2>4. WithinRecords /\ WritersHaveSome
    BY <2>3, NamesAreNames DEF Captured!Init, WithinRecords, WritersHaveSome
  <2>5. NothingShrinks /\ NamedAlike
    BY <2>2, <2>3, NamesAreNames DEF Captured!Init, NothingShrinks, NamedAlike
  <2> QED
    BY <2>1, <2>4, <2>5 DEF CaptureInv, Captured!Init
<1>2. Inv /\ [Captured!Next]_(Captured!vars) => Inv'
  <2> SUFFICES ASSUME CaptureInv, by \in Captured!Tool, [Captured!Next]_(Captured!vars) PROVE Inv'
    OBVIOUS
  <2>1. by' = by
    BY DEF Captured!Next, Captured!vars, Captured!tool, Captured!ToolWrites, Captured!Parse,
           Captured!Begin,
           Captured!CaptureClaude, Captured!CaptureCodex, Captured!CaptureCopilot, Captured!CaptureGemini,
           Captured!CaptureAmp, Captured!CaptureOpenCode, Captured!Write, Captured!Commit, Captured!Die, Captured!Sweep
  <2>2. CASE UNCHANGED <<records, tFile, tPc, parsed, tGot, tBreach>>
    <3>1. CaptureTypes' /\ WithinRecords'
      BY <2>2 DEF CaptureInv, CaptureTypes, WithinRecords, Captured!Name
    <3>2. WritersHaveSome'
      BY <2>2 DEF CaptureInv, WritersHaveSome, HasSome, Captured!Unread
    <3>3. NothingShrinks' /\ NamedAlike'
      BY <2>2 DEF CaptureInv, NothingShrinks, NamedAlike, Dated, Captured!Unread, Captured!Name
    <3> QED
      BY <2>1, <3>1, <3>2, <3>3 DEF CaptureInv
  <2>3. ASSUME NEW p \in Proc,
               \/ Captured!CaptureClaude(p) \/ Captured!CaptureCodex(p) \/ Captured!CaptureCopilot(p)
               \/ Captured!CaptureGemini(p) \/ Captured!CaptureAmp(p) \/ Captured!CaptureOpenCode(p)
        PROVE  CaptureInv'
    <3>1. \E targets \in SUBSET Transcript : Captured!Begin(p, targets)
      BY <2>3 DEF Captured!CaptureClaude, Captured!CaptureCodex, Captured!CaptureCopilot,
                  Captured!CaptureGemini, Captured!CaptureAmp, Captured!CaptureOpenCode
    <3> QED
      BY <3>1, ProgramsComeAndGo
  <2>4. CASE Captured!Next
    <3>1. Captured!Sweep => UNCHANGED <<records, tFile, tPc, parsed, tGot, tBreach>>
      BY DEF Captured!Sweep, Captured!programs, Captured!tool
    <3>2. ASSUME NEW t \in Transcript, Captured!ToolWrites(t) \/ \E p \in Proc : Captured!Parse(p, t)
          PROVE CaptureInv'
      BY <3>2, TranscriptsGrow, ParsedIsThere
    <3>3. ASSUME NEW p \in Proc, Captured!Write(p) \/ Captured!Commit(p) \/ Captured!Die(p)
          PROVE CaptureInv'
      BY <3>3, ProgramsComeAndGo, WrittenIsKept
    <3> QED
      BY <2>1, <2>2, <2>3, <2>4, <3>1, <3>2, <3>3 DEF Captured!Next
  <2>5. CASE UNCHANGED Captured!vars
    BY <2>2, <2>5 DEF Captured!vars, Captured!tool, Captured!programs
  <2> QED
    BY <2>1, <2>4, <2>5
<1>3. Inv => Captured!CapturesGrow
  BY DEF CaptureInv, NothingShrinks, Captured!CapturesGrow
<1>4. Inv => Captured!OneSessionEach
  <2> SUFFICES ASSUME CaptureInv, "early" \notin tBreach, NEW t \in Transcript
               PROVE  Cardinality({name \in Captured!Name : tFile[name].of = t}) <= 1
    BY CaptureLibrary DEF Captured!OneSessionEach
  <2>1. {name \in Captured!Name : tFile[name].of = t} \subseteq {Dated(t)}
    BY DEF CaptureInv, NamedAlike
  <2>2. IsFiniteSet({Dated(t)}) /\ Cardinality({Dated(t)}) = 1
    BY FS_Singleton
  <2> QED
    BY <2>1, <2>2, FS_Subset
<1> QED
  BY <1>1, <1>2, <1>3, <1>4, PTL DEF Captured!Spec

-----------------------------------------------------------------------------
(* The search index (SearchIndex).                                          *)

CONSTANTS Files, Rebuilder, Server, MaxEdits, MaxRebuilds
VARIABLES disk, stamp, row, words, hashes, draft, writer, iPc, iTodo, ready, runs, iBreach

Index == INSTANCE SearchIndex WITH
  Proc <- Rebuilder, MaxRuns <- MaxRebuilds, pc <- iPc, todo <- iTodo, breach <- iBreach

\* The operators that SearchIndex takes from the library are the library's.
LEMMA IndexLibrary ==
  \A S : Index!SetToSeq(S) = SetToSeq(S) /\ Index!Cardinality(S) = Cardinality(S)
  BY DEF Index!SetToSeq, SetToSeq, Index!IsInjective, IsInjective, Index!Cardinality, Cardinality

\* Of finitely many numbers, one is the greatest.
LEMMA HasGreatest ==
  ASSUME NEW S, S \subseteq Nat, IsFiniteSet(S), S # {} PROVE \E m \in S : \A k \in S : k <= m
<1> DEFINE Bound(T) == {b \in Nat : \A k \in T : k <= b}
           Boundless == {n \in Nat : \E T \in SUBSET Nat : IsFiniteSet(T) /\ Cardinality(T) = n /\ Bound(T) = {}}
<1>1. Boundless = {}
  <2> SUFFICES ASSUME Boundless # {} PROVE FALSE
    OBVIOUS
  <2>1. PICK n \in Boundless : \A k \in Boundless : n <= k
    BY HasLeast
  <2>2. PICK T \in SUBSET Nat : IsFiniteSet(T) /\ Cardinality(T) = n /\ Bound(T) = {}
    OBVIOUS
  <2>3. PICK x : x \in T
    BY <2>2
  <2>4. IsFiniteSet(T \ {x}) /\ Cardinality(T \ {x}) = n - 1
    BY <2>2, <2>3, FS_RemoveElement
  <2>8. n - 1 \in Nat
    BY <2>4, FS_CardinalityType
  <2>5. Bound(T \ {x}) # {}
    <3> SUFFICES ASSUME Bound(T \ {x}) = {} PROVE FALSE
      OBVIOUS
    <3>1. n - 1 \in Boundless
      BY <2>4, <2>8
    <3> QED
      BY <2>1, <2>8, <3>1
  <2>6. PICK b \in Nat : \A k \in T \ {x} : k <= b
    BY <2>5
  <2>7. (IF b >= x THEN b ELSE x) \in Bound(T)
    BY <2>3, <2>6
  <2> QED
    BY <2>2, <2>7
<1>2. Bound(S) # {}
  BY <1>1, FS_CardinalityType
<1>3. PICK m \in Bound(S) : \A b \in Bound(S) : m <= b
  BY <1>2, HasLeast
<1>4. CASE m \in S
  BY <1>3, <1>4
<1>5. CASE m \notin S
  <2>1. \A k \in S : k <= m - 1
    BY <1>3, <1>5
  <2>2. m - 1 \in Bound(S)
    <3>1. PICK k \in S : TRUE
      OBVIOUS
    <3>2. k \in Nat /\ m \in Nat /\ k <= m - 1
      BY <1>3, <2>1
    <3> QED
      BY <2>1, <3>2
  <2> QED
    BY <1>3, <2>2
<1> QED
  BY <1>4, <1>5

\* A finite set is enumerated by its first numbers.
LEMMA PlacesAreNumbers ==
  ASSUME NEW S, IsFiniteSet(S)
  PROVE  SetToSeq(S) \in [1 .. Cardinality(S) -> S] /\ IsInjective(SetToSeq(S))
<1> DEFINE n == Cardinality(S)
<1>1. n \in Nat /\ ExistsBijection(1 .. n, S)
  BY FS_CardinalityType
<1>2. PICK f \in Bijection(1 .. n, S) : TRUE
  BY <1>1 DEF ExistsBijection
<1>3. f \in [1 .. n -> S] /\ IsInjective(f)
  BY <1>2 DEF Bijection, Injection
<1>4. SetToSeq(S) \in [1 .. n -> S] /\ IsInjective(SetToSeq(S))
  BY <1>3 DEF SetToSeq
<1> QED
  BY <1>4

\* A finite set is enumerated.
LEMMA EachHasPlace ==
  ASSUME NEW S, IsFiniteSet(S), NEW x \in S
  PROVE  \E k \in DOMAIN SetToSeq(S) : SetToSeq(S)[k] = x
<1> DEFINE n == Cardinality(S)
<1>1. n \in Nat
  BY FS_CardinalityType
<1>2. SetToSeq(S) \in [1 .. n -> S] /\ IsInjective(SetToSeq(S))
  BY PlacesAreNumbers
<1>3. SetToSeq(S) \in Injection(1 .. n, S)
  BY <1>2 DEF Injection
<1>4. Cardinality(1 .. n) = n
  BY <1>1, FS_Interval
<1>5. SetToSeq(S) \in Surjection(1 .. n, S)
  BY <1>3, <1>4, FS_Injection
<1> QED
  BY <1>2, <1>5 DEF Surjection

\* There are finitely many facts, and nobody is called like no one.
Indexable == IsFiniteSet(Fact) /\ Index!NoOne \notin Rebuilder /\ Files \in Nat

Rows == [Fact -> [file : Index!File \union {0}, at : Nat, state : Index!State]]

\* The words are those of the rows, which have numbers of their own.
Synced(t) ==
  /\ t.row \in Rows
  /\ \A f \in Fact : IF t.row[f].file = 0 THEN t.row[f] = Index!NoRow
                     ELSE t.row[f].at >= 1 /\ t.row[f].state # "none"
  /\ \A f, g \in Fact : t.row[f].at = t.row[g].at /\ t.row[f].file # 0 /\ t.row[g].file # 0 => f = g
  /\ \A f \in Fact, n \in Nat : <<n, f>> \in t.words <=> t.row[f].file # 0 /\ n = t.row[f].at

\* The rows of file i are what d says the file holds.
Reflects(t, i, d) ==
  \A f \in Fact : /\ d[i][f] # "none" <=> t.row[f].file = i
                  /\ t.row[f].file = i => t.row[f].state = d[i][f]

Stored == [row |-> row, words |-> words]

\* No hashes are the hashes of no files.
LEMMA NoHashesOfNoFiles ==
  ASSUME NEW d \in [Index!File -> Index!Content] PROVE d = Index!NoHashes <=> Index!File = {}
<1>1. DOMAIN d = Index!File /\ DOMAIN Index!NoHashes = {}
  BY DEF Index!NoHashes
<1> QED
  BY <1>1 DEF Index!NoHashes

IndexTypes ==
  /\ disk \in [Index!File -> Index!Content] /\ stamp \in [Index!File -> Nat]
  /\ hashes = Index!NoHashes \/ hashes \in [Index!File -> Index!Content]
  /\ iPc \in [Rebuilder -> {"idle", "plan", "clear", "index", "hash", "mark"}]
  /\ iTodo \in [Rebuilder -> SUBSET Index!File] /\ writer \in Rebuilder \union {Index!NoOne}

\* What is stored is what the hashes say, and what a rebuild has done is what the files hold.
Rebuilding ==
  /\ hashes # Index!NoHashes => \A i \in Index!File : Reflects(Stored, i, hashes)
  /\ \A p \in Rebuilder :
       /\ iPc[p] = "plan" => hashes # Index!NoHashes
       /\ iPc[p] = "index" => \A i \in Index!File \ iTodo[p] : Reflects(Index!Table(p), i, disk)
       /\ iPc[p] = "mark" => iTodo[p] = {} /\ hashes = disk

\* The answer that is remembered was given for files as they are, or were before.
Remembering ==
  ready.answer => /\ ready.for \in [Index!File -> Nat] /\ \A i \in Index!File : ready.for[i] <= stamp[i]
                  /\ ready.for = stamp => hashes = disk

IndexInv ==
  iBreach = {} => /\ IndexTypes /\ Synced(Stored) /\ Rebuilding /\ Remembering
                  /\ writer # Index!NoOne => iPc[writer] = "index" /\ Synced(draft)

\* Rows that go take their words along.
LEMMA DeletedTogether ==
  ASSUME NEW t, Synced(t), NEW gone, gone \subseteq Fact
  PROVE  LET rest == Index!DeleteRows(t, gone) IN
         Synced(rest) /\ \A f \in Fact : rest.row[f] = IF f \in gone THEN Index!NoRow ELSE t.row[f]
<1> DEFINE rest == Index!DeleteRows(t, gone)
<1>1. /\ rest.row = [f \in Fact |-> IF f \in gone THEN Index!NoRow ELSE t.row[f]]
      /\ rest.words = t.words \ {<<t.row[f].at, f>> : f \in gone}
  BY DEF Index!DeleteRows
<1> HIDE DEF rest
<1>2. \A f \in Fact : rest.row[f] = IF f \in gone THEN Index!NoRow ELSE t.row[f]
  BY <1>1
<1>3. Index!NoRow \in [file : Index!File \union {0}, at : Nat, state : Index!State] /\ Index!NoRow.file = 0
  BY DEF Index!NoRow, Index!State
<1>4. rest.row \in Rows
  BY <1>1, <1>3 DEF Synced, Rows
<1>5. \A f \in Fact : IF rest.row[f].file = 0 THEN rest.row[f] = Index!NoRow
                      ELSE rest.row[f].at >= 1 /\ rest.row[f].state # "none"
  BY <1>2, <1>3 DEF Synced
<1>6. \A f, g \in Fact : rest.row[f].at = rest.row[g].at /\ rest.row[f].file # 0 /\ rest.row[g].file # 0 => f = g
  BY <1>2, <1>3 DEF Synced
<1>7. ASSUME NEW f \in Fact, NEW n \in Nat
      PROVE  <<n, f>> \in rest.words <=> rest.row[f].file # 0 /\ n = rest.row[f].at
  <2>1. <<n, f>> \in t.words <=> t.row[f].file # 0 /\ n = t.row[f].at
    BY DEF Synced
  <2>2. <<n, f>> \in {<<t.row[g].at, g>> : g \in gone} <=> f \in gone /\ n = t.row[f].at
    OBVIOUS
  <2>3. CASE f \in gone
    BY <1>1, <1>2, <1>3, <2>1, <2>2, <2>3
  <2>4. CASE f \notin gone
    BY <1>1, <1>2, <2>1, <2>2, <2>4
  <2> QED
    BY <2>3, <2>4
<1> QED
  BY <1>2, <1>4, <1>5, <1>6, <1>7 DEF Synced, rest

\* New rows have numbers above all others.
LEMMA NextIsAbove ==
  ASSUME Indexable, NEW t, Synced(t), Fact # {}
  PROVE  Index!NextNumber(t) \in Nat /\ Index!NextNumber(t) >= 1 /\ \A f \in Fact : t.row[f].at < Index!NextNumber(t)
<1> DEFINE S == Index!RowNumbers(t)
<1>1. S = {t.row[f].at : f \in Fact} /\ \A f \in Fact : t.row[f].at \in Nat
  BY DEF Index!RowNumbers, Synced, Rows
<1>2. IsFiniteSet(S)
  <2> DEFINE number == [f \in Fact |-> t.row[f].at]
  <2>1. number \in Surjection(Fact, S)
    BY <1>1 DEF Surjection
  <2> QED
    BY <2>1, FS_Surjection DEF Indexable
<1>3. S \subseteq Nat /\ S # {}
  BY <1>1
<1>4. \E m \in S : \A k \in S : k <= m
  BY <1>2, <1>3, HasGreatest
<1> DEFINE top == CHOOSE m \in S : \A k \in S : k <= m
<1>5. top \in S /\ \A k \in S : k <= top
  BY <1>4
<1>6. Index!NextNumber(t) = 1 + top
  BY DEF Index!NextNumber
<1> HIDE DEF S, top
<1> QED
  BY <1>1, <1>3, <1>5, <1>6

\* Facts that have no row get one each, with words of its own.
LEMMA InsertedTogether ==
  ASSUME Indexable, NEW t, Synced(t), NEW i \in Index!File, disk \in [Index!File -> Index!Content],
         NEW facts, facts \subseteq Fact, \A f \in facts : t.row[f] = Index!NoRow /\ disk[i][f] # "none"
  PROVE  LET all == Index!InsertAll(t, facts, i) IN
         /\ Synced(all)
         /\ \A f \in Fact : IF f \in facts THEN all.row[f].file = i /\ all.row[f].state = disk[i][f]
                            ELSE all.row[f] = t.row[f]
<1> DEFINE all == Index!InsertAll(t, facts, i)
           order == Index!SetToSeq(facts)
           Place(f) == CHOOSE k \in DOMAIN order : order[k] = f
           Number(f) == Index!NextNumber(t) - 1 + Place(f)
<1>1. /\ all.row = [f \in Fact |-> IF f \in facts THEN Index!NewRow(f, i, Number(f)) ELSE t.row[f]]
      /\ all.words = t.words \union {<<Number(f), f>> : f \in facts}
  BY DEF Index!InsertAll
<1> HIDE DEF all
<1>2. ASSUME NEW f \in facts
      PROVE  Place(f) \in Nat /\ Place(f) >= 1 /\ order[Place(f)] = f
  <2>1. IsFiniteSet(facts)
    BY FS_Subset DEF Indexable
  <2>2. \E k \in DOMAIN order : order[k] = f
    BY <2>1, EachHasPlace, IndexLibrary
  <2>3. \A k \in DOMAIN order : k \in Nat /\ k >= 1
    <3>1. Cardinality(facts) \in Nat
      BY <2>1, FS_CardinalityType
    <3>2. DOMAIN order = 1 .. Cardinality(facts)
      BY <2>1, PlacesAreNumbers, IndexLibrary
    <3> QED
      BY <3>1, <3>2
  <2> HIDE DEF order
  <2> QED
    BY <2>2, <2>3
<1>3. ASSUME NEW f \in facts
      PROVE  Number(f) \in Nat /\ Number(f) >= 1 /\ \A g \in Fact : t.row[g].at < Number(f)
  <2>1. Fact # {}
    OBVIOUS
  <2>2. /\ Index!NextNumber(t) \in Nat /\ Index!NextNumber(t) >= 1
        /\ \A g \in Fact : t.row[g].at < Index!NextNumber(t) /\ t.row[g].at \in Nat
    BY <2>1, NextIsAbove DEF Synced, Rows
  <2> HIDE DEF Place
  <2> QED
    BY <1>2, <2>2
<1>4. \A f, g \in facts : Number(f) = Number(g) => f = g
  <2> TAKE f, g \in facts
  <2>1. Index!NextNumber(t) \in Nat
    BY NextIsAbove
  <2> HIDE DEF Place
  <2>2. Number(f) = Number(g) => Place(f) = Place(g)
    BY <1>2, <2>1
  <2> QED
    BY <1>2, <2>2
<1> HIDE DEF Number
<1>5. \A f \in Fact : all.row[f] = IF f \in facts THEN [file |-> i, at |-> Number(f), state |-> disk[i][f]]
                                   ELSE t.row[f]
  BY <1>1 DEF Index!NewRow
<1>14. /\ \A f \in facts : all.row[f].file = i /\ all.row[f].at = Number(f) /\ all.row[f].state = disk[i][f]
       /\ \A f \in Fact \ facts : all.row[f] = t.row[f]
  <2>1. ASSUME NEW f \in facts
        PROVE  all.row[f].file = i /\ all.row[f].at = Number(f) /\ all.row[f].state = disk[i][f]
    <3>1. all.row[f] = [file |-> i, at |-> Number(f), state |-> disk[i][f]]
      BY <1>5
    <3> QED
      BY <3>1
  <2>2. ASSUME NEW f \in Fact \ facts PROVE all.row[f] = t.row[f]
    BY <1>5
  <2> QED
    BY <2>1, <2>2
<1>6. i # 0 /\ \A f \in facts : disk[i][f] \in Index!State
  BY DEF Index!File, Index!Content, Indexable
<1>7. all.row \in Rows
  <2>1. \A f \in facts : [file |-> i, at |-> Number(f), state |-> disk[i][f]]
                           \in [file : Index!File \union {0}, at : Nat, state : Index!State]
    BY <1>3, <1>6
  <2>2. \A f \in Fact : all.row[f] \in [file : Index!File \union {0}, at : Nat, state : Index!State]
    BY <1>5, <2>1 DEF Synced, Rows
  <2> QED
    BY <1>1, <2>2 DEF Rows
<1>8. \A f \in Fact : IF all.row[f].file = 0 THEN all.row[f] = Index!NoRow
                      ELSE all.row[f].at >= 1 /\ all.row[f].state # "none"
  <2> TAKE f \in Fact
  <2>1. CASE f \in facts
    BY <1>3, <1>6, <1>14, <2>1
  <2>2. CASE f \notin facts
    BY <1>14, <2>2 DEF Synced
  <2> QED
    BY <2>1, <2>2
<1>9. \A f \in facts : t.row[f].file = 0
  BY DEF Index!NoRow
<1>10. \A f \in Fact : t.row[f].at \in Nat /\ all.row[f].at \in Nat
  BY <1>7 DEF Synced, Rows
<1>11. ASSUME NEW f \in Fact, NEW g \in Fact, all.row[f].at = all.row[g].at, all.row[f].file # 0,
              all.row[g].file # 0
       PROVE  f = g
  <2>1. CASE f \in facts /\ g \in facts
    BY <1>4, <1>14, <1>11, <2>1
  <2>2. CASE f \in facts /\ g \notin facts
    BY <1>3, <1>14, <1>10, <1>11, <2>2
  <2>3. CASE f \notin facts /\ g \in facts
    BY <1>3, <1>14, <1>10, <1>11, <2>3
  <2>4. CASE f \notin facts /\ g \notin facts
    BY <1>14, <1>11, <2>4 DEF Synced
  <2> QED
    BY <2>1, <2>2, <2>3, <2>4
<1>12. ASSUME NEW f \in Fact, NEW n \in Nat
       PROVE  <<n, f>> \in all.words <=> all.row[f].file # 0 /\ n = all.row[f].at
  <2>1. <<n, f>> \in t.words <=> t.row[f].file # 0 /\ n = t.row[f].at
    BY DEF Synced
  <2>2. <<n, f>> \in {<<Number(g), g>> : g \in facts} <=> f \in facts /\ n = Number(f)
    OBVIOUS
  <2>3. CASE f \in facts
    BY <1>1, <1>14, <1>6, <1>9, <2>1, <2>2, <2>3
  <2>4. CASE f \notin facts
    BY <1>1, <1>14, <2>1, <2>2, <2>4
  <2> QED
    BY <2>3, <2>4
<1>13. Synced(all)
  BY <1>7, <1>8, <1>11, <1>12 DEF Synced
<1> QED
  BY <1>13, <1>14 DEF all

\* What is synced stays so where it is stored, or in the transaction.
LEMMA SyncedWhereItGoes ==
  ASSUME NEW t, Synced(t) PROVE (Stored' = t => Synced(Stored)') /\ (draft' = t => Synced(draft)')
  BY DEF Synced, Rows, Index!File, Index!State, Index!NoRow

\* What a rebuild has done stays done while neither its table nor the file changes.
LEMMA ReflectedWhereItGoes ==
  ASSUME NEW p, NEW i, NEW t, Reflects(t, i, disk), Index!Table(p)' = t, disk'[i] = disk[i]
  PROVE  Reflects(Index!Table(p), i, disk)'
  BY DEF Reflects

\* A step that leaves the tables and the files alone leaves what they hold.
LEMMA TablesStay ==
  ASSUME Indexable, IndexInv, iBreach = {}, UNCHANGED <<disk, stamp, row, words, hashes, draft,
         writer, ready>>,
         (iPc \in [Rebuilder -> {"idle", "plan", "clear", "index", "hash", "mark"}])',
         (iTodo \in [Rebuilder -> SUBSET Index!File])',
         writer # Index!NoOne => iPc'[writer] = "index",
         \A p \in Rebuilder : \/ iPc'[p] = iPc[p] /\ iTodo'[p] = iTodo[p]
                              \/ iPc'[p] \in {"idle", "clear"} /\ writer # p
                              \/ iPc'[p] = "plan" /\ hashes # Index!NoHashes
                              \/ iPc'[p] = "index" /\ \A i \in Index!File \ iTodo'[p] : Reflects(Index!Table(p), i, disk)
  PROVE  IndexInv'
<1>1. IndexTypes'
  BY DEF IndexInv, IndexTypes, Index!File, Index!Content, Index!State, Index!NoHashes, Index!NoOne
<1>2. Stored' = Stored /\ Synced(Stored)
  BY DEF Stored, IndexInv
<1>3. Synced(Stored)'
  BY <1>2, SyncedWhereItGoes
<1>4. writer' # Index!NoOne => iPc'[writer'] = "index" /\ Synced(draft)'
  BY SyncedWhereItGoes DEF IndexInv
<1>5. \A p \in Rebuilder : Index!Table(p)' = Index!Table(p)
  BY DEF Index!Table
<1>6. Rebuilding'
  <2>1. hashes' # Index!NoHashes => \A i \in Index!File : Reflects(Stored, i, hashes)'
    BY <1>2 DEF IndexInv, Rebuilding, Reflects
  <2>2. ASSUME NEW p \in Rebuilder
        PROVE  /\ iPc'[p] = "plan" => hashes' # Index!NoHashes
               /\ iPc'[p] = "mark" => iTodo'[p] = {} /\ hashes' = disk'
    BY DEF IndexInv, Rebuilding
  <2>3. ASSUME NEW p \in Rebuilder, iPc'[p] = "index", NEW i \in Index!File \ iTodo'[p]
        PROVE  Reflects(Index!Table(p), i, disk)'
    <3>1. Reflects(Index!Table(p), i, disk)
      BY <2>3 DEF IndexInv, Rebuilding
    <3> QED
      BY <1>5, <3>1, ReflectedWhereItGoes
  <2> QED
    BY <2>1, <2>2, <2>3 DEF Rebuilding, Index!NoHashes, Index!File
<1>7. Remembering'
  BY DEF IndexInv, Remembering, Index!File
<1> QED
  BY <1>1, <1>3, <1>4, <1>6, <1>7 DEF IndexInv, Index!NoOne

\* A rebuild begins.
LEMMA BeginIndexes ==
  ASSUME Indexable, IndexInv, iBreach = {}, NEW p \in Rebuilder, NEW full, Index!Begin(p, full)
  PROVE IndexInv'
<1>1. /\ iPc[p] = "idle" /\ UNCHANGED <<disk, stamp, row, words, hashes, draft, writer, ready, iTodo>>
      /\ \/ iPc' = [iPc EXCEPT ![p] = "clear"]
         \/ iPc' = [iPc EXCEPT ![p] = "plan"] /\ hashes # Index!NoHashes
  BY DEF Index!Begin, Index!Goto
<1>2. /\ iPc' \in [Rebuilder -> {"idle", "plan", "clear", "index", "hash", "mark"}] /\ iTodo' \in [Rebuilder -> SUBSET Index!File]
      /\ \A q \in Rebuilder : q # p => iPc'[q] = iPc[q]
      /\ iPc'[p] = "clear" \/ (iPc'[p] = "plan" /\ hashes # Index!NoHashes)
  BY <1>1 DEF IndexInv, IndexTypes
<1>3. writer # p /\ (writer # Index!NoOne => writer \in Rebuilder /\ iPc'[writer] = "index")
  BY <1>1, <1>2 DEF IndexInv, IndexTypes, Indexable
<1> QED
  BY <1>1, <1>2, <1>3, TablesStay DEF Index!File

\* The files that have changed are to be read again.
LEMMA PlanIndexes ==
  ASSUME Indexable, IndexInv, iBreach = {}, NEW p \in Rebuilder, Index!Plan(p) PROVE IndexInv'
<1>1. /\ iPc[p] = "plan" /\ UNCHANGED <<disk, stamp, row, words, hashes, draft, writer, ready>>
      /\ iPc' = [iPc EXCEPT ![p] = "index"]
      /\ iTodo' = [iTodo EXCEPT ![p] = {i \in Index!File : disk[i] # hashes[i]}]
  BY DEF Index!Plan, Index!Goto
<1>2. /\ iPc' \in [Rebuilder -> {"idle", "plan", "clear", "index", "hash", "mark"}] /\ iTodo' \in [Rebuilder -> SUBSET Index!File]
      /\ \A q \in Rebuilder : q # p => iPc'[q] = iPc[q] /\ iTodo'[q] = iTodo[q]
      /\ iPc'[p] = "index" /\ iTodo'[p] = {i \in Index!File : disk[i] # hashes[i]}
  BY <1>1 DEF IndexInv, IndexTypes
<1>3. writer # p /\ (writer # Index!NoOne => writer \in Rebuilder /\ iPc'[writer] = "index")
  BY <1>1, <1>2 DEF IndexInv, IndexTypes, Indexable
<1>4. ASSUME NEW i \in Index!File \ iTodo'[p] PROVE Reflects(Index!Table(p), i, disk)
  <2>1. disk[i] = hashes[i] /\ hashes # Index!NoHashes /\ Index!Table(p) = Stored
    BY <1>1, <1>2, <1>3, <1>4 DEF IndexInv, Rebuilding, Index!Table, Stored
  <2> QED
    BY <2>1 DEF IndexInv, Rebuilding, Reflects
<1> QED
  BY <1>1, <1>2, <1>3, <1>4, TablesStay DEF Index!File

\* What the server remembers.
LEMMA RememberedRight ==
  ASSUME Indexable, IndexInv, iBreach = {}, UNCHANGED <<disk, stamp, row, words, hashes, draft,
         writer, iTodo, iBreach>>,
         iPc' = iPc \/ \E p \in Rebuilder : iPc[p] = "mark" /\ iPc' = [iPc EXCEPT ![p] = "idle"],
         ready' = ready \/ (ready'.answer => ready'.for = stamp /\ hashes = disk)
  PROVE  IndexInv'
<1>1. /\ (iPc \in [Rebuilder -> {"idle", "plan", "clear", "index", "hash", "mark"}])'
      /\ \A q \in Rebuilder : iPc'[q] = iPc[q] \/ (iPc[q] = "mark" /\ iPc'[q] = "idle")
  BY DEF IndexInv, IndexTypes
<1>2. IndexTypes'
  BY <1>1 DEF IndexInv, IndexTypes, Index!File, Index!Content, Index!State, Index!NoHashes,
     Index!NoOne
<1>3. Stored' = Stored /\ Synced(Stored)
  BY DEF Stored, IndexInv
<1>4. Synced(Stored)'
  BY <1>3, SyncedWhereItGoes
<1>5. writer' # Index!NoOne => iPc'[writer'] = "index" /\ Synced(draft)'
  <2>1. writer # Index!NoOne => writer \in Rebuilder /\ iPc[writer] = "index"
    BY DEF IndexInv, IndexTypes
  <2> QED
    BY <1>1, <2>1, SyncedWhereItGoes DEF IndexInv
<1>6. \A p \in Rebuilder : Index!Table(p)' = Index!Table(p)
  BY DEF Index!Table
<1>7. Rebuilding'
  <2>1. hashes' # Index!NoHashes => \A i \in Index!File : Reflects(Stored, i, hashes)'
    BY <1>3 DEF IndexInv, Rebuilding, Reflects
  <2>2. ASSUME NEW p \in Rebuilder
        PROVE  /\ iPc'[p] = "plan" => hashes' # Index!NoHashes
               /\ iPc'[p] = "mark" => iTodo'[p] = {} /\ hashes' = disk'
    BY <1>1 DEF IndexInv, Rebuilding
  <2>3. ASSUME NEW p \in Rebuilder, iPc'[p] = "index", NEW i \in Index!File \ iTodo'[p]
        PROVE  Reflects(Index!Table(p), i, disk)'
    <3>1. Reflects(Index!Table(p), i, disk)
      BY <1>1, <2>3 DEF IndexInv, Rebuilding
    <3> QED
      BY <1>6, <3>1, ReflectedWhereItGoes
  <2> QED
    BY <2>1, <2>2, <2>3 DEF Rebuilding, Index!NoHashes, Index!File
<1>8. Remembering'
  <2>1. stamp \in [Index!File -> Nat] /\ stamp' = stamp /\ hashes' = hashes /\ disk' = disk
    BY DEF IndexInv, IndexTypes
  <2>2. CASE ready' = ready
    BY <2>1, <2>2 DEF IndexInv, Remembering, Index!File
  <2>3. CASE ready'.answer => ready'.for = stamp /\ hashes = disk
    <3>1. \A i \in Index!File : stamp[i] <= stamp[i]
      BY <2>1
    <3> QED
      BY <2>1, <2>3, <3>1 DEF Remembering, Index!File
  <2> QED
    BY <2>2, <2>3
<1> QED
  BY <1>2, <1>4, <1>5, <1>7, <1>8 DEF IndexInv, Index!NoOne

\* A transaction goes on: its table changes, and no other's.
LEMMA WriterGoesOn ==
  ASSUME Indexable, IndexInv, iBreach = {}, NEW p \in Rebuilder, writer \in {p, Index!NoOne},
         UNCHANGED <<disk, stamp, row, words, hashes, ready>>, writer' = p, Synced(draft)',
         iPc' = [iPc EXCEPT ![p] = "index"],
         NEW rest \in SUBSET Index!File, iTodo' = [iTodo EXCEPT ![p] = rest],
         \A i \in Index!File \ rest : Reflects(draft', i, disk)
  PROVE  IndexInv'
<1>1. /\ (iPc \in [Rebuilder -> {"idle", "plan", "clear", "index", "hash", "mark"}])' /\ iPc'[p] = "index"
      /\ \A q \in Rebuilder : q # p => iPc'[q] = iPc[q] /\ iTodo'[q] = iTodo[q]
      /\ iTodo' \in [Rebuilder -> SUBSET Index!File] /\ iTodo'[p] = rest /\ p # Index!NoOne
  BY DEF IndexInv, IndexTypes, Indexable
<1>2. IndexTypes'
  BY <1>1 DEF IndexInv, IndexTypes, Index!File, Index!Content, Index!State, Index!NoHashes,
     Index!NoOne
<1>3. Stored' = Stored /\ Synced(Stored)
  BY DEF Stored, IndexInv
<1>4. Synced(Stored)'
  BY <1>3, SyncedWhereItGoes
<1>5. Index!Table(p)' = draft' /\ \A q \in Rebuilder : q # p => Index!Table(q)' = Index!Table(q)
  BY <1>1 DEF Index!Table, Indexable
<1>6. Rebuilding'
  <2>1. hashes' # Index!NoHashes => \A i \in Index!File : Reflects(Stored, i, hashes)'
    BY <1>3 DEF IndexInv, Rebuilding, Reflects
  <2>2. ASSUME NEW q \in Rebuilder
        PROVE  /\ iPc'[q] = "plan" => hashes' # Index!NoHashes
               /\ iPc'[q] = "mark" => iTodo'[q] = {} /\ hashes' = disk'
    BY <1>1 DEF IndexInv, Rebuilding
  <2>3. ASSUME NEW q \in Rebuilder, iPc'[q] = "index", NEW i \in Index!File \ iTodo'[q]
        PROVE  Reflects(Index!Table(q), i, disk)'
    <3>1. CASE q = p
      BY <1>1, <1>5, <2>3, <3>1 DEF Reflects
    <3>2. CASE q # p
      <4>1. Reflects(Index!Table(q), i, disk)
        BY <1>1, <2>3, <3>2 DEF IndexInv, Rebuilding
      <4> QED
        BY <1>5, <3>2, <4>1, ReflectedWhereItGoes
    <3> QED
      BY <3>1, <3>2
  <2> QED
    BY <2>1, <2>2, <2>3 DEF Rebuilding, Index!NoHashes, Index!File
<1>7. Remembering'
  BY DEF IndexInv, Remembering, Index!File
<1> QED
  BY <1>1, <1>2, <1>4, <1>6, <1>7 DEF IndexInv, Index!NoOne

\* A full rebuild deletes all rows.
LEMMA ClearIndexes ==
  ASSUME Indexable, IndexInv, iBreach = {}, NEW p \in Rebuilder, Index!Clear(p) PROVE IndexInv'
<1>1. /\ writer = Index!NoOne /\ writer' = p /\ UNCHANGED <<disk, stamp, row, words, hashes, ready>>
      /\ draft' = Index!DeleteRows(Stored, {f \in Fact : row[f] # Index!NoRow})
      /\ iPc' = [iPc EXCEPT ![p] = "index"] /\ iTodo' = [iTodo EXCEPT ![p] = Index!File]
  BY DEF Index!Clear, Index!Goto, Stored
<1>2. Synced(Index!DeleteRows(Stored, {f \in Fact : row[f] # Index!NoRow}))
  BY DeletedTogether DEF IndexInv
<1>3. Synced(draft)'
  BY <1>1, <1>2, SyncedWhereItGoes
<1>4. Index!File \in SUBSET Index!File /\ \A i \in Index!File \ Index!File : Reflects(draft', i, disk)
  OBVIOUS
<1> QED
  BY <1>1, <1>3, <1>4, WriterGoesOn

\* A file is read: its rows go and those of its facts come.
LEMMA FileIndexes ==
  ASSUME Indexable, IndexInv, iBreach = {}, iBreach' = {}, NEW p \in Rebuilder,
         NEW i \in Index!File, Index!IndexFile(p, i)
  PROVE  IndexInv'
<1> DEFINE t == Index!Table(p)
           kept == Index!DeleteRows(t, Index!From(t, i))
           all == Index!InsertAll(kept, Index!Held(i), i)
<1>1. /\ iPc[p] = "index" /\ writer \in {p, Index!NoOne} /\ writer' = p
      /\ UNCHANGED <<disk, stamp, row, words, hashes, ready, iPc>>
      /\ draft' = all /\ iTodo' = [iTodo EXCEPT ![p] = iTodo[p] \ {i}] /\ ~Index!Replaced(kept, i)
  BY DEF Index!IndexFile, Index!MayWrite
<1>2. Synced(t)
  BY <1>1 DEF IndexInv, Index!Table, Stored, Indexable
<1>3. \A j \in Index!File \ iTodo[p] : Reflects(t, j, disk)
  BY <1>1 DEF IndexInv, Rebuilding
<1> HIDE DEF t
<1>4. /\ Index!From(t, i) = {f \in Fact : t.row[f].file = i}
      /\ Index!Held(i) = {f \in Fact : disk[i][f] # "none"}
      /\ i # 0
  BY DEF Index!From, Index!Held, Index!File, Indexable
<1>5. /\ Synced(kept)
      /\ \A f \in Fact : kept.row[f] = IF t.row[f].file = i THEN Index!NoRow ELSE t.row[f]
  BY <1>2, <1>4, DeletedTogether
<1> HIDE DEF kept
<1>6. \A f \in Index!Held(i) : kept.row[f] = Index!NoRow /\ disk[i][f] # "none"
  BY <1>1, <1>4 DEF Index!Replaced
<1>7. disk \in [Index!File -> Index!Content] /\ Index!Held(i) \subseteq Fact
  BY <1>4 DEF IndexInv, IndexTypes
<1>8. /\ Synced(all)
      /\ \A f \in Fact : IF f \in Index!Held(i) THEN all.row[f].file = i /\ all.row[f].state = disk[i][f]
                         ELSE all.row[f] = kept.row[f]
  BY <1>5, <1>6, <1>7, InsertedTogether
<1> HIDE DEF all
<1>9. ASSUME NEW j \in Index!File \ (iTodo[p] \ {i}) PROVE Reflects(draft', j, disk)
  <2>1. Index!NoRow.file = 0 /\ j # 0
    BY DEF Index!NoRow, Index!File, Indexable
  <2> SUFFICES ASSUME NEW f \in Fact
               PROVE  /\ disk[j][f] # "none" <=> all.row[f].file = j
                      /\ all.row[f].file = j => all.row[f].state = disk[j][f]
    BY <1>1 DEF Reflects
  <2>2. CASE j = i
    BY <1>4, <1>5, <1>8, <2>1, <2>2
  <2>3. CASE j # i
    <3>1. /\ disk[j][f] # "none" <=> t.row[f].file = j
          /\ t.row[f].file = j => t.row[f].state = disk[j][f]
      BY <1>3, <1>9, <2>3 DEF Reflects
    <3>2. CASE f \in Index!Held(i)
      <4>1. all.row[f].file = i /\ t.row[f].file # j
        BY <1>5, <1>6, <1>8, <2>1, <2>3, <3>2
      <4> QED
        BY <2>3, <3>1, <4>1
    <3>3. CASE f \notin Index!Held(i)
      BY <1>5, <1>8, <2>1, <2>3, <3>1, <3>3
    <3> QED
      BY <3>2, <3>3
  <2> QED
    BY <2>2, <2>3
<1>10. Synced(draft)'
  BY <1>1, <1>8, SyncedWhereItGoes
<1>11. iPc' = [iPc EXCEPT ![p] = "index"] /\ iTodo[p] \ {i} \in SUBSET Index!File
  BY <1>1 DEF IndexInv, IndexTypes
<1> QED
  BY <1>1, <1>9, <1>10, <1>11, WriterGoesOn

\* The transaction is committed, with the hashes of the files.
LEMMA CommitIndexes ==
  ASSUME Indexable, IndexInv, iBreach = {}, NEW p \in Rebuilder, Index!Commit(p) PROVE IndexInv'
<1> DEFINE t == Index!Table(p)
<1>1. /\ iPc[p] = "index" /\ iTodo[p] = {} /\ writer \in {p, Index!NoOne} /\ writer' = Index!NoOne
      /\ UNCHANGED <<disk, stamp, ready, iTodo>> /\ hashes' = disk
      /\ row' = t.row /\ words' = t.words /\ iPc' = [iPc EXCEPT ![p] = "mark"]
  BY DEF Index!Commit, Index!MayWrite, Index!Goto
<1>2. Synced(t)
  BY <1>1 DEF IndexInv, Index!Table, Stored, Indexable
<1>3. \A i \in Index!File : Reflects(t, i, disk)
  BY <1>1 DEF IndexInv, Rebuilding
<1> HIDE DEF t
<1>4. Synced(Stored)'
  BY <1>1, <1>2 DEF Synced, Stored, Rows, Index!File, Index!State, Index!NoRow
<1>5. /\ iPc' \in [Rebuilder -> {"idle", "plan", "clear", "index", "hash", "mark"}] /\ iPc'[p] = "mark"
      /\ \A q \in Rebuilder : q # p => iPc'[q] = iPc[q]
  BY <1>1 DEF IndexInv, IndexTypes
<1>6. IndexTypes'
  BY <1>1, <1>5 DEF IndexInv, IndexTypes, Index!File, Index!Content, Index!State, Index!NoHashes,
     Index!NoOne
<1>7. \A q \in Rebuilder : Index!Table(q)'.row = t.row
  BY <1>1 DEF Index!Table, Indexable
<1>8. Rebuilding'
  <2>1. \A i \in Index!File : Reflects(Stored, i, hashes)'
    BY <1>1, <1>3 DEF Reflects, Stored
  <2>2. ASSUME NEW q \in Rebuilder
        PROVE  /\ iPc'[q] = "plan" => hashes' # Index!NoHashes
               /\ iPc'[q] = "mark" => iTodo'[q] = {} /\ hashes' = disk'
    <3>1. CASE q = p
      BY <1>1, <1>5, <3>1
    <3>2. CASE q # p
      <4>1. iPc[q] = "plan" => hashes' # Index!NoHashes
        <5> SUFFICES ASSUME iPc[q] = "plan" PROVE disk # Index!NoHashes
          BY <1>1
        <5>1. hashes # Index!NoHashes
          BY DEF IndexInv, Rebuilding
        <5>2. hashes \in [Index!File -> Index!Content] /\ disk \in [Index!File -> Index!Content]
          BY <5>1 DEF IndexInv, IndexTypes
        <5> QED
          BY <5>1, <5>2, NoHashesOfNoFiles
      <4> QED
        BY <1>1, <1>5, <3>2, <4>1 DEF IndexInv, Rebuilding
    <3> QED
      BY <3>1, <3>2
  <2>3. ASSUME NEW q \in Rebuilder, NEW i \in Index!File PROVE Reflects(Index!Table(q), i, disk)'
    BY <1>1, <1>3, <1>7 DEF Reflects
  <2> QED
    BY <2>1, <2>2, <2>3 DEF Rebuilding, Index!NoHashes, Index!File
<1>9. Remembering'
  BY <1>1 DEF IndexInv, Remembering, Index!File
<1> QED
  BY <1>1, <1>4, <1>6, <1>8, <1>9 DEF IndexInv, Index!NoOne

\* A process dies, and its transaction with it.
LEMMA FailIndexes ==
  ASSUME Indexable, IndexInv, iBreach = {}, NEW p \in Rebuilder, Index!Fail(p) PROVE IndexInv'
<1>1. /\ iPc[p] # "idle" /\ iPc' = [iPc EXCEPT ![p] = "idle"] /\ UNCHANGED <<disk, stamp, row, words, hashes, iTodo>>
      /\ \/ writer = p /\ writer' = Index!NoOne
         \/ writer # p /\ writer' = writer /\ draft' = draft
      /\ ready' \in {ready, Index!NoAnswer}
  BY DEF Index!Fail, Index!Goto
<1>2. /\ iPc' \in [Rebuilder -> {"idle", "plan", "clear", "index", "hash", "mark"}] /\ iPc'[p] = "idle"
      /\ \A q \in Rebuilder : q # p => iPc'[q] = iPc[q]
  BY <1>1 DEF IndexInv, IndexTypes
<1>3. IndexTypes'
  BY <1>1, <1>2 DEF IndexInv, IndexTypes, Index!File, Index!Content, Index!State, Index!NoHashes,
     Index!NoOne
<1>4. Stored' = Stored /\ Synced(Stored)
  BY <1>1 DEF Stored, IndexInv
<1>5. Synced(Stored)'
  BY <1>4, SyncedWhereItGoes
<1>6. writer' # Index!NoOne => iPc'[writer'] = "index" /\ Synced(draft)'
  <2>1. writer # Index!NoOne => writer \in Rebuilder /\ iPc[writer] = "index"
    BY DEF IndexInv, IndexTypes
  <2> QED
    BY <1>1, <1>2, <2>1, SyncedWhereItGoes DEF IndexInv
<1>7. \A q \in Rebuilder : q # p => Index!Table(q)' = Index!Table(q)
  BY <1>1 DEF Index!Table, Indexable
<1>8. Rebuilding'
  <2>1. hashes' # Index!NoHashes => \A i \in Index!File : Reflects(Stored, i, hashes)'
    BY <1>1, <1>4 DEF IndexInv, Rebuilding, Reflects
  <2>2. ASSUME NEW q \in Rebuilder
        PROVE  /\ iPc'[q] = "plan" => hashes' # Index!NoHashes
               /\ iPc'[q] = "mark" => iTodo'[q] = {} /\ hashes' = disk'
    BY <1>1, <1>2 DEF IndexInv, Rebuilding
  <2>3. ASSUME NEW q \in Rebuilder, iPc'[q] = "index", NEW i \in Index!File \ iTodo'[q]
        PROVE  Reflects(Index!Table(q), i, disk)'
    <3>1. q # p /\ Reflects(Index!Table(q), i, disk)
      BY <1>1, <1>2, <2>3 DEF IndexInv, Rebuilding
    <3> QED
      BY <1>1, <1>7, <3>1, ReflectedWhereItGoes
  <2> QED
    BY <2>1, <2>2, <2>3 DEF Rebuilding, Index!NoHashes, Index!File
<1>9. Remembering'
  <2>1. CASE ready' = ready
    BY <1>1, <2>1 DEF IndexInv, Remembering, Index!File
  <2>2. CASE ready' = Index!NoAnswer
    BY <2>2 DEF Remembering, Index!NoAnswer
  <2> QED
    BY <1>1, <2>1, <2>2
<1> QED
  BY <1>3, <1>5, <1>6, <1>8, <1>9 DEF IndexInv, Index!NoOne

\* A file changes that no rebuild has read.
LEMMA EditIndexes ==
  ASSUME Indexable, IndexInv, iBreach = {}, iBreach' = {}, NEW i \in Index!File, NEW f \in Fact,
         NEW s \in Index!State,
         Index!Edit(i, f, s)
  PROVE  IndexInv'
<1>1. /\ disk' = [disk EXCEPT ![i][f] = s] /\ stamp' = [stamp EXCEPT ![i] = @ + 1]
      /\ UNCHANGED <<row, words, hashes, draft, writer, iPc, iTodo, ready>> /\ ~Index!Read(i)
  BY DEF Index!Edit, Index!Touch
<1>2. /\ disk' \in [Index!File -> Index!Content] /\ \A j \in Index!File : j # i => disk'[j] = disk[j]
      /\ stamp' \in [Index!File -> Nat] /\ stamp'[i] = stamp[i] + 1
      /\ \A j \in Index!File : stamp[j] <= stamp'[j] /\ stamp[j] \in Nat
  BY <1>1 DEF IndexInv, IndexTypes, Index!Content
<1>3. IndexTypes'
  BY <1>1, <1>2 DEF IndexInv, IndexTypes, Index!File, Index!Content, Index!State, Index!NoHashes,
     Index!NoOne
<1>4. Stored' = Stored /\ Synced(Stored)
  BY <1>1 DEF Stored, IndexInv
<1>5. Synced(Stored)'
  BY <1>4, SyncedWhereItGoes
<1>6. writer' # Index!NoOne => iPc'[writer'] = "index" /\ Synced(draft)'
  BY <1>1, SyncedWhereItGoes DEF IndexInv
<1>7. \A q \in Rebuilder : Index!Table(q)' = Index!Table(q)
  BY <1>1 DEF Index!Table
<1>8. \A q \in Rebuilder : iPc[q] # "mark" /\ (iPc[q] = "index" => i \in iTodo[q])
  BY <1>1 DEF Index!Read, IndexInv, Rebuilding
<1>9. Rebuilding'
  <2>1. hashes' # Index!NoHashes => \A j \in Index!File : Reflects(Stored, j, hashes)'
    BY <1>1, <1>4 DEF IndexInv, Rebuilding, Reflects
  <2>2. ASSUME NEW q \in Rebuilder
        PROVE  (iPc'[q] = "plan" => hashes' # Index!NoHashes) /\ iPc'[q] # "mark"
    BY <1>1, <1>8 DEF IndexInv, Rebuilding
  <2>3. ASSUME NEW q \in Rebuilder, iPc'[q] = "index", NEW j \in Index!File \ iTodo'[q]
        PROVE  Reflects(Index!Table(q), j, disk)'
    <3>1. j # i /\ Reflects(Index!Table(q), j, disk)
      BY <1>1, <1>8, <2>3 DEF IndexInv, Rebuilding
    <3> QED
      BY <1>2, <1>7, <3>1, ReflectedWhereItGoes
  <2> QED
    BY <2>1, <2>2, <2>3 DEF Rebuilding, Index!NoHashes, Index!File
<1>10. Remembering'
  <2> SUFFICES ASSUME ready.answer
               PROVE  /\ ready.for \in [Index!File -> Nat] /\ \A j \in Index!File : ready.for[j] <= stamp'[j]
                      /\ ready.for # stamp'
    BY <1>1 DEF Remembering, Index!File
  <2>1. ready.for \in [Index!File -> Nat] /\ \A j \in Index!File : ready.for[j] <= stamp[j]
    BY DEF IndexInv, Remembering
  <2>2. ready.for[i] # stamp'[i] /\ \A j \in Index!File : ready.for[j] <= stamp'[j]
    BY <1>2, <2>1
  <2> QED
    BY <2>1, <2>2
<1> QED
  BY <1>3, <1>5, <1>6, <1>9, <1>10 DEF IndexInv, Index!NoOne

\* A search finds what the files hold.
LEMMA HitsAreRight ==
  ASSUME Indexable, IndexInv, iBreach = {}, hashes = disk, NEW f \in Fact
  PROVE  Index!Hits(f) = IF Index!LiveIn(f) = {} THEN {} ELSE {f}
<1>1. Synced(Stored) /\ disk \in [Index!File -> Index!Content]
  BY DEF IndexInv, IndexTypes
<1>2. \A i \in Index!File : Reflects(Stored, i, disk)
  <2>1. CASE hashes # Index!NoHashes
    BY <2>1 DEF IndexInv, Rebuilding
  <2>2. CASE hashes = Index!NoHashes
    BY <1>1, <2>2, NoHashesOfNoFiles
  <2> QED
    BY <2>1, <2>2
<1>3. ASSUME NEW g \in Index!Hits(f) PROVE g = f /\ row[f].state = "live"
  <2>1. g \in Fact /\ row[g].state = "live" /\ <<row[g].at, f>> \in words
    BY DEF Index!Hits
  <2>2. row[g].at \in Nat
    BY <1>1, <2>1 DEF Synced, Stored, Rows
  <2>3. row[f].file # 0 /\ row[g].at = row[f].at
    BY <1>1, <2>1, <2>2 DEF Synced, Stored
  <2>4. row[g].file # 0
    BY <1>1, <2>1 DEF Synced, Stored, Index!NoRow
  <2> QED
    BY <1>1, <2>1, <2>3, <2>4 DEF Synced, Stored
<1>4. row[f].state = "live" => f \in Index!Hits(f)
  <2> SUFFICES ASSUME row[f].state = "live" PROVE <<row[f].at, f>> \in words
    BY DEF Index!Hits
  <2>1. row[f].file # 0
    BY <1>1 DEF Synced, Stored, Index!NoRow
  <2>2. row[f].at \in Nat
    BY <1>1 DEF Synced, Stored, Rows
  <2> QED
    BY <1>1, <2>1, <2>2 DEF Synced, Stored
<1>5. row[f].state = "live" => Index!LiveIn(f) # {}
  <2> SUFFICES ASSUME row[f].state = "live" PROVE Index!LiveIn(f) # {}
    OBVIOUS
  <2>1. row[f].file # 0 /\ row[f].file \in Index!File \union {0}
    BY <1>1 DEF Synced, Stored, Rows, Index!NoRow
  <2>2. disk[row[f].file][f] = "live"
    BY <1>2, <2>1 DEF Reflects, Stored
  <2> QED
    BY <2>1, <2>2 DEF Index!LiveIn
<1>6. ASSUME NEW i \in Index!LiveIn(f) PROVE row[f].state = "live"
  <2>1. i \in Index!File /\ disk[i][f] = "live"
    BY DEF Index!LiveIn
  <2> QED
    BY <1>2, <2>1 DEF Reflects, Stored
<1>7. CASE Index!LiveIn(f) = {}
  BY <1>3, <1>5, <1>7
<1>8. CASE Index!LiveIn(f) # {}
  BY <1>3, <1>4, <1>6, <1>8
<1> QED
  BY <1>7, <1>8

\* Whatever rebuilds run, fail and overlap while files change: an index whose hashes are those
\* of the files finds what they hold, and an injection overlooks no fact because of it.
THEOREM IndexStaysRight ==
  Indexable => (Index!Spec => [](Index!FreshIndexIsRight /\ Index!InjectionMissesNothing))
<1> SUFFICES ASSUME Indexable
             PROVE Index!Spec => [](Index!FreshIndexIsRight /\ Index!InjectionMissesNothing)
  OBVIOUS
<1>1. Index!Init => IndexInv
  <2> SUFFICES ASSUME Index!Init PROVE IndexInv
    OBVIOUS
  <2>1. row = [f \in Fact |-> Index!NoRow] /\ words = {}
    BY DEF Index!Init, Index!Empty
  <2>2. Synced(Stored)
    BY <2>1 DEF Synced, Stored, Rows, Index!NoRow, Index!State
  <2>3. IndexTypes
    BY DEF Index!Init, IndexTypes, Index!Content, Index!State
  <2> QED
    BY <2>2, <2>3 DEF Index!Init, IndexInv, Rebuilding, Remembering, Index!NoAnswer
<1>2. IndexInv /\ [Index!Next]_(Index!vars) => IndexInv'
  <2> SUFFICES ASSUME IndexInv, [Index!Next]_(Index!vars), iBreach' = {} PROVE IndexInv'
    BY DEF IndexInv
  <2>1. iBreach = {}
    BY DEF Index!Next, Index!vars, Index!Begin, Index!Plan, Index!Clear, Index!IndexFile,
           Index!Commit, Index!Mark,
           Index!Fail, Index!Edit, Index!Touch, Index!Ask
  <2>2. CASE UNCHANGED Index!vars
    BY <2>1, <2>2, RememberedRight DEF Index!vars
  <2>3. ASSUME NEW p \in Rebuilder, Index!Mark(p) PROVE IndexInv'
    <3>1. /\ UNCHANGED <<disk, stamp, row, words, hashes, draft, writer, iTodo, iBreach>> /\ iPc[p] = "mark"
          /\ iPc' = [iPc EXCEPT ![p] = "idle"] /\ ready' \in {ready, [for |-> stamp, answer |-> TRUE]}
      BY <2>3 DEF Index!Mark, Index!Goto
    <3>2. hashes = disk
      BY <2>1, <3>1 DEF IndexInv, Rebuilding
    <3>3. ready' = ready \/ (ready'.answer => ready'.for = stamp /\ hashes = disk)
      <4>1. CASE ready' = [for |-> stamp, answer |-> TRUE]
        BY <3>2, <4>1
      <4> QED
        BY <3>1, <4>1
    <3>4. \E q \in Rebuilder : iPc[q] = "mark" /\ iPc' = [iPc EXCEPT ![q] = "idle"]
      BY <3>1
    <3> QED
      BY <2>1, <3>1, <3>3, <3>4, RememberedRight
  <2>4. CASE Index!Ask
    <3>1. /\ UNCHANGED <<disk, stamp, row, words, hashes, draft, writer, iTodo, iPc, iBreach>>
          /\ ready' = [for |-> stamp, answer |-> Index!Trusted]
      BY <2>4 DEF Index!Ask
    <3>2. Index!Trusted => hashes = disk
      BY <2>1 DEF Index!Trusted, IndexInv, Remembering
    <3> QED
      BY <2>1, <3>1, <3>2, RememberedRight
  <2> QED
    BY <2>1, <2>2, <2>3, <2>4, BeginIndexes, PlanIndexes, ClearIndexes, FileIndexes, CommitIndexes,
       FailIndexes,
       EditIndexes DEF Index!Next
<1>3. IndexInv => Index!FreshIndexIsRight
  BY HitsAreRight DEF Index!FreshIndexIsRight
<1>4. IndexInv => Index!InjectionMissesNothing
  <2> SUFFICES ASSUME IndexInv, iBreach = {}, NEW f \in Fact, Index!LiveIn(f) # {}
               PROVE f \in Index!Candidates
    BY DEF Index!InjectionMissesNothing
  <2>1. CASE Index!Trusted
    <3>1. hashes = disk
      BY <2>1 DEF Index!Trusted, IndexInv, Remembering
    <3>2. f \in Index!Hits(f)
      BY <3>1, HitsAreRight
    <3> QED
      BY <2>1, <3>2 DEF Index!Candidates
  <2>2. CASE ~Index!Trusted
    BY <2>2 DEF Index!Candidates
  <2> QED
    BY <2>1, <2>2
<1> QED
  BY <1>1, <1>2, <1>3, <1>4, PTL DEF Index!Spec

-----------------------------------------------------------------------------
(* The cache of vectors (SemanticCache).                                    *)

CONSTANT Model
VARIABLES config, cache, ePc, job, used, eActs

Vectors == INSTANCE SemanticCache WITH
  MaxActs <- MaxActs["Vectors"], pc <- ePc, acts <- eActs

\* Neither a fact nor a model has the name of nothing.
Named == Vectors!None \notin Fact \union Model

\* The contents of a cache file.
CacheFile == [key : Model \union {Vectors!None}, torn : BOOLEAN,
              entry : [Fact -> Vectors!Vector \union {Vectors!NoVector}]]

\* Every vector of a cache is of the text of the fact it stands for.
OfItsFact(c) == \A f \in Fact : c.entry[f] = Vectors!NoVector \/ c.entry[f].of = f

\* All vectors of a cache are of one model.
OfModel(c, m) == \A f \in Fact : c.entry[f] = Vectors!NoVector \/ c.entry[f].model = m

Sound(c) == c \in CacheFile /\ OfItsFact(c) /\ (c.key # Vectors!None => OfModel(c, c.key))

\* A command has compared nothing until it ends, and what it fills in is of its model.
Command(p) ==
  /\ ePc[p] # "idle" => job[p].model \in Model /\ used[p] = {}
  /\ ePc[p] \in {"embed", "write"} =>
        job[p].read \in CacheFile /\ OfItsFact(job[p].read) /\ OfModel(job[p].read, job[p].model)
  /\ ePc[p] = "write" => job[p].read.key = job[p].model
  /\ \A v \in Vectors!Vector, f \in Fact :
       <<v, f>> \in used[p] => v = [of |-> f, model |-> job[p].model]

Fields == {"model", "force", "asks", "wanted", "legacy", "read", "pending"}
VectorsInv ==
  /\ Sound(cache) /\ config \in Model
  /\ ePc \in [Proc -> {"idle", "load", "embed", "write", "rank"}] /\ DOMAIN used = Proc
  /\ DOMAIN job = Proc /\ \A p \in Proc : DOMAIN job[p] = Fields
  /\ \A p \in Proc : Command(p)

\* A command's own step is what changes it.
LEMMA OthersWait ==
  ASSUME VectorsInv, NEW p \in Proc, Sound(cache)', config' \in Model, Command(p)',
         NEW step \in {"idle", "load", "embed", "write", "rank"}, ePc' = [ePc EXCEPT ![p] = step],
         DOMAIN used' = Proc, DOMAIN job' = Proc, DOMAIN job'[p] = Fields,
         \A q \in Proc : q # p => job'[q] = job[q] /\ used'[q] = used[q]
  PROVE  VectorsInv'
<1>1. ASSUME NEW q \in Proc, q # p PROVE Command(q)'
  <2>1. ePc'[q] = ePc[q] /\ job'[q] = job[q] /\ used'[q] = used[q] /\ Command(q)
    BY <1>1 DEF VectorsInv
  <2> QED
    BY <2>1 DEF Command, CacheFile, OfItsFact, OfModel, Vectors!Vector, Vectors!NoVector,
       Vectors!None
<1>2. ePc' \in [Proc -> {"idle", "load", "embed", "write", "rank"}]
  BY DEF VectorsInv
<1>3. \A q \in Proc : DOMAIN job'[q] = Fields
  BY DEF VectorsInv, Fields
<1> QED
  BY <1>1, <1>2, <1>3 DEF VectorsInv, Fields

\* Reading a cache gives a sound one, and one that need not be rebuilt is of the model.
LEMMA LoadedIsSound ==
  ASSUME Sound(cache), Named
  PROVE  /\ Sound(Vectors!Loaded)
         /\ \A m \in Model : Vectors!State(Vectors!Loaded, m) # "rebuild" => OfModel(Vectors!Loaded, m)
<1>1. Sound(Vectors!Empty)
  BY DEF Sound, CacheFile, OfItsFact, OfModel, Vectors!Empty
<1>2. Sound(Vectors!Loaded)
  BY <1>1 DEF Vectors!Loaded
<1>3. ASSUME NEW c, Sound(c), NEW m \in Model, Vectors!State(c, m) # "rebuild" PROVE OfModel(c, m)
  <2>1. CASE c.key # Vectors!None
    BY <1>3, <2>1 DEF Vectors!State, Sound
  <2>2. CASE c.key = Vectors!None
    <3>1. Vectors!Signatures(c) \subseteq {m}
      BY <1>3, <2>2 DEF Vectors!State
    <3> QED
      BY <3>1 DEF Vectors!Signatures, OfModel
  <2> QED
    BY <2>1, <2>2
<1> QED
  BY <1>2, <1>3

\* A command begins.
LEMMA BeginStays == ASSUME VectorsInv, NEW p \in Proc, Vectors!Begin(p) PROVE VectorsInv'
<1>1. /\ ePc' = [ePc EXCEPT ![p] = "load"] /\ used' = [used EXCEPT ![p] = {}] /\ UNCHANGED <<config, cache>>
      /\ \E force \in BOOLEAN, asks \in BOOLEAN, wanted \in SUBSET Fact :
           job' = [job EXCEPT ![p] = [Vectors!NoJob EXCEPT !.model = config, !.force = force, !.asks = asks,
                                                           !.wanted = wanted]]
  BY DEF Vectors!Begin
<1>2. /\ job'[p].model = config /\ DOMAIN job'[p] = Fields /\ DOMAIN job' = Proc
      /\ \A q \in Proc : q # p => job'[q] = job[q]
  BY <1>1 DEF VectorsInv, Vectors!NoJob, Fields
<1>3. used'[p] = {} /\ DOMAIN used' = Proc /\ \A q \in Proc : q # p => used'[q] = used[q]
  BY <1>1 DEF VectorsInv
<1>4. Sound(cache)' /\ config' \in Model
  BY <1>1 DEF VectorsInv, Sound, CacheFile, OfItsFact, OfModel, Vectors!Vector, Vectors!NoVector,
     Vectors!None
<1>5. Command(p)'
  BY <1>1, <1>2, <1>3 DEF VectorsInv, Command
<1> QED
  BY <1>1, <1>2, <1>3, <1>4, <1>5, OthersWait

\* A command leaves the cache to its query, or ends.
LEMMA LeaveStays ==
  ASSUME VectorsInv, NEW p \in Proc, ePc[p] \in {"load", "embed", "write"}, Vectors!Leave(p),
         Sound(cache)',
         UNCHANGED <<config, used>>
  PROVE  VectorsInv'
<1>1. /\ \/ ePc' = [ePc EXCEPT ![p] = "rank"] /\ job' = job
         \/ ePc' = [ePc EXCEPT ![p] = "idle"] /\ job' = [job EXCEPT ![p] = Vectors!NoJob]
  BY DEF Vectors!Leave, Vectors!Goto
<1>2. /\ DOMAIN job'[p] = Fields /\ DOMAIN job' = Proc /\ \A q \in Proc : q # p => job'[q] = job[q]
      /\ ePc'[p] = "rank" => job'[p] = job[p]
  BY <1>1 DEF VectorsInv, Vectors!NoJob, Fields
<1>3. used[p] = {} /\ job[p].model \in Model
  BY DEF VectorsInv, Command
<1>4. ePc'[p] \in {"idle", "rank"}
  BY <1>1 DEF VectorsInv
<1>5. Command(p)'
  BY <1>2, <1>3, <1>4 DEF Command
<1>6. CASE ePc' = [ePc EXCEPT ![p] = "rank"]
  BY <1>2, <1>5, <1>6, OthersWait DEF VectorsInv
<1>7. CASE ePc' = [ePc EXCEPT ![p] = "idle"]
  BY <1>2, <1>5, <1>7, OthersWait DEF VectorsInv
<1> QED
  BY <1>1, <1>6, <1>7

\* The cache is read.
LEMMA LoadStays == ASSUME Named, VectorsInv, NEW p \in Proc, Vectors!Load(p) PROVE VectorsInv'
<1> DEFINE kept == [Vectors!Loaded EXCEPT !.entry = Vectors!Kept(job[p], Vectors!Loaded)]
           rebuild == Vectors!State(Vectors!Loaded, job[p].model) = "rebuild"
<1>1. ePc[p] = "load" /\ UNCHANGED <<config, cache, used>> /\ Sound(cache)' /\ job[p].model \in Model /\ used[p] = {}
  BY DEF Vectors!Load, VectorsInv, Sound, CacheFile, OfItsFact, OfModel, Vectors!Vector,
         Vectors!NoVector, Vectors!None,
         Command
<1>2. CASE rebuild /\ ~job[p].force
  <2>1. Vectors!Leave(p)
    BY <1>2 DEF Vectors!Load
  <2> QED
    BY <1>1, <2>1, LeaveStays
<1>3. CASE ~(rebuild /\ ~job[p].force)
  <2>1. PICK pending, legacy :
          job' = [job EXCEPT ![p].read = kept, ![p].pending = pending, ![p].legacy = legacy]
    BY <1>3 DEF Vectors!Load
  <2>2. ePc' = [ePc EXCEPT ![p] = "embed"]
    BY <1>3 DEF Vectors!Load, Vectors!Goto
  <2>3. Sound(Vectors!Loaded) /\ (job[p].force \/ OfModel(Vectors!Loaded, job[p].model))
    BY <1>1, <1>3, LoadedIsSound DEF VectorsInv
  <2>4. /\ kept \in CacheFile
        /\ kept.entry = IF job[p].force THEN Vectors!Empty.entry ELSE Vectors!Loaded.entry
    BY <2>3 DEF Sound, CacheFile, Vectors!Kept, Vectors!Empty
  <2>5. OfItsFact(kept) /\ OfModel(kept, job[p].model)
    BY <2>3, <2>4 DEF Sound, OfItsFact, OfModel, Vectors!Empty
  <2> HIDE DEF kept
  <2>6. /\ job'[p].read = kept /\ job'[p].model = job[p].model /\ DOMAIN job'[p] = Fields /\ DOMAIN job' = Proc
        /\ \A q \in Proc : q # p => job'[q] = job[q]
    BY <2>1 DEF VectorsInv, Fields
  <2>7. ePc'[p] = "embed"
    BY <2>2 DEF VectorsInv
  <2>8. Command(p)'
    BY <1>1, <2>4, <2>5, <2>6, <2>7 DEF Command, CacheFile, OfItsFact, OfModel, Vectors!Vector,
       Vectors!NoVector,
       Vectors!None
  <2> QED
    BY <1>1, <2>2, <2>6, <2>8, OthersWait DEF VectorsInv
<1> QED
  BY SMTT(30), <1>2, <1>3

\* What a batch is answered with goes to the facts that were asked for.
LEMMA EmbedStays == ASSUME Named, VectorsInv, NEW p \in Proc, Vectors!Embed(p) PROVE VectorsInv'
<1> DEFINE j == job[p]
           filled(items) == {k \in DOMAIN items : items[k] \in DOMAIN j.pending}
           vector(items, f) == LET k == CHOOSE k \in filled(items) : j.pending[items[k]] = f
                               IN [of |-> j.pending[items[k]], model |-> j.model]
           entry(items) == [f \in Fact |->
             IF \E k \in filled(items) : j.pending[items[k]] = f THEN vector(items, f) ELSE j.read.entry[f]]
<1>1. /\ ePc[p] = "embed" /\ UNCHANGED <<config, used>> /\ j.model \in Model /\ used[p] = {}
      /\ j.read \in CacheFile /\ OfItsFact(j.read) /\ OfModel(j.read, j.model)
  BY DEF Vectors!Embed, VectorsInv, Command
<1>2. PICK items :
        \/ /\ job' = [job EXCEPT ![p].read = [key |-> j.model, torn |-> FALSE, entry |-> entry(items)]]
           /\ cache' = [cache EXCEPT !.torn = TRUE] /\ Vectors!Goto(p, "write")
        \/ Vectors!Leave(p) /\ UNCHANGED cache
  <2> DEFINE Answered(items) ==
        IF filled(items) # {} \/ (j.force /\ j.wanted = {}) \/ j.legacy
        THEN /\ job' = [job EXCEPT ![p].read = [key |-> j.model, torn |-> FALSE, entry |-> entry(items)]]
             /\ cache' = [cache EXCEPT !.torn = TRUE] /\ Vectors!Goto(p, "write")
        ELSE Vectors!Leave(p) /\ UNCHANGED cache
  <2>1. \E answered \in SUBSET DOMAIN j.pending : \E items \in Vectors!SetToSeqs(answered) : Answered(items)
    BY DEF Vectors!Embed, Vectors!Slot
  <2> HIDE DEF entry
  <2> QED
    BY <2>1
<1>3. CASE Vectors!Leave(p) /\ UNCHANGED cache
  <2>1. Sound(cache)'
    BY <1>3 DEF VectorsInv, Sound, CacheFile, OfItsFact, OfModel, Vectors!Vector, Vectors!NoVector,
       Vectors!None
  <2> QED
    BY <1>1, <1>3, <2>1, LeaveStays
<1>4. CASE /\ job' = [job EXCEPT ![p].read = [key |-> j.model, torn |-> FALSE, entry |-> entry(items)]]
           /\ cache' = [cache EXCEPT !.torn = TRUE] /\ Vectors!Goto(p, "write")
  <2> DEFINE e == entry(items)
             answer == [key |-> j.model, torn |-> FALSE, entry |-> e]
  <2>1. ASSUME NEW f \in Fact
        PROVE  e[f] = [of |-> f, model |-> j.model] \/ e[f] = j.read.entry[f]
    <3>1. CASE \E k \in filled(items) : j.pending[items[k]] = f
      <4>1. vector(items, f) = [of |-> f, model |-> j.model]
        BY <3>1
      <4> QED
        BY <3>1, <4>1
    <3>2. CASE ~\E k \in filled(items) : j.pending[items[k]] = f
      BY <3>2
    <3> QED
      BY SMTT(30), <3>1, <3>2
  <2>2. DOMAIN e = Fact /\ e = [f \in Fact |-> e[f]]
    OBVIOUS
  <2> HIDE DEF entry, e
  <2>3. e \in [Fact -> Vectors!Vector \union {Vectors!NoVector}]
    <3>1. \A f \in Fact : e[f] \in Vectors!Vector \union {Vectors!NoVector}
      <4> TAKE f \in Fact
      <4>1. [of |-> f, model |-> j.model] \in Vectors!Vector
        BY <1>1 DEF Vectors!Vector
      <4>2. j.read.entry[f] \in Vectors!Vector \union {Vectors!NoVector}
        BY <1>1 DEF CacheFile
      <4> QED
        BY <2>1, <4>1, <4>2
    <3> QED
      BY <2>2, <3>1
  <2>4. answer \in CacheFile /\ OfItsFact(answer) /\ OfModel(answer, j.model)
    BY <1>1, <2>1, <2>3 DEF CacheFile, OfItsFact, OfModel
  <2>5. /\ job'[p].read = answer /\ job'[p].model = j.model /\ DOMAIN job'[p] = Fields /\ DOMAIN job' = Proc
        /\ \A q \in Proc : q # p => job'[q] = job[q]
    BY <1>4 DEF VectorsInv, Fields, e
  <2>6. ePc' = [ePc EXCEPT ![p] = "write"] /\ ePc'[p] = "write"
    BY <1>4 DEF VectorsInv, Vectors!Goto
  <2>7. answer.key = j.model
    OBVIOUS
  <2> HIDE DEF answer
  <2>8. Command(p)'
    BY <1>1, <2>4, <2>5, <2>6, <2>7 DEF Command, CacheFile, OfItsFact, OfModel, Vectors!Vector,
       Vectors!NoVector,
       Vectors!None
  <2>9. Sound(cache)'
    BY <1>4 DEF VectorsInv, Sound, CacheFile, OfItsFact, OfModel, Vectors!Vector, Vectors!NoVector,
       Vectors!None
  <2> QED
    BY <1>1, <2>5, <2>6, <2>8, <2>9, OthersWait DEF VectorsInv
<1> QED
  BY <1>2, <1>3, <1>4

\* The text reaches the file.
LEMMA WriteStays == ASSUME VectorsInv, NEW p \in Proc, Vectors!Write(p) PROVE VectorsInv'
<1>1. /\ ePc[p] = "write" /\ cache' = job[p].read /\ Vectors!Leave(p) /\ UNCHANGED <<config, used>>
      /\ job[p].read \in CacheFile /\ OfItsFact(job[p].read) /\ OfModel(job[p].read, job[p].read.key)
  BY DEF Vectors!Write, VectorsInv, Command
<1>2. Sound(cache)'
  BY <1>1 DEF Sound, CacheFile, OfItsFact, OfModel, Vectors!Vector, Vectors!NoVector, Vectors!None
<1> QED
  BY <1>1, <1>2, LeaveStays

\* The query is compared with what the cache holds.
LEMMA RankStays == ASSUME Named, VectorsInv, NEW p \in Proc, Vectors!Rank(p) PROVE VectorsInv'
<1>1. ePc[p] = "rank" /\ ePc' = [ePc EXCEPT ![p] = "idle"] /\ UNCHANGED <<config, cache, job>>
  BY DEF Vectors!Rank, Vectors!Goto
<1>2. Sound(cache)' /\ Sound(Vectors!Loaded)
  BY <1>1, LoadedIsSound
     DEF VectorsInv, Sound, CacheFile, OfItsFact, OfModel, Vectors!Vector, Vectors!NoVector,
         Vectors!None
<1>3. /\ DOMAIN used' = Proc /\ \A q \in Proc : q # p => used'[q] = used[q]
      /\ \/ used'[p] = {}
         \/ used'[p] = {<<Vectors!Loaded.entry[f], f>> :
                          f \in {g \in job[p].wanted : Vectors!Valid(Vectors!Loaded.entry[g], job[p].model)}}
  BY DEF Vectors!Rank, VectorsInv
<1>4. ASSUME NEW v \in Vectors!Vector, NEW f \in Fact, <<v, f>> \in used'[p]
      PROVE  v = [of |-> f, model |-> job[p].model]
  <2>1. v = Vectors!Loaded.entry[f] /\ v.model = job[p].model
    BY <1>3, <1>4 DEF Vectors!Valid
  <2>2. job[p].model \in Model
    BY <1>1 DEF VectorsInv, Command
  <2>3. v # Vectors!NoVector
    BY <2>1, <2>2 DEF Named, Vectors!NoVector
  <2>4. v.of = f
    BY <1>2, <2>1, <2>3 DEF Sound, OfItsFact
  <2> QED
    BY <2>1, <2>4 DEF Vectors!Vector
<1>5. ePc'[p] = "idle"
  BY <1>1 DEF VectorsInv
<1>6. Command(p)'
  BY <1>1, <1>4, <1>5 DEF Command, Vectors!Vector
<1> QED
  BY <1>1, <1>2, <1>3, <1>6, OthersWait DEF VectorsInv

\* A command dies.
LEMMA DieStays == ASSUME VectorsInv, NEW p \in Proc, Vectors!Die(p) PROVE VectorsInv'
<1>1. /\ ePc[p] # "idle" /\ ePc' = [ePc EXCEPT ![p] = "idle"] /\ job' = [job EXCEPT ![p] = Vectors!NoJob]
      /\ UNCHANGED <<config, cache, used>>
  BY DEF Vectors!Die, Vectors!Goto
<1>2. /\ DOMAIN job'[p] = Fields /\ DOMAIN job' = Proc /\ \A q \in Proc : q # p => job'[q] = job[q]
      /\ used'[p] = {} /\ ePc'[p] = "idle"
  BY <1>1 DEF VectorsInv, Vectors!NoJob, Fields, Command
<1>3. Sound(cache)'
  BY <1>1 DEF VectorsInv, Sound, CacheFile, OfItsFact, OfModel, Vectors!Vector, Vectors!NoVector,
     Vectors!None
<1>4. Command(p)'
  BY <1>2 DEF Command
<1> QED
  BY <1>1, <1>2, <1>3, <1>4, OthersWait DEF VectorsInv

\* Whatever commands overlap with whatever configurations, die, and are answered in any order:
\* a query is compared with vectors of its model, each of the text of its fact, and a cache
\* that names its model has no other's vectors.
THEOREM VectorsStayRight ==
  Named => (Vectors!Spec => [](Vectors!ComparesLikeWithLike /\ Vectors!KeyTellsEntries))
<1> SUFFICES ASSUME Named
             PROVE Vectors!Spec => [](Vectors!ComparesLikeWithLike /\ Vectors!KeyTellsEntries)
  OBVIOUS
<1>1. Vectors!Init => VectorsInv
  <2> SUFFICES ASSUME Vectors!Init PROVE VectorsInv
    OBVIOUS
  <2>1. PICK entry \in Vectors!Vectors :
          /\ \A f \in Fact : entry[f].of \in {f, Vectors!None}
          /\ cache = [Vectors!Empty EXCEPT !.entry = entry]
    BY DEF Vectors!Init
  <2>2. cache.entry = entry /\ cache.key = Vectors!None /\ cache \in CacheFile
    BY <2>1 DEF Vectors!Empty, CacheFile, Vectors!Vectors
  <2>3. OfItsFact(cache)
    <3> SUFFICES ASSUME NEW f \in Fact, entry[f] # Vectors!NoVector PROVE entry[f].of = f
      BY <2>2 DEF OfItsFact
    <3>1. entry[f] \in Vectors!Vector
      BY DEF Vectors!Vectors
    <3>2. entry[f].of \in Fact
      BY <3>1 DEF Vectors!Vector
    <3> QED
      BY <2>1, <3>2 DEF Named
  <2>4. \A p \in Proc : Command(p)
    BY DEF Vectors!Init, Command
  <2>5. \A p \in Proc : DOMAIN job[p] = Fields
    BY DEF Vectors!Init, Vectors!NoJob, Fields
  <2> QED
    BY <2>2, <2>3, <2>4, <2>5 DEF Vectors!Init, VectorsInv, Sound
<1>2. VectorsInv /\ [Vectors!Next]_(Vectors!vars) => VectorsInv'
  <2> SUFFICES ASSUME VectorsInv, [Vectors!Next]_(Vectors!vars) PROVE VectorsInv'
    OBVIOUS
  <2>1. ASSUME UNCHANGED <<cache, ePc, job, used>>, config' \in Model PROVE VectorsInv'
    BY <2>1 DEF VectorsInv, Sound, Command, CacheFile, OfItsFact, OfModel, Vectors!Vector,
       Vectors!NoVector,
                Vectors!None, Fields
  <2>2. CASE Vectors!Configure
    BY <2>1, <2>2 DEF Vectors!Configure
  <2>3. CASE UNCHANGED Vectors!vars
    BY <2>1, <2>3 DEF Vectors!vars, VectorsInv
  <2> QED
    BY <2>2, <2>3, BeginStays, LoadStays, EmbedStays, WriteStays, RankStays, DieStays
       DEF Vectors!Next
<1>3. VectorsInv => Vectors!ComparesLikeWithLike
  BY DEF VectorsInv, Command, Vectors!ComparesLikeWithLike
<1>4. VectorsInv => Vectors!KeyTellsEntries
  BY DEF VectorsInv, Sound, OfModel, Vectors!KeyTellsEntries, Vectors!Signatures
<1> QED
  BY <1>1, <1>2, <1>3, <1>4, PTL DEF Vectors!Spec
=============================================================================
