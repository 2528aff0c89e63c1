---------------------------- MODULE Context_proofs ----------------------------
(***************************************************************************)
(* What holds of the parts of Context, for every value of their constants. *)
(* A theorem about a component is about each behaviour of its part: the    *)
(* part whose turn it is never changes, its steps are those of the         *)
(* component on the places, and the others leave its properties true.      *)
(* The proofs of a component are an instance of their own, which only      *)
(* names the same definitions another way.                                 *)
(***************************************************************************)
EXTENDS Context, TLAPS

P == INSTANCE ContextParts_proofs WITH
  Clone <- Proc, Session <- Ended, Batch <- BatchSize, Machine <- Proc,
  main <- v1, origin <- v2, track <- v3, stuck <- v4, queue <- v5, pc <- v6, prog <- v7,
  own <- v8, swept <- v9, round <- v10, acts <- v11, owed <- v12, waived <- v13,
  breach <- v14,
  log <- v1, cMain <- v2, cOrigin <- v3, cTrack <- v4, cStuck <- v5, cPc <- v6, run <- v7,
  old <- v8, next <- v9, cActs <- v10, pulled <- v11,
  file <- v1, stored <- v2, gPc <- v3, todo <- v4, state <- v5, took <- v6, dreamer <- v7,
  gOld <- v8, gActs <- v9, since <- v10, marked <- v11, again <- v12, gBreach <- v13,
  rQueue <- v1, rState <- v2, server <- v3, got <- v4, rPc <- v5, seen <- v6, mine <- v7,
  made <- v8, rActs <- v9, dropped <- v10, off <- v11, sentOff <- v12, rBreach <- v13,
  local <- v1, files <- v2, flows <- v3, created <- v4, mMain <- v5, mPc <- v6, tries <- v7,
  adopted <- v8, mNext <- v9, mActs <- v10, done <- v11, held <- v12, raced <- v13,
  vMain <- v1, pull <- v2, packet <- v3, settings <- v4, stage <- v5, plan <- v6, failed <- v7,
  result <- v8, merit <- v9,
  by <- v1, records <- v2, torn <- v3, tFile <- v4, clean <- v5, tPc <- v6, left <- v7,
  parsed <- v8, tActs <- v9, tGot <- v10, tBreach <- v11,
  disk <- v1, stamp <- v2, row <- v3, words <- v4, hashes <- v5, draft <- v6, writer <- v7,
  iPc <- v8, iTodo <- v9, ready <- v10, runs <- v11, iBreach <- v12,
  config <- v1, cache <- v2, ePc <- v3, job <- v4, used <- v5, eActs <- v6
RefusedP == INSTANCE SessionStore_proofs WITH
  Session <- Logged, Event <- Turn, Unsafe <- Unscannable, Absent <- NoFile, Torn <- TornFile,
  log <- v1, gz <- v2, torn <- v3,
  index <- v4, held <- v5, pc <- v6, job <- v7, orphan <- v8, crashes <- v9, staleLogs <- v10,
  staleGz <- v11, kept <- v12, passed <- v13, breach <- v14

-----------------------------------------------------------------------------
(* Queue: PushQueue.                                                      *)

\* The instance with the proofs has the behaviours of the part.
LEMMA QueueIsProved ==
  P!Queue!Spec <=> Queue!Spec
  BY DEF Queue!Alien, P!Queue!Alien, Queue!Commit, P!Queue!Commit, Queue!Program,
         P!Queue!Program, Queue!process, P!Queue!process, Queue!vars, P!Queue!vars, Queue!Init,
         P!Queue!Init, Queue!Act, P!Queue!Act, Queue!Goto, P!Queue!Goto, Queue!InPush,
         P!Queue!InPush, Queue!Scanned, P!Queue!Scanned, Queue!Waive, P!Queue!Waive,
         Queue!Begin, P!Queue!Begin, Queue!CommitPending, P!Queue!CommitPending, Queue!Fetch,
         P!Queue!Fetch, Queue!Rebase, P!Queue!Rebase, Queue!Pull, P!Queue!Pull, Queue!Scan,
         P!Queue!Scan, Queue!Rest, P!Queue!Rest, Queue!Drain, P!Queue!Drain, Queue!Push,
         P!Queue!Push, Queue!PullAgain, P!Queue!PullAgain, Queue!Remove, P!Queue!Remove,
         Queue!Enqueue, P!Queue!Enqueue, Queue!Advance, P!Queue!Advance, Queue!Die,
         P!Queue!Die, Queue!Resolve, P!Queue!Resolve, Queue!Next, P!Queue!Next, Queue!Spec,
         P!Queue!Spec

\* What ContextParts_proofs proves, of the part.
LEMMA QueueKeeps == Queue!Spec => [](Queue!PushesAreSafe)
<1>1. P!Queue!Spec => [](P!Queue!PushesAreSafe)
  BY P!PushesStaySafe
<1>2. (P!Queue!PushesAreSafe <=> Queue!PushesAreSafe)
  BY DEF Queue!Alien, P!Queue!Alien, Queue!QueuedUntilPushed, P!Queue!QueuedUntilPushed,
         Queue!ScannedBeforePushed,
         P!Queue!ScannedBeforePushed, Queue!PushesAreSafe, P!Queue!PushesAreSafe
<1> QED
  BY <1>1, <1>2, QueueIsProved, PTL

\* Whoever pushes, in each behaviour of the part.
LEMMA QueueHolds == Spec => [](which = "Queue" => Queue!PushesAreSafe)
<1>1. Init /\ which = "Queue" => Queue!Init
  BY DEF Init
<1>2. which = "Queue" /\ [Next]_places => (which = "Queue")' /\ [Queue!Next]_(Queue!vars)
  BY DEF Next, places, Queue!vars, Queue!process
<1>3. ~(which = "Queue") /\ [Next]_places => (~(which = "Queue"))'
  BY DEF Next, places
<1>4. Queue!Init /\ [][Queue!Next]_(Queue!vars) => [](Queue!PushesAreSafe)
  BY QueueKeeps DEF Queue!Spec
<1> QED
  BY <1>1, <1>2, <1>3, <1>4, PTL DEF Spec

\* A push that failed is queued until GitHub has it, and what the scan refuses reaches GitHub
\* only through another clone, session_start or a commit made after a scan (push_queue.py,
\* push_safety.py).
THEOREM PushesStaySafe == Spec => []PushesAreSafe
<1>1. (which = "Queue" => Queue!PushesAreSafe) => PushesAreSafe
  BY DEF PushesAreSafe
<1> QED
  BY <1>1, QueueHolds, PTL

-----------------------------------------------------------------------------
(* Clones: Fleet.                                                         *)

\* The instance with the proofs has the behaviours of the part.
LEMMA ClonesIsProved ==
  P!Clones!Spec <=> Clones!Spec
  BY DEF Clones!Run, P!Clones!Run, Clones!clone, P!Clones!clone, Clones!dream, P!Clones!dream,
         Clones!vars, P!Clones!vars, Clones!Init, P!Clones!Init, Clones!Act, P!Clones!Act,
         Clones!Goto, P!Clones!Goto, Clones!Append, P!Clones!Append, Clones!Active,
         P!Clones!Active, Clones!Look, P!Clones!Look, Clones!StartRun, P!Clones!StartRun,
         Clones!Closed, P!Clones!Closed, Clones!GiveUp, P!Clones!GiveUp, Clones!Commit,
         P!Clones!Commit, Clones!Fetch, P!Clones!Fetch, Clones!AfterPush, P!Clones!AfterPush,
         Clones!PushLog, P!Clones!PushLog, Clones!EndRun, P!Clones!EndRun, Clones!Refused,
         P!Clones!Refused, Clones!Fail, P!Clones!Fail, Clones!Die, P!Clones!Die,
         Clones!Conflict, P!Clones!Conflict, Clones!Seen, P!Clones!Seen, Clones!Pull,
         P!Clones!Pull, Clones!Push, P!Clones!Push, Clones!Repair, P!Clones!Repair, Clones!Age,
         P!Clones!Age, Clones!Next, P!Clones!Next, Clones!Spec, P!Clones!Spec

\* What ContextParts_proofs proves, of the part.
LEMMA ClonesKeeps == Clones!Spec => [](Clones!OneDreamAtATime)
<1>1. P!Clones!Spec => [](P!Clones!OneDreamAtATime)
  BY P!DreamsTakeTurns, BoundsAreNumbers
<1>2. (P!Clones!OneDreamAtATime <=> Clones!OneDreamAtATime)
  BY DEF Clones!OneDreamAtATime, P!Clones!OneDreamAtATime
<1> QED
  BY <1>1, <1>2, ClonesIsProved, PTL

\* Whichever clones there are, in each behaviour of the part.
LEMMA ClonesHolds == Spec => [](which = "Clones" => Clones!OneDreamAtATime)
<1>1. Init /\ which = "Clones" => Clones!Init
  BY DEF Init
<1>2. which = "Clones" /\ [Next]_places => (which = "Clones")' /\ [Clones!Next]_(Clones!vars)
  BY DEF Next, places, Clones!vars, Clones!clone, Clones!dream
<1>3. ~(which = "Clones") /\ [Next]_places => (~(which = "Clones"))'
  BY SMTT(30) DEF Next, places
<1>4. Clones!Init /\ [][Clones!Next]_(Clones!vars) => [](Clones!OneDreamAtATime)
  BY ClonesKeeps DEF Clones!Spec
<1> QED
  BY <1>1, <1>2, <1>3, <1>4, PTL DEF Spec

-----------------------------------------------------------------------------
(* Gate: DreamGate.                                                       *)

\* The instance with the proofs has the behaviours of the part.
LEMMA GateIsProved ==
  P!Gate!Spec <=> Gate!Spec
  BY DEF Gate!program, P!Gate!program, Gate!ghost, P!Gate!ghost, Gate!vars, P!Gate!vars,
         Gate!Absent, P!Gate!Absent, Gate!Torn, P!Gate!Torn, Gate!Empty, P!Gate!Empty,
         Gate!Init, P!Gate!Init, Gate!Act, P!Gate!Act, Gate!Set, P!Gate!Set, Gate!Finish,
         P!Gate!Finish, Gate!Loaded, P!Gate!Loaded, Gate!Gathered, P!Gate!Gathered, Gate!Read,
         P!Gate!Read, Gate!Truncate, P!Gate!Truncate, Gate!Remembered, P!Gate!Remembered,
         Gate!Counted, P!Gate!Counted, Gate!Marked, P!Gate!Marked, Gate!Completed,
         P!Gate!Completed, Gate!Changed, P!Gate!Changed, Gate!Write, P!Gate!Write,
         Gate!SessionStart, P!Gate!SessionStart, Gate!SessionEnd, P!Gate!SessionEnd,
         Gate!Collect, P!Gate!Collect, Gate!Due, P!Gate!Due, Gate!Dream, P!Gate!Dream,
         Gate!Gather, P!Gate!Gather, Gate!Saved, P!Gate!Saved, Gate!Day, P!Gate!Day, Gate!Die,
         P!Gate!Die, Gate!Next, P!Gate!Next, Gate!Spec, P!Gate!Spec, Gate!Range, P!Gate!Range,
         Gate!SetToSeq, P!Gate!SetToSeq, Gate!IsInjective, P!Gate!IsInjective,
         Gate!Cardinality, P!Gate!Cardinality, Gate!IsFiniteSet, P!Gate!IsFiniteSet

\* What ContextParts_proofs proves, of the part.
LEMMA GateKeeps == Gate!Spec => [](Gate!GateOpensWhenDue /\ Gate!MarkedIsReadOnce)
<1>1. P!Gate!Spec => [](P!Gate!GateOpensWhenDue /\ P!Gate!MarkedIsReadOnce)
  BY P!DreamsComeWhenDue, BoundsAreNumbers
<1>2. (P!Gate!GateOpensWhenDue <=> Gate!GateOpensWhenDue) /\ (P!Gate!MarkedIsReadOnce <=> Gate!MarkedIsReadOnce)
  BY DEF Gate!Absent, P!Gate!Absent, Gate!Torn, P!Gate!Torn, Gate!Empty, P!Gate!Empty,
         Gate!Loaded, P!Gate!Loaded, Gate!Due, P!Gate!Due, Gate!Quiet, P!Gate!Quiet,
         Gate!GateOpensWhenDue, P!Gate!GateOpensWhenDue, Gate!MarkedIsReadOnce,
         P!Gate!MarkedIsReadOnce, Gate!Range, P!Gate!Range, Gate!SetToSeq, P!Gate!SetToSeq,
         Gate!IsInjective, P!Gate!IsInjective, Gate!Cardinality, P!Gate!Cardinality,
         Gate!IsFiniteSet, P!Gate!IsFiniteSet
<1> QED
  BY <1>1, <1>2, GateIsProved, PTL

\* Whatever sessions end, in each behaviour of the part.
LEMMA GateHolds == Spec => [](which = "Gate" => Gate!GateOpensWhenDue /\ Gate!MarkedIsReadOnce)
<1>1. Init /\ which = "Gate" => Gate!Init
  BY DEF Init
<1>2. which = "Gate" /\ [Next]_places => (which = "Gate")' /\ [Gate!Next]_(Gate!vars)
  BY DEF Next, places, Gate!vars, Gate!program, Gate!ghost
<1>3. ~(which = "Gate") /\ [Next]_places => (~(which = "Gate"))'
  BY DEF Next, places
<1>4. Gate!Init /\ [][Gate!Next]_(Gate!vars) => [](Gate!GateOpensWhenDue /\ Gate!MarkedIsReadOnce)
  BY GateKeeps DEF Gate!Spec
<1> QED
  BY <1>1, <1>2, <1>3, <1>4, PTL DEF Spec

\* Sessions counted make a dream due and one marked is read once (gates.py), and of the clones
\* one dreams at a time (pipeline.py, processing.py).
THEOREM DreamsComeWhenDue == Spec => []DreamsWhenDue
<1>1. /\ which = "Gate" => Gate!GateOpensWhenDue /\ Gate!MarkedIsReadOnce
      /\ which = "Clones" => Clones!OneDreamAtATime
      => DreamsWhenDue
  BY DEF DreamsWhenDue
<1> QED
  BY <1>1, GateHolds, ClonesHolds, PTL

-----------------------------------------------------------------------------
(* Reports: Telemetry.                                                    *)

\* The instance with the proofs has the behaviours of the part.
LEMMA ReportsIsProved ==
  P!Reports!Spec <=> Reports!Spec
  BY DEF Reports!Event, P!Reports!Event, Reports!program, P!Reports!program, Reports!ghost,
         P!Reports!ghost, Reports!vars, P!Reports!vars, Reports!Init, P!Reports!Init,
         Reports!Set, P!Reports!Set, Reports!Goto, P!Reports!Goto, Reports!Finish,
         P!Reports!Finish, Reports!Act, P!Reports!Act, Reports!Kept, P!Reports!Kept,
         Reports!Record, P!Reports!Record, Reports!SaveQueue, P!Reports!SaveQueue,
         Reports!LoadBatch, P!Reports!LoadBatch, Reports!SendBatch, P!Reports!SendBatch,
         Reports!Remaining, P!Reports!Remaining, Reports!Stored, P!Reports!Stored,
         Reports!CutQueue, P!Reports!CutQueue, Reports!Failed, P!Reports!Failed,
         Reports!SwitchOff, P!Reports!SwitchOff, Reports!ClearQueue, P!Reports!ClearQueue,
         Reports!ServerChanges, P!Reports!ServerChanges, Reports!DelayEnds,
         P!Reports!DelayEnds, Reports!Die, P!Reports!Die, Reports!Next, P!Reports!Next,
         Reports!Spec, P!Reports!Spec, Reports!Range, P!Reports!Range, Reports!Min,
         P!Reports!Min, Reports!Max, P!Reports!Max

\* What ContextParts_proofs proves, of the part.
LEMMA ReportsKeeps == Reports!Spec => [](Reports!EventsArriveOnce /\ Reports!SwitchedOffForGood)
<1>1. P!Reports!Spec => [](P!Reports!EventsArriveOnce /\ P!Reports!SwitchedOffForGood)
  BY P!ReportsArrive, BoundsAreNumbers
<1>2. (P!Reports!EventsArriveOnce <=> Reports!EventsArriveOnce) /\ (P!Reports!SwitchedOffForGood <=> Reports!SwitchedOffForGood)
  BY DEF Reports!Event, P!Reports!Event, Reports!Writing, P!Reports!Writing,
         Reports!EventsArriveOnce, P!Reports!EventsArriveOnce, Reports!SwitchedOffForGood,
         P!Reports!SwitchedOffForGood, Reports!Range, P!Reports!Range, Reports!Min,
         P!Reports!Min, Reports!Max, P!Reports!Max
<1> QED
  BY <1>1, <1>2, ReportsIsProved, PTL

\* Whatever is reported, in each behaviour of the part.
LEMMA ReportsHolds == Spec => [](which = "Reports" => Reports!EventsArriveOnce /\ Reports!SwitchedOffForGood)
<1>1. Init /\ which = "Reports" => Reports!Init
  BY DEF Init
<1>2. which = "Reports" /\ [Next]_places => (which = "Reports")' /\ [Reports!Next]_(Reports!vars)
  BY DEF Next, places, Reports!vars, Reports!program, Reports!ghost
<1>3. ~(which = "Reports") /\ [Next]_places => (~(which = "Reports"))'
  BY SMTT(30) DEF Next, places
<1>4. Reports!Init /\ [][Reports!Next]_(Reports!vars) => [](Reports!EventsArriveOnce /\ Reports!SwitchedOffForGood)
  BY ReportsKeeps DEF Reports!Spec
<1> QED
  BY <1>1, <1>2, <1>3, <1>4, PTL DEF Spec

\* An event of one command at a time arrives once, and switching off is for good (telemetry.py).
THEOREM ReportsArrive == Spec => []ReportsArriveOnce
<1>1. (which = "Reports" => Reports!EventsArriveOnce /\ Reports!SwitchedOffForGood) => ReportsArriveOnce
  BY DEF ReportsArriveOnce
<1> QED
  BY <1>1, ReportsHolds, PTL

-----------------------------------------------------------------------------
(* Remote: RemoteSetup.                                                   *)

\* The instance with the proofs has the behaviours of the part.
LEMMA RemoteIsProved ==
  P!Remote!Spec <=> Remote!Spec
  BY DEF Remote!github, P!Remote!github, Remote!program, P!Remote!program, Remote!vars,
         P!Remote!vars, Remote!Init, P!Remote!Init, Remote!Act, P!Remote!Act, Remote!Set,
         P!Remote!Set, Remote!Goto, P!Remote!Goto, Remote!New, P!Remote!New,
         Remote!InitProject, P!Remote!InitProject, Remote!Save, P!Remote!Save, Remote!Safe,
         P!Remote!Safe, Remote!GhFails, P!Remote!GhFails, Remote!SetUp, P!Remote!SetUp,
         Remote!Auth, P!Remote!Auth, Remote!View, P!Remote!View, Remote!Create,
         P!Remote!Create, Remote!Bootstrapped, P!Remote!Bootstrapped, Remote!Fresh,
         P!Remote!Fresh, Remote!Clone, P!Remote!Clone, Remote!CommitAll, P!Remote!CommitAll,
         Remote!Push, P!Remote!Push, Remote!Die, P!Remote!Die, Remote!Next, P!Remote!Next,
         Remote!Spec, P!Remote!Spec, Remote!Cardinality, P!Remote!Cardinality,
         Remote!IsFiniteSet, P!Remote!IsFiniteSet

\* What ContextParts_proofs proves, of the part.
LEMMA RemoteKeeps == Remote!Spec => [](Remote!CommittedStays /\ Remote!SetUpTogether)
<1>1. P!Remote!Spec => [](P!Remote!CommittedStays /\ P!Remote!SetUpTogether)
  BY P!SetUpKeeps, BoundsAreNumbers
<1>2. (P!Remote!CommittedStays <=> Remote!CommittedStays) /\ (P!Remote!SetUpTogether <=> Remote!SetUpTogether)
  BY DEF Remote!CommittedStays, P!Remote!CommittedStays, Remote!SetUpTogether,
         P!Remote!SetUpTogether, Remote!Cardinality, P!Remote!Cardinality, Remote!IsFiniteSet,
         P!Remote!IsFiniteSet
<1> QED
  BY <1>1, <1>2, RemoteIsProved, PTL

\* Whichever machines are set up, in each behaviour of the part.
LEMMA RemoteHolds == Spec => [](which = "Remote" => Remote!CommittedStays /\ Remote!SetUpTogether)
<1>1. Init /\ which = "Remote" => Remote!Init
  BY DEF Init
<1>2. which = "Remote" /\ [Next]_places => (which = "Remote")' /\ [Remote!Next]_(Remote!vars)
  BY DEF Next, places, Remote!vars, Remote!github, Remote!program
<1>3. ~(which = "Remote") /\ [Next]_places => (~(which = "Remote"))'
  BY DEF Next, places
<1>4. Remote!Init /\ [][Remote!Next]_(Remote!vars) => [](Remote!CommittedStays /\ Remote!SetUpTogether)
  BY RemoteKeeps DEF Remote!Spec
<1> QED
  BY <1>1, <1>2, <1>3, <1>4, PTL DEF Spec

\* Setting up a remote keeps what was committed on every machine and leaves them with one
\* history (git_ops.py, cli.py).
THEOREM SetUpStaysShared == Spec => []SetUpIsShared
<1>1. (which = "Remote" => Remote!CommittedStays /\ Remote!SetUpTogether) => SetUpIsShared
  BY SMTT(30) DEF SetUpIsShared
<1> QED
  BY <1>1, RemoteHolds, PTL

-----------------------------------------------------------------------------
(* Review: ProposalReview.                                                *)

\* The instance with the proofs has the behaviours of the part.
LEMMA ReviewIsProved ==
  P!Review!Spec <=> Review!Spec
  BY DEF Review!change, P!Review!change, Review!vars, P!Review!vars, Review!Absent,
         P!Review!Absent, Review!Tree, P!Review!Tree, Review!Nothing, P!Review!Nothing,
         Review!Facts, P!Review!Facts, Review!Contents, P!Review!Contents, Review!ApiKeys,
         P!Review!ApiKeys, Review!Reviewers, P!Review!Reviewers, Review!Action,
         P!Review!Action, Review!None, P!Review!None, Review!Settings, P!Review!Settings,
         Review!NoSettings, P!Review!NoSettings, Review!NoLabels, P!Review!NoLabels,
         Review!NoPull, P!Review!NoPull, Review!NoPacket, P!Review!NoPacket, Review!NoResult,
         P!Review!NoResult, Review!Init, P!Review!Init, Review!Average, P!Review!Average,
         Review!Types, P!Review!Types, Review!Confidence, P!Review!Confidence,
         Review!Classified, P!Review!Classified, Review!Deletion, P!Review!Deletion,
         Review!ForPeople, P!Review!ForPeople, Review!Open, P!Review!Open, Review!Dream,
         P!Review!Dream, Review!Lint, P!Review!Lint, Review!Derived, P!Review!Derived,
         Review!Corrected, P!Review!Corrected, Review!Rederive, P!Review!Rederive,
         Review!Promote, P!Review!Promote, Review!Forget, P!Review!Forget, Review!RollBack,
         P!Review!RollBack, Review!Changed, P!Review!Changed, Review!Gone, P!Review!Gone,
         Review!Strong, P!Review!Strong, Review!RewritesStrong, P!Review!RewritesStrong,
         Review!RetiresStrong, P!Review!RetiresStrong, Review!Destructive,
         P!Review!Destructive, Review!Packet, P!Review!Packet, Review!Escalates,
         P!Review!Escalates, Review!ByRules, P!Review!ByRules, Review!Kept, P!Review!Kept,
         Review!Harmless, P!Review!Harmless, Review!Safe, P!Review!Safe, Review!HasKey,
         P!Review!HasKey, Review!Usable, P!Review!Usable, Review!Only, P!Review!Only,
         Review!Plan, P!Review!Plan, Review!Required, P!Review!Required, Review!Preferred,
         P!Review!Preferred, Review!ReviewPlan, P!Review!ReviewPlan, Review!Payload,
         P!Review!Payload, Review!Settle, P!Review!Settle, Review!Look, P!Review!Look,
         Review!ReadSession, P!Review!ReadSession, Review!Known, P!Review!Known,
         Review!NeedsKey, P!Review!NeedsKey, Review!CanAsk, P!Review!CanAsk, Review!Must,
         P!Review!Must, Review!Answer, P!Review!Answer, Review!NoAnswer, P!Review!NoAnswer,
         Review!FallBack, P!Review!FallBack, Review!Next, P!Review!Next, Review!Spec,
         P!Review!Spec, Review!Cardinality, P!Review!Cardinality, Review!IsFiniteSet,
         P!Review!IsFiniteSet, Review!ToSet, P!Review!ToSet, Review!MapThenSumSet,
         P!Review!MapThenSumSet, Review!MapThenFoldSet, P!Review!MapThenFoldSet

\* What ContextParts_proofs proves, of the part.
LEMMA ReviewKeeps == Review!Spec => [](Review!RulesApproveOnlySafe /\ Review!PeopleAreAsked /\ Review!NamedReviewerDecides)
<1>1. P!Review!Spec => [](P!Review!RulesApproveOnlySafe /\ P!Review!PeopleAreAsked /\ P!Review!NamedReviewerDecides)
  BY P!ReviewsStayFair, ProvidersAreKnown DEF P!IsList, P!Review!Provider, Review!Provider
<1>2. (P!Review!RulesApproveOnlySafe <=> Review!RulesApproveOnlySafe) /\ (P!Review!PeopleAreAsked <=> Review!PeopleAreAsked) /\ (P!Review!NamedReviewerDecides <=> Review!NamedReviewerDecides)
  BY Zenon DEF Review!Reviewers, P!Review!Reviewers, Review!None, P!Review!None, Review!NoLabels,
         P!Review!NoLabels, Review!NoPacket, P!Review!NoPacket, Review!HasKey, P!Review!HasKey,
         Review!Usable, P!Review!Usable, Review!Only, P!Review!Only, Review!Plan,
         P!Review!Plan, Review!Required, P!Review!Required, Review!Preferred,
         P!Review!Preferred, Review!ReviewPlan, P!Review!ReviewPlan,
         Review!RulesApproveOnlySafe, P!Review!RulesApproveOnlySafe, Review!PeopleAreAsked,
         P!Review!PeopleAreAsked, Review!NamedReviewerDecides, P!Review!NamedReviewerDecides,
         Review!Cardinality, P!Review!Cardinality, Review!IsFiniteSet, P!Review!IsFiniteSet,
         Review!ToSet, P!Review!ToSet, Review!MapThenSumSet, P!Review!MapThenSumSet,
         Review!MapThenFoldSet, P!Review!MapThenFoldSet
<1> QED
  BY <1>1, <1>2, ReviewIsProved, PTL

\* Whatever is proposed, in each behaviour of the part.
LEMMA ReviewHolds == Spec => [](which = "Review" => Review!RulesApproveOnlySafe /\ Review!PeopleAreAsked /\ Review!NamedReviewerDecides)
<1>1. Init /\ which = "Review" => Review!Init
  BY DEF Init
<1>2. which = "Review" /\ [Next]_places => (which = "Review")' /\ [Review!Next]_(Review!vars)
  BY DEF Next, places, Review!vars, Review!change
<1>3. ~(which = "Review") /\ [Next]_places => (~(which = "Review"))'
  BY DEF Next, places
<1>4. Review!Init /\ [][Review!Next]_(Review!vars) => [](Review!RulesApproveOnlySafe /\ Review!PeopleAreAsked /\ Review!NamedReviewerDecides)
  BY ReviewKeeps DEF Review!Spec
<1> QED
  BY <1>1, <1>2, <1>3, <1>4, PTL DEF Spec

\* The rules approve only what may be approved without a person, ask one for the rest, and
\* a named reviewer decides (l2_review.py, providers.py).
THEOREM ReviewsStayFair == Spec => []ReviewsAreFair
<1>1. (which = "Review" => /\ Review!RulesApproveOnlySafe /\ Review!PeopleAreAsked
                           /\ Review!NamedReviewerDecides)
      => ReviewsAreFair
  BY DEF ReviewsAreFair
<1> QED
  BY <1>1, ReviewHolds, PTL

-----------------------------------------------------------------------------
(* Captured: Capture.                                                     *)

\* The instance with the proofs has the behaviours of the part.
LEMMA CapturedIsProved ==
  P!Captured!Spec <=> Captured!Spec
  BY DEF Captured!Tool, P!Captured!Tool, Captured!tool, P!Captured!tool, Captured!programs,
         P!Captured!programs, Captured!vars, P!Captured!vars, Captured!Undated,
         P!Captured!Undated, Captured!Day, P!Captured!Day, Captured!NoName, P!Captured!NoName,
         Captured!Name, P!Captured!Name, Captured!Nothing, P!Captured!Nothing, Captured!Unread,
         P!Captured!Unread, Captured!ReadClaude, P!Captured!ReadClaude, Captured!ReadCodex,
         P!Captured!ReadCodex, Captured!ReadCopilot, P!Captured!ReadCopilot,
         Captured!ReadGemini, P!Captured!ReadGemini, Captured!ReadAmp, P!Captured!ReadAmp,
         Captured!ReadOpenCode, P!Captured!ReadOpenCode, Captured!ReadBy, P!Captured!ReadBy,
         Captured!Init, P!Captured!Init, Captured!Act, P!Captured!Act, Captured!Goto,
         P!Captured!Goto, Captured!Forget, P!Captured!Forget, Captured!ToolWrites,
         P!Captured!ToolWrites, Captured!Begin, P!Captured!Begin, Captured!CaptureClaude,
         P!Captured!CaptureClaude, Captured!CaptureGemini, P!Captured!CaptureGemini,
         Captured!CaptureAmp, P!Captured!CaptureAmp, Captured!CaptureOpenCode,
         P!Captured!CaptureOpenCode, Captured!CaptureCodex, P!Captured!CaptureCodex,
         Captured!CaptureCopilot, P!Captured!CaptureCopilot, Captured!Parse, P!Captured!Parse,
         Captured!First, P!Captured!First, Captured!Written, P!Captured!Written,
         Captured!Saves, P!Captured!Saves, Captured!Commits, P!Captured!Commits,
         Captured!Write, P!Captured!Write, Captured!Commit, P!Captured!Commit, Captured!Sweep,
         P!Captured!Sweep, Captured!Die, P!Captured!Die, Captured!Next, P!Captured!Next,
         Captured!Spec, P!Captured!Spec, Captured!Cardinality, P!Captured!Cardinality,
         Captured!IsFiniteSet, P!Captured!IsFiniteSet

\* What ContextParts_proofs proves, of the part.
LEMMA CapturedKeeps == Captured!Spec => [](Captured!CapturesGrow /\ Captured!OneSessionEach)
<1>1. P!Captured!Spec => [](P!Captured!CapturesGrow /\ P!Captured!OneSessionEach)
  BY P!CapturesKeepAll, TranscriptsAreNumbered DEF P!Numbered
<1>2. (P!Captured!CapturesGrow <=> Captured!CapturesGrow) /\ (P!Captured!OneSessionEach <=> Captured!OneSessionEach)
  BY DEF Captured!Undated, P!Captured!Undated, Captured!NoName, P!Captured!NoName,
         Captured!Name, P!Captured!Name, Captured!CapturesGrow, P!Captured!CapturesGrow,
         Captured!OneSessionEach, P!Captured!OneSessionEach, Captured!Cardinality,
         P!Captured!Cardinality, Captured!IsFiniteSet, P!Captured!IsFiniteSet
<1> QED
  BY <1>1, <1>2, CapturedIsProved, PTL

\* Whatever is captured, in each behaviour of the part.
LEMMA CapturedHolds == Spec => [](which = "Captured" => Captured!CapturesGrow /\ Captured!OneSessionEach)
<1>1. Init /\ which = "Captured" => Captured!Init
  BY DEF Init
<1>2. which = "Captured" /\ [Next]_places => (which = "Captured")' /\ [Captured!Next]_(Captured!vars)
  BY DEF Next, places, Captured!vars, Captured!tool, Captured!programs
<1>3. ~(which = "Captured") /\ [Next]_places => (~(which = "Captured"))'
  BY DEF Next, places
<1>4. Captured!Init /\ [][Captured!Next]_(Captured!vars) => [](Captured!CapturesGrow /\ Captured!OneSessionEach)
  BY CapturedKeeps DEF Captured!Spec
<1> QED
  BY <1>1, <1>2, <1>3, <1>4, PTL DEF Spec

\* Capturing a growing transcript again loses nothing and keeps it one session (the capture
\* adapters).
THEOREM CapturesStayWhole == Spec => []CapturesAreWhole
<1>1. (which = "Captured" => Captured!CapturesGrow /\ Captured!OneSessionEach) => CapturesAreWhole
  BY DEF CapturesAreWhole
<1> QED
  BY <1>1, CapturedHolds, PTL

-----------------------------------------------------------------------------
(* Index: SearchIndex.                                                    *)

\* The instance with the proofs has the behaviours of the part.
LEMMA IndexIsProved ==
  P!Index!Spec <=> Index!Spec
  BY DEF Index!File, P!Index!File, Index!State, P!Index!State, Index!vars, P!Index!vars,
         Index!NoRow, P!Index!NoRow, Index!Empty, P!Index!Empty, Index!NoHashes,
         P!Index!NoHashes, Index!NoOne, P!Index!NoOne, Index!NoAnswer, P!Index!NoAnswer,
         Index!Init, P!Index!Init, Index!Goto, P!Index!Goto, Index!RowNumbers,
         P!Index!RowNumbers, Index!NextNumber, P!Index!NextNumber, Index!DeleteRows,
         P!Index!DeleteRows, Index!Held, P!Index!Held, Index!NewRow, P!Index!NewRow,
         Index!InsertAll, P!Index!InsertAll, Index!From, P!Index!From, Index!Begin,
         P!Index!Begin, Index!Plan, P!Index!Plan, Index!Clear, P!Index!Clear, Index!Replaced,
         P!Index!Replaced, Index!Table, P!Index!Table, Index!MayWrite, P!Index!MayWrite,
         Index!IndexFile, P!Index!IndexFile, Index!Commit, P!Index!Commit, Index!Mark,
         P!Index!Mark, Index!Fail, P!Index!Fail, Index!Edits, P!Index!Edits, Index!Read,
         P!Index!Read, Index!Touch, P!Index!Touch, Index!Edit, P!Index!Edit, Index!Trusted,
         P!Index!Trusted, Index!Ask, P!Index!Ask, Index!Next, P!Index!Next, Index!Spec,
         P!Index!Spec, Index!SetToSeq, P!Index!SetToSeq, Index!IsInjective,
         P!Index!IsInjective, Index!Cardinality, P!Index!Cardinality, Index!IsFiniteSet,
         P!Index!IsFiniteSet

\* What ContextParts_proofs proves, of the part.
LEMMA IndexKeeps == Index!Spec => [](Index!FreshIndexIsRight /\ Index!InjectionMissesNothing)
<1>1. P!Index!Spec => [](P!Index!FreshIndexIsRight /\ P!Index!InjectionMissesNothing)
  BY P!IndexStaysRight, FactsAreNamed, BoundsAreNumbers DEF P!Indexable, P!IsFiniteSet, IsFiniteSet, P!Index!NoOne, Index!NoOne
<1>2. (P!Index!FreshIndexIsRight <=> Index!FreshIndexIsRight) /\ (P!Index!InjectionMissesNothing <=> Index!InjectionMissesNothing)
  BY DEF Index!File, P!Index!File, Index!NoHashes, P!Index!NoHashes, Index!Hits, P!Index!Hits,
         Index!Trusted, P!Index!Trusted, Index!Candidates, P!Index!Candidates, Index!LiveIn,
         P!Index!LiveIn, Index!FreshIndexIsRight, P!Index!FreshIndexIsRight,
         Index!InjectionMissesNothing, P!Index!InjectionMissesNothing, Index!SetToSeq,
         P!Index!SetToSeq, Index!IsInjective, P!Index!IsInjective, Index!Cardinality,
         P!Index!Cardinality, Index!IsFiniteSet, P!Index!IsFiniteSet
<1> QED
  BY <1>1, <1>2, IndexIsProved, PTL

\* Whatever rebuilds run and files change, in each behaviour of the part.
LEMMA IndexHolds == Spec => [](which = "Index" => Index!FreshIndexIsRight /\ Index!InjectionMissesNothing)
<1>1. Init /\ which = "Index" => Index!Init
  BY DEF Init
<1>2. which = "Index" /\ [Next]_places => (which = "Index")' /\ [Index!Next]_(Index!vars)
  BY DEF Next, places, Index!vars
<1>3. ~(which = "Index") /\ [Next]_places => (~(which = "Index"))'
  BY DEF Next, places
<1>4. Index!Init /\ [][Index!Next]_(Index!vars) => [](Index!FreshIndexIsRight /\ Index!InjectionMissesNothing)
  BY IndexKeeps DEF Index!Spec
<1> QED
  BY <1>1, <1>2, <1>3, <1>4, PTL DEF Spec

-----------------------------------------------------------------------------
(* Vectors: SemanticCache.                                                *)

\* The instance with the proofs has the behaviours of the part.
LEMMA VectorsIsProved ==
  P!Vectors!Spec <=> Vectors!Spec
  BY DEF Vectors!vars, P!Vectors!vars, Vectors!None, P!Vectors!None, Vectors!NoVector,
         P!Vectors!NoVector, Vectors!Vector, P!Vectors!Vector, Vectors!Vectors,
         P!Vectors!Vectors, Vectors!Empty, P!Vectors!Empty, Vectors!NoJob, P!Vectors!NoJob,
         Vectors!Init, P!Vectors!Init, Vectors!Act, P!Vectors!Act, Vectors!Loaded,
         P!Vectors!Loaded, Vectors!Signatures, P!Vectors!Signatures, Vectors!State,
         P!Vectors!State, Vectors!Valid, P!Vectors!Valid, Vectors!Configure,
         P!Vectors!Configure, Vectors!Begin, P!Vectors!Begin, Vectors!Goto, P!Vectors!Goto,
         Vectors!Leave, P!Vectors!Leave, Vectors!Kept, P!Vectors!Kept, Vectors!Load,
         P!Vectors!Load, Vectors!Slot, P!Vectors!Slot, Vectors!Embed, P!Vectors!Embed,
         Vectors!Write, P!Vectors!Write, Vectors!Rank, P!Vectors!Rank, Vectors!Die,
         P!Vectors!Die, Vectors!Next, P!Vectors!Next, Vectors!Spec, P!Vectors!Spec,
         Vectors!SetToSeq, P!Vectors!SetToSeq, Vectors!IsInjective, P!Vectors!IsInjective,
         Vectors!Cardinality, P!Vectors!Cardinality, Vectors!IsFiniteSet,
         P!Vectors!IsFiniteSet, Vectors!SetToSeqs, P!Vectors!SetToSeqs, Vectors!ToSet,
         P!Vectors!ToSet

\* What ContextParts_proofs proves, of the part.
LEMMA VectorsKeeps == Vectors!Spec => [](Vectors!ComparesLikeWithLike /\ Vectors!KeyTellsEntries)
<1>1. P!Vectors!Spec => [](P!Vectors!ComparesLikeWithLike /\ P!Vectors!KeyTellsEntries)
  BY P!VectorsStayRight, FactsAreNamed DEF P!Named, P!Vectors!None, Vectors!None
<1>2. (P!Vectors!ComparesLikeWithLike <=> Vectors!ComparesLikeWithLike) /\ (P!Vectors!KeyTellsEntries <=> Vectors!KeyTellsEntries)
  BY DEF Vectors!None, P!Vectors!None, Vectors!NoVector, P!Vectors!NoVector, Vectors!Vector,
         P!Vectors!Vector, Vectors!Signatures, P!Vectors!Signatures,
         Vectors!ComparesLikeWithLike, P!Vectors!ComparesLikeWithLike, Vectors!KeyTellsEntries,
         P!Vectors!KeyTellsEntries, Vectors!SetToSeq, P!Vectors!SetToSeq, Vectors!IsInjective,
         P!Vectors!IsInjective, Vectors!Cardinality, P!Vectors!Cardinality,
         Vectors!IsFiniteSet, P!Vectors!IsFiniteSet, Vectors!SetToSeqs, P!Vectors!SetToSeqs,
         Vectors!ToSet, P!Vectors!ToSet
<1> QED
  BY <1>1, <1>2, VectorsIsProved, PTL

\* Whichever models are configured, in each behaviour of the part.
LEMMA VectorsHolds == Spec => [](which = "Vectors" => Vectors!ComparesLikeWithLike /\ Vectors!KeyTellsEntries)
<1>1. Init /\ which = "Vectors" => Vectors!Init
  BY DEF Init
<1>2. which = "Vectors" /\ [Next]_places => (which = "Vectors")' /\ [Vectors!Next]_(Vectors!vars)
  BY DEF Next, places, Vectors!vars
<1>3. ~(which = "Vectors") /\ [Next]_places => (~(which = "Vectors"))'
  BY DEF Next, places
<1>4. Vectors!Init /\ [][Vectors!Next]_(Vectors!vars) => [](Vectors!ComparesLikeWithLike /\ Vectors!KeyTellsEntries)
  BY VectorsKeeps DEF Vectors!Spec
<1> QED
  BY <1>1, <1>2, <1>3, <1>4, PTL DEF Spec

\* A search finds what the files hold if the index says so, an injection overlooks no fact for
\* it, and vectors are compared with vectors of their model (search.py, search_semantic.py).
THEOREM SearchStaysRight == Spec => []SearchIsRight
<1>1. /\ which = "Index" => Index!FreshIndexIsRight /\ Index!InjectionMissesNothing
      /\ which = "Vectors" => Vectors!ComparesLikeWithLike /\ Vectors!KeyTellsEntries
      => SearchIsRight
  BY SMTT(30) DEF SearchIsRight
<1> QED
  BY <1>1, IndexHolds, VectorsHolds, PTL

-----------------------------------------------------------------------------
(* Refused: SessionStore.                                                 *)

\* The instance with the proofs has the behaviours of the part.
LEMMA RefusedIsProved ==
  RefusedP!Spec <=> Refused!Spec
  BY DEF Refused!disk, RefusedP!disk, Refused!work, RefusedP!work, Refused!promises,
         RefusedP!promises, Refused!vars, RefusedP!vars, Refused!NoRecords, RefusedP!NoRecords,
         Refused!Held, RefusedP!Held, Refused!NoJob, RefusedP!NoJob, Refused!Init,
         RefusedP!Init, Refused!LogWriters, RefusedP!LogWriters, Refused!HeldWriters,
         RefusedP!HeldWriters, Refused!GzWriters, RefusedP!GzWriters, Refused!IndexWriters,
         RefusedP!IndexWriters, Refused!Others, RefusedP!Others, Refused!LogChanged,
         RefusedP!LogChanged, Refused!Blame, RefusedP!Blame, Refused!Begin, RefusedP!Begin,
         Refused!Goto, RefusedP!Goto, Refused!End, RefusedP!End, Refused!Store, RefusedP!Store,
         Refused!AppendEvent, RefusedP!AppendEvent, Refused!Capture, RefusedP!Capture,
         Refused!TruncateLog, RefusedP!TruncateLog, Refused!OpenLog, RefusedP!OpenLog,
         Refused!WriteLog, RefusedP!WriteLog, Refused!OpenHeld, RefusedP!OpenHeld,
         Refused!WriteHeld, RefusedP!WriteHeld, Refused!Release, RefusedP!Release,
         Refused!OpenRelease, RefusedP!OpenRelease, Refused!WriteRelease,
         RefusedP!WriteRelease, Refused!CommitSucceeds, RefusedP!CommitSucceeds,
         Refused!CommitFails, RefusedP!CommitFails, Refused!DropHeld, RefusedP!DropHeld,
         Refused!Discard, RefusedP!Discard, Refused!Archive, RefusedP!Archive, Refused!Merged,
         RefusedP!Merged, Refused!ReadGz, RefusedP!ReadGz, Refused!ReadGzRaises,
         RefusedP!ReadGzRaises, Refused!Resumes, RefusedP!Resumes, Refused!OpenGz,
         RefusedP!OpenGz, Refused!WriteGz, RefusedP!WriteGz, Refused!OpenIndex,
         RefusedP!OpenIndex, Refused!WriteIndex, RefusedP!WriteIndex, Refused!UnlinkLog,
         RefusedP!UnlinkLog, Refused!PurgeLog, RefusedP!PurgeLog, Refused!PurgeArchive,
         RefusedP!PurgeArchive, Refused!NamesWithout, RefusedP!NamesWithout,
         Refused!PurgeIndex, RefusedP!PurgeIndex, Refused!Crash, RefusedP!Crash,
         Refused!Recording, RefusedP!Recording, Refused!Reviewing, RefusedP!Reviewing,
         Refused!Archiving, RefusedP!Archiving, Refused!Purging, RefusedP!Purging,
         Refused!Next, RefusedP!Next, Refused!Spec, RefusedP!Spec

\* What SessionStore_proofs proves, of the part.
LEMMA RefusedKeeps == Refused!Spec => [](Refused!RefusalHolds /\ Refused!EventsKept)
<1>1. RefusedP!Spec => [](RefusedP!RefusalHolds /\ RefusedP!EventsKept)
  BY RefusedP!RefusalsHold, RefusedP!TurnsAreKept, TurnKinds, MarkersAreNoFiles, ModeIsBoolean, CrashesAreBounded, PTL
<1>2. (RefusedP!RefusalHolds <=> Refused!RefusalHolds) /\ (RefusedP!EventsKept <=> Refused!EventsKept)
  BY DEF Refused!Held, RefusedP!Held, Refused!InFlight, RefusedP!InFlight, Refused!Stored,
         RefusedP!Stored, Refused!EventsKept, RefusedP!EventsKept, Refused!RefusalHolds,
         RefusedP!RefusalHolds
<1> QED
  BY <1>1, <1>2, RefusedIsProved, PTL

\* Whatever overlaps and wherever a process dies, in each behaviour of the part.
LEMMA RefusedHolds == Spec => [](which = "Refused" => Refused!RefusalHolds /\ Refused!EventsKept)
<1>1. Init /\ which = "Refused" => Refused!Init
  BY DEF Init
<1>2. which = "Refused" /\ [Next]_places => (which = "Refused")' /\ [Refused!Next]_(Refused!vars)
  BY DEF Next, places, Refused!vars, Refused!disk, Refused!work, Refused!promises
<1>3. ~(which = "Refused") /\ [Next]_places => (~(which = "Refused"))'
  BY DEF Next, places
<1>4. Refused!Init /\ [][Refused!Next]_(Refused!vars) => [](Refused!RefusalHolds /\ Refused!EventsKept)
  BY RefusedKeeps DEF Refused!Spec
<1> QED
  BY <1>1, <1>2, <1>3, <1>4, PTL DEF Spec

\* A turn that redaction fails on, and a payload nobody released, are in no log and no
\* archive, whatever overlaps and wherever a process dies, and what was recorded or released
\* is kept (sessions.py).
THEOREM RefusalsHold == Spec => []RefusalHolds
<1>1. (which = "Refused" => Refused!RefusalHolds /\ Refused!EventsKept) => RefusalHolds
  BY DEF RefusalHolds
<1> QED
  BY <1>1, RefusedHolds, PTL
=============================================================================
