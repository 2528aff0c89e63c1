------------------------------- MODULE Context --------------------------------
(*****************************************************************************)
(* What surrounds the facts: search and injection, captures, the gate of     *)
(* dreams, pushes and the remote, reviews.  Each behaviour is one of one     *)
(* part; their variables share the places v1, v2, ...                        *)
(*****************************************************************************)
EXTENDS Integers, Sequences, FiniteSets

CONSTANTS
  Proc,     \* who acts at once: programs, hooks, clones, machines
  MaxActs,  \* MaxActs[part]: bound on programs, faults and changes by others
  Fact, Session,
  Files, Rebuilder, Server, MaxEdits, MaxRebuilds,                             \* Index
  Parent, Shared, Personal, Window, MaxRefresh, MaxTurns,                      \* Shown
  Candidate, MaxFacts, MaxTokens, Slack, MaxText, Pointer, MaxSection,         \* Block
  Transcript, Short, Secret, MaxRecords,                                       \* Captured
  Ended, Threshold, Cap,                                                       \* Gate
  MaxRuns,                                                                     \* Clones
  BatchSize, MaxQueue, MaxEvents,                                              \* Reports
  Unsafe, MaxCommits, MaxRounds,                                               \* Queue
  MaxAttempts, MaxFiles,                                                       \* Remote
  Logged, Turn, Binary, Unscannable, NoFile, TornFile, Overlap, MaxCrashes,    \* Refused
  Model,                                                                       \* Vectors
  Version, Rotation, Registered                                                \* Review

VARIABLES
  which, \* the part whose turn it is
  v1, v2, v3, v4, v5, v6, v7, v8, v9, v10, v11, v12, v13, v14, v15

places == <<which, v1, v2, v3, v4, v5, v6, v7, v8, v9, v10, v11, v12, v13, v14, v15>>

Index == INSTANCE SearchIndex WITH
  Proc <- Rebuilder, MaxRuns <- MaxRebuilds, disk <- v1, stamp <- v2, row <- v3, words <- v4,
  hashes <- v5, draft <- v6, writer <- v7, pc <- v8, todo <- v9, ready <- v10, runs <- v11,
  breach <- v12
Shown == INSTANCE InjectionLog WITH
  Fact <- Shared, MaxActs <- MaxActs["Shown"], row <- v1, seen <- v2, cited <- v3, events <- v4,
  audited <- v5, pc <- v6, hook <- v7, ses <- v8, turn <- v9, old <- v10, todo <- v11,
  handed <- v12, acts <- v13, turns <- v14, missed <- v15
Block == INSTANCE InjectionBudget WITH
  Fact <- Candidate, text <- v1, pointer <- v2, always <- v3, stage <- v4, fixed <- v5,
  extra <- v6, procs <- v7, budget <- v8, selected <- v9, level <- v10, packed <- v11,
  dropped <- v12
Captured == INSTANCE Capture WITH
  MaxActs <- MaxActs["Captured"], by <- v1, records <- v2, torn <- v3, file <- v4, clean <- v5,
  pc <- v6, left <- v7, parsed <- v8, acts <- v9, got <- v10, breach <- v11
Gate == INSTANCE DreamGate WITH
  Session <- Ended, MaxActs <- MaxActs["Gate"], file <- v1, stored <- v2, pc <- v3, todo <- v4,
  state <- v5, took <- v6, dreamer <- v7, old <- v8, acts <- v9, since <- v10, marked <- v11,
  again <- v12, breach <- v13
Clones == INSTANCE Fleet WITH
  Clone <- Proc, MaxActs <- MaxActs["Clones"], log <- v1, main <- v2, origin <- v3, track <- v4,
  stuck <- v5, pc <- v6, run <- v7, old <- v8, next <- v9, acts <- v10, pulled <- v11
Reports == INSTANCE Telemetry WITH
  Batch <- BatchSize, MaxActs <- MaxActs["Reports"], queue <- v1, state <- v2, server <- v3, got <- v4, pc <- v5,
  seen <- v6, mine <- v7, made <- v8, acts <- v9, dropped <- v10, off <- v11, sentOff <- v12,
  breach <- v13
Queue == INSTANCE PushQueue WITH
  MaxActs <- MaxActs["Queue"], main <- v1, origin <- v2, track <- v3, stuck <- v4, queue <- v5,
  pc <- v6, prog <- v7, own <- v8, swept <- v9, round <- v10, acts <- v11, owed <- v12,
  waived <- v13, breach <- v14
Remote == INSTANCE RemoteSetup WITH
  Machine <- Proc, MaxCommits <- MaxFiles, MaxActs <- MaxActs["Remote"], local <- v1, files <- v2,
  flows <- v3, created <- v4, main <- v5, pc <- v6, tries <- v7, adopted <- v8, next <- v9,
  acts <- v10, done <- v11, held <- v12, raced <- v13
Refused == INSTANCE SessionStore WITH
  Session <- Logged, Event <- Turn, Unsafe <- Unscannable, Absent <- NoFile, Torn <- TornFile,
  log <- v1, gz <- v2, torn <- v3,
  index <- v4, held <- v5, pc <- v6, job <- v7, orphan <- v8, crashes <- v9, staleLogs <- v10,
  staleGz <- v11, kept <- v12, passed <- v13, breach <- v14
Vectors == INSTANCE SemanticCache WITH
  MaxActs <- MaxActs["Vectors"], config <- v1, cache <- v2, pc <- v3, job <- v4, used <- v5,
  acts <- v6
Review == INSTANCE ProposalReview WITH
  main <- v1, pull <- v2, packet <- v3, settings <- v4, stage <- v5, plan <- v6, failed <- v7,
  result <- v8, merit <- v9

ASSUME TurnKinds == Binary \subseteq Turn /\ Unscannable \subseteq Turn
ASSUME MarkersAreNoFiles ==
  /\ \A c \in SUBSET Turn : NoFile # c
  /\ \A names \in SUBSET Logged : names \notin {NoFile, TornFile}
  /\ NoFile # TornFile
  /\ NoFile \notin Logged
ASSUME ModeIsBoolean == Overlap \in BOOLEAN
ASSUME CrashesAreBounded == MaxCrashes \in Nat
ASSUME BoundsAreNumbers ==
  /\ MaxRuns \in Nat /\ Cap \in Nat /\ BatchSize \in Nat /\ MaxQueue \in Nat
  /\ MaxEvents \in Nat /\ MaxFiles \in Nat /\ Files \in Nat
ASSUME TranscriptsAreNumbered == \A t \in Transcript : t \in Nat \ {0} /\ 1 .. t \subseteq Transcript
\* Facts are finitely many, no process has the number 0, no fact and no model is called nothing.
ASSUME FactsAreNamed ==
  /\ IsFiniteSet(Fact) /\ Index!NoOne \notin Rebuilder
  /\ Vectors!None \notin Fact \union Model
ASSUME ProvidersAreKnown == Rotation \in Seq(Review!Provider) /\ Registered \subseteq Review!Provider

\* Places a part does not use.
Blank15 == v15 = {}
Same15 == UNCHANGED v15
Blank14 == v14 = {} /\ Blank15
Same14 == UNCHANGED v14 /\ Same15
Blank13 == v13 = {} /\ Blank14
Same13 == UNCHANGED v13 /\ Same14
Blank12 == v12 = {} /\ Blank13
Same12 == UNCHANGED v12 /\ Same13
Blank11 == v11 = {} /\ Blank12
Same11 == UNCHANGED v11 /\ Same12
Blank10 == v10 = {} /\ Blank11
Same10 == UNCHANGED v10 /\ Same11
Blank9 == v9 = {} /\ Blank10
Same9 == UNCHANGED v9 /\ Same10
Blank8 == v8 = {} /\ Blank9
Same8 == UNCHANGED v8 /\ Same9
Blank7 == v7 = {} /\ Blank8
Same7 == UNCHANGED v7 /\ Same8

Init ==
  \/ which = "Index" /\ Index!Init /\ Blank13
  \/ which = "Shown" /\ Shown!Init
  \/ which = "Block" /\ Block!Init /\ Blank13
  \/ which = "Captured" /\ Captured!Init /\ Blank12
  \/ which = "Gate" /\ Gate!Init /\ Blank14
  \/ which = "Clones" /\ Clones!Init /\ Blank12
  \/ which = "Reports" /\ Reports!Init /\ Blank14
  \/ which = "Queue" /\ Queue!Init /\ Blank15
  \/ which = "Remote" /\ Remote!Init /\ Blank14
  \/ which = "Refused" /\ Refused!Init /\ Blank15
  \/ which = "Vectors" /\ Vectors!Init /\ Blank7
  \/ which = "Review" /\ Review!Init /\ Blank10
Next ==
  /\ UNCHANGED which
  /\ \/ which = "Index" /\ Index!Next /\ Same13
     \/ which = "Shown" /\ Shown!Next
     \/ which = "Block" /\ Block!Next /\ Same13
     \/ which = "Captured" /\ Captured!Next /\ Same12
     \/ which = "Gate" /\ Gate!Next /\ Same14
     \/ which = "Clones" /\ Clones!Next /\ Same12
     \/ which = "Reports" /\ Reports!Next /\ Same14
     \/ which = "Queue" /\ Queue!Next /\ Same15
     \/ which = "Remote" /\ Remote!Next /\ Same14
     \/ which = "Refused" /\ Refused!Next /\ Same15
     \/ which = "Vectors" /\ Vectors!Next /\ Same7
     \/ which = "Review" /\ Review!Next /\ Same10
Spec == Init /\ [][Next]_places

----------------------------------------------------------------------------
\* The type invariants of all parts.
TypesHold ==
  /\ which = "Index" => Index!TypeOK
  /\ which = "Shown" => Shown!TypeOK
  /\ which = "Block" => Block!TypeOK
  /\ which = "Captured" => Captured!TypeOK
  /\ which = "Gate" => Gate!TypeOK
  /\ which = "Clones" => Clones!TypeOK
  /\ which = "Reports" => Reports!TypeOK
  /\ which = "Queue" => Queue!TypeOK
  /\ which = "Remote" => Remote!TypeOK
  /\ which = "Refused" => Refused!TypeOK
  /\ which = "Vectors" => Vectors!TypeOK
  /\ which = "Review" => Review!TypeOK

\* An index that says it is up to date holds what the files hold, an injection overlooks no
\* fact of an index rebuilt since, and vectors are compared with vectors of the same model
\* (search.py, search_semantic.py, embeddings.py; SearchIndex, SemanticCache).
SearchIsRight ==
  /\ which = "Index" => Index!FreshIndexIsRight /\ Index!InjectionMissesNothing
  /\ which = "Vectors" => Vectors!ComparesLikeWithLike /\ Vectors!KeyTellsEntries

\* Facts are refreshed as seldom as configured, turns and audit rows are counted, and the
\* facts chosen fit the budget (inject.py, usage; InjectionLog, InjectionBudget).
InjectionsAddUp ==
  /\ which = "Shown" => Shown!RefreshIsBounded /\ Shown!TurnsAreCounted /\ Shown!CountsAgree
  /\ which = "Block" => Block!FactsFit

\* Capturing a growing transcript again loses nothing and keeps it one session (the capture
\* adapters; Capture).
CapturesAreWhole == which = "Captured" => Captured!CapturesGrow /\ Captured!OneSessionEach

\* Sessions counted make a dream due, one marked is read once, and of the clones one dreams
\* at a time (gates.py, pipeline.py; DreamGate, Fleet).
DreamsWhenDue ==
  /\ which = "Gate" => Gate!GateOpensWhenDue /\ Gate!MarkedIsReadOnce
  /\ which = "Clones" => Clones!OneDreamAtATime

\* An event of one command at a time arrives once, and switching off is for good
\* (telemetry.py; Telemetry).
ReportsArriveOnce ==
  which = "Reports" => Reports!EventsArriveOnce /\ Reports!SwitchedOffForGood

\* A push that failed is queued until it succeeds, and only what was scanned is pushed
\* (push_queue.py, push_safety.py; PushQueue).
PushesAreSafe == which = "Queue" => Queue!PushesAreSafe

\* Setting up a remote keeps what was committed on every machine and leaves them with one
\* history (git_ops.py, cli.py; RemoteSetup).
SetUpIsShared == which = "Remote" => Remote!CommittedStays /\ Remote!SetUpTogether

\* A turn that redaction fails on, and a payload nobody released, are in no log and no
\* archive, whatever overlaps, and what was recorded or released is kept (sessions.py;
\* SessionStore).
RefusalHolds == which = "Refused" => Refused!RefusalHolds /\ Refused!EventsKept

\* The rules approve only what may be approved without a person, ask one for the rest, and
\* a named reviewer decides (l2_review.py, providers.py; ProposalReview).
ReviewsAreFair ==
  which = "Review" => /\ Review!RulesApproveOnlySafe /\ Review!PeopleAreAsked
                      /\ Review!NamedReviewerDecides
=============================================================================
