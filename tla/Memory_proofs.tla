---------------------------- MODULE Memory_proofs ----------------------------
(***************************************************************************)
(* What holds of the parts of Memory, for every value of their constants.  *)
(* A theorem about a component is about each behaviour of its part: the    *)
(* part whose turn it is never changes, its steps are those of the         *)
(* component on the places, and the others leave its properties true.      *)
(***************************************************************************)
EXTENDS Memory, TLAPS

P == INSTANCE MemoryParts_proofs WITH
  File <- Document, Limit <- MaxActs, MaxActs <- MaxActs["Store"], Text <- Statement,
  NoText <- Unsaid, file <- v1, cache <- v2, tombs <- v3, next <- v4, pc <- v5, job <- v6,
  acts <- v7, stale <- v8, kept <- v9, breach <- v10,
  known <- v1, home <- v2, files <- v3, main <- v4, side <- v5, originMain <- v6,
  originSide <- v7, trackMain <- v8, trackSide <- v9, snap <- v10, pull <- v11, aPc <- v12,
  aJob <- v13, aNext <- v14, aActs <- v15, aBreach <- v16,
  store <- v1, jFile <- v2, manifest <- v3, jPc <- v4, plan <- v5, dirty <- v6, render <- v7,
  todo <- v8, jNext <- v9, edits <- v10, jActs <- v11, seen <- v12, landed <- v13,
  undone <- v14, jBreach <- v15,
  repo <- v1, snapshot <- v2, bManifest <- v3, bPc <- v4, bTodo <- v5, made <- v6, bActs <- v7,
  bSeen <- v8, during <- v9, restored <- v10,
  version <- v1, header <- v2, index <- v3, sFile <- v4, fix <- v5, fixer <- v6, dream <- v7,
  by <- v8, sPc <- v9, text <- v10, sTodo <- v11, done <- v12, sMade <- v13, sActs <- v14,
  last <- v15, spoilt <- v16, outcome <- v17, calm <- v18, settled <- v19,
  mode <- v1, wt <- v2, log <- v3, branch <- v4, fSide <- v5, pr <- v6, body <- v7, past <- v8,
  fPc <- v9, fJob <- v10, fActs <- v11, fBreach <- v12

-----------------------------------------------------------------------------
(* Across: CrossProject.                                                  *)

\* The instance with the proofs has the behaviours of the part.
LEMMA AcrossIsProved ==
  P!Across!Spec <=> Across!Spec
  BY DEF Across!Alien, P!Across!Alien, Across!NoBranch, P!Across!NoBranch, Across!clone,
         P!Across!clone, Across!hub, P!Across!hub, Across!command, P!Across!command,
         Across!vars, P!Across!vars, Across!None, P!Across!None, Across!NoJob, P!Across!NoJob,
         Across!Init, P!Across!Init, Across!Act, P!Across!Act, Across!Blame, P!Across!Blame,
         Across!At, P!Across!At, Across!Goto, P!Across!Goto, Across!Holders, P!Across!Holders,
         Across!Ambiguous, P!Across!Ambiguous, Across!Topics, P!Across!Topics, Across!Said,
         P!Across!Said, Across!Candidate, P!Across!Candidate, Across!Eligible,
         P!Across!Eligible, Across!Learn, P!Across!Learn,
         Across!Start, P!Across!Start, Across!Write, P!Across!Write, Across!CommitBranch,
         P!Across!CommitBranch, Across!Fail, P!Across!Fail, Across!CleanUp, P!Across!CleanUp,
         Across!Back, P!Across!Back, Across!Delete, P!Across!Delete, Across!Fetched,
         P!Across!Fetched, Across!Fetch, P!Across!Fetch, Across!Push, P!Across!Push,
         Across!Snapshot, P!Across!Snapshot, Across!Save, P!Across!Save, Across!OpenPull,
         P!Across!OpenPull, Across!Look, P!Across!Look, Across!Create, P!Across!Create,
         Across!GiveUp, P!Across!GiveUp, Across!CleanUpFails, P!Across!CleanUpFails,
         Across!Die, P!Across!Die, Across!MergePull, P!Across!MergePull, Across!ClosePull,
         P!Across!ClosePull, Across!Meddle, P!Across!Meddle, Across!Tidy, P!Across!Tidy,
         Across!Next, P!Across!Next, Across!Spec, P!Across!Spec, Across!Cardinality,
         P!Across!Cardinality, Across!IsFiniteSet, P!Across!IsFiniteSet

\* What MemoryParts_proofs proves, of the part.
LEMMA AcrossKeeps == Across!Spec => [](Across!PromotedOnce /\ Across!OpenedAsPushed
  /\ Across!FailureLeavesMain)
<1>1. P!Across!Spec => [](P!Across!PromotedOnce /\ P!Across!OpenedAsPushed
        /\ P!Across!FailureLeavesMain)
  BY P!PromotionsStayWhole, BoundsAreNumbers
<1>2. /\ P!Across!PromotedOnce <=> Across!PromotedOnce
      /\ P!Across!OpenedAsPushed <=> Across!OpenedAsPushed
      /\ P!Across!FailureLeavesMain <=> Across!FailureLeavesMain
  BY DEF Across!Alien, P!Across!Alien, Across!NoBranch, P!Across!NoBranch, Across!None,
         P!Across!None, Across!PromotedOnce, P!Across!PromotedOnce, Across!OpenedAsPushed,
         P!Across!OpenedAsPushed, Across!FailureLeavesMain, P!Across!FailureLeavesMain,
         Across!Cardinality, P!Across!Cardinality, Across!IsFiniteSet, P!Across!IsFiniteSet
<1> QED
  BY <1>1, <1>2, AcrossIsProved, PTL

\* Whatever is promoted, in each behaviour of the part.
LEMMA AcrossHolds == Spec => [](which = "Across" => Across!PromotedOnce /\ Across!OpenedAsPushed
  /\ Across!FailureLeavesMain)
<1>1. Init /\ which = "Across" => Across!Init
  BY DEF Init
<1>2. which = "Across" /\ [Next]_places => (which = "Across")' /\ [Across!Next]_(Across!vars)
  BY DEF Next, places, Across!vars, Across!clone, Across!hub, Across!command
<1>3. ~(which = "Across") /\ [Next]_places => (~(which = "Across"))'
  BY DEF Next, places
<1>4. Across!Init /\ [][Across!Next]_(Across!vars)
        => [](Across!PromotedOnce /\ Across!OpenedAsPushed /\ Across!FailureLeavesMain)
  BY AcrossKeeps DEF Across!Spec
<1> QED
  BY <1>1, <1>2, <1>3, <1>4, PTL DEF Spec

\* A statement of several projects is promoted once, opened as it was pushed, and a failure
\* leaves main alone (cross_project.py).
THEOREM PromotionsStayWhole == Spec => []PromotionsAreWhole
<1>1. (which = "Across" => /\ Across!PromotedOnce /\ Across!OpenedAsPushed
                           /\ Across!FailureLeavesMain)
      => PromotionsAreWhole
  BY DEF PromotionsAreWhole
<1> QED
  BY <1>1, AcrossHolds, PTL

-----------------------------------------------------------------------------
(* Projected: Projection.                                                 *)

\* The instance with the proofs has the behaviours of the part.
LEMMA ProjectedIsProved ==
  P!Projected!Spec <=> Projected!Spec
  BY DEF Projected!Id, P!Projected!Id, Projected!Note, P!Projected!Note, Projected!File,
         P!Projected!File, Projected!Edit, P!Projected!Edit, Projected!NoText,
         P!Projected!NoText, Projected!program, P!Projected!program, Projected!vars,
         P!Projected!vars, Projected!None, P!Projected!None, Projected!Blank,
         P!Projected!Blank, Projected!Init, P!Projected!Init, Projected!Act, P!Projected!Act,
         Projected!Goto, P!Projected!Goto, Projected!Set, P!Projected!Set, Projected!Blame,
         P!Projected!Blame, Projected!Finish, P!Projected!Finish, Projected!Changed,
         P!Projected!Changed, Projected!FactOf, P!Projected!FactOf, Projected!Planned,
         P!Projected!Planned, Projected!Import, P!Projected!Import, Projected!Supersede,
         P!Projected!Supersede, Projected!AddFact, P!Projected!AddFact, Projected!ImportDone,
         P!Projected!ImportDone, Projected!Export, P!Projected!Export, Projected!Unimported,
         P!Projected!Unimported, Projected!Rendered, P!Projected!Rendered, Projected!Stale,
         P!Projected!Stale, Projected!Work, P!Projected!Work, Projected!StartWriting,
         P!Projected!StartWriting, Projected!Check, P!Projected!Check, Projected!Races,
         P!Projected!Races, Projected!Forgotten, P!Projected!Forgotten, Projected!WriteFile,
         P!Projected!WriteFile, Projected!WriteManifest, P!Projected!WriteManifest,
         Projected!Die, P!Projected!Die, Projected!HumanEdits, P!Projected!HumanEdits,
         Projected!StoreChanges, P!Projected!StoreChanges, Projected!Next, P!Projected!Next,
         Projected!Spec, P!Projected!Spec, Projected!Cardinality, P!Projected!Cardinality,
         Projected!IsFiniteSet, P!Projected!IsFiniteSet

\* What MemoryParts_proofs proves, of the part.
LEMMA ProjectedKeeps == Projected!Spec
  => [](Projected!EditsReachTheStore /\ Projected!OneFactPerEdit)
<1>1. P!Projected!Spec => [](P!Projected!EditsReachTheStore /\ P!Projected!OneFactPerEdit)
  BY P!EditsBecomeFacts, BoundsAreNumbers DEF P!Bounded
<1>2. /\ P!Projected!EditsReachTheStore <=> Projected!EditsReachTheStore
      /\ P!Projected!OneFactPerEdit <=> Projected!OneFactPerEdit
  BY DEF Projected!Id, P!Projected!Id, Projected!Note, P!Projected!Note, Projected!File,
         P!Projected!File, Projected!Edit, P!Projected!Edit, Projected!Made, P!Projected!Made,
         Projected!EditsReachTheStore, P!Projected!EditsReachTheStore,
         Projected!OneFactPerEdit, P!Projected!OneFactPerEdit, Projected!Cardinality,
         P!Projected!Cardinality, Projected!IsFiniteSet, P!Projected!IsFiniteSet
<1> QED
  BY <1>1, <1>2, ProjectedIsProved, PTL

\* Whatever is edited, exported and imported, in each behaviour of the part.
LEMMA ProjectedHolds == Spec => [](which = "Projected" => Projected!EditsReachTheStore
  /\ Projected!OneFactPerEdit)
<1>1. Init /\ which = "Projected" => Projected!Init
  BY DEF Init
<1>2. which = "Projected" /\ [Next]_places => (which = "Projected")'
        /\ [Projected!Next]_(Projected!vars)
  BY DEF Next, places, Projected!vars, Projected!program
<1>3. ~(which = "Projected") /\ [Next]_places => (~(which = "Projected"))'
  BY DEF Next, places
<1>4. Projected!Init /\ [][Projected!Next]_(Projected!vars)
        => [](Projected!EditsReachTheStore /\ Projected!OneFactPerEdit)
  BY ProjectedKeeps DEF Projected!Spec
<1> QED
  BY <1>1, <1>2, <1>3, <1>4, PTL DEF Spec

-----------------------------------------------------------------------------
(* Backups: Backup.                                                       *)

\* The instance with the proofs has the behaviours of the part.
LEMMA BackupsIsProved ==
  P!Backups!Spec <=> Backups!Spec
  BY DEF Backups!vars, P!Backups!vars, Backups!NoBackup, P!Backups!NoBackup,
         Backups!NoManifest, P!Backups!NoManifest, Backups!Nothing, P!Backups!Nothing,
         Backups!There, P!Backups!There, Backups!Init, P!Backups!Init, Backups!Act,
         P!Backups!Act, Backups!Others, P!Backups!Others, Backups!Export, P!Backups!Export,
         Backups!Copy, P!Backups!Copy, Backups!Copied, P!Backups!Copied, Backups!WriteManifest,
         P!Backups!WriteManifest, Backups!Discard, P!Backups!Discard, Backups!Damage,
         P!Backups!Damage, Backups!Import, P!Backups!Import, Backups!Clear, P!Backups!Clear,
         Backups!Cleared, P!Backups!Cleared, Backups!Restart, P!Backups!Restart,
         Backups!Restore, P!Backups!Restore, Backups!Finish, P!Backups!Finish, Backups!Die,
         P!Backups!Die, Backups!Next, P!Backups!Next, Backups!Spec, P!Backups!Spec

\* What MemoryParts_proofs proves, of the part.
LEMMA BackupsKeeps == Backups!Spec => [](Backups!RestoredIsWhole)
<1>1. P!Backups!Spec => [](P!Backups!RestoredIsWhole)
  BY P!ImportsRestoreAll, FilesAreNamed DEF P!FilesAreNamed, P!Backups!NoBackup, Backups!NoBackup,
     P!Backups!NoManifest, Backups!NoManifest
<1>2. (P!Backups!RestoredIsWhole <=> Backups!RestoredIsWhole)
  BY DEF Backups!RestoredIsWhole, P!Backups!RestoredIsWhole
<1> QED
  BY <1>1, <1>2, BackupsIsProved, PTL

\* Whatever is exported and restored, in each behaviour of the part.
LEMMA BackupsHolds == Spec => [](which = "Backups" => Backups!RestoredIsWhole)
<1>1. Init /\ which = "Backups" => Backups!Init
  BY DEF Init
<1>2. which = "Backups" /\ [Next]_places => (which = "Backups")' /\ [Backups!Next]_(Backups!vars)
  BY DEF Next, places, Backups!vars
<1>3. ~(which = "Backups") /\ [Next]_places => (~(which = "Backups"))'
  BY DEF Next, places
<1>4. Backups!Init /\ [][Backups!Next]_(Backups!vars) => [](Backups!RestoredIsWhole)
  BY BackupsKeeps DEF Backups!Spec
<1> QED
  BY <1>1, <1>2, <1>3, <1>4, PTL DEF Spec

-----------------------------------------------------------------------------
(* Versions: Schema.                                                      *)

\* The instance with the proofs has the behaviours of the part.
LEMMA VersionsIsProved ==
  P!Versions!Spec <=> Versions!Spec
  BY DEF Versions!repo, P!Versions!repo, Versions!migration, P!Versions!migration,
         Versions!vars, P!Versions!vars, Versions!Program, P!Versions!Program,
         Versions!Missing, P!Versions!Missing, Versions!FactCurrent, P!Versions!FactCurrent,
         Versions!Cut, P!Versions!Cut, Versions!Unread, P!Versions!Unread, Versions!Init,
         P!Versions!Init, Versions!Act, P!Versions!Act, Versions!Elsewhere,
         P!Versions!Elsewhere, Versions!Fixable, P!Versions!Fixable, Versions!Fix,
         P!Versions!Fix, Versions!Open, P!Versions!Open, Versions!Number, P!Versions!Number,
         Versions!Header, P!Versions!Header, Versions!Rebuild, P!Versions!Rebuild,
         Versions!DieFixing, P!Versions!DieFixing, Versions!Preflight, P!Versions!Preflight,
         Versions!WriteMemory, P!Versions!WriteMemory, Versions!Refreshed,
         P!Versions!Refreshed, Versions!Refresh, P!Versions!Refresh, Versions!DieDreaming,
         P!Versions!DieDreaming, Versions!Others, P!Versions!Others, Versions!Migrate,
         P!Versions!Migrate, Versions!Read, P!Versions!Read, Versions!Pending,
         P!Versions!Pending, Versions!StartWriting, P!Versions!StartWriting, Versions!Updated,
         P!Versions!Updated, Versions!Put, P!Versions!Put, Versions!PutFails,
         P!Versions!PutFails, Versions!Restored, P!Versions!Restored, Versions!Restore,
         P!Versions!Restore, Versions!Finish, P!Versions!Finish, Versions!DieMigrating,
         P!Versions!DieMigrating, Versions!Write, P!Versions!Write, Versions!Next,
         P!Versions!Next, Versions!Spec, P!Versions!Spec

\* What MemoryParts_proofs proves, of the part.
LEMMA VersionsKeeps == Versions!Spec
  => [](Versions!MigrationIsWhole /\ Versions!DreamSettlesVersions)
<1>1. P!Versions!Spec => [](P!Versions!MigrationIsWhole /\ P!Versions!DreamSettlesVersions)
  BY P!VersionsSettle
<1>2. /\ P!Versions!MigrationIsWhole <=> Versions!MigrationIsWhole
      /\ P!Versions!DreamSettlesVersions <=> Versions!DreamSettlesVersions
  BY DEF Versions!FactCurrent, P!Versions!FactCurrent, Versions!Unread, P!Versions!Unread,
         Versions!Pending, P!Versions!Pending, Versions!MigrationIsWhole,
         P!Versions!MigrationIsWhole, Versions!DreamSettlesVersions,
         P!Versions!DreamSettlesVersions
<1> QED
  BY <1>1, <1>2, VersionsIsProved, PTL

\* Whatever is migrated and repaired, in each behaviour of the part.
LEMMA VersionsHolds == Spec => [](which = "Versions" => Versions!MigrationIsWhole
  /\ Versions!DreamSettlesVersions)
<1>1. Init /\ which = "Versions" => Versions!Init
  BY DEF Init
<1>2. which = "Versions" /\ [Next]_places => (which = "Versions")'
        /\ [Versions!Next]_(Versions!vars)
  BY DEF Next, places, Versions!vars, Versions!repo, Versions!migration
<1>3. ~(which = "Versions") /\ [Next]_places => (~(which = "Versions"))'
  BY DEF Next, places
<1>4. Versions!Init /\ [][Versions!Next]_(Versions!vars)
        => [](Versions!MigrationIsWhole /\ Versions!DreamSettlesVersions)
  BY VersionsKeeps DEF Versions!Spec
<1> QED
  BY <1>1, <1>2, <1>3, <1>4, PTL DEF Spec

\* Edited files of an export, backups and migrated files lose nothing on their way into the
\* repository (backup.py, migrations, schema.py).
THEOREM ImportsStayWhole == Spec => []ImportsAreWhole
<1>1. /\ which = "Projected" => Projected!EditsReachTheStore /\ Projected!OneFactPerEdit
      /\ which = "Backups" => Backups!RestoredIsWhole
      /\ which = "Versions" => Versions!MigrationIsWhole /\ Versions!DreamSettlesVersions
      => ImportsAreWhole
  BY DEF ImportsAreWhole
<1> QED
  BY <1>1, ProjectedHolds, BackupsHolds, VersionsHolds, PTL

-----------------------------------------------------------------------------
(* Actions: FactActions.                                                  *)

\* The instance with the proofs has the behaviours of the part.
LEMMA ActionsIsProved ==
  P!Actions!Spec <=> Actions!Spec
  BY DEF Actions!Repo, P!Actions!Repo, Actions!Place, P!Actions!Place, Actions!Files,
         P!Actions!Files, Actions!Item, P!Actions!Item, Actions!git, P!Actions!git,
         Actions!github, P!Actions!github, Actions!vars, P!Actions!vars, Actions!Clean,
         P!Actions!Clean, Actions!NoJob, P!Actions!NoJob, Actions!Last, P!Actions!Last,
         Actions!Head0, P!Actions!Head0, Actions!Has, P!Actions!Has, Actions!Tombed,
         P!Actions!Tombed, Actions!Init, P!Actions!Init, Actions!Act, P!Actions!Act,
         Actions!Blame, P!Actions!Blame, Actions!Put, P!Actions!Put, Actions!Cut,
         P!Actions!Cut, Actions!Commit, P!Actions!Commit, Actions!Begin, P!Actions!Begin,
         Actions!OnlyIn, P!Actions!OnlyIn, Actions!Forget, P!Actions!Forget, Actions!Confirm,
         P!Actions!Confirm, Actions!Edit, P!Actions!Edit, Actions!MoveWithin,
         P!Actions!MoveWithin, Actions!MoveAcross, P!Actions!MoveAcross, Actions!Finish,
         P!Actions!Finish, Actions!RunStep, P!Actions!RunStep, Actions!StepFails,
         P!Actions!StepFails, Actions!Reverted, P!Actions!Reverted, Actions!Noted, P!Actions!Noted, Actions!Rollback,
         P!Actions!Rollback, Actions!Branch, P!Actions!Branch, Actions!Without,
         P!Actions!Without, Actions!With, P!Actions!With, Actions!Tombs, P!Actions!Tombs,
         Actions!ForgetGoverned, P!Actions!ForgetGoverned, Actions!RollbackGoverned,
         P!Actions!RollbackGoverned, Actions!Materialize, P!Actions!Materialize,
         Actions!CommitBranch, P!Actions!CommitBranch, Actions!CleanUp, P!Actions!CleanUp,
         Actions!OnMain, P!Actions!OnMain, Actions!BackToMain, P!Actions!BackToMain,
         Actions!StuckOnBranch, P!Actions!StuckOnBranch, Actions!OpenProposal,
         P!Actions!OpenProposal, Actions!Merge, P!Actions!Merge, Actions!DropBranch,
         P!Actions!DropBranch, Actions!OtherCommits, P!Actions!OtherCommits, Actions!Die,
         P!Actions!Die, Actions!Direct, P!Actions!Direct, Actions!Next, P!Actions!Next,
         Actions!Spec, P!Actions!Spec, Actions!Cardinality, P!Actions!Cardinality,
         Actions!IsFiniteSet, P!Actions!IsFiniteSet

\* What MemoryParts_proofs proves, of the part.
LEMMA ActionsKeeps == Actions!Spec => [](Actions!EachFactOnce /\ Actions!NothingLeftBehind
  /\ Actions!DeathLosesNothing /\ Actions!ProposalSaysWhatItDoes)
<1>1. P!Actions!Spec => [](P!Actions!EachFactOnce /\ P!Actions!NothingLeftBehind
        /\ P!Actions!DeathLosesNothing /\ P!Actions!ProposalSaysWhatItDoes)
  BY P!ActionsAreAllOrNothing
<1>2. /\ P!Actions!EachFactOnce <=> Actions!EachFactOnce
      /\ P!Actions!NothingLeftBehind <=> Actions!NothingLeftBehind
      /\ P!Actions!DeathLosesNothing <=> Actions!DeathLosesNothing
      /\ P!Actions!ProposalSaysWhatItDoes <=> Actions!ProposalSaysWhatItDoes
  BY DEF Actions!Repo, P!Actions!Repo, Actions!Place, P!Actions!Place, Actions!Files,
         P!Actions!Files, Actions!Last, P!Actions!Last, Actions!Head0, P!Actions!Head0,
         Actions!Has, P!Actions!Has, Actions!Tombed, P!Actions!Tombed, Actions!Tombs,
         P!Actions!Tombs, Actions!Known, P!Actions!Known, Actions!Copies, P!Actions!Copies,
         Actions!EachFactOnce, P!Actions!EachFactOnce, Actions!NothingLeftBehind,
         P!Actions!NothingLeftBehind, Actions!DeathLosesNothing, P!Actions!DeathLosesNothing,
         Actions!ProposalSaysWhatItDoes, P!Actions!ProposalSaysWhatItDoes, Actions!Cardinality,
         P!Actions!Cardinality, Actions!IsFiniteSet, P!Actions!IsFiniteSet
<1> QED
  BY <1>1, <1>2, ActionsIsProved, PTL

\* Whatever is done to facts, in each behaviour of the part.
LEMMA ActionsHolds == Spec => [](which = "Actions" => Actions!EachFactOnce
  /\ Actions!NothingLeftBehind /\ Actions!DeathLosesNothing /\ Actions!ProposalSaysWhatItDoes)
<1>1. Init /\ which = "Actions" => Actions!Init
  BY DEF Init
<1>2. which = "Actions" /\ [Next]_places => (which = "Actions")' /\ [Actions!Next]_(Actions!vars)
  BY DEF Next, places, Actions!vars, Actions!git, Actions!github
<1>3. ~(which = "Actions") /\ [Next]_places => (~(which = "Actions"))'
  BY DEF Next, places
<1>4. Actions!Init /\ [][Actions!Next]_(Actions!vars)
        => [](Actions!EachFactOnce /\ Actions!NothingLeftBehind /\ Actions!DeathLosesNothing
          /\ Actions!ProposalSaysWhatItDoes)
  BY ActionsKeeps DEF Actions!Spec
<1> QED
  BY <1>1, <1>2, <1>3, <1>4, PTL DEF Spec

\* Actions on facts do what they say in both repositories or nothing, also when the process
\* dies (fact_actions.py).
THEOREM ActionsStayWhole == Spec => []ActionsAreWhole
<1>1. (which = "Actions" => /\ Actions!EachFactOnce /\ Actions!NothingLeftBehind
                            /\ Actions!DeathLosesNothing /\ Actions!ProposalSaysWhatItDoes)
      => ActionsAreWhole
  BY DEF ActionsAreWhole
<1> QED
  BY <1>1, ActionsHolds, PTL

-----------------------------------------------------------------------------
(* Store: FactStore, which MemoryParts_proofs extends.                    *)

\* The instance with the proofs has the behaviours of the part.
LEMMA StoreIsProved ==
  P!Spec <=> Store!Spec
<1>1. P!Init <=> Store!Init
  BY DEF Store!Path, P!Path, Store!Id, P!Id, Store!NoLines, P!NoLines, Store!NoJob, P!NoJob,
         Store!Init, P!Init
<1>2. \A p, q : P!Load(p, q) <=> Store!Load(p, q)
  BY DEF Store!disk, P!disk, Store!Edited, P!Edited, Store!Successor, P!Successor, Store!Parsed,
         P!Parsed, Store!Fresh, P!Fresh, Store!WritesBack, P!WritesBack, Store!Normalized,
         P!Normalized, Store!Goto, P!Goto, Store!Load, P!Load, Store!Cardinality, P!Cardinality,
         Store!IsFiniteSet, P!IsFiniteSet
<1>3. \A p : P!Fetch(p) <=> Store!Fetch(p)
  BY DEF Store!Path, P!Path, Store!disk, P!disk, Store!Edited, P!Edited, Store!Fresh, P!Fresh,
         Store!Blame, P!Blame, Store!Goto, P!Goto, Store!Settled, P!Settled, Store!Has, P!Has,
         Store!Target, P!Target, Store!Result, P!Result, Store!Fetch, P!Fetch
<1>4. \A p : P!FetchNothing(p) <=> Store!FetchNothing(p)
  BY DEF Store!Path, P!Path, Store!disk, P!disk, Store!NoLines, P!NoLines, Store!NoJob, P!NoJob,
         Store!Edited, P!Edited, Store!Fresh, P!Fresh, Store!Blame, P!Blame, Store!Goto, P!Goto,
         Store!Settled, P!Settled, Store!Has, P!Has, Store!Target, P!Target, Store!FetchNothing,
         P!FetchNothing
<1>5. \A p : P!WriteMd(p) <=> Store!WriteMd(p)
  BY DEF Store!Others, P!Others, Store!Outdates, P!Outdates, Store!Blame, P!Blame, Store!Goto,
         P!Goto, Store!Pairs, P!Pairs, Store!WriteMd, P!WriteMd
<1>6. \A p : P!WriteCache(p) <=> Store!WriteCache(p)
  BY DEF Store!Path, P!Path, Store!Id, P!Id, Store!NoLines, P!NoLines, Store!NoJob, P!NoJob,
         Store!TextsOf, P!TextsOf, Store!Others, P!Others, Store!Outdates, P!Outdates,
         Store!Blame, P!Blame, Store!Goto, P!Goto, Store!WriteCache, P!WriteCache
<1>7. \A p : P!Mark(p) <=> Store!Mark(p)
  BY DEF Store!disk, P!disk, Store!Blame, P!Blame, Store!Goto, P!Goto, Store!Mark, P!Mark
<1>8. \A p : P!MergePair(p) <=> Store!MergePair(p)
  <2> TAKE p
  <2> DEFINE By(T, a, b, both) ==
        LET won == CHOOSE l \in {a[2], b[2]} : l.id = both[1].id
            lost == CHOOSE l \in {a[2], b[2]} : l.id = both[2].id
        IN  /\ v5[p] = "merge" /\ T # {}
            /\ v6' = [v6 EXCEPT
                  ![p].ops = <<Store!Change(1, won, both[1]), Store!Change(1, lost, both[2])>>,
                  ![p].done = @ \union {both[2].id},
                  ![p].view = [q \in Store!Path |->
                    {IF l.id = both[1].id THEN both[1]
                     ELSE IF l.id = both[2].id THEN both[2] ELSE l : l \in @[q]}]]
            /\ Store!Goto(p, "fetch")
            /\ Store!Blame(Store!Deciding(p, {"merge", "dream"}) # {}, "contested")
            /\ UNCHANGED <<Store!disk, v8, v4, v7, v9>>
  <2> DEFINE T == Store!ToMerge(p)
             one == {c[1] : c \in T}
             a == Store!First(one)
             two == {c[2] : c \in {d \in T : d[1] = a}}
             b == Store!First(two)
             both == Store!Resolved(a[2], b[2])
  <2>1. \A S : P!First(S) = Store!First(S)
    BY DEF Store!Before, P!Before, Store!First, P!First
  <2>2. \A l, r : P!Resolved(l, r) = Store!Resolved(l, r)
    BY DEF Store!Score, P!Score, Store!LeftWins, P!LeftWins, Store!Resolved, P!Resolved
  <2>3. P!ToMerge(p) = T
    BY DEF Store!Path, P!Path, Store!Conflict, P!Conflict, Store!At, P!At, Store!Before, P!Before,
           Store!ToMerge, P!ToMerge
  <2> DEFINE U == P!ToMerge(p)
             x == P!First({c[1] : c \in U})
             y == P!First({c[2] : c \in {d \in U : d[1] = x}})
             z == P!Resolved(x[2], y[2])
  <2>4. P!MergePair(p) <=> By(U, x, y, z)
    BY DEF P!MergePair, Store!Change, P!Change, Store!Path, P!Path, Store!Goto, P!Goto,
           Store!Blame, P!Blame, Store!Deciding, P!Deciding, Store!disk, P!disk
  <2>5. Store!MergePair(p) <=> By(T, a, b, both)
    BY DEF Store!MergePair
  <2> HIDE DEF By, T, U
  <2>6. x = a
    BY <2>1, <2>3 DEF U
  <2> HIDE DEF x, a
  <2>7. y = b
    BY <2>1, <2>3, <2>6 DEF U
  <2> HIDE DEF y, b
  <2> QED
    BY <2>2, <2>3, <2>4, <2>5, <2>6, <2>7 DEF U
<1>9. \A p : P!MergeDone(p) <=> Store!MergeDone(p)
  BY DEF Store!Path, P!Path, Store!disk, P!disk, Store!NoLines, P!NoLines, Store!NoJob, P!NoJob,
         Store!Conflict, P!Conflict, Store!At, P!At, Store!Before, P!Before, Store!Goto, P!Goto,
         Store!ToMerge, P!ToMerge, Store!MergeDone, P!MergeDone
<1>10. \A p, t, weak : P!DreamSave(p, t, weak) <=> Store!DreamSave(p, t, weak)
  <2> TAKE p, t, weak
  <2> DEFINE By(c, all) ==
        LET left == [q \in Store!Path |-> {l \in all[q] : ~Store!Suppressed(l) /\ <<q, l>> \notin weak}]
            gone == {q \in Store!Path : left[q] = {} /\ v1[q] # {}}
            order == CHOOSE f \in [1 .. NPaths -> Store!Path] :
                       /\ \A i, j \in 1 .. NPaths : i # j => f[i] # f[j]
                       /\ \A i, j \in 1 .. NPaths : i < j /\ f[j] \in gone => f[i] \in gone
        IN  /\ v5[p] = "dream" /\ v4 <= MaxId
            /\ weak \subseteq {a \in Store!At(all) : a[2].sby = 0 /\ a[2].trust # "hand"}
            /\ v4' = v4 + 1
            /\ v6' = [v6 EXCEPT ![p] =
                 [Store!NoJob EXCEPT
                    !.ops = [i \in 1 .. NPaths |-> Store!Put(order[i], left[order[i]])],
                    !.drop = UNION {Store!Pairs(all[q] \ left[q]) : q \in Store!Path},
                    !.call = "dream"]]
            /\ Store!Goto(p, "fetch")
            /\ Store!Blame(Store!Deciding(p, {"merge"}) # {}, "contested")
            /\ UNCHANGED <<Store!disk, v8, v7, v9>>
  <2> DEFINE Joined(view, c, hits, a, both) ==
        LET old == CHOOSE l \in {both[1], both[2]} : l.id = a[2].id
            new == CHOOSE l \in {both[1], both[2]} : l.id = c.id
        IN  IF hits = {} THEN [view EXCEPT ![1] = @ \union {c}]
            ELSE IF a[2].text = c.text THEN view
            ELSE [[view EXCEPT ![a[1]] = (@ \ {a[2]}) \union {old}] EXCEPT ![1] = @ \union {new}]
             Hits(view, c) ==
               {a \in Store!At(view) : a[2].sby = 0 /\ (a[2].text = c.text \/ Store!Conflict(a[2], c))}
             c0 == Store!NewFact(v4, t, IF t \in Code THEN "code" ELSE "tool")
             Kept(x) == IF Store!Suppressed(c0) THEN v6[p].view ELSE x
  <2>1. \A S : P!First(S) = Store!First(S)
    BY DEF Store!Before, P!Before, Store!First, P!First
  <2>2. \A l, r : P!Resolved(l, r) = Store!Resolved(l, r)
    BY DEF Store!Score, P!Score, Store!LeftWins, P!LeftWins, Store!Resolved, P!Resolved
  <2>3. \A view, c : P!Consolidated(view, c)
          = Joined(view, c, Hits(view, c), P!First(Hits(view, c)),
                   P!Resolved(P!First(Hits(view, c))[2], c))
    BY DEF P!Consolidated, Store!At, P!At, Store!Path, P!Path, Store!Conflict, P!Conflict
  <2>4. \A view, c : Store!Consolidated(view, c)
          = Joined(view, c, Hits(view, c), Store!First(Hits(view, c)),
                   Store!Resolved(Store!First(Hits(view, c))[2], c))
    BY DEF Store!Consolidated
  <2>5. P!DreamSave(p, t, weak) <=> By(c0, Kept(P!Consolidated(v6[p].view, c0)))
    BY DEF P!DreamSave, Store!Path, P!Path, Store!Suppressed, P!Suppressed, Store!At, P!At,
           Store!NoJob, P!NoJob, Store!NoLines, P!NoLines, Store!Put, P!Put, Store!Pairs,
           P!Pairs, Store!Goto, P!Goto, Store!Blame, P!Blame, Store!Deciding, P!Deciding,
           Store!disk, P!disk, Store!NewFact, P!NewFact
  <2>6. Store!DreamSave(p, t, weak) <=> By(c0, Kept(Store!Consolidated(v6[p].view, c0)))
    BY DEF Store!DreamSave
  <2> HIDE DEF By, Joined, Hits, c0
  <2>7. P!Consolidated(v6[p].view, c0) = Store!Consolidated(v6[p].view, c0)
    BY <2>1, <2>2, <2>3, <2>4
  <2> QED
    BY <2>5, <2>6, <2>7
<1>11. \A p : P!Crash(p) <=> Store!Crash(p)
  BY DEF Store!Path, P!Path, Store!disk, P!disk, Store!NoLines, P!NoLines, Store!NoJob, P!NoJob,
         Store!Act, P!Act, Store!Goto, P!Goto, Store!Has, P!Has, Store!Says, P!Says,
         Store!Remembered, P!Remembered, Store!OnDisk, P!OnDisk, Store!Cutting, P!Cutting,
         Store!Lives, P!Lives, Store!Halfway, P!Halfway, Store!Crash, P!Crash
<1>12. \A p, q, t : P!AddFact(p, q, t) <=> Store!AddFact(p, q, t)
  BY DEF Store!Path, P!Path, Store!disk, P!disk, Store!NoLines, P!NoLines, Store!NoJob, P!NoJob,
         Store!NewFact, P!NewFact, Store!Edited, P!Edited, Store!Fresh, P!Fresh, Store!Act,
         P!Act, Store!Goto, P!Goto, Store!Settled, P!Settled, Store!Call, P!Call, Store!Do,
         P!Do, Store!AddFact, P!AddFact
<1>13. \A p, q, t : P!AppendRaw(p, q, t) <=> Store!AppendRaw(p, q, t)
  BY DEF Store!Id, P!Id, Store!NewFact, P!NewFact, Store!Edited, P!Edited, Store!TextsOf,
         P!TextsOf, Store!Blame, P!Blame, Store!Act, P!Act, Store!AppendRaw, P!AppendRaw
<1>14. \A p, q, l : P!Forget(p, q, l) <=> Store!Forget(p, q, l)
  BY DEF Store!Path, P!Path, Store!NoLines, P!NoLines, Store!NoJob, P!NoJob, Store!Edited,
         P!Edited, Store!Fresh, P!Fresh, Store!Act, P!Act, Store!Goto, P!Goto, Store!Settled,
         P!Settled, Store!Call, P!Call, Store!Do, P!Do, Store!Forget, P!Forget
<1>15. \A p, q, l, h : P!AddAgain(p, q, l, h) <=> Store!AddAgain(p, q, l, h)
  BY DEF Store!Path, P!Path, Store!disk, P!disk, Store!NoLines, P!NoLines, Store!NoJob, P!NoJob,
         Store!NewFact, P!NewFact, Store!Edited, P!Edited, Store!Fresh, P!Fresh, Store!Score,
         P!Score, Store!Merge, P!Merge, Store!Act, P!Act, Store!Goto, P!Goto, Store!Settled,
         P!Settled, Store!Call, P!Call, Store!Change, P!Change, Store!AddAgain, P!AddAgain
<1>16. \A p, q, l, t : P!EditFact(p, q, l, t) <=> Store!EditFact(p, q, l, t)
  BY DEF Store!Path, P!Path, Store!disk, P!disk, Store!NoLines, P!NoLines, Store!NoJob, P!NoJob,
         Store!Edited, P!Edited, Store!Successor, P!Successor, Store!Fresh, P!Fresh, Store!Act,
         P!Act, Store!Goto, P!Goto, Store!Settled, P!Settled, Store!Call, P!Call, Store!Do,
         P!Do, Store!Change, P!Change, Store!EditFact, P!EditFact
<1>17. \A p, q, l, r : P!Move(p, q, l, r) <=> Store!Move(p, q, l, r)
  BY DEF Store!Path, P!Path, Store!disk, P!disk, Store!NoLines, P!NoLines, Store!NoJob, P!NoJob,
         Store!Edited, P!Edited, Store!Fresh, P!Fresh, Store!Act, P!Act, Store!Goto, P!Goto,
         Store!Settled, P!Settled, Store!Call, P!Call, Store!Do, P!Do, Store!Move, P!Move
<1>18. \A p : P!MergeAll(p) <=> Store!MergeAll(p)
  BY DEF Store!Path, P!Path, Store!disk, P!disk, Store!NoLines, P!NoLines, Store!NoJob, P!NoJob,
         Store!Edited, P!Edited, Store!Fresh, P!Fresh, Store!Act, P!Act, Store!Goto, P!Goto,
         Store!Settled, P!Settled, Store!MergeAll, P!MergeAll
<1>19. \A p : P!DreamLoad(p) <=> Store!DreamLoad(p)
  BY DEF Store!Path, P!Path, Store!disk, P!disk, Store!NoLines, P!NoLines, Store!NoJob, P!NoJob,
         Store!Edited, P!Edited, Store!Fresh, P!Fresh, Store!Act, P!Act, Store!Goto, P!Goto,
         Store!Settled, P!Settled, Store!DreamLoad, P!DreamLoad
<1>20. \A q, l : P!HumanDelete(q, l) <=> Store!HumanDelete(q, l)
  BY DEF Store!Act, P!Act, Store!HumanDelete, P!HumanDelete
<1>21. \A q, l, t : P!HumanEdit(q, l, t) <=> Store!HumanEdit(q, l, t)
  BY DEF Store!Edited, P!Edited, Store!Blame, P!Blame, Store!Act, P!Act, Store!HumanEdit,
         P!HumanEdit
<1>22. \A q, t : P!HumanAdd(q, t) <=> Store!HumanAdd(q, t)
  BY DEF Store!NewFact, P!NewFact, Store!Act, P!Act, Store!HumanAdd, P!HumanAdd
<1>23. P!Humans <=> Store!Humans
  BY <1>20, <1>21, <1>22 DEF P!Humans, Store!Humans, P!Path, Store!Path
<1>24. \A p : P!Calls(p) <=> Store!Calls(p)
  BY <1>12, <1>13, <1>14, <1>15, <1>16, <1>17, <1>18, <1>19 DEF P!Calls, Store!Calls, P!Path, Store!Path
<1>25. \A p : P!Steps(p) <=> Store!Steps(p)
  <2> TAKE p
  <2>1. P!Path = Store!Path /\ P!At(v6[p].view) = Store!At(v6[p].view)
    BY DEF P!Path, Store!Path, P!At, Store!At
  <2> QED
    BY <2>1, <1>2, <1>3, <1>4, <1>5, <1>6, <1>7, <1>8, <1>9, <1>10, <1>11 DEF P!Steps, Store!Steps
<1>26. P!Next <=> Store!Next
  BY <1>23, <1>24, <1>25 DEF P!Next, Store!Next
<1>27. P!vars = Store!vars
  BY DEF Store!disk, P!disk, Store!work, P!work, Store!vars, P!vars
<1>28. [P!Next]_(P!vars) <=> [Store!Next]_(Store!vars)
  BY <1>26, <1>27 DEF P!vars, Store!vars, P!disk, Store!disk, P!work, Store!work
<1> QED
  BY <1>1, <1>28, PTL DEF P!Spec, Store!Spec

\* The constants are as the proofs need them.
LEMMA StoreIsSized == P!Sized
  BY StoreIsBounded, SilenceIsNoStatement DEF P!Sized

\* What MemoryParts_proofs proves, of the part.
LEMMA StoreKeeps == Store!Spec
  => [](Store!FactsKept /\ Store!OneLinePerFact /\ Store!ForgottenStays)
<1>1. P!Spec => [](P!FactsKept /\ P!OneLinePerFact /\ P!ForgottenStays)
  BY P!StoreKeepsFacts, StoreIsSized
<1>2. /\ P!FactsKept <=> Store!FactsKept
      /\ P!OneLinePerFact <=> Store!OneLinePerFact
      /\ P!ForgottenStays <=> Store!ForgottenStays
  BY DEF Store!Path, P!Path, Store!Says, P!Says, Store!InTransit, P!InTransit, Store!Remembered,
         P!Remembered, Store!OnDisk, P!OnDisk, Store!Cutting, P!Cutting, Store!Lossless,
         P!Lossless, Store!FactsKept, P!FactsKept, Store!AllLines, P!AllLines,
         Store!OneLinePerFact, P!OneLinePerFact, Store!ForgottenStays, P!ForgottenStays,
         Store!Cardinality, P!Cardinality, Store!IsFiniteSet, P!IsFiniteSet
<1> QED
  BY <1>1, <1>2, StoreIsProved, PTL

\* What its steps leave alone.
LEMMA StoreLeaves == Store!Spec => [][Store!KeepsTexts]_(Store!vars)
<1>1. P!Spec => [][P!KeepsTexts]_(P!vars)
  BY P!StoreKeepsTexts, StoreIsSized
<1>2. [P!KeepsTexts]_(P!vars) => [Store!KeepsTexts]_(Store!vars)
  BY DEF Store!Path, P!Path, Store!disk, P!disk, Store!work, P!work, Store!vars, P!vars,
         Store!Lossless, P!Lossless, Store!KeepsTexts, P!KeepsTexts, Store!Cardinality,
         P!Cardinality, Store!IsFiniteSet, P!IsFiniteSet
<1> QED
  BY <1>1, <1>2, StoreIsProved, PTL

\* Each behaviour of the part is one of the store: what it starts from, and its steps.
LEMMA StoreSteps ==
  /\ Init /\ which = "Store" => Store!Init
  /\ which = "Store" /\ [Next]_places => (which = "Store")' /\ [Store!Next]_(Store!vars)
  /\ ~(which = "Store") /\ [Next]_places => (~(which = "Store"))'
<1>1. Init /\ which = "Store" => Store!Init
  BY DEF Init
<1>2. which = "Store" /\ [Next]_places => (which = "Store")' /\ [Store!Next]_(Store!vars)
  BY DEF Next, places, Store!vars, Store!disk, Store!work
<1>3. ~(which = "Store") /\ [Next]_places => (~(which = "Store"))'
  BY DEF Next, places
<1> QED
  BY <1>1, <1>2, <1>3

\* No fact of the store is lost, in two lines, or brought back, unless a step destroyed what
\* its process had not read: the parts of FactsAreKept other than the end of histories
\* (memory.py, tombstones.py).
THEOREM FactsStay == Spec
  => [](which = "Store" => Store!FactsKept /\ Store!OneLinePerFact /\ Store!ForgottenStays)
<1>1. Store!Init /\ [][Store!Next]_(Store!vars)
        => [](Store!FactsKept /\ Store!OneLinePerFact /\ Store!ForgottenStays)
  BY StoreKeeps DEF Store!Spec
<1> QED
  BY <1>1, StoreSteps, PTL DEF Spec

-----------------------------------------------------------------------------
(* Store and Actions: what their steps leave alone.                       *)

\* What failing actions leave behind, of the part.
LEMMA ActionsLeave == Actions!Spec => [][Actions!LeavesNoTrace]_(Actions!vars)
<1>1. P!Actions!Spec => [][P!Actions!LeavesNoTrace]_(P!Actions!vars)
  BY P!ActionsAreAllOrNothing
<1>2. [P!Actions!LeavesNoTrace]_(P!Actions!vars) => [Actions!LeavesNoTrace]_(Actions!vars)
  BY DEF Actions!Repo, P!Actions!Repo, Actions!git, P!Actions!git, Actions!github,
         P!Actions!github, Actions!vars, P!Actions!vars, Actions!Last, P!Actions!Last,
         Actions!LeavesNoTrace, P!Actions!LeavesNoTrace, Actions!Cardinality,
         P!Actions!Cardinality, Actions!IsFiniteSet, P!Actions!IsFiniteSet
<1> QED
  BY <1>1, <1>2, ActionsIsProved, PTL

\* A step of the store leaves the text under an id, and an action that fails leaves no
\* trace (memory.py, fact_actions.py).
THEOREM ChangesStayClean == Spec => ChangesAreClean
<1>1. Store!Init /\ [][Store!Next]_(Store!vars) => [][Store!KeepsTexts]_(Store!vars)
  BY StoreLeaves DEF Store!Spec
<1>2. Actions!Init /\ [][Actions!Next]_(Actions!vars)
        => [][Actions!LeavesNoTrace]_(Actions!vars)
  BY ActionsLeave DEF Actions!Spec
<1>3. Init /\ which = "Actions" => Actions!Init
  BY DEF Init
<1>4. which = "Actions" /\ [Next]_places => (which = "Actions")' /\ [Actions!Next]_(Actions!vars)
  BY DEF Next, places, Actions!vars, Actions!git, Actions!github
<1>5. ~(which = "Actions") /\ [Next]_places => (~(which = "Actions"))'
  BY DEF Next, places
<1>6. (which = "Store" => [Store!KeepsTexts]_(Store!vars))
        /\ (which = "Actions" => [Actions!LeavesNoTrace]_(Actions!vars)) /\ [Next]_places
      => [/\ which = "Store" => Store!KeepsTexts
          /\ which = "Actions" => Actions!LeavesNoTrace]_places
  BY DEF Next, places, Store!vars, Store!disk, Store!work, Actions!vars, Actions!git, Actions!github,
         Same11, Same12, Same13, Same14, Same15, Same16, Same17, Same18, Same19
<1> QED
  BY <1>1, <1>2, <1>3, <1>4, <1>5, <1>6, StoreSteps, PTL DEF Spec, ChangesAreClean
=============================================================================
