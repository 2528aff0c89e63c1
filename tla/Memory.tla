-------------------------------- MODULE Memory --------------------------------
(*****************************************************************************)
(* What is done with facts: the store and the actions on it, promotion       *)
(* across projects, exports, backups and versions.  Each behaviour is one of *)
(* one part; their variables share the places v1, v2, ...                    *)
(*****************************************************************************)
EXTENDS Integers, Sequences, FiniteSets

CONSTANTS
  Proc,     \* programs on one clone
  MaxActs,  \* MaxActs[part]: bound on commands, failures, deaths and acts of humans
  Statement, Clash, Code, NPaths, MaxId, Unsaid,  \* Store: what facts can say
  FactId,                                    \* Actions
  Project, Topic, MinRepos, MaxPromotions,   \* Across
  MaxFacts, MaxEdits,                        \* Projected
  Document, MaxVersions,                     \* Backups
  MaxRevs                                    \* Versions, of the same files

VARIABLES
  which, \* the part whose turn it is
  v1, v2, v3, v4, v5, v6, v7, v8, v9, v10, v11, v12, v13, v14, v15, v16, v17, v18, v19

places == <<which, v1, v2, v3, v4, v5, v6, v7, v8, v9, v10, v11, v12, v13, v14, v15, v16, v17, v18, v19>>

Store == INSTANCE FactStore WITH
  Text <- Statement, NoText <- Unsaid, MaxActs <- MaxActs["Store"],
  file <- v1, cache <- v2, tombs <- v3, next <- v4, pc <- v5, job <- v6, acts <- v7, stale <- v8, kept <- v9, breach <- v10
Actions == INSTANCE FactActions WITH
  Fact <- FactId, MaxActs <- MaxActs["Actions"],
  mode <- v1, wt <- v2, log <- v3, branch <- v4, side <- v5, pr <- v6, body <- v7, past <- v8, pc <- v9, job <- v10, acts <- v11, breach <- v12
Across == INSTANCE CrossProject WITH
  MaxFacts <- MaxPromotions, MaxActs <- MaxActs["Across"], known <- v1,
  home <- v2, files <- v3, main <- v4, side <- v5, originMain <- v6, originSide <- v7,
  trackMain <- v8, trackSide <- v9, snap <- v10, pull <- v11, pc <- v12, job <- v13, next <- v14,
  acts <- v15, breach <- v16
Projected == INSTANCE Projection WITH
  MaxActs <- MaxActs["Projected"], store <- v1, file <- v2,
  manifest <- v3, pc <- v4, plan <- v5, dirty <- v6, render <- v7, todo <- v8, next <- v9,
  edits <- v10, acts <- v11, seen <- v12, landed <- v13, undone <- v14, breach <- v15
Backups == INSTANCE Backup WITH
  File <- Document, MaxActs <- MaxActs["Backups"], repo <- v1, snapshot <- v2, manifest <- v3,
  pc <- v4, todo <- v5, made <- v6, acts <- v7, seen <- v8, during <- v9, restored <- v10
Versions == INSTANCE Schema WITH
  File <- Document, MaxActs <- MaxActs["Versions"], version <- v1, header <- v2, index <- v3,
  file <- v4, fix <- v5, fixer <- v6, dream <- v7, by <- v8, pc <- v9, text <- v10, todo <- v11,
  done <- v12, made <- v13, acts <- v14, last <- v15, spoilt <- v16, outcome <- v17, calm <- v18,
  settled <- v19

ASSUME BoundsAreNumbers ==
  MaxPromotions \in Nat /\ MaxFacts \in Nat \ {0} /\ MaxEdits \in Nat
ASSUME StoreIsBounded == NPaths \in Nat \ {0} /\ MaxId \in Nat /\ MaxActs["Store"] \in Nat
\* Facts can say something, and the mark of a missing text is none.
ASSUME SilenceIsNoStatement == Statement # {} /\ Unsaid \notin Statement
\* No file has a name of the missing manifest.
ASSUME FilesAreNamed ==
  Backups!NoBackup \intersect Document = {} /\ Backups!NoManifest \intersect Document = {}

\* Places a part does not use.
Blank19 == v19 = {}
Same19 == UNCHANGED v19
Blank18 == v18 = {} /\ Blank19
Same18 == UNCHANGED v18 /\ Same19
Blank17 == v17 = {} /\ Blank18
Same17 == UNCHANGED v17 /\ Same18
Blank16 == v16 = {} /\ Blank17
Same16 == UNCHANGED v16 /\ Same17
Blank15 == v15 = {} /\ Blank16
Same15 == UNCHANGED v15 /\ Same16
Blank14 == v14 = {} /\ Blank15
Same14 == UNCHANGED v14 /\ Same15
Blank13 == v13 = {} /\ Blank14
Same13 == UNCHANGED v13 /\ Same14
Blank12 == v12 = {} /\ Blank13
Same12 == UNCHANGED v12 /\ Same13
Blank11 == v11 = {} /\ Blank12
Same11 == UNCHANGED v11 /\ Same12

Init ==
  \/ which = "Store" /\ Store!Init /\ Blank11
  \/ which = "Actions" /\ Actions!Init /\ Blank13
  \/ which = "Across" /\ Across!Init /\ Blank17
  \/ which = "Projected" /\ Projected!Init /\ Blank16
  \/ which = "Backups" /\ Backups!Init /\ Blank11
  \/ which = "Versions" /\ Versions!Init
Next ==
  /\ UNCHANGED which
  /\ \/ which = "Store" /\ Store!Next /\ Same11
     \/ which = "Actions" /\ Actions!Next /\ Same13
     \/ which = "Across" /\ Across!Next /\ Same17
     \/ which = "Projected" /\ Projected!Next /\ Same16
     \/ which = "Backups" /\ Backups!Next /\ Same11
     \/ which = "Versions" /\ Versions!Next
Spec == Init /\ [][Next]_places

----------------------------------------------------------------------------
\* The type invariants of all parts.
TypesHold ==
  /\ which = "Store" => Store!TypeOK
  /\ which = "Actions" => Actions!TypeOK
  /\ which = "Across" => Across!TypeOK
  /\ which = "Projected" => Projected!TypeOK
  /\ which = "Backups" => Backups!TypeOK
  /\ which = "Versions" => Versions!TypeOK

\* No fact of the store is lost, written twice or brought back, and its history ends
\* (memory.py, merge.py, tombstones.py; FactStore).
FactsAreKept ==
  which = "Store" => Store!FactsKept /\ Store!HistoryEnds /\ Store!OneLinePerFact /\ Store!ForgottenStays

\* Actions on facts do what they say in both repositories or nothing, also when the process
\* dies (fact_actions.py; FactActions).
ActionsAreWhole ==
  which = "Actions" => /\ Actions!EachFactOnce /\ Actions!NothingLeftBehind
                       /\ Actions!DeathLosesNothing /\ Actions!ProposalSaysWhatItDoes

\* A step of the store leaves the text under an id, and an action that fails leaves no
\* trace (memory.py, fact_actions.py).
ChangesAreClean ==
  [][/\ which = "Store" => Store!KeepsTexts
     /\ which = "Actions" => Actions!LeavesNoTrace]_places

\* A statement of several projects is promoted once, opened as it was pushed, and a failure
\* leaves main alone (cross_project.py; CrossProject).
PromotionsAreWhole ==
  which = "Across" => Across!PromotedOnce /\ Across!OpenedAsPushed /\ Across!FailureLeavesMain

\* Edited files of an export, backups and migrated files lose nothing on their way into the
\* repository (backup.py, migrations/, schema.py; Projection, Backup, Schema).
ImportsAreWhole ==
  /\ which = "Projected" => Projected!EditsReachTheStore /\ Projected!OneFactPerEdit
  /\ which = "Backups" => Backups!RestoredIsWhole
  /\ which = "Versions" => Versions!MigrationIsWhole /\ Versions!DreamSettlesVersions
=============================================================================
