--------------------------------- MODULE Backup ---------------------------------
(***************************************************************************)
(* Full backups (src/umx/backup.py, cli.py export and import): the files   *)
(* of a memory repository are copied one by one into an empty directory,   *)
(* the manifest comes last, and an import copies back what it lists.       *)
(* Hooks and commands write to the repository meanwhile, no lock is taken, *)
(* and either command may die.                                             *)
(***************************************************************************)
EXTENDS Integers, FiniteSets

CONSTANTS
  File,
  MaxVersions, \* bound: versions of files written in one behaviour
  MaxActs      \* bound: commands, deaths and acts of the user in one behaviour

VARIABLES
  repo,     \* repo[f]: the version of f in the memory repository, or 0
  snapshot, \* the same of the backup's copy
  manifest, \* the files it lists, NoManifest while it is missing, NoBackup for an empty directory
  pc, todo, \* the command that runs and the files it has still to copy
  made,     \* versions written so far
  acts,
  seen,     \* ghost: versions f has had since the export began
  during,   \* ghost: files others wrote or removed since the import looked
  restored  \* ghost: an import has just succeeded

vars == <<repo, snapshot, manifest, pc, todo, made, acts, seen, during, restored>>

NoBackup == {"none"}
NoManifest == {"unfinished"}
Nothing == [f \in File |-> 0]
There(tree) == {f \in File : tree[f] # 0}

TypeOK ==
  /\ {repo, snapshot} \subseteq [File -> 0 .. MaxVersions]
  /\ manifest \in {NoBackup, NoManifest} \/ manifest \subseteq File
  /\ pc \in {"idle", "copy", "clear", "restore", "commit"} /\ todo \subseteq File
  /\ made \in 0 .. MaxVersions /\ acts \in 0 .. MaxActs
  /\ seen \in [File -> SUBSET (0 .. MaxVersions)] /\ during \subseteq File /\ restored \in BOOLEAN

Init ==
  /\ repo = Nothing /\ snapshot = Nothing /\ manifest = NoBackup
  /\ pc = "idle" /\ todo = {} /\ made = 0 /\ acts = 0
  /\ seen = [f \in File |-> {0}] /\ during = {} /\ restored = FALSE

Act == acts < MaxActs /\ acts' = acts + 1

\* Somebody writes or removes a file.
Others(f) ==
  /\ \/ made < MaxVersions /\ made' = made + 1 /\ repo' = [repo EXCEPT ![f] = made + 1] /\ UNCHANGED acts
     \/ repo[f] # 0 /\ Act /\ repo' = [repo EXCEPT ![f] = 0] /\ UNCHANGED made
  /\ seen' = IF pc = "copy" THEN [seen EXCEPT ![f] = @ \union {repo'[f]}] ELSE seen
  /\ during' = IF pc \in {"clear", "restore", "commit"} THEN during \union {f} ELSE during
  /\ restored' = FALSE /\ UNCHANGED <<snapshot, manifest, pc, todo>>

\* export --full into a directory that is new or empty: the files are listed, then copied.
Export ==
  /\ pc = "idle" /\ Act /\ manifest = NoBackup /\ manifest' = NoManifest
  /\ pc' = "copy" /\ todo' = There(repo) /\ seen' = [f \in File |-> {repo[f]}]
  /\ restored' = FALSE /\ UNCHANGED <<repo, snapshot, made, during>>

\* A listed file that is gone ends the export.
Copy(f) ==
  /\ pc = "copy" /\ f \in todo
  /\ IF repo[f] = 0 THEN pc' = "idle" /\ todo' = {} /\ UNCHANGED snapshot
     ELSE snapshot' = [snapshot EXCEPT ![f] = repo[f]] /\ todo' = todo \ {f} /\ UNCHANGED pc
  /\ UNCHANGED <<repo, manifest, made, acts, seen, during, restored>>

Copied == pc = "copy" /\ todo = {}
WriteManifest ==
  /\ Copied
  /\ pc' = "idle" /\ todo' = {} /\ manifest' = There(snapshot) \union todo
  /\ UNCHANGED <<repo, snapshot, made, acts, seen, during, restored>>

\* The user empties the directory to export again, or loses files of it.
Discard ==
  /\ pc = "idle" /\ Act /\ snapshot' = Nothing /\ manifest' = NoBackup
  /\ restored' = FALSE /\ UNCHANGED <<repo, pc, todo, made, seen, during>>
Damage(f) ==
  /\ pc = "idle" /\ Act /\ snapshot[f] # 0 /\ snapshot' = [snapshot EXCEPT ![f] = 0]
  /\ restored' = FALSE /\ UNCHANGED <<repo, manifest, pc, todo, made, seen, during>>

\* import --full: the manifest must be there and every file it lists too; a repository with
\* files is refused unless forced.
Import(force) ==
  /\ pc = "idle" /\ Act
  /\ manifest \subseteq There(snapshot)
  /\ There(repo) = {} \/ force
  /\ pc' = (IF force THEN "clear" ELSE "restore")
  /\ todo' = (IF force THEN There(repo) ELSE manifest)
  /\ during' = {} /\ restored' = FALSE
  /\ UNCHANGED <<repo, snapshot, manifest, made, seen>>

\* Everything but .git goes, one entry of the directory after the other.
Clear(f) ==
  /\ pc = "clear" /\ f \in todo /\ repo' = [repo EXCEPT ![f] = 0] /\ todo' = todo \ {f}
  /\ UNCHANGED <<snapshot, manifest, pc, made, acts, seen, during, restored>>

Cleared == pc = "clear" /\ todo = {}
Restart ==
  /\ Cleared /\ pc' = "restore" /\ todo' = manifest
  /\ UNCHANGED <<repo, snapshot, manifest, made, acts, seen, during, restored>>

Restore(f) ==
  /\ pc = "restore" /\ f \in todo /\ repo' = [repo EXCEPT ![f] = snapshot[f]] /\ todo' = todo \ {f}
  /\ during' = during \ {f}
  /\ UNCHANGED <<snapshot, manifest, pc, made, acts, seen, restored>>

\* All copied; the commit takes whatever the tree holds.
Finish ==
  /\ pc = "restore" /\ todo = {} /\ pc' = "idle" /\ restored' = TRUE
  /\ UNCHANGED <<repo, snapshot, manifest, todo, made, acts, seen, during>>

Die ==
  /\ pc # "idle" /\ Act /\ pc' = "idle" /\ todo' = {}
  /\ UNCHANGED <<repo, snapshot, manifest, made, seen, during, restored>>

Next ==
  \/ \E f \in File : Others(f) \/ Copy(f) \/ Damage(f) \/ Clear(f) \/ Restore(f)
  \/ Export \/ WriteManifest \/ Discard \/ (\E force \in BOOLEAN : Import(force))
  \/ Restart \/ Finish \/ Die
Spec == Init /\ [][Next]_vars

----------------------------------------------------------------------------
\* What an import has restored is a whole backup: every file the repository held all through
\* the export is back, in a version it had meanwhile, and no file is there that it never had,
\* except what others wrote during the import.  Exports and imports that died in between, and
\* backups that lost files, leave nothing an import takes for whole (export_full, import_full).
RestoredIsWhole ==
  restored => \A f \in File \ during :
    IF repo[f] = 0 THEN 0 \in seen[f] ELSE repo[f] \in seen[f]
=============================================================================
