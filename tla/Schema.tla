--------------------------------- MODULE Schema ---------------------------------
(***************************************************************************)
(* Versions of a memory repository (src/umx/schema.py, migrations/,        *)
(* doctor.py).  One file names the version of the repository, MEMORY.md    *)
(* and the search index name it again, and every fact file has a version   *)
(* of its own in its header.  doctor --fix repairs the first three,        *)
(* migrate rewrites the fact files, a dream refuses a repository of        *)
(* another version than its own; programs of two versions are in use, none *)
(* of the commands takes a lock, and each may die or fail.                 *)
(***************************************************************************)
EXTENDS Integers, FiniteSets

CONSTANTS
  File,    \* fact files
  MaxRevs, \* bound: contents written to fact files in one behaviour
  MaxActs  \* bound: commands and deaths in one behaviour

VARIABLES
  version, header, index, \* what meta/schema_version, MEMORY.md and the index say
  file,        \* file[f]: the version in the header and the facts, or Cut
  fix, fixer,  \* the step of doctor --fix, and the version of its program
  dream, by,   \* the step of the dream, and the version of its program
  pc, text,    \* the step of migrate; text[f]: f as it read it, or Unread
  todo, done,  \* files it has still to read or to write, files it has written
  made, acts,
  last,        \* ghost: last[f]: the facts written to f last
  spoilt,      \* ghost: files written by others since migrate read them, and cut ones
  outcome,     \* ghost: how migrate ended
  calm,        \* ghost: no repair was under way or began since the dream began
  settled      \* ghost: such a dream has ended

repo == <<version, header, index>>
migration == <<pc, text, todo, done, outcome>>
vars == <<repo, file, fix, fixer, dream, by, migration, made, acts, last, spoilt, calm, settled>>

Program == 1 .. 2      \* CURRENT_SCHEMA_VERSION of the older and of the newer program
Missing == 0           \* no file, or one that is empty or no number
FactCurrent == 1       \* FACT_FILE_SCHEMA_VERSION
Cut == [head |-> 0, rev |-> 0]
Unread == [head |-> 0, rev |-> 0 - 1]
Files == [head : 0 .. 2, rev : 0 .. MaxRevs]

TypeOK ==
  /\ version \in Program \union {Missing} /\ {header, index} \subseteq 0 .. 2
  /\ file \in [File -> Files] /\ text \in [File -> Files \union {Unread}]
  /\ fix \in {"idle", "open", "number", "header", "index"} /\ dream \in {"idle", "header", "index"}
  /\ {fixer, by} \subseteq Program
  /\ pc \in {"idle", "read", "write", "restore"} /\ {todo, done, spoilt} \subseteq SUBSET File
  /\ last \in [File -> 0 .. MaxRevs] /\ made \in 0 .. MaxRevs /\ acts \in 0 .. MaxActs
  /\ outcome \in {"none", "done", "undone"} /\ {calm, settled} \subseteq BOOLEAN

Init ==
  /\ version \in {1, Missing} /\ header \in 0 .. 1 /\ index \in 0 .. 1
  /\ file \in [File -> [head : 0 .. 1, rev : {0}]]
  /\ fix = "idle" /\ fixer = 1 /\ dream = "idle" /\ by = 1
  /\ pc = "idle" /\ text = [f \in File |-> Unread] /\ todo = {} /\ done = {} /\ outcome = "none"
  /\ made = 0 /\ acts = 0 /\ last = [f \in File |-> 0] /\ spoilt = {} /\ calm = FALSE /\ settled = FALSE

Act == acts < MaxActs /\ acts' = acts + 1
Elsewhere == UNCHANGED <<file, migration, made, last, spoilt>>

----------------------------------------------------------------------------
(* doctor --fix *)

\* detect_schema_state: a missing or an older version can be repaired.
Fixable(v) == version < v
Fix(v) ==
  /\ fix = "idle" /\ Act /\ Fixable(v)
  /\ fix' = "open" /\ fixer' = v /\ calm' = FALSE /\ settled' = FALSE
  /\ UNCHANGED <<repo, dream, by>> /\ Elsewhere

\* write_schema_version empties the file and writes the number; then come the header of
\* MEMORY.md and the index.
Open ==
  /\ fix = "open" /\ fix' = "number" /\ version' = Missing
  /\ UNCHANGED <<header, index, fixer, dream, by, acts, calm, settled>> /\ Elsewhere
Number ==
  /\ fix = "number" /\ fix' = "header" /\ version' = fixer
  /\ UNCHANGED <<header, index, fixer, dream, by, acts, calm, settled>> /\ Elsewhere
Header ==
  /\ fix = "header" /\ fix' = "index" /\ header' = fixer
  /\ UNCHANGED <<version, index, fixer, dream, by, acts, calm, settled>> /\ Elsewhere
Rebuild ==
  /\ fix = "index" /\ fix' = "idle" /\ index' = fixer
  /\ UNCHANGED <<version, header, fixer, dream, by, acts, calm, settled>> /\ Elsewhere
DieFixing ==
  /\ fix # "idle" /\ Act /\ fix' = "idle"
  /\ UNCHANGED <<repo, fixer, dream, by, calm, settled>> /\ Elsewhere

----------------------------------------------------------------------------
(* The dream, one at a time. *)

Preflight(v) ==
  /\ dream = "idle" /\ Act /\ version = v
  /\ dream' = "header" /\ by' = v /\ calm' = (fix = "idle") /\ settled' = FALSE
  /\ UNCHANGED <<repo, fix, fixer>> /\ Elsewhere

WriteMemory ==
  /\ dream = "header" /\ dream' = "index" /\ header' = by
  /\ UNCHANGED <<version, index, fix, fixer, by, acts, calm, settled>> /\ Elsewhere

\* incremental_rebuild makes an index of another version anew.
Refreshed(v) == IF index # v THEN v ELSE index
Refresh ==
  /\ dream = "index" /\ dream' = "idle" /\ index' = Refreshed(by) /\ settled' = calm
  /\ UNCHANGED <<version, header, fix, fixer, by, acts, calm>> /\ Elsewhere
DieDreaming ==
  /\ dream # "idle" /\ Act /\ dream' = "idle"
  /\ UNCHANGED <<repo, fix, fixer, by, calm, settled>> /\ Elsewhere

----------------------------------------------------------------------------
(* migrate *)

Others == UNCHANGED <<repo, fix, fixer, dream, by, calm, settled>>

\* A file of a later version ends it, and so does one with nothing to do.
Migrate ==
  /\ pc = "idle" /\ Act
  /\ \A f \in File : file[f].head <= FactCurrent
  /\ \E f \in File : file[f].head < FactCurrent
  /\ pc' = "read" /\ todo' = File /\ done' = {} /\ outcome' = "none"
  /\ text' = [f \in File |-> Unread] /\ UNCHANGED <<file, made, last, spoilt>> /\ Others

Read(f) ==
  /\ pc = "read" /\ f \in todo /\ todo' = todo \ {f}
  /\ text' = IF file[f].head = FactCurrent THEN text ELSE [text EXCEPT ![f] = file[f]]
  /\ UNCHANGED <<file, pc, done, outcome, made, acts, last, spoilt>> /\ Others
Pending == {f \in File : text[f] # Unread}
StartWriting ==
  /\ pc = "read" /\ todo = {} /\ pc' = "write" /\ todo' = Pending
  /\ UNCHANGED <<file, text, done, outcome, made, acts, last, spoilt>> /\ Others

\* ensure_fact_file_schema_header_text on a file as gitmem writes it: a title, perhaps a
\* version, the heading and the facts under it.
Updated(t) == [t EXCEPT !.head = FactCurrent]
Put(f) ==
  /\ pc = "write" /\ f \in todo
  /\ file' = [file EXCEPT ![f] = Updated(text[f])] /\ todo' = todo \ {f} /\ done' = done \union {f}
  /\ UNCHANGED <<pc, text, outcome, made, acts, last, spoilt>> /\ Others

\* A write that fails may leave its file cut; the files written before are put back.
PutFails(f) ==
  /\ pc = "write" /\ f \in todo /\ Act /\ pc' = "restore"
  /\ \/ file' = [file EXCEPT ![f] = Cut] /\ spoilt' = spoilt \union {f}
     \/ UNCHANGED <<file, spoilt>>
  /\ UNCHANGED <<text, todo, done, outcome, made, last>> /\ Others
Restored(f) == text[f]
Restore(f) ==
  /\ pc = "restore" /\ f \in done
  /\ file' = [file EXCEPT ![f] = Restored(f)] /\ done' = done \ {f}
  /\ UNCHANGED <<pc, text, todo, outcome, made, acts, last, spoilt>> /\ Others

Finish ==
  /\ \/ pc = "write" /\ todo = {} /\ outcome' = "done"
     \/ pc = "restore" /\ done = {} /\ outcome' = "undone"
  /\ pc' = "idle"
  /\ UNCHANGED <<file, text, todo, done, made, acts, last, spoilt>> /\ Others

\* Death, or a second failure, may cut the file being written.
DieMigrating ==
  /\ pc # "idle" /\ Act /\ pc' = "idle"
  /\ \/ UNCHANGED <<file, spoilt>>
     \/ \E f \in (IF pc = "write" THEN todo ELSE IF pc = "restore" THEN done ELSE {}) :
          file' = [file EXCEPT ![f] = Cut] /\ spoilt' = spoilt \union {f}
  /\ UNCHANGED <<text, todo, done, outcome, made, last>> /\ Others

\* A command or a dream writes a fact file, with the version of today; a person edits one and
\* leaves its header.
Write(f) ==
  /\ made < MaxRevs /\ made' = made + 1
  /\ \E head \in {FactCurrent, file[f].head} : file' = [file EXCEPT ![f] = [head |-> head, rev |-> made + 1]]
  /\ last' = [last EXCEPT ![f] = made + 1] /\ outcome' = "none"
  /\ spoilt' = IF pc # "idle" /\ text[f] # Unread THEN spoilt \union {f} ELSE spoilt \ {f}
  /\ UNCHANGED <<pc, text, todo, done, acts>> /\ Others

Next ==
  \/ \E v \in Program : Fix(v) \/ Preflight(v)
  \/ Open \/ Number \/ Header \/ Rebuild \/ DieFixing \/ WriteMemory \/ Refresh \/ DieDreaming
  \/ Migrate \/ StartWriting \/ Finish \/ DieMigrating
  \/ \E f \in File : Read(f) \/ Put(f) \/ PutFails(f) \/ Restore(f) \/ Write(f)
Spec == Init /\ [][Next]_vars

----------------------------------------------------------------------------
\* A migration loses no facts, however it ends, except of the file a failed or interrupted
\* write was at and of files somebody else wrote meanwhile: one that succeeds leaves every
\* file it read with the facts it had and today's version, one that fails leaves them as they
\* were (run_migrations, 0001_initial.apply).
MigrationIsWhole ==
  /\ \A f \in File \ spoilt : file[f].rev = last[f]
  /\ outcome = "done" => \A f \in File \ spoilt : file[f].head = FactCurrent
  /\ outcome = "undone" => \A f \in Pending \ spoilt : file[f] = text[f]

\* Whatever repairs died, and whatever a program of another version left behind, a dream that
\* no repair disturbed ends with MEMORY.md and the index of the repository's version
\* (repair_schema, _schema_preflight_result, incremental_rebuild).
DreamSettlesVersions == settled => header = version /\ index = version
=============================================================================
