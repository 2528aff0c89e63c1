------------------------------ MODULE SearchIndex ------------------------------
(***************************************************************************)
(* The full-text index over the fact files, meta/index.sqlite              *)
(* (src/umx/search.py): full and incremental rebuilds by several           *)
(* processes, one SQLite writer at a time, while facts are added, moved    *)
(* between files and superseded; the rows with their row numbers and the   *)
(* FTS5 table beside them, which keeps its own copy of each row's words;   *)
(* and the check by which an injection trusts the index.                   *)
(* The text of a fact is told by its id, and a search asks for the words   *)
(* of one fact.                                                            *)
(***************************************************************************)
EXTENDS Integers, FiniteSets, SequencesExt

CONSTANTS
  Files,     \* the number of fact files; files are visited in this order
  Fact,
  Proc,
  Server,    \* the process that injects
  MaxEdits,  \* bound: changes of the fact files
  MaxRuns    \* bound: rebuilds

File == 1 .. Files
State == {"none", "live", "dead"}  \* dead: superseded
Content == [Fact -> State]

VARIABLES
  disk,    \* disk[i]: what file i holds
  stamp,   \* stamp[i]: how often file i was written, its mtime
  row,     \* row[f]: the row of f, or none: its file, its row number, its state
  words,   \* the FTS5 table: words of a fact at a row number
  hashes,  \* the hashes stored with the index, or none
  draft,   \* the writer's transaction: rows and words
  writer,  \* the process in a write transaction
  pc, todo, \* a rebuild: its step, and the files it has still to read
  ready,   \* what the server remembers: an answer, and the mtimes it was given for
  runs,
  breach   \* ghost: "raced", a file changed after a rebuild had read it;
           \* "replaced", an id was inserted that the table still had

vars == <<disk, stamp, row, words, hashes, draft, writer, pc, todo, ready, runs, breach>>

NoRow == [file |-> 0, at |-> 0, state |-> "none"]
Row == [file : File \union {0}, at : Nat, state : State]
Empty == [row |-> [f \in Fact |-> NoRow], words |-> {}]
NoHashes == <<>>
NoOne == 0
NoAnswer == [for |-> <<>>, answer |-> FALSE]

TypeOK ==
  /\ disk \in [File -> Content] /\ stamp \in [File -> Nat]
  /\ row \in [Fact -> Row] /\ draft.row \in [Fact -> Row]
  /\ words \subseteq Nat \X Fact /\ draft.words \subseteq Nat \X Fact
  /\ hashes = NoHashes \/ hashes \in [File -> Content]
  /\ writer \in Proc \union {NoOne}
  /\ pc \in [Proc -> {"idle", "plan", "clear", "index", "hash", "mark"}] /\ todo \in [Proc -> SUBSET File]
  /\ ready.answer \in BOOLEAN /\ runs \in 0 .. MaxRuns /\ breach \subseteq {"raced", "replaced"}

Init ==
  /\ disk = [i \in File |-> [f \in Fact |-> "none"]] /\ stamp = [i \in File |-> 0]
  /\ row = Empty.row /\ words = {} /\ hashes = NoHashes
  /\ draft = Empty /\ writer = NoOne
  /\ pc = [p \in Proc |-> "idle"] /\ todo = [p \in Proc |-> {}]
  /\ ready = NoAnswer /\ runs = 0 /\ breach = {}

Goto(p, step) == pc' = [pc EXCEPT ![p] = step]

-----------------------------------------------------------------------------
(* SQLite.                                                                  *)

RowNumbers(t) == {t.row[f].at : f \in Fact}
NextNumber(t) == 1 + CHOOSE n \in RowNumbers(t) : \A m \in RowNumbers(t) : m <= n

\* DELETE FROM memories WHERE ...: a trigger takes the words along.
DeleteRows(t, gone) ==
  [row   |-> [f \in Fact |-> IF f \in gone THEN NoRow ELSE t.row[f]],
   words |-> t.words \ {<<t.row[f].at, f>> : f \in gone}]

Held(i) == {f \in Fact : disk[i][f] # "none"}

\* The row that a fact of file i gets.
NewRow(f, i, number) == [file |-> i, at |-> number, state |-> disk[i][f]]

\* INSERT OR REPLACE, one row after the other: a row that is replaced goes without a trigger,
\* and its words stay.
InsertAll(t, facts, i) ==
  LET order == SetToSeq(facts)
      Number(f) == NextNumber(t) - 1 + CHOOSE k \in DOMAIN order : order[k] = f
  IN [row   |-> [f \in Fact |->
                   IF f \in facts THEN NewRow(f, i, Number(f)) ELSE t.row[f]],
      words |-> t.words \union {<<Number(f), f>> : f \in facts}]

From(t, i) == {f \in Fact : t.row[f].file = i}

-----------------------------------------------------------------------------
(* A rebuild.                                                               *)

\* refresh_index: incremental if the index has readable hashes, else full; search.rebuild
\* and --embeddings ask for a full one.
Begin(p, full) ==
  /\ pc[p] = "idle" /\ runs < MaxRuns /\ runs' = runs + 1
  /\ Goto(p, IF full \/ hashes = NoHashes THEN "clear" ELSE "plan")
  /\ UNCHANGED <<disk, stamp, row, words, hashes, draft, writer, todo, ready, breach>>

\* The files whose hash differs from the stored one.
Plan(p) ==
  /\ pc[p] = "plan"
  /\ todo' = [todo EXCEPT ![p] = {i \in File : disk[i] # hashes[i]}]
  /\ Goto(p, "index")
  /\ UNCHANGED <<disk, stamp, row, words, hashes, draft, writer, ready, runs, breach>>

\* A full rebuild deletes all rows; that begins the transaction.
Clear(p) ==
  /\ pc[p] = "clear" /\ writer = NoOne /\ writer' = p
  /\ draft' = DeleteRows([row |-> row, words |-> words], {f \in Fact : row[f] # NoRow})
  /\ todo' = [todo EXCEPT ![p] = File]
  /\ Goto(p, "index")
  /\ UNCHANGED <<disk, stamp, row, words, hashes, ready, runs, breach>>

Replaced(t, i) == \E f \in Held(i) : t.row[f] # NoRow

\* The transaction so far; the first statement begins it.
Table(p) == IF writer = p THEN draft ELSE [row |-> row, words |-> words]
MayWrite(p) == writer \in {p, NoOne}

\* The rows of the file are deleted and those of its facts inserted.
IndexFile(p, i) ==
  /\ pc[p] = "index" /\ i \in todo[p] /\ (\A j \in todo[p] : i <= j) /\ MayWrite(p)
  /\ writer' = p
  /\ LET kept == DeleteRows(Table(p), From(Table(p), i))
     IN  /\ draft' = InsertAll(kept, Held(i), i)
         /\ breach' = IF Replaced(kept, i) THEN breach \union {"replaced"} ELSE breach
  /\ todo' = [todo EXCEPT ![p] = @ \ {i}]
  /\ UNCHANGED <<disk, stamp, row, words, hashes, pc, ready, runs>>

\* The files are hashed again, the hashes stored, the transaction committed.
Commit(p) ==
  /\ pc[p] = "index" /\ todo[p] = {} /\ MayWrite(p)
  /\ row' = Table(p).row /\ words' = Table(p).words /\ hashes' = disk
  /\ writer' = NoOne /\ draft' = Empty
  /\ Goto(p, "mark")
  /\ UNCHANGED <<disk, stamp, todo, ready, runs, breach>>

\* _mark_inject_index_ready, in the memory of the process.
Mark(p) ==
  /\ pc[p] = "mark" /\ Goto(p, "idle")
  /\ ready' = IF p = Server THEN [for |-> stamp, answer |-> TRUE] ELSE ready
  /\ UNCHANGED <<disk, stamp, row, words, hashes, draft, writer, todo, runs, breach>>

\* The process dies, or an error rolls the transaction back.
Fail(p) ==
  /\ pc[p] # "idle" /\ Goto(p, "idle")
  /\ writer' = (IF writer = p THEN NoOne ELSE writer)
  /\ draft' = (IF writer = p THEN Empty ELSE draft)
  /\ ready' \in (IF p = Server THEN {ready, NoAnswer} ELSE {ready})
  /\ UNCHANGED <<disk, stamp, row, words, hashes, todo, runs, breach>>

-----------------------------------------------------------------------------
(* The files.                                                               *)

Edits == LET sum[i \in 0 .. Files] == IF i = 0 THEN 0 ELSE stamp[i] + sum[i - 1] IN sum[Files]

Read(i) == \E p \in Proc : i \notin todo[p] /\ pc[p] \in {"index", "mark"}
Touch(i) ==
  /\ Edits < MaxEdits
  /\ stamp' = [stamp EXCEPT ![i] = @ + 1]
  /\ breach' = IF Read(i) THEN breach \union {"raced"} ELSE breach
  /\ UNCHANGED <<row, words, hashes, draft, writer, pc, todo, ready, runs>>

\* A fact is added to a file, superseded in it, or taken out of it; a move is two of these.
Edit(i, f, s) ==
  /\ disk[i][f] # s /\ disk' = [disk EXCEPT ![i][f] = s] /\ Touch(i)

-----------------------------------------------------------------------------
(* Searches.                                                                *)

\* query_index for the words of f.
Hits(f) == {g \in Fact : row[g].state = "live" /\ <<row[g].at, f>> \in words}

\* _inject_index_is_ready: the remembered answer if the mtimes are those it was given for,
\* else a comparison of the hashes, which is remembered.
Trusted == hashes # NoHashes /\ (IF ready.for = stamp THEN ready.answer ELSE hashes = disk)

Ask ==
  /\ hashes # NoHashes
  /\ ready' = [for |-> stamp, answer |-> Trusted]
  /\ UNCHANGED <<disk, stamp, row, words, hashes, draft, writer, pc, todo, runs, breach>>

\* inject_candidate_ids for a prompt with words of all facts; without an index that can be
\* trusted, or without a hit, every fact is a candidate.
Candidates ==
  LET hits == UNION {Hits(f) : f \in Fact} IN IF Trusted /\ hits # {} THEN hits ELSE Fact

Next ==
  \/ \E p \in Proc :
       \/ \E full \in BOOLEAN : Begin(p, full)
       \/ Plan(p) \/ Clear(p) \/ (\E i \in File : IndexFile(p, i)) \/ Commit(p) \/ Mark(p) \/ Fail(p)
  \/ \E i \in File, f \in Fact, s \in State : Edit(i, f, s)
  \/ Ask

Spec == Init /\ [][Next]_vars

-----------------------------------------------------------------------------
(* Properties.                                                              *)

LiveIn(f) == {i \in File : disk[i][f] = "live"}

\* When the stored hashes are those of the files, a search for a fact finds it, and finds
\* nothing else, if it is live: whichever rebuilds ran, failed and overlapped.  Excepted are
\* files that changed between their reading and their second hashing (search.py:1655), and
\* facts indexed under a second file, or moved to an earlier one: the row is replaced, its
\* words stay, and removing the fact from the other file removes its only row (search.py:463).
FreshIndexIsRight ==
  breach = {} /\ hashes = disk => \A f \in Fact : Hits(f) = IF LiveIn(f) = {} THEN {} ELSE {f}

\* An injection never leaves a live fact out because the index is behind the files.
InjectionMissesNothing ==
  breach = {} => \A f \in Fact : LiveIn(f) # {} => f \in Candidates
=============================================================================
