------------------------------- MODULE Projection -------------------------------
(***************************************************************************)
(* umx export --format memories and umx import --memories                  *)
(* (src/umx/backup.py): every explicit fact is a file that a human may     *)
(* edit.  An export refuses to overwrite edited files, by the hashes of    *)
(* its manifest; an import turns edits into facts that supersede those     *)
(* exported, new files into new facts, and exports again.  Humans edit     *)
(* files, and agents the store, at any time; programs overlap and die.     *)
(***************************************************************************)
EXTENDS Integers, FiniteSets

CONSTANTS
  Proc,
  MaxFacts,   \* bound: facts ever made
  MaxEdits,   \* bound: edits of files
  MaxActs     \* bound: programs, deaths and changes of the store in one behaviour

Id == 1 .. MaxFacts
Note == 0                       \* a file that the human has made
File == Id \union {Note}        \* the file of a fact is named after its id
Edit == MaxFacts + 1 .. MaxFacts + MaxEdits
Text == Id \union Edit          \* what the store's own facts say, and what humans type
NoText == 0

VARIABLES
  store,    \* store[i]: the text of a fact, and the id that supersedes it
  file,     \* file[x]: its text, or none
  manifest, \* manifest[x]: the text with which x was exported, or none
  pc,
  plan,     \* plan[p]: the import's operations still to do: file, text, and the fact it edits
  dirty,    \* dirty[p]: files that the import has read, to be cleaned up
  render,   \* render[p]: the text that each file is to have, as the store was read
  todo,     \* todo[p]: the files still to unlink or write
  next, edits, acts,
  seen,     \* ghost: seen[p]: each file's text when p looked at it
  landed,   \* ghost: edits that became facts
  undone,   \* ghost: edits that the human replaced or deleted
  breach    \* ghost: "raced", a program destroyed an edit it had not read; "unlisted", a file
            \* that the manifest does not know was overwritten; "twice", two imports overlapped;
            \* "stopped", one ended, or died, between the store and the files; "late", the file
            \* of a fact that had been forgotten was written

program == <<pc, plan, dirty, render, todo, seen>>
vars == <<store, file, manifest, program, next, edits, acts, landed, undone, breach>>

None == [text |-> NoText, by |-> 0]
Op == [file : File, text : Text, of : Id \union {0}, as : Id \union {0}, was : Text \union {NoText}]

TypeOK ==
  /\ \A i \in Id : store[i] = None \/ (store[i].text \in Text /\ store[i].by \in 0 .. MaxFacts)
  /\ file \in [File -> Text \union {NoText}] /\ manifest \in [File -> Text \union {NoText}]
  /\ pc \in [Proc -> {"idle", "apply", "add", "check", "write", "list"}]
  /\ \A p \in Proc : plan[p] \subseteq Op /\ dirty[p] \subseteq File /\ todo[p] \subseteq File
  /\ {render, seen} \subseteq [Proc -> [File -> Text \union {NoText}]]
  /\ next \in 1 .. MaxFacts + 1 /\ edits \in 0 .. MaxEdits /\ acts \in 0 .. MaxActs
  /\ landed \subseteq Edit /\ undone \subseteq Edit
  /\ breach \subseteq {"raced", "unlisted", "twice", "stopped", "late"}

Blank == [x \in File |-> NoText]

Init ==
  /\ store = [i \in Id |-> IF i = 1 THEN [text |-> 1, by |-> 0] ELSE None]
  /\ file = Blank /\ manifest = Blank
  /\ pc = [p \in Proc |-> "idle"] /\ plan = [p \in Proc |-> {}] /\ dirty = plan /\ todo = plan
  /\ render = [p \in Proc |-> Blank] /\ seen = render
  /\ next = 2 /\ edits = 0 /\ acts = 0 /\ landed = {} /\ undone = {} /\ breach = {}

Act == acts < MaxActs /\ acts' = acts + 1
Goto(p, step) == pc' = [pc EXCEPT ![p] = step]
Set(f, p, x) == [f EXCEPT ![p] = x]
Blame(b) == breach' = breach \union b

\* The program is over and its variables are of no use.
Finish(p) ==
  /\ Goto(p, "idle") /\ plan' = Set(plan, p, {}) /\ dirty' = Set(dirty, p, {})
  /\ render' = Set(render, p, Blank) /\ seen' = Set(seen, p, Blank) /\ todo' = Set(todo, p, {})

-----------------------------------------------------------------------------
(* An import.                                                               *)

\* Files whose text is not the exported one.
Changed == {x \in File : file[x] # NoText /\ file[x] # manifest[x]}

\* The fact that a file is of: by the manifest, or by the metadata in its first line.
FactOf(x) == IF x # Note /\ store[x] # None THEN x ELSE 0

\* An edit is planned with its fact, as the store says it.
Planned(x) ==
  [file |-> x, text |-> file[x], of |-> FactOf(x), as |-> 0, was |-> IF FactOf(x) = 0 THEN NoText ELSE store[x].text]

\* _build_memories_import_plan: a file of a superseded fact stops the import; one that says
\* what its fact says is only cleaned up.
Import(p) ==
  /\ pc[p] = "idle" /\ Act
  /\ \A x \in Changed : FactOf(x) # 0 => store[x].by = 0
  /\ plan' = Set(plan, p, {Planned(x) : x \in {y \in Changed : FactOf(y) = 0 \/ store[y].text # file[y]}})
  /\ dirty' = Set(dirty, p, Changed) /\ seen' = Set(seen, p, file)
  /\ Goto(p, "apply")
  /\ Blame(IF \E q \in Proc : pc[q] \in {"apply", "add"} \/ dirty[q] # {} THEN {"twice"} ELSE {})
  /\ UNCHANGED <<store, file, manifest, render, todo, next, edits, landed, undone>>

\* The fact is replaced by a copy that names its successor; if it is gone, the import raises.
Supersede(p, op) ==
  /\ pc[p] = "apply" /\ op \in plan[p] /\ op.of # 0 /\ next <= MaxFacts
  /\ IF store[op.of] = None
     THEN Finish(p) /\ Blame({"stopped"}) /\ UNCHANGED <<store, next>>
     ELSE /\ store' = [store EXCEPT ![op.of] = [text |-> op.was, by |-> next]] /\ next' = next + 1
          /\ plan' = Set(plan, p, (plan[p] \ {op}) \union {[op EXCEPT !.of = 0, !.as = next]})
          /\ Goto(p, "add") /\ UNCHANGED <<dirty, render, todo, seen, breach>>
  /\ UNCHANGED <<file, manifest, edits, acts, landed, undone>>

\* add_fact of the successor, or of a fact for a file that is of none.
AddFact(p, op) ==
  /\ op \in plan[p]
  /\ \/ pc[p] = "add" /\ op.as # 0 /\ UNCHANGED next
     \/ pc[p] = "apply" /\ op.of = 0 /\ next <= MaxFacts /\ next' = next + 1
  /\ store' = [store EXCEPT ![IF op.as # 0 THEN op.as ELSE next] = [text |-> op.text, by |-> 0]]
  /\ landed' = landed \union ({op.text} \intersect Edit)
  /\ plan' = Set(plan, p, plan[p] \ {op}) /\ Goto(p, "apply")
  /\ UNCHANGED <<file, manifest, dirty, render, todo, seen, edits, acts, undone, breach>>

ImportDone(p) ==
  /\ pc[p] = "apply" /\ plan[p] = {} /\ Goto(p, "check")
  /\ UNCHANGED <<store, file, manifest, plan, dirty, render, todo, seen, next, edits, acts, landed, undone, breach>>

-----------------------------------------------------------------------------
(* An export, alone or at the end of an import: _sync_memories_projection.  *)

Export(p) ==
  /\ pc[p] = "idle" /\ Act /\ Goto(p, "check")
  /\ UNCHANGED <<store, file, manifest, plan, dirty, render, todo, seen, next, edits, landed, undone, breach>>

Unimported(p) == {x \in File \ dirty[p] : manifest[x] # NoText /\ file[x] \notin {NoText, manifest[x]}}
Rendered == [x \in File |-> IF x # Note /\ store[x] # None /\ store[x].by = 0 THEN store[x].text ELSE NoText]

\* What is to be unlinked, and to be written.
Stale(p) == {x \in File : Rendered[x] = NoText /\ manifest[x] # NoText} \union dirty[p]
Work(p) == Stale(p) \union {x \in File : Rendered[x] # NoText}

StartWriting(p) ==
  /\ render' = Set(render, p, Rendered) /\ todo' = Set(todo, p, Work(p)) /\ Goto(p, "write")
  /\ seen' = Set(seen, p, [x \in File |-> IF x \in dirty[p] THEN seen[p][x] ELSE file[x]])
  /\ Blame(IF \E x \in Work(p) \ dirty[p] : manifest[x] = NoText /\ file[x] \in Edit \ landed THEN {"unlisted"} ELSE {})

\* Mutant: edited files are overwritten.
Check_Trusts(p) ==
  /\ pc[p] = "check"
  /\ StartWriting(p)
  /\ UNCHANGED <<store, file, manifest, plan, dirty, next, edits, acts, landed, undone>>

\* A file with unimported changes stops it.
Check(p) ==
  /\ pc[p] = "check"
  /\ IF Unimported(p) # {} THEN Finish(p) /\ Blame(IF dirty[p] = {} THEN {} ELSE {"stopped"})
     ELSE /\ StartWriting(p)
          /\ UNCHANGED <<plan, dirty>>
  /\ UNCHANGED <<store, file, manifest, next, edits, acts, landed, undone>>

\* A text that came after p had looked, and that no fact says, is destroyed.
Races(p, x) == file[x] \in Edit \ (landed \union {render[p][x], seen[p][x]})

\* The fact that p read, and is about to write to its file, is gone from the store.
Forgotten(p, x) == render[p][x] # NoText /\ store[x] = None

\* A file is unlinked or written.
WriteFile(p, x) ==
  /\ pc[p] = "write" /\ x \in todo[p]
  /\ file' = [file EXCEPT ![x] = render[p][x]]
  /\ todo' = Set(todo, p, todo[p] \ {x})
  /\ Blame((IF Races(p, x) THEN {"raced"} ELSE {}) \union (IF Forgotten(p, x) THEN {"late"} ELSE {}))
  /\ UNCHANGED <<store, manifest, pc, plan, dirty, render, seen, next, edits, acts, landed, undone>>

WriteManifest(p) ==
  /\ pc[p] = "write" /\ todo[p] = {}
  /\ manifest' = render[p] /\ Finish(p)
  /\ UNCHANGED <<store, file, next, edits, acts, landed, undone, breach>>

Die(p) ==
  /\ pc[p] # "idle" /\ Act /\ Finish(p) /\ Blame({"stopped"})
  /\ UNCHANGED <<store, file, manifest, next, edits, landed, undone>>

-----------------------------------------------------------------------------
(* Humans and agents.                                                       *)

\* A human types into a file, makes one, or empties or deletes one.
HumanEdits(x) ==
  /\ \/ edits < MaxEdits /\ (x = Note \/ file[x] # NoText)
        /\ edits' = edits + 1 /\ file' = [file EXCEPT ![x] = MaxFacts + edits + 1] /\ UNCHANGED acts
     \/ file[x] # NoText /\ Act /\ file' = [file EXCEPT ![x] = NoText] /\ UNCHANGED edits
  /\ undone' = undone \union ({file[x]} \intersect Edit)
  /\ UNCHANGED <<store, manifest, program, next, landed, breach>>

\* An agent edits a fact, or forgets one.
StoreChanges(i) ==
  /\ store[i] # None /\ store[i].by = 0 /\ Act
  /\ \/ /\ next <= MaxFacts /\ next' = next + 1
        /\ store' = [store EXCEPT ![i].by = next, ![next] = [text |-> next, by |-> 0]]
     \/ store' = [store EXCEPT ![i] = None] /\ UNCHANGED next
  /\ UNCHANGED <<file, manifest, program, edits, landed, undone, breach>>

Next ==
  \/ \E p \in Proc :
       \/ Import(p) \/ (\E op \in plan[p] : Supersede(p, op) \/ AddFact(p, op)) \/ ImportDone(p)
       \/ Export(p) \/ Check(p) \/ (\E x \in File : WriteFile(p, x)) \/ WriteManifest(p) \/ Die(p)
  \/ (\E x \in File : HumanEdits(x)) \/ \E i \in Id : StoreChanges(i)

Spec == Init /\ [][Next]_vars

-----------------------------------------------------------------------------
(* Properties.                                                              *)

Made == MaxFacts + 1 .. MaxFacts + edits

\* What a human typed into a file is in the file, or has become a fact, whichever exports,
\* imports, changes of the store and deaths come in between; unless a program destroyed an edit
\* made after it had looked, or a file its manifest does not list because the program that made
\* it has died (backup.py:323).
EditsReachTheStore ==
  breach \intersect {"raced", "unlisted"} = {} =>
    \A v \in Made \ undone : v \in landed \/ \E x \in File : file[x] = v

\* An edit becomes one fact, however often it is imported, unless an import stopped between
\* the store and the files, two ran at once, or an export wrote the file of a fact forgotten
\* since it read the store, which the next import takes for a new one (backup.py:605, 340).
OneFactPerEdit ==
  breach = {} => \A v \in Edit : Cardinality({i \in Id : store[i].text = v}) <= 1
=============================================================================
