------------------------------- MODULE FactStore -------------------------------
(***************************************************************************)
(* The facts of one topic in a memory repository: a line each in markdown  *)
(* files, with a JSON cache of their texts beside every file               *)
(* (src/umx/memory.py).  Humans edit the markdown at any time.  A reader   *)
(* compares text and cache, turns an edited line into a superseded fact    *)
(* and its successor, and writes both files back, so that reading is       *)
(* writing.  Operations are calls by the processes that share the clone -  *)
(* umx commands, the viewer, hooks, a dream - and write one file at a      *)
(* time.  A process memoises what it read under a fingerprint of the two   *)
(* files, so that it reads what they say (but for Mark); which reads find  *)
(* a memo is left open.                                                    *)
(*                                                                         *)
(* The ghost variables say what was promised (kept) and by what kind of    *)
(* step a promise was first broken (breach, with stale).  No guard on the  *)
(* code's behaviour reads them.                                            *)
(***************************************************************************)
EXTENDS Integers, Sequences, FiniteSets

CONSTANTS
  Text,       \* what a fact can say
  Clash,      \* pairs {t, u} of texts that contradict each other
  Code,       \* texts extracted from source code
  NPaths,     \* fact files, in the order of iter_fact_files
  MaxId,      \* bound: facts ever made
  Proc,       \* processes on one clone
  NoText,     \* the cache has no entry
  MaxActs     \* bound: calls, changes by humans and crashes in one behaviour

Path == 1 .. NPaths
Id == 1 .. MaxId
Trust == {"tool", "code", "hand"}
Line == [id : 0 .. MaxId, text : Text, trust : Trust, sup : 0 .. MaxId, sby : 0 .. MaxId]

VARIABLES
  file,     \* file[q]: the lines of a markdown file; id 0 for a bare line of a human
  cache,    \* cache[q]: the texts of its facts in the JSON file
  tombs,    \* meta/tombstones.jsonl: <<id, text>> of forgotten facts
  next,     \* ids below are in use (identity.py makes them unique)
  pc,       \* pc[p]: the next file operation of p
  job,      \* job[p]: what the call of p has in memory
  acts,     \* calls, changes by humans and crashes so far
  stale,    \* ghost: files that changed since p read what it is going to write
  kept,     \* ghost: <<id, text>> stored and not dropped; id 0 for what a human wrote
  breach    \* ghost: kinds of steps that destroyed something they had not read

disk == <<file, cache, tombs>>
work == <<pc, job, stale>>
vars == <<disk, work, next, acts, kept, breach>>

Store == [Path -> SUBSET Line]
NoLines == [q \in Path |-> {}]
Texts == [Id -> Text \union {NoText}]
Pair == (0 .. MaxId) \X Text

Op == [kind : {"add", "replace", "cut", "save"}, q : Path, line : Line, lines : SUBSET Line]
Job == [ops : Seq(Op), q : Path, new : SUBSET Line, norm : BOOLEAN,
        view : Store, done : SUBSET Id, call : {"other", "merge", "dream"}, drop : SUBSET Pair]
NoJob == [ops |-> << >>, q |-> 1, new |-> {}, norm |-> FALSE,
          view |-> NoLines, done |-> {}, call |-> "other", drop |-> {}]

Step == {"idle", "fetch", "md", "cache", "mark", "merge", "dream"}
Breaches ==
  {"overwritten", "raced", "uncached", "absorbed", "missed", "outdated", "crashed", "contested"}

TypeOK ==
  /\ file \in Store
  /\ cache \in [Path -> Texts]
  /\ tombs \subseteq Pair
  /\ next \in 1 .. MaxId + 1
  /\ pc \in [Proc -> Step]
  /\ job \in [Proc -> Job]
  /\ \A p \in Proc : pc[p] = "fetch" => job[p].ops # << >>
  /\ acts \in 0 .. MaxActs
  /\ stale \in [Proc -> SUBSET Path]
  /\ kept \subseteq Pair
  /\ breach \subseteq Breaches

Init ==
  /\ file = NoLines
  /\ cache = [q \in Path |-> [i \in Id |-> NoText]]
  /\ tombs = {}
  /\ next = 1
  /\ pc = [p \in Proc |-> "idle"]
  /\ job = [p \in Proc |-> NoJob]
  /\ acts = 0
  /\ stale = [p \in Proc |-> {}]
  /\ kept = {}
  /\ breach = {}

-----------------------------------------------------------------------------
(* What a file says.                                                        *)

NewFact(i, t, trust) == [id |-> i, text |-> t, trust |-> trust, sup |-> 0, sby |-> 0]

\* A human changed the text of a fact the cache knows.
Edited(q, l) == l.id # 0 /\ cache[q][l.id] \notin {NoText, l.text}

\* The facts a parse makes of a line, n being a fresh id.
Successor(l, n) == [id |-> n, text |-> l.text, trust |-> "hand", sup |-> l.id, sby |-> 0]
\* Mutant: an edit in the markdown takes over the id and the text before it is gone.
Parsed_Overwrites(q, l, n) ==
  IF l.id = 0 THEN {[l EXCEPT !.id = n]}
  ELSE IF Edited(q, l) THEN {[l EXCEPT !.trust = "hand"]}
  ELSE {l}

Parsed(q, l, n) ==
  IF l.id = 0 THEN {[l EXCEPT !.id = n]}
  ELSE IF Edited(q, l) THEN {[l EXCEPT !.text = cache[q][l.id], !.sby = n], Successor(l, n)}
  ELSE {l}

\* Lines that get an id when the file is read, and files that reading writes back.
Fresh(q) == {l \in file[q] : l.id = 0 \/ Edited(q, l)}
WritesBack(q) == \E l \in file[q] : l \in Fresh(q) \/ l.trust = "hand"

Normalized(q) ==
  LET n == Cardinality(Fresh(q))
      number == CHOOSE f \in [Fresh(q) -> next .. next + n - 1] :
                  \A l, m \in Fresh(q) : l # m => f[l] # f[m]
  IN  UNION {Parsed(q, l, IF l \in Fresh(q) THEN number[l] ELSE 0) : l \in file[q]}

TextsOf(lines) ==
  [i \in Id |-> IF \E l \in lines : l.id = i THEN (CHOOSE l \in lines : l.id = i).text ELSE NoText]

-----------------------------------------------------------------------------
(* Trust and contradiction (strength.py, dream/conflict.py).                *)

\* trust_score, as far as it differs: confirmed by hand, from code, from a tool.
Score(l) == CASE l.trust = "hand" -> 2 [] l.trust = "code" -> 1 [] OTHER -> 0

LeftWins(l, r) ==
  IF (l.trust = "code") # (r.trust = "code") THEN l.trust = "code" ELSE Score(l) >= Score(r)

Conflict(l, r) == l.id # r.id /\ {l.text, r.text} \in Clash

\* resolve_conflict on lines l and r: <<winner, loser>>.
Resolved(l, r) ==
  LET w == IF LeftWins(l, r) THEN l ELSE r
      z == IF LeftWins(l, r) THEN r ELSE l
  IN  <<[w EXCEPT !.sup = IF w.sup = 0 THEN z.id ELSE w.sup], [z EXCEPT !.sby = w.id]>>

\* merge_same_fact_id for equal texts: the more trusted gives what the other lacks.
Merge(old, new) ==
  LET a == IF Score(new) > Score(old) THEN new ELSE old
      b == IF Score(new) > Score(old) THEN old ELSE new
  IN  [a EXCEPT !.sup = IF a.sup = 0 THEN b.sup ELSE a.sup,
                !.sby = IF a.sby = 0 THEN b.sby ELSE a.sby]

Active(lines) == {l \in lines : l.sby = 0}
Suppressed(l) == \E t \in tombs : t[1] = l.id \/ t[2] = l.text

\* The order in which facts are loaded: by file, then by age.
At(view) == UNION {{q} \X view[q] : q \in Path}
Before(a, b) == a[1] < b[1] \/ (a[1] = b[1] /\ a[2].id < b[2].id)
First(S) == CHOOSE a \in S : \A b \in S \ {a} : Before(a, b)

-----------------------------------------------------------------------------
(* Steps that change a file, and calls.                                     *)

Others(p) == {r \in Proc \ {p} : pc[r] # "idle"}
Outdates(procs, q) ==
  stale' = [r \in Proc |-> IF pc'[r] = "idle" THEN {}
                           ELSE IF r \in procs THEN stale[r] \union {q} ELSE stale[r]]
Blame(bad, kind) == breach' = IF bad THEN breach \union {kind} ELSE breach

\* One of the bounded acts.
Act == acts < MaxActs /\ acts' = acts + 1

Goto(p, step) == pc' = [pc EXCEPT ![p] = step]

\* Every file has been read, and written back where it needed it.
Settled == \A q \in Path : Fresh(q) = {}
Has(q, i) == \E l \in file[q] : l.id = i

\* p begins a call that is going to do ops; it drops the pairs on purpose.
Call(p, ops, drop) ==
  /\ pc[p] = "idle" /\ Settled
  /\ job' = [job EXCEPT ![p] = [NoJob EXCEPT !.ops = ops, !.drop = drop]]
  /\ Goto(p, "fetch")
  /\ stale' = [stale EXCEPT ![p] = {}]

\* An operation on a line; one that replaces line l by m; one that saves a whole file.
Do(kind, q, l) == [kind |-> kind, q |-> q, line |-> l, lines |-> {}]
Change(q, l, m) == [kind |-> "replace", q |-> q, line |-> m, lines |-> {l}]
Put(q, lines) == [kind |-> "save", q |-> q, line |-> NewFact(0, CHOOSE t \in Text : TRUE, "tool"),
                  lines |-> lines]

\* read_fact_file of a file that reading writes back.
Load(p, q) ==
  /\ pc[p] \in {"idle", "fetch"}
  /\ pc[p] = "fetch" => Head(job[p].ops).kind # "save"
  /\ WritesBack(q)
  /\ next + Cardinality(Fresh(q)) <= MaxId + 1
  /\ job' = [job EXCEPT ![p].q = q, ![p].new = Normalized(q), ![p].norm = TRUE]
  /\ Goto(p, "md")
  /\ stale' = [stale EXCEPT ![p] = @ \ {q}]
  /\ next' = next + Cardinality(Fresh(q))
  /\ UNCHANGED <<disk, acts, kept, breach>>

\* The file and lines the next operation of p writes; no file if there is nothing to do.
Target(p, op) ==
  CASE op.kind \in {"add", "save"} -> {op.q}
    [] OTHER -> LET S == {q \in Path : Has(q, op.line.id)}
                IN  {q \in S : \A r \in S : q <= r}
Result(p, op, q) ==
  CASE op.kind = "save" -> op.lines
    [] op.kind = "add" -> file[q] \union {op.line}
    [] op.kind = "replace" -> {l \in file[q] : l.id # op.line.id} \union {op.line}
    [] op.kind = "cut" -> {l \in file[q] : l.id # op.line.id}

\* The next operation of a call reads the files and makes the new lines of one.
Fetch(p) ==
  /\ pc[p] = "fetch"
  /\ Settled \/ Head(job[p].ops).kind = "save"
  /\ LET op == Head(job[p].ops) IN
     \E q \in Target(p, op) :
       /\ job' = [job EXCEPT ![p].ops = Tail(@), ![p].q = q, ![p].norm = FALSE,
                             ![p].new = Result(p, op, q)]
       /\ Goto(p, "md")
       /\ stale' = IF op.kind = "save" THEN stale ELSE [stale EXCEPT ![p] = @ \ {q}]
       /\ Blame(\/ op.kind = "replace" /\ op.lines \ file[q] # {}
                \/ op.kind = "cut" /\ op.line \notin file[q], "outdated")
  /\ UNCHANGED <<disk, next, acts, kept>>

\* The fact is gone: the call ends with an error, merge_all goes on.
FetchNothing(p) ==
  /\ pc[p] = "fetch" /\ Settled
  /\ Target(p, Head(job[p].ops)) = {}
  /\ IF job[p].call = "merge"
     THEN /\ job' = [job EXCEPT ![p].ops = Tail(@)]
          /\ Goto(p, IF Len(job[p].ops) = 1 THEN "merge" ELSE "fetch")
     ELSE job' = [job EXCEPT ![p] = NoJob] /\ Goto(p, "idle")
  /\ Blame(TRUE, IF job[p].call = "merge" THEN "contested" ELSE "missed")
  /\ UNCHANGED <<disk, stale, next, acts, kept>>

Pairs(lines) == {<<l.id, l.text>> : l \in {k \in lines : k.id # 0}}

\* write_fact_file: first the markdown, then the cache.
WriteMd(p) ==
  LET q == job[p].q IN
  /\ pc[p] = "md"
  /\ file' = [file EXCEPT ![q] = job[p].new]
  /\ kept' = (kept \ (job[p].drop \union {<<0, d[2]>> : d \in job[p].drop})) \union Pairs(job[p].new)
  /\ Goto(p, "cache")
  /\ Outdates(Others(p), q)
  /\ Blame(q \in stale[p], "overwritten")
  /\ UNCHANGED <<cache, tombs, job, next, acts>>

WriteCache(p) ==
  LET q == job[p].q
      then == CASE job[p].norm -> "mark"
                [] ~job[p].norm /\ job[p].ops # << >> -> "fetch"
                [] ~job[p].norm /\ job[p].ops = << >> -> IF job[p].call = "merge" THEN "merge" ELSE "idle"
  IN
  /\ pc[p] = "cache"
  /\ cache' = [cache EXCEPT ![q] = TextsOf(job[p].new)]
  /\ Goto(p, then)
  /\ job' = [job EXCEPT ![p] = IF then = "idle" THEN NoJob ELSE [@ EXCEPT !.new = {}]]
  /\ Outdates(Others(p), q)
  /\ Blame(q \in stale[p] /\ \E l \in file[q] : l \notin job[p].new, "overwritten")
  /\ UNCHANGED <<file, tombs, next, acts, kept>>

\* read_fact_file takes the fingerprint of the files as they are now for a memo of what
\* it wrote.
Mark(p) ==
  /\ pc[p] = "mark"
  /\ Goto(p, IF job[p].ops # << >> THEN "fetch" ELSE "idle")
  /\ job' = [job EXCEPT ![p].q = 1, ![p].norm = FALSE]
  /\ stale' = [stale EXCEPT ![p] = IF job[p].ops # << >> THEN @ ELSE {}]
  /\ Blame(job[p].q \in stale[p], "raced")
  /\ UNCHANGED <<disk, next, acts, kept>>

-----------------------------------------------------------------------------
(* umx commands and the viewer.                                             *)

\* add_fact with a fact of its own.
AddFact(p, q, t) ==
  /\ next <= MaxId
  /\ Call(p, <<Do("add", q, NewFact(next, t, IF t \in Code THEN "code" ELSE "tool"))>>, {})
  /\ next' = next + 1
  /\ Act
  /\ UNCHANGED <<disk, kept, breach>>

\* add_fact with a fact that is there already, from history or another scope.
AddAgain(p, q, l, trust) ==
  /\ l \in file[q]
  /\ Call(p, <<Change(q, l, Merge(l, NewFact(l.id, l.text, trust)))>>, {})
  /\ Act
  /\ UNCHANGED <<disk, next, kept, breach>>

\* Mutant: an edit changes the text of the fact.
EditFact_InPlace(p, q, l, t) ==
  /\ l \in file[q] /\ t # l.text /\ next <= MaxId
  /\ Call(p, <<Change(q, l, [l EXCEPT !.text = t])>>, {<<l.id, l.text>>})
  /\ next' = next + 1
  /\ Act
  /\ UNCHANGED <<disk, kept, breach>>

\* edit_fact_action: the old fact, superseded, and its successor.
EditFact(p, q, l, t) ==
  /\ l \in file[q] /\ t # l.text /\ next <= MaxId
  /\ Call(p, <<Change(q, l, [l EXCEPT !.sby = next]),
               Do("add", q, [Successor(l, next) EXCEPT !.text = t])>>, {})
  /\ next' = next + 1
  /\ Act
  /\ UNCHANGED <<disk, kept, breach>>

\* forget_fact: the tombstone, then the fact.
Forget(p, q, l) ==
  /\ l \in file[q]
  /\ Call(p, <<Do("cut", q, l)>>, {<<l.id, l.text>>})
  /\ tombs' = tombs \union {<<l.id, l.text>>}
  /\ Act
  /\ UNCHANGED <<file, cache, next, kept, breach>>

\* promote_fact_action and demote_fact_action between the files of one repository.
Move(p, q, l, r) ==
  /\ l \in file[q] /\ r # q
  /\ Call(p, <<Do("cut", q, l), Do("add", r, l)>>, {})
  /\ Act
  /\ UNCHANGED <<disk, next, kept, breach>>

\* merge_all: find all conflicts among what was loaded, then resolve one by one.
MergeAll(p) ==
  /\ pc[p] = "idle" /\ Settled
  /\ job' = [job EXCEPT ![p] = [NoJob EXCEPT !.view = file, !.call = "merge"]]
  /\ Goto(p, "merge")
  /\ stale' = [stale EXCEPT ![p] = {}]
  /\ Act
  /\ UNCHANGED <<disk, next, kept, breach>>

ToMerge(p) ==
  {c \in At(job[p].view) \X At(job[p].view) :
     /\ Before(c[1], c[2]) /\ Conflict(c[1][2], c[2][2])
     /\ c[1][2].sby = 0 /\ c[2][2].sby = 0 /\ {c[1][2].id, c[2][2].id} \intersect job[p].done = {}}

\* Calls that resolve contradictions, other than that of p.
Deciding(p, calls) == {r \in Proc \ {p} : job[r].call \in calls}

MergePair(p) ==
  /\ pc[p] = "merge" /\ ToMerge(p) # {}
  /\ LET a == First({c[1] : c \in ToMerge(p)})
         b == First({c[2] : c \in {d \in ToMerge(p) : d[1] = a}})
         both == Resolved(a[2], b[2])
         won == CHOOSE l \in {a[2], b[2]} : l.id = both[1].id
         lost == CHOOSE l \in {a[2], b[2]} : l.id = both[2].id
     IN  job' = [job EXCEPT
           ![p].ops = <<Change(1, won, both[1]), Change(1, lost, both[2])>>,
           ![p].done = @ \union {both[2].id},
           ![p].view = [q \in Path |-> {IF l.id = both[1].id THEN both[1]
                                        ELSE IF l.id = both[2].id THEN both[2] ELSE l : l \in @[q]}]]
  /\ Goto(p, "fetch")
  /\ Blame(Deciding(p, {"merge", "dream"}) # {}, "contested")
  /\ UNCHANGED <<disk, stale, next, acts, kept>>

MergeDone(p) ==
  /\ pc[p] = "merge" /\ ToMerge(p) = {}
  /\ Goto(p, "idle")
  /\ job' = [job EXCEPT ![p] = NoJob]
  /\ UNCHANGED <<disk, stale, next, acts, kept, breach>>

-----------------------------------------------------------------------------
(* A dream: load everything, work for minutes, save everything.             *)

DreamLoad(p) ==
  /\ pc[p] = "idle" /\ Settled
  /\ job' = [job EXCEPT ![p] = [NoJob EXCEPT !.view = file, !.call = "dream"]]
  /\ Goto(p, "dream")
  /\ stale' = [stale EXCEPT ![p] = {}]
  /\ Act
  /\ UNCHANGED <<disk, next, kept, breach>>

\* consolidate: the first active fact that says the same, or contradicts, decides.
Consolidated(view, c) ==
  LET hits == {a \in At(view) : a[2].sby = 0 /\ (a[2].text = c.text \/ Conflict(a[2], c))}
      a == First(hits)
  IN  IF hits = {} THEN [view EXCEPT ![1] = @ \union {c}]
      ELSE IF a[2].text = c.text THEN view
      ELSE LET both == Resolved(a[2], c)
               old == CHOOSE l \in {both[1], both[2]} : l.id = a[2].id
               new == CHOOSE l \in {both[1], both[2]} : l.id = c.id
           IN  [[view EXCEPT ![a[1]] = (@ \ {a[2]}) \union {old}] EXCEPT ![1] = @ \union {new}]

\* consolidate and prune: candidates and facts under a tombstone are dropped, as are
\* weak ones; save_repository_facts unlinks files without facts and rewrites the others.
DreamSave(p, t, weak) ==
  LET c == NewFact(next, t, IF t \in Code THEN "code" ELSE "tool")
      all == IF Suppressed(c) THEN job[p].view ELSE Consolidated(job[p].view, c)
      left == [q \in Path |-> {l \in all[q] : ~Suppressed(l) /\ <<q, l>> \notin weak}]
      gone == {q \in Path : left[q] = {} /\ file[q] # {}}
      order == CHOOSE f \in [1 .. NPaths -> Path] :
                 /\ \A i, j \in 1 .. NPaths : i # j => f[i] # f[j]
                 /\ \A i, j \in 1 .. NPaths : i < j /\ f[j] \in gone => f[i] \in gone
  IN
  /\ pc[p] = "dream" /\ next <= MaxId
  /\ weak \subseteq {a \in At(all) : a[2].sby = 0 /\ a[2].trust # "hand"}
  /\ next' = next + 1
  /\ job' = [job EXCEPT ![p] =
       [NoJob EXCEPT !.ops = [i \in 1 .. NPaths |-> Put(order[i], left[order[i]])],
                     !.drop = UNION {Pairs(all[q] \ left[q]) : q \in Path}, !.call = "dream"]]
  /\ Goto(p, "fetch")
  /\ Blame(Deciding(p, {"merge"}) # {}, "contested")
  /\ UNCHANGED <<disk, stale, acts, kept>>

-----------------------------------------------------------------------------
(* Humans, and the end of processes.                                        *)

\* A human changes the text of a line in an editor.
HumanEdit(q, l, t) ==
  /\ l \in file[q] /\ t # l.text /\ l.id # 0 /\ ~Edited(q, l)
  /\ next <= MaxId
  /\ file' = [file EXCEPT ![q] = (@ \ {l}) \union {[l EXCEPT !.text = t]}]
  /\ kept' = (kept \ {<<0, l.text>>}) \union {<<0, t>>}
  /\ stale' = [p \in Proc |-> IF pc[p] = "idle" THEN {} ELSE stale[p] \union {q}]
  /\ Blame(cache[q][l.id] = NoText, "uncached")
  /\ Act
  /\ UNCHANGED <<cache, tombs, pc, job, next>>

\* A human adds a line, or removes one.
HumanAdd(q, t) ==
  /\ next <= MaxId
  /\ file' = [file EXCEPT ![q] = @ \union {NewFact(0, t, "hand")}]
  /\ kept' = kept \union {<<0, t>>}
  /\ stale' = [p \in Proc |-> IF pc[p] = "idle" THEN {} ELSE stale[p] \union {q}]
  /\ Act
  /\ UNCHANGED <<cache, tombs, pc, job, next, breach>>

HumanDelete(q, l) ==
  /\ l \in file[q]
  /\ file' = [file EXCEPT ![q] = @ \ {l}]
  /\ kept' = {k \in kept : k[1] # l.id /\ k # <<0, l.text>>}
  /\ stale' = [p \in Proc |-> IF pc[p] = "idle" THEN {} ELSE stale[p] \union {q}]
  /\ Act
  /\ UNCHANGED <<cache, tombs, pc, job, next, breach>>

\* append_fact_preserving_existing, in the working tree that every process reads: the line is
\* added to the file as it stands, and the cache takes every line as it reads.  One step.
AppendRaw(p, q, t) ==
  /\ pc[p] = "idle" /\ next <= MaxId
  /\ LET lines == file[q] \union {NewFact(next, t, "tool")} IN
     /\ file' = [file EXCEPT ![q] = lines]
     /\ cache' = [cache EXCEPT ![q] = TextsOf(lines)]
     /\ kept' = kept \union {<<next, t>>}
  /\ next' = next + 1
  /\ stale' = [r \in Proc |-> IF pc[r] = "idle" THEN {} ELSE stale[r] \union {q}]
  /\ Blame(\E l \in file[q] : Edited(q, l), "absorbed")
  /\ Act
  /\ UNCHANGED <<tombs, pc, job>>

\* The pair is said by some line; a human's text by a line with any id.
Says(lines, k) == \E l \in lines : l.text = k[2] /\ k[1] \in {0, l.id}

\* Facts in the memory of p only: cut from one file and not yet in another.
InTransit(k) ==
  \E p \in Proc : \/ \E i \in DOMAIN job[p].ops :
                       job[p].ops[i].kind = "add" /\ Says({job[p].ops[i].line}, k)
                  \/ pc[p] = "md" /\ Says(job[p].new, k)

\* A line that a human has changed still has its old text in the cache.
Remembered(q) ==
  {[l EXCEPT !.text = cache[q][l.id]] : l \in {m \in file[q] : m.id # 0 /\ cache[q][m.id] # NoText}}
OnDisk(k) == \E q \in Path : Says(file[q], k) \/ (k[1] # 0 /\ Says(Remembered(q), k))

\* p is about to take a fact out of its file.
Cutting(p, i) ==
  \/ \E n \in DOMAIN job[p].ops : job[p].ops[n].kind = "cut" /\ job[p].ops[n].line.id = i
  \/ pc[p] = "md" /\ \A l \in job[p].new : l.id # i

\* A fact is in a file, or in the hands of a process that is going to put it into one.
Lives(i) ==
  \/ \E q \in Path : Has(q, i)
  \/ \E p \in Proc : \/ \E n \in DOMAIN job[p].ops :
                          job[p].ops[n].kind = "add" /\ job[p].ops[n].line.id = i
                     \/ pc[p] = "md" /\ \E l \in job[p].new : l.id = i

\* p has resolved a contradiction and not yet written all of it.
Halfway(p) == job[p].call # "other" /\ (job[p].ops # << >> \/ pc[p] = "md")

Crash(p) ==
  /\ pc[p] # "idle" /\ Act
  /\ Goto(p, "idle")
  /\ job' = [job EXCEPT ![p] = NoJob]
  /\ stale' = [stale EXCEPT ![p] = {}]
  /\ breach' = breach
       \union (IF \/ \E k \in kept : ~OnDisk(k)
                 \/ \E t \in tombs : Lives(t[1]) /\ Cutting(p, t[1]) THEN {"crashed"} ELSE {})
       \union (IF Halfway(p) THEN {"contested"} ELSE {})
  /\ UNCHANGED <<disk, next, kept>>

-----------------------------------------------------------------------------
Calls(p) ==
  \/ \E q \in Path, t \in Text : AddFact(p, q, t) \/ AppendRaw(p, q, t)
  \/ \E q \in Path : \E l \in file[q] :
       \/ Forget(p, q, l)
       \/ AddAgain(p, q, l, "hand")
       \/ \E t \in Text : EditFact(p, q, l, t)
       \/ \E r \in Path : Move(p, q, l, r)
  \/ MergeAll(p)
  \/ DreamLoad(p)

Steps(p) ==
  \/ \E q \in Path : Load(p, q)
  \/ Fetch(p) \/ FetchNothing(p) \/ WriteMd(p) \/ WriteCache(p) \/ Mark(p)
  \/ MergePair(p) \/ MergeDone(p)
  \/ \E t \in Text : pc[p] = "dream" /\ \E weak \in SUBSET At(job[p].view) : DreamSave(p, t, weak)
  \/ Crash(p)

Humans ==
  \E q \in Path :
    \/ \E l \in file[q] : HumanDelete(q, l) \/ \E t \in Text : HumanEdit(q, l, t)
    \/ \E t \in Text : HumanAdd(q, t)

Next == Humans \/ \E p \in Proc : Calls(p) \/ Steps(p)

Spec == Init /\ [][Next]_vars

-----------------------------------------------------------------------------
(* Properties.                                                              *)

\* No step has destroyed what its process had not read.
Lossless == breach \subseteq {"contested"}

\* What was stored is in a file, or in the cache of a line a human has changed since,
\* or in the hands of a process that is writing it, unless a step destroyed what its
\* process had not read.  What a human wrote is there too (memory.py:370, 420, 582, 724).
FactsKept == Lossless => \A k \in kept : OnDisk(k) \/ InTransit(k)

\* walk_history goes back along supersedes and then on along superseded_by, and ends, as
\* long as no contradiction was resolved by two calls at once or by half of one
\* (supersession.py:7, merge.py:75): then two facts can each supersede the other.
AllLines == UNION {file[q] : q \in Path}
Circle(S) ==
  \/ \A i \in S : \E l \in AllLines : l.id = i /\ l.sby \in S
  \/ \A i \in S : \E l \in AllLines : l.id = i /\ l.sup \in S
HistoryEnds == breach = {} => \A S \in (SUBSET Id) \ {{}} : ~Circle(S)

\* A fact is in one line of one file (find_facts_by_id takes the first).
OneLinePerFact ==
  Lossless => \A q, r \in Path : \A l \in file[q], m \in file[r] :
    l.id = m.id /\ l.id # 0 => q = r /\ l = m

\* A forgotten fact leaves its file and does not come back with what another process had
\* loaded (tombstones.py:73-113, pipeline.py:360).
ForgottenStays ==
  Lossless => \A t \in tombs, l \in AllLines : l.id = t[1] => \E p \in Proc : Cutting(p, l.id)

\* Under one id the text changes only by a human's hand, and back: what an edit says gets
\* an id of its own (memory.py:342).
KeepsTexts ==
  Lossless' => \A q \in Path : \A l \in file[q], m \in file'[q] :
    l.id = m.id /\ l.id # 0 /\ l.text # m.text => acts' # acts \/ m.text = cache[q][l.id]

\* What happens after the first breach is not what the store promises.  Bound: after three
\* acts nobody overlaps with another.
Clean == Lossless /\ (acts <= 3 \/ Cardinality({p \in Proc : pc[p] # "idle"}) <= 1)
=============================================================================
