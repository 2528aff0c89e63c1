-------------------------------- MODULE DreamGate --------------------------------
(***************************************************************************)
(* meta/dream-state.json (src/umx/dream/gates.py): the number of sessions  *)
(* since the last dream, the time of that dream, and the sessions that     *)
(* dreams have read.  Session hooks, collections and dreams read the file  *)
(* and write it back without a lock; the write truncates first.  The file  *)
(* decides when the next dream is due, and which sessions it reads.        *)
(***************************************************************************)
EXTENDS Integers, Sequences, FiniteSets, SequencesExt

CONSTANTS
  Proc, Session,
  Threshold,  \* sessions that make a dream due (5)
  Cap,        \* sessions that the file remembers (500)
  MaxActs     \* bound: programs and deaths in one behaviour

VARIABLES
  file,    \* the state, or Absent, or Torn
  stored,  \* sessions on disk
  pc,      \* pc[p]: what p does next
  todo,    \* todo[p]: the updates of the file that are left
  state,   \* state[p]: what p has read, changed, and is to write
  took,    \* took[p]: the sessions that the dream of p has read
  dreamer, \* the program that holds the dream locks, if any
  old,     \* the last dream was a day ago
  acts,
  since,   \* ghost: sessions begun since a dream ended
  marked,  \* ghost: sessions that a dream has marked
  again,   \* ghost: marked sessions that a dream has read again
  breach   \* ghost: "overlap" of two updates; "died" in one; "forgot" a session over the cap

program == <<pc, todo, state, took>>
ghost == <<since, marked, again>>
vars == <<file, stored, program, dreamer, old, acts, ghost, breach>>

Absent == [count |-> 0 - 1, dreamt |-> FALSE, gathered |-> <<>>]
Torn == [count |-> 0 - 2, dreamt |-> FALSE, gathered |-> <<>>]
Empty == [count |-> 0, dreamt |-> FALSE, gathered |-> <<>>]

State == [count : 0 .. MaxActs, dreamt : BOOLEAN, gathered : UNION {[1 .. n -> Session] : n \in 0 .. Cap}]

TypeOK ==
  /\ file \in State \union {Absent, Torn} /\ stored \subseteq Session
  /\ pc \in [Proc -> {"idle", "read", "truncate", "write", "dream"}]
  /\ \A p \in Proc : todo[p] \in Seq({"count", "gathered", "complete"}) /\ state[p] \in State
  /\ took \in [Proc -> SUBSET Session] /\ dreamer \subseteq Proc /\ old \in BOOLEAN
  /\ acts \in 0 .. MaxActs /\ since \in 0 .. MaxActs
  /\ marked \subseteq Session /\ again \subseteq Session /\ breach \subseteq {"overlap", "died", "forgot"}

Init ==
  /\ file = Absent /\ stored = {} /\ dreamer = {} /\ old = FALSE
  /\ pc = [p \in Proc |-> "idle"] /\ todo = [p \in Proc |-> <<>>] /\ state = [p \in Proc |-> Empty]
  /\ took = [p \in Proc |-> {}] /\ acts = 0 /\ since = 0 /\ marked = {} /\ again = {} /\ breach = {}

Act == acts < MaxActs /\ acts' = acts + 1
Set(f, p, x) == [f EXCEPT ![p] = x]
Finish(p) ==
  /\ pc' = Set(pc, p, "idle") /\ todo' = Set(todo, p, <<>>) /\ state' = Set(state, p, Empty) /\ took' = Set(took, p, {})
  /\ dreamer' = dreamer \ {p}

\* read_dream_state: a missing file is an empty state; a torn one raises.
Loaded == IF file = Absent THEN Empty ELSE file
Gathered(s) == Range(s.gathered)

-----------------------------------------------------------------------------
(* An update of the file.                                                   *)

\* An update reads the file; on a torn one the program gives up.
Read(p) ==
  /\ pc[p] = "read"
  /\ IF file = Torn THEN Finish(p)
     ELSE /\ pc' = Set(pc, p, "truncate") /\ state' = Set(state, p, Loaded) /\ UNCHANGED <<todo, took, dreamer>>
  /\ breach' = breach \union (IF \E q \in Proc : pc[q] \in {"truncate", "write"} THEN {"overlap"} ELSE {})
  /\ UNCHANGED <<file, stored, old, acts, ghost>>

\* write_text opens the file, which empties it.
Truncate(p) ==
  /\ pc[p] = "truncate" /\ pc' = Set(pc, p, "write") /\ file' = Torn
  /\ UNCHANGED <<stored, todo, state, took, dreamer, old, acts, ghost, breach>>

\* Mutant: one session too many is remembered.
Remembered_OneMore(s, new) ==
  LET all == s.gathered \o SetToSeq(new \ Gathered(s))
  IN IF Len(all) > Cap + 1 THEN SubSeq(all, Len(all) - Cap, Len(all)) ELSE all

\* mark_sessions_gathered: the last Cap of the sessions remembered and those just read.
Remembered(s, new) ==
  LET all == s.gathered \o SetToSeq(new \ Gathered(s))
  IN IF Len(all) > Cap THEN SubSeq(all, Len(all) - Cap + 1, Len(all)) ELSE all

Counted(s) == [s EXCEPT !.count = @ + 1]
Marked(s, new) == [s EXCEPT !.gathered = Remembered(s, new)]
Completed(s) == [s EXCEPT !.dreamt = TRUE, !.count = 0]

\* The update of p, on the state that it has read.
Changed(p) ==
  CASE Head(todo[p]) = "count" -> Counted(state[p])
    [] Head(todo[p]) = "gathered" -> Marked(state[p], took[p])
    [] Head(todo[p]) = "complete" -> Completed(state[p])

Write(p) ==
  /\ pc[p] = "write" /\ file' = Changed(p)
  /\ LET what == Head(todo[p]) IN
     /\ since' = CASE what = "count" -> since + 1 [] what = "complete" -> 0 [] OTHER -> since
     /\ old' = (old /\ what # "complete")
     /\ marked' = IF what = "gathered" THEN marked \union took[p] ELSE marked
     /\ breach' = breach \union (IF what = "gathered" /\ ~((took[p] \union Gathered(state[p])) \subseteq Gathered(Changed(p)))
                                    /\ Len(state[p].gathered) + Cardinality(took[p]) > Cap THEN {"forgot"} ELSE {})
  /\ IF Len(todo[p]) = 1 THEN Finish(p)
     ELSE /\ pc' = Set(pc, p, "read") /\ todo' = Set(todo, p, Tail(todo[p])) /\ state' = Set(state, p, Empty)
          /\ UNCHANGED <<took, dreamer>>
  /\ UNCHANGED <<stored, acts, again>>

-----------------------------------------------------------------------------
(* The programs.                                                            *)

\* session_start counts every start.
SessionStart(p) ==
  /\ pc[p] = "idle" /\ Act /\ pc' = Set(pc, p, "read") /\ todo' = Set(todo, p, <<"count">>)
  /\ UNCHANGED <<file, stored, state, took, dreamer, old, ghost, breach>>

\* A session is written at its end, without a count.
SessionEnd(s) ==
  /\ s \notin stored /\ Act /\ stored' = stored \union {s}
  /\ UNCHANGED <<file, program, dreamer, old, ghost, breach>>

\* collect_session writes and commits a session, and counts it if it is new.
Collect(p, s) ==
  /\ pc[p] = "idle" /\ s \notin stored /\ Act
  /\ stored' = stored \union {s}
  /\ pc' = Set(pc, p, "read") /\ todo' = Set(todo, p, <<"count">>)
  /\ UNCHANGED <<file, state, took, dreamer, old, ghost, breach>>

\* should_dream.
Due(s) == s.count >= Threshold \/ ~s.dreamt \/ old

\* A dream that is due, or forced, takes the locks; it reads the sessions that are not gathered,
\* archived ones too.  A torn file raises, even if the dream is forced: its log reads the state.
Dream(p) ==
  /\ pc[p] = "idle" /\ Act /\ dreamer = {} /\ file # Torn
  /\ \E forced \in BOOLEAN : forced \/ Due(Loaded)
  /\ dreamer' = {p} /\ pc' = Set(pc, p, "dream")
  /\ UNCHANGED <<file, stored, todo, state, took, old, ghost, breach>>

\* Sessions that no provider could read are read by the native rules, and not marked.
Gather(p, native) ==
  /\ pc[p] = "dream" /\ took[p] = {} /\ todo[p] = <<>>
  /\ IF file = Torn THEN Finish(p) /\ UNCHANGED again
     ELSE LET new == stored \ Gathered(Loaded) IN
          /\ native \subseteq new
          /\ took' = Set(took, p, new \ native) /\ again' = again \union (new \intersect marked)
          /\ todo' = Set(todo, p, IF new \ native = {} THEN <<"complete">> ELSE <<"gathered", "complete">>)
          /\ UNCHANGED <<pc, state, dreamer>>
  /\ UNCHANGED <<file, stored, old, acts, since, marked, breach>>

\* The facts are saved: the dream marks its sessions and itself, or it fails before.
Saved(p) ==
  /\ pc[p] = "dream" /\ todo[p] # <<>>
  /\ \/ pc' = Set(pc, p, "read") /\ UNCHANGED <<todo, state, took, dreamer>>
     \/ Finish(p)
  /\ UNCHANGED <<file, stored, old, acts, ghost, breach>>

Day ==
  /\ ~old /\ file \notin {Absent, Torn} /\ file.dreamt /\ Act /\ old' = TRUE
  /\ UNCHANGED <<file, stored, program, dreamer, ghost, breach>>

Die(p) ==
  /\ pc[p] # "idle" /\ Act /\ Finish(p)
  /\ breach' = breach \union (IF pc[p] \in {"truncate", "write"} \/ Len(todo[p]) = 1 THEN {"died"} ELSE {})
  /\ UNCHANGED <<file, stored, old, ghost>>

Next ==
  \/ \E p \in Proc :
       \/ Read(p) \/ Truncate(p) \/ Write(p)
       \/ SessionStart(p) \/ (\E s \in Session : Collect(p, s))
       \/ Dream(p) \/ (\E native \in SUBSET Session : Gather(p, native)) \/ Saved(p) \/ Die(p)
  \/ (\E s \in Session : SessionEnd(s)) \/ Day

Spec == Init /\ [][Next]_vars

-----------------------------------------------------------------------------
(* Properties.                                                              *)

Quiet == breach = {} /\ file # Torn

\* Unless two updates overlapped or a program died in one, the gate tells when a dream is due: no
\* dream has ended, or so many sessions have begun since one did, or it was a day ago (gates.py:29).
GateOpensWhenDue ==
  Quiet /\ dreamer = {} => (Due(Loaded) <=> (~Loaded.dreamt \/ since >= Threshold \/ old))

\* Under the same conditions, and while the sessions on disk are no more than the file remembers, a
\* session that a dream has marked is never read again (extract.py:415).
MarkedIsReadOnce == breach = {} => again = {}
=============================================================================
