----------------------------- MODULE InjectionLog -----------------------------
(***************************************************************************)
(* The usage database (src/umx/search.py, usage.sqlite): what was injected *)
(* into which session, what a session referred to, and its turns.  Several *)
(* hooks run at once for one session (session_runtime.py, inject.py), each *)
(* in its process: they read outside of a transaction and write in one per *)
(* call, so that a read may be old when the write comes.                   *)
(* Every turn is taken to add the same tokens, so that a session's tokens  *)
(* are its turns.  Some facts are of the user repository, which has a      *)
(* database of its own.                                                    *)
(***************************************************************************)
EXTENDS Integers, FiniteSets

CONSTANTS
  Proc,       \* hooks that may run at once
  Session,    \* the sessions
  Parent,     \* the session that starts subagents
  Fact,       \* facts of the project and of the user
  Personal,   \* those of the user repository
  Window,     \* turns after which a fact may be refreshed: refresh_window_pct
  MaxRefresh, \* inject.max_refreshes_per_fact
  MaxTurns,   \* bound: turns of a session
  MaxActs     \* bound: hooks and deaths in one behaviour

None == -1
Hook == {"prompt", "tool", "answer", "handoff"}

VARIABLES
  row,      \* row[s]: turns in session_state, None without a row
  seen,     \* seen[s][f]: the row of session_fact_state
  cited,    \* cited[f]: usage.cited_count
  events,   \* events[s][f]: inject events that are not marked dup, the others, references
  audited,  \* audited[s][f]: lines of the injection audit
  pc, hook, ses, turn, old, todo, handed, \* per hook: what it runs, for which session, the
            \* turn it has read, the facts it takes for refreshes, those left, and those
            \* that a parent hands over
  acts,
  turns,    \* ghost: turns[s]: turns that hooks were told of
  missed    \* ghost: hooks that died, or that overlapped in one of the ways below

hooks == <<pc, hook, ses, turn, old, todo, handed>>
tables == <<row, seen, cited, events, audited>>
vars == <<tables, hooks, acts, turns, missed>>

Blank == [inj |-> 0, refresh |-> 0, ref |-> 0, at |-> 0, refAt |-> 0]
Home(f) == IF f \in Personal THEN "user" ELSE "project"

TypeOK ==
  /\ row \in [Session -> None .. MaxTurns]
  /\ \A s \in Session, f \in Fact : seen[s][f].inj \in Nat /\ seen[s][f].refresh \in Nat
  /\ cited \in [Fact -> Nat]
  /\ pc \in [Proc -> {"idle", "count", "write", "hand", "ensure", "insert", "refresh",
                      "record", "audit", "match", "cite", "event"}]
  /\ hook \in [Proc -> Hook] /\ ses \in [Proc -> Session] /\ turn \in [Proc -> None .. MaxTurns]
  /\ old \in [Proc -> SUBSET Fact] /\ todo \in [Proc -> SUBSET Fact]
  /\ handed \in [Proc -> SUBSET Fact]
  /\ acts \in 0 .. MaxActs /\ missed \subseteq {"died", "counted", "refreshed"}

Init ==
  /\ row = [s \in Session |-> None]
  /\ seen = [s \in Session |-> [f \in Fact |-> Blank]]
  /\ cited = [f \in Fact |-> 0]
  /\ events = [s \in Session |-> [f \in Fact |-> [first |-> 0, dup |-> 0, refresh |-> 0, ref |-> 0]]]
  /\ audited = [s \in Session |-> [f \in Fact |-> 0]]
  /\ pc = [p \in Proc |-> "idle"] /\ hook = [p \in Proc |-> "prompt"]
  /\ ses = [p \in Proc |-> Parent] /\ turn = [p \in Proc |-> 0]
  /\ old = [p \in Proc |-> {}] /\ todo = old /\ handed = old
  /\ acts = 0 /\ turns = [s \in Session |-> 0] /\ missed = {}

Act == acts < MaxActs /\ acts' = acts + 1
Goto(p, step) == pc' = [pc EXCEPT ![p] = step]
Set(f, p, x) == [f EXCEPT ![p] = x]

\* The hook is over and its variables are of no use.
Finish(p) ==
  /\ Goto(p, "idle") /\ hook' = Set(hook, p, "prompt") /\ ses' = Set(ses, p, Parent)
  /\ turn' = Set(turn, p, 0) /\ old' = Set(old, p, {}) /\ todo' = Set(todo, p, {})
  /\ handed' = Set(handed, p, {})

-----------------------------------------------------------------------------
(* Turns: session_state.                                                    *)

\* A hook for an ordinary session, or one that starts a subagent's session.
Begin(p, h, s) ==
  /\ pc[p] = "idle" /\ Act
  /\ h = "handoff" <=> s # Parent
  /\ h \in {"tool", "answer"} => turns[s] < MaxTurns
  /\ hook' = Set(hook, p, h) /\ ses' = Set(ses, p, s)
  /\ turns' = IF h \in {"tool", "answer"} THEN [turns EXCEPT ![s] = @ + 1] ELSE turns
  /\ Goto(p, CASE h = "prompt" -> "ensure" [] h = "handoff" -> "hand" [] OTHER -> "count")
  /\ UNCHANGED <<tables, turn, old, todo, handed, missed>>

\* advance_session_state reads the row, and then inserts or updates it.
Count(p) ==
  /\ pc[p] = "count" /\ turn' = Set(turn, p, row[ses[p]]) /\ Goto(p, "write")
  /\ UNCHANGED <<tables, hook, ses, old, todo, handed, acts, turns, missed>>

\* A row that somebody inserted in between makes the insertion fail, and the hook with it.
Write(p) ==
  LET s == ses[p] IN
  /\ pc[p] = "write"
  /\ missed' = IF row[s] # turn[p] THEN missed \union {"counted"} ELSE missed
  /\ IF turn[p] = None /\ row[s] # None
     THEN Finish(p) /\ UNCHANGED row
     ELSE /\ row' = [row EXCEPT ![s] = IF turn[p] = None THEN 1 ELSE turn[p] + 1]
          /\ turn' = Set(turn, p, row'[s])
          /\ Goto(p, IF hook[p] = "answer" THEN "match" ELSE "ensure")
          /\ UNCHANGED <<hook, ses, old, todo, handed>>
  /\ UNCHANGED <<seen, cited, events, audited, acts, turns>>

\* Mutant: the row is replaced, and its turns begin again.
Ensure_Replaces(p) ==
  /\ pc[p] = "ensure" /\ turn' = Set(turn, p, None) /\ Goto(p, "refresh")
  /\ row' = [row EXCEPT ![ses[p]] = 0]
  /\ UNCHANGED <<seen, cited, events, audited, hook, ses, old, todo, handed, acts, turns, missed>>

\* ensure_session_state reads the row; an update leaves the turns alone.
Ensure(p) ==
  /\ pc[p] = "ensure" /\ turn' = Set(turn, p, row[ses[p]])
  /\ Goto(p, IF row[ses[p]] = None THEN "insert" ELSE "refresh")
  /\ UNCHANGED <<tables, hook, ses, old, todo, handed, acts, turns, missed>>

Insert(p) ==
  /\ pc[p] = "insert"
  /\ IF row[ses[p]] # None THEN Finish(p) /\ UNCHANGED row
     ELSE /\ row' = [row EXCEPT ![ses[p]] = 0] /\ turn' = Set(turn, p, 0) /\ Goto(p, "refresh")
          /\ UNCHANGED <<hook, ses, old, todo, handed>>
  /\ UNCHANGED <<seen, cited, events, audited, acts, turns, missed>>

-----------------------------------------------------------------------------
(* Injections.                                                              *)

\* active_working_set at latest_referenced_turn, over both databases.
WorkingSet(s) ==
  LET used == {f \in Fact : seen[s][f].ref > 0} IN
  {f \in used : seen[s][f].refAt > 0 /\ \A g \in used : seen[s][g].refAt <= seen[s][f].refAt}

\* build_subagent_handoff: what the parent's last turn referred to, and the open tasks.
Hand(p) ==
  /\ pc[p] = "hand"
  /\ \E tasks \in SUBSET Fact : handed' = Set(handed, p, WorkingSet(Parent) \union tasks)
  /\ Goto(p, "ensure")
  /\ UNCHANGED <<tables, hook, ses, turn, old, todo, acts, turns, missed>>

\* attention_refresh_candidates
Refreshable(s, now) ==
  {f \in Fact : LET r == seen[s][f] IN
     r.inj > 0 /\ r.ref > 0 /\ r.refresh < MaxRefresh /\ now - r.at >= Window}

\* build_injection_block reads the candidates and selects facts; a handoff selects of those
\* handed over.  Without a context window there are no refreshes.
Select(p) ==
  /\ pc[p] = "refresh"
  /\ old' \in {Set(old, p, Refreshable(ses[p], turn[p])), old}
  /\ \E facts \in SUBSET Fact :
       /\ hook[p] = "handoff" => facts \subseteq handed[p]
       /\ facts # {} /\ todo' = Set(todo, p, facts)
  /\ Goto(p, "record")
  /\ UNCHANGED <<tables, hook, ses, turn, handed, acts, turns, missed>>

\* A hook that selects nothing records nothing.
SelectNothing(p) == pc[p] = "refresh" /\ Finish(p) /\ UNCHANGED <<tables, acts, turns, missed>>

\* The facts of one database, the project's first.
Batch(p) ==
  LET project == todo[p] \ Personal IN IF project # {} THEN project ELSE todo[p]

Outdates(p, facts) ==
  \E q \in Proc \ {p} : ses[q] = ses[p] /\ todo[q] \intersect old[q] \intersect facts # {}

\* _record_injection_event: the session's row of the fact, and the event, which is marked as a
\* repetition by what the row said before.
Row(r, now, refreshed) ==
  [r EXCEPT !.inj = @ + 1, !.at = now, !.refresh = @ + (IF refreshed THEN 1 ELSE 0)]
Event(e, r, refreshed) ==
  [e EXCEPT !.first = @ + (IF r.inj = 0 THEN 1 ELSE 0), !.dup = @ + (IF r.inj > 0 THEN 1 ELSE 0),
            !.refresh = @ + (IF refreshed THEN 1 ELSE 0)]

\* record_injections: one transaction.
Record(p) ==
  LET s == ses[p]  batch == Batch(p) IN
  /\ pc[p] = "record"
  /\ seen' = [seen EXCEPT ![s] = [f \in Fact |->
                 IF f \in batch THEN Row(seen[s][f], turn[p], f \in old[p]) ELSE seen[s][f]]]
  /\ events' = [events EXCEPT ![s] = [f \in Fact |->
                   IF f \in batch THEN Event(events[s][f], seen[s][f], f \in old[p]) ELSE events[s][f]]]
  /\ missed' = IF Outdates(p, batch \intersect old[p]) THEN missed \union {"refreshed"} ELSE missed
  /\ Goto(p, "audit")
  /\ UNCHANGED <<row, cited, audited, hook, ses, turn, old, todo, handed, acts, turns>>

\* _append_injection_audit, after the commit.
Audit(p) ==
  /\ pc[p] = "audit"
  /\ audited' = [audited EXCEPT ![ses[p]] = [f \in Fact |-> @[f] + (IF f \in Batch(p) THEN 1 ELSE 0)]]
  /\ IF todo[p] = Batch(p) THEN Finish(p)
     ELSE /\ todo' = Set(todo, p, todo[p] \ Batch(p)) /\ Goto(p, "record")
          /\ UNCHANGED <<hook, ses, turn, old, handed>>
  /\ UNCHANGED <<row, seen, cited, events, acts, turns, missed>>

-----------------------------------------------------------------------------
(* References.                                                              *)

\* detect_referenced_fact_ids: some of the facts that the session has a row of.
Match(p) ==
  /\ pc[p] = "match"
  /\ \E facts \in SUBSET {f \in Fact : seen[ses[p]][f] # Blank} :
       IF facts = {} THEN Finish(p)
       ELSE /\ todo' = Set(todo, p, facts) /\ Goto(p, "cite")
            /\ UNCHANGED <<hook, ses, turn, old, handed>>
  /\ UNCHANGED <<tables, acts, turns, missed>>

\* record_reference: the count of the fact, and in another transaction the event.
Cite(p, f) ==
  /\ pc[p] = "cite" /\ f \in todo[p]
  /\ cited' = [cited EXCEPT ![f] = @ + 1]
  /\ old' = Set(old, p, {f}) /\ Goto(p, "event")
  /\ UNCHANGED <<row, seen, events, audited, hook, ses, turn, todo, handed, acts, turns, missed>>

Refer(p, f) ==
  LET s == ses[p] IN
  /\ pc[p] = "event" /\ f \in old[p]
  /\ events' = [events EXCEPT ![s][f].ref = @ + 1]
  /\ seen' = [seen EXCEPT ![s][f].ref = @ + 1, ![s][f].refAt = turn[p]]
  /\ IF todo[p] = {f} THEN Finish(p)
     ELSE /\ todo' = Set(todo, p, todo[p] \ {f}) /\ old' = Set(old, p, {}) /\ Goto(p, "cite")
          /\ UNCHANGED <<hook, ses, turn, handed>>
  /\ UNCHANGED <<row, cited, audited, acts, turns, missed>>

Die(p) ==
  /\ pc[p] # "idle" /\ Act /\ Finish(p) /\ missed' = missed \union {"died"}
  /\ UNCHANGED <<tables, turns>>

Next ==
  \E p \in Proc :
    \/ \E h \in Hook, s \in Session : Begin(p, h, s)
    \/ Count(p) \/ Write(p) \/ Ensure(p) \/ Insert(p) \/ Hand(p)
    \/ Select(p) \/ SelectNothing(p) \/ Record(p) \/ Audit(p)
    \/ Match(p) \/ \E f \in Fact : Cite(p, f) \/ Refer(p, f)
    \/ Die(p)

Spec == Init /\ [][Next]_vars

-----------------------------------------------------------------------------
(* Properties.                                                              *)

\* A fact is refreshed in a session no more often than max_refreshes_per_fact, unless a hook
\* records a refresh that another has recorded since it read the candidates (search.py:1488).
RefreshIsBounded ==
  "refreshed" \notin missed => \A s \in Session, f \in Fact : events[s][f].refresh <= MaxRefresh

\* The turns of a session are those its hooks were told of, unless two hooks counted at once
\* or one died (search.py:893).
TurnsAreCounted ==
  missed \intersect {"counted", "died"} = {} =>
    \A s \in Session :
      turns[s] = (IF row[s] = None THEN 0 ELSE row[s])
                 + Cardinality({p \in Proc : ses[p] = s /\ pc[p] \in {"count", "write"}})

\* A hook that dies leaves references counted that have no event, and events without an audit
\* line, never the reverse; while none dies, the tables agree between the hooks.  Of a fact's
\* inject events exactly the first is not marked as a repetition, however many hooks record
\* at once (search.py:1332, 1305, 1073).
CountsAgree ==
  LET refs(f) == events[Parent][f].ref IN
  /\ \A s \in Session, f \in Fact :
       /\ events[s][f].first = (IF seen[s][f].inj > 0 THEN 1 ELSE 0)
       /\ events[s][f].first + events[s][f].dup = seen[s][f].inj
  /\ \A f \in Fact : refs(f) <= cited[f]
  /\ \A s \in Session, f \in Fact : audited[s][f] <= seen[s][f].inj
  /\ "died" \notin missed /\ (\A p \in Proc : pc[p] = "idle") =>
       \A f \in Fact : refs(f) = cited[f] /\ \A s \in Session : audited[s][f] = seen[s][f].inj
=============================================================================
