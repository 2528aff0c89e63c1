--------------------------- MODULE MCSessionStore ---------------------------
(***************************************************************************)
(* Instances of SessionStore.                                              *)
(***************************************************************************)
EXTENDS SessionStore, TLC, FiniteSets

\* Nothing is refused in this instance (MCContext has one where turns are), so that no call
\* of the quarantine can begin: they are left out.
Logging(p) ==
  \/ \E s \in Session : \/ \E e \in Event : AppendEvent(p, s, e)
                        \/ \E turns \in SUBSET Event \ {{}} : Capture(p, s, turns)
  \/ OpenLog(p) \/ WriteLog(p)
KeepNext == \E p \in Proc : Logging(p) \/ Archiving(p) \/ Purging(p) \/ Crash(p)
KeepSpec == Init /\ [][KeepNext]_vars

\* What happens after the first breach is not what the store promises.
Clean == breach = {}

\* Bound: one session has several turns, the others one.
Turns(s) == kept[s] \union UNION {Held(job[p].text[s]) : p \in Proc}
OneIsLong == Cardinality({s \in Session : Cardinality(Turns(s)) > 1}) <= 1

\* Sessions, processes and, if none is refused, turns are alike.
SessionsAlike == Permutations(Session) \union Permutations(Proc)
TurnsAlike == SessionsAlike \union Permutations(Event)
=============================================================================
