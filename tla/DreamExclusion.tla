--------------------------- MODULE DreamExclusion ---------------------------
(***************************************************************************)
(* What the two lock files of a dream run are for, without the files: runs *)
(* that share a umx home or a repository take turns.  DreamLock implements *)
(* this specification with broken standing for a recorded breach.          *)
(***************************************************************************)
CONSTANTS Proc, UserLock, RepoLock

VARIABLES
  running,  \* processes inside a dream run
  broken    \* a live owner's lock was taken over

vars == <<running, broken>>

Conflict(p, q) ==
  p # q /\ (UserLock[p] = UserLock[q] \/ RepoLock[p] = RepoLock[q])

Init == running = {} /\ broken = FALSE

Start(p) ==
  /\ p \notin running
  /\ broken \/ \A q \in running : ~Conflict(p, q)
  /\ running' = running \union {p}
  /\ UNCHANGED broken

Stop(p) ==
  /\ p \in running
  /\ running' = running \ {p}
  /\ UNCHANGED broken

Break ==
  /\ ~broken
  /\ broken' = TRUE
  /\ UNCHANGED running

Next == (\E p \in Proc : Start(p) \/ Stop(p)) \/ Break

Spec == Init /\ [][Next]_vars
=============================================================================
