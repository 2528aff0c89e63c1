---------------------------- MODULE MCDreamLock ----------------------------
(***************************************************************************)
(* Instances of DreamLock.  In the mixed one p1 and p2 have the same umx   *)
(* home and dream on two repositories, while p3 dreams on the repository   *)
(* of p1 from a home of its own: p1 meets p2 at the user lock and p3 at    *)
(* the repository lock.                                                    *)
(***************************************************************************)
EXTENDS DreamLock

CONSTANTS p1, p2, p3, home, home2, repo, repo2

MixedHomes == [p \in Proc |-> IF p = p3 THEN home2 ELSE home]
MixedRepos == [p \in Proc |-> IF p = p2 THEN repo2 ELSE repo]

SharedHome == [p \in Proc |-> home]
SharedRepo == [p \in Proc |-> repo]

\* What happens after the first breach is not what the lock promises.
Clean == breach = "none"
=============================================================================
