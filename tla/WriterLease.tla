---------------------------- MODULE WriterLease ----------------------------
(***************************************************************************)
(* What the servers of one host may rely on when they elect a writer       *)
(* (src/src/server/redis/lock-manager.ts): a lease has at most one holder, *)
(* and passes from one holder to the next only by being free in between.   *)
(***************************************************************************)
CONSTANTS Managers,   \* the LockManagers that compete for the lease
          NoManager   \* the holder of a free lease

VARIABLE holder

Init == holder = NoManager

Take(m) == holder = NoManager /\ holder' = m

Lose == holder # NoManager /\ holder' = NoManager

Next == Lose \/ \E m \in Managers : Take(m)

Spec == Init /\ [][Next]_holder

\* Every holder is one of the managers, or nobody.
HolderOK == holder \in Managers \cup {NoManager}
=============================================================================
