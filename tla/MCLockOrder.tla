----------------------------- MODULE MCLockOrder -----------------------------
(* LockOrder for TLC: handlers of two informers of the set read each       *)
(* other's informer, those of the two whose names are also removed         *)
(* directly read the ones before them, and each may take a lock of the     *)
(* application.                                                            *)
EXTENDS LockOrder, TLC

CONSTANTS x1, x2, x3, x4

Handlers == x1 :> {x2} \union Mutexes @@ x2 :> {x1} \union Mutexes
         @@ x3 :> {x1, x2} \union Mutexes @@ x4 :> {x1, x2, x3} \union Mutexes

\* The condition on handlers of the theorem NeverDeadlocked.
ASSUME TameAssumption == TameHandlers
=============================================================================
