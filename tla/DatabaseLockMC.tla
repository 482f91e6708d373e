--------------------------- MODULE DatabaseLockMC ---------------------------
(* Small instances of DatabaseLock. *)
EXTENDS DatabaseLock, TLC

CONSTANTS p1, p2, p3, f1, f2, here, there, l1, l2

TwoProcs == {p1, p2}
ThreeProcs == {p1, p2, p3}
OneFile == {f1}
TwoFiles == {f1, f2}
OnlyLock == {l1}
TwoLocks == {l1, l2}

(* One account; and two, of which the second has one process. *)
OneAccount == [p \in TwoProcs |-> here]
TwoAccounts == [p \in ThreeProcs |-> IF p = p3 THEN there ELSE here]

(* Each database has a lock file of its own; or there is just one. *)
OwnLocks == [f \in TwoFiles |-> IF f = f1 THEN l1 ELSE l2]
OneLock == [f \in OneFile |-> l1]

NoRisk == {}
AnyRisk == RiskyKinds

(* The two processes of one account are interchangeable. *)
AnyProc == Permutations(TwoProcs)
=============================================================================
