--------------------------- MODULE ExclusiveWriter ---------------------------
(***************************************************************************)
(* What the lock files are for: each lock has at most one writer at a      *)
(* time, who writes on top of what is in the file and nothing else.        *)
(* DatabaseLock implements this where its locks are used with care.        *)
(***************************************************************************)

CONSTANTS Procs, Locks, Nobody

VARIABLES
    writer,   \* the process that may write what a lock protects
    current   \* the processes that know what the file holds

Init ==
    /\ writer = [l \in Locks |-> Nobody]
    /\ current = {}

(* p gives up the lock it had. *)
Without(p) == [l \in Locks |-> IF writer[l] = p THEN Nobody ELSE writer[l]]

(* p becomes the writer of a lock that has none, with the current content: *)
(* what it read, or what it wrote over everybody else's.                   *)
Take(p, l) ==
    /\ writer[l] = Nobody
    /\ writer' = [Without(p) EXCEPT ![l] = p]
    /\ p \in current'
    /\ current' \subseteq current \cup {p}

(* The writer writes: others no longer know what the file holds. *)
Write(p) ==
    /\ \E l \in Locks : writer[l] = p
    /\ p \in current
    /\ p \in current'
    /\ current' \subseteq current
    /\ UNCHANGED writer

Read(p) == current' = current \cup {p} /\ UNCHANGED writer

(* p leaves its database, or the mode in which it may write it. *)
Leave(p) ==
    /\ writer' = Without(p)
    /\ current' \in {current, current \ {p}}

Next ==
    \E p \in Procs : Write(p) \/ Read(p) \/ Leave(p) \/ \E l \in Locks : Take(p, l)

Spec == Init /\ [][Next]_<<writer, current>>
=============================================================================
