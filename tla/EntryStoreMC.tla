---------------------------- MODULE EntryStoreMC ----------------------------
(* Model values and symmetry for the runs of EntryStore. *)
EXTENDS EntryStore

CONSTANTS e1, e2, e3, p1, p2

EntryIds == {e1, e2, e3}
BothPasswords == {p1, p2}

(* No entry and no password is special. *)
Symmetry == Permutations(EntryIds) \cup Permutations(BothPasswords)

(* Files of two entries of any kind, or of three with one password, no       *)
(* shortcut keys and no expiry dates.                                        *)
SmallInit ==
    /\ Init
    /\ LET entries == Range(db.entries)
       IN  \/ Cardinality(DOMAIN db.entries) <= 2
           \/ /\ Cardinality({entry.password : entry \in entries} \ {NoPassword}) = 1
              /\ \A entry \in entries : entry.key = NoKey /\ ~entry.expires

SmallSpec == SmallInit /\ [][Next]_vars
=============================================================================
