---------------------------- MODULE AttachmentsMC ----------------------------
(* Model values, symmetry and smaller files for the run of Attachments. *)
EXTENDS Attachments

CONSTANTS e1, e2, e3, a1, a2, t1, t2, x1, x2

EntryIds == {e1, e2, e3}
AttIds == {a1, a2}

(* Entries but the base, attachments, titles and texts are interchangeable. *)
Symmetry ==
    Permutations({e2, e3}) \cup Permutations(AttIds) \cup Permutations({t1, t2})
        \cup Permutations({x1, x2})

(* Files of at most two entries, of one text, and no attachment too many. *)
SmallInit ==
    /\ Init
    /\ Cardinality(DOMAIN db.entries) <= 2
    /\ \A i \in DOMAIN db.entries : db.entries[i].text = x1
    /\ \A a \in DOMAIN db.atts : db.atts[a].refs > 0

SmallSpec == SmallInit /\ [][Next]_vars
=============================================================================
