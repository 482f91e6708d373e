---------------------------- MODULE UndoDocument ----------------------------
(***************************************************************************)
(* What the undo/redo chain of PWScore promises, without commands,         *)
(* iterators or before/after states: the open database is a document with  *)
(* a linear history of contents and a cursor.  A change drops everything   *)
(* after the cursor and appends; undo and redo move the cursor; a document *)
(* reported unchanged is the one the database file holds.                  *)
(*                                                                         *)
(* CommandChain implements this module (CommandChain!Document).            *)
(***************************************************************************)
EXTENDS Naturals, Sequences

CONSTANTS
    Contents,  \* what a database may contain
    NoData     \* no content: a database locked or closed, a file unreadable

VARIABLES
    history,   \* the contents the open database has had, oldest first
    cursor,    \* the one that is current
    visible,   \* is the current one in memory (FALSE while locked)?
    changed,   \* does the database report unsaved changes?
    stored     \* what the database file holds

vars == <<history, cursor, visible, changed, stored>>

TypeOK ==
    /\ history \in Seq(Contents \cup {NoData})
    /\ cursor \in 1..Len(history)
    /\ visible \in BOOLEAN
    /\ changed \in BOOLEAN
    /\ stored \in Contents \cup {NoData}

Init ==
    /\ history = <<NoData>>
    /\ cursor = 1
    /\ visible = FALSE
    /\ changed = FALSE
    /\ stored = NoData

(* The report of unsaved changes may err only on the side of caution. *)
HonestReport == (visible' /\ ~changed') => stored' = history'[cursor']

(* A step that leaves the content alone may still write it out. *)
MayStore == stored' \in {stored, history'[cursor']}

Open ==
    /\ \E c \in Contents : history' = <<c>>
    /\ cursor' = 1
    /\ visible' = TRUE
    /\ stored' \in Contents
    /\ HonestReport

Close ==
    /\ history' = <<NoData>>
    /\ cursor' = 1
    /\ visible' = FALSE
    /\ stored' = NoData
    /\ changed' = FALSE

Change ==
    /\ visible
    /\ \E c \in Contents : history' = Append(SubSeq(history, 1, cursor), c)
    /\ cursor' = cursor + 1
    /\ visible' = TRUE
    /\ MayStore
    /\ HonestReport

Move(to) ==
    /\ visible
    /\ to \in 1..Len(history)
    /\ cursor' = to
    /\ UNCHANGED <<history, visible>>
    /\ MayStore
    /\ HonestReport

Undo == Move(cursor - 1)

Redo == Move(cursor + 1)

Save ==
    /\ visible
    /\ stored' = history[cursor]
    /\ UNCHANGED <<history, cursor, visible>>
    /\ HonestReport

(* Locking forgets the content, and so must not lose any of it. *)
Lock ==
    /\ visible
    /\ visible' = FALSE
    /\ stored' = history[cursor]
    /\ UNCHANGED <<history, cursor>>
    /\ changed' = FALSE

Unlock ==
    /\ ~visible
    /\ stored = history[cursor]
    /\ stored \in Contents
    /\ visible' = TRUE
    /\ changed' = FALSE
    /\ UNCHANGED <<history, cursor, stored>>

(* The history can be forgotten: the current content is all that is left. *)
Forget ==
    /\ visible
    /\ history' = <<history[cursor]>>
    /\ cursor' = 1
    /\ UNCHANGED <<visible, changed, stored>>

Next ==
    Open \/ Close \/ Change \/ Undo \/ Redo \/ Save \/ Lock \/ Unlock \/ Forget

Spec == Init /\ [][Next]_vars
=============================================================================
