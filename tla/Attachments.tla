----------------------------- MODULE Attachments -----------------------------
(***************************************************************************)
(* The attachments of a database in format V4: entries refer to them by    *)
(* uuid, PWScore keeps them in m_attlist with a count of the references,   *)
(* and add, delete and edit commands, undone and redone, keep the two      *)
(* together or not.  The edits are those of ui/wxWidgets.                  *)
(*                                                                         *)
(* As in EntryStore the undo chain is a list and a position, and history   *)
(* is a history variable; aliases and shortcuts are EntryStore's.          *)
(***************************************************************************)
EXTENDS Naturals, Sequences, FiniteSets, SequencesExt, Functions

CONSTANTS
    Ids,          \* uuids of entries
    Bases,        \* those whose entries are bases: not IsNormal()
    Atts,         \* uuids of attachments
    Titles,       \* what can be edited of an attachment
    Texts,        \* what can be edited of an entry
    NoAtt,        \* no reference, and the uuid of an attachment without one
    NoTitle,      \* of an attachment without fields: HasContent() is FALSE
    UIntMax,      \* the greatest unsigned int
    Risky,        \* which of RiskyKinds the user does
    MaxCommands,  \* bound on the commands kept for undo
    MaxRefs       \* bound on the counts: those with one more do not undo or redo

(***************************************************************************)
(* What the user may do that the code does not handle well:                *)
(*   replace  remove an attachment and import another in one edit          *)
(*   shared   remove an attachment that a duplicate refers to, too         *)
(*   base     remove the attachment of a base, lock and undo               *)
(*   edited   change other fields of an entry while attaching              *)
(***************************************************************************)
RiskyKinds == {"replace", "shared", "base", "edited"}

ASSUME AttachmentsAssumption ==
    /\ Bases \subseteq Ids
    /\ NoAtt \notin Atts
    /\ NoTitle \notin Titles
    /\ Risky \subseteq RiskyKinds
    /\ UIntMax \in Nat /\ MaxCommands \in Nat /\ MaxRefs \in Nat

VARIABLES
    db,        \* m_pwlist and m_attlist
    commands,  \* the MultiCommands executed, and undone
    next,      \* the one to redo; the one before is the one to undo
    history    \* what the user saw before and after each of them

vars == <<db, commands, next, history>>

Entries == [text : Texts, att : Atts \cup {NoAtt}]
Attachment == [uuid : Atts, title : Titles, refs : 0..UIntMax]

(* A CItemAtt as constructed. *)
Empty == [uuid |-> NoAtt, title |-> NoTitle, refs |-> 0]

HasContent(att) == att.title # NoTitle

(* f with x mapped to y, whether x was in its domain or not. *)
With(f, x, y) == [z \in DOMAIN f \cup {x} |-> IF z = x THEN y ELSE f[z]]

-----------------------------------------------------------------------------
(* PWScore's list of attachments.                                           *)

HasAtt(d, a) == a \in DOMAIN d.atts

(* HasAttRef() of an entry, and the attachment is there. *)
RefFound(d, entry) == entry.att # NoAtt /\ HasAtt(d, entry.att)

(* GetAtt for writing: m_attlist[a] makes an empty one when there is none.  *)
GetAtt(d, a) == IF HasAtt(d, a) THEN d.atts[a] ELSE Empty

Listed(d, a, att) == [d EXCEPT !.atts = With(@, a, att)]

PutAtt(d, att) == Listed(d, att.uuid, att)

RemoveAtt(d, a) == [d EXCEPT !.atts = Restrict(@, DOMAIN @ \ {a})]

IncRefcount(d, a) == Listed(d, a, [GetAtt(d, a) EXCEPT !.refs = (@ + 1) % (UIntMax + 1)])

DecRefcount(d, a) ==
    Listed(d, a, [GetAtt(d, a) EXCEPT !.refs = IF @ = 0 THEN UIntMax ELSE @ - 1])

(* Mutant: the attachment of a duplicate is not counted. *)
AddUncounted(d, id, entry, att) ==
    LET added == [d EXCEPT !.entries =
                    With(@, id, [entry EXCEPT !.att = IF HasContent(att) THEN att.uuid ELSE @])]
    IN  IF ~HasContent(att) THEN added
        ELSE IncRefcount(IF HasAtt(added, att.uuid) THEN added ELSE PutAtt(added, att),
                         att.uuid)

(* Mutant: counted before it is listed. *)
CountedFirst(d, id, entry, att) ==
    LET added == [d EXCEPT !.entries =
                    With(@, id, [entry EXCEPT !.att = IF HasContent(att) THEN att.uuid ELSE @])]
        counted == IF added.entries[id].att # NoAtt
                   THEN IncRefcount(added, added.entries[id].att) ELSE added
    IN  IF HasContent(att) /\ ~HasAtt(counted, att.uuid) THEN PutAtt(counted, att) ELSE counted

(* An attachment given is put into the list with the count it has, and then *)
(* counted; one the entry refers to already is counted if it is there.      *)
DoAddEntry(d, id, entry, att) ==
    LET added  == [d EXCEPT !.entries =
                    With(@, id, [entry EXCEPT !.att = IF HasContent(att) THEN att.uuid ELSE @])]
        listed == IF HasContent(att) /\ ~HasAtt(added, att.uuid)
                  THEN PutAtt(added, att) ELSE added
    IN  IF RefFound(listed, listed.entries[id])
        THEN IncRefcount(listed, listed.entries[id].att) ELSE listed

(* entry is what the command recorded: the reference of an entry added with *)
(* its attachment is in the list only.                                      *)
DoDeleteEntry(d, id, entry) ==
    LET erased == [d EXCEPT !.entries = Restrict(@, DOMAIN @ \ {id})]
    IN  IF id \notin DOMAIN d.entries THEN d
        ELSE IF entry.att = NoAtt THEN erased
        ELSE IF GetAtt(d, entry.att).refs = 1 THEN RemoveAtt(erased, entry.att)
        ELSE DecRefcount(erased, entry.att)

DoReplaceEntry(d, id, new) == [d EXCEPT !.entries = With(@, id, new)]

DoAddAttachment(d, att) ==
    IF HasAtt(d, att.uuid) THEN IncRefcount(d, att.uuid) ELSE PutAtt(d, att)

(* Whoever else refers to it. *)
DoDeleteAttachment(d, att) == RemoveAtt(d, att.uuid)

DoReplaceAttachment(d, old, new) == Listed(d, old.uuid, new)

-----------------------------------------------------------------------------
(* The commands.  saved is what a command keeps of an attachment for its    *)
(* undo; only a done delete is undone.                                      *)

AddCommand(id, entry, att) == [op |-> "add", id |-> id, entry |-> entry, att |-> att]

DeleteCommand(id, entry) ==
    [op |-> "delete", id |-> id, entry |-> entry, saved |-> Empty, done |-> FALSE]

DeleteAttachmentCommand(id) ==
    [op |-> "deleteatt", id |-> id, entry |-> db.entries[id], saved |-> Empty]

EditCommand(id, new) == [op |-> "edit", id |-> id, old |-> db.entries[id], new |-> new]

EditAttachmentCommand(old, new) == [op |-> "editatt", old |-> old, new |-> new]

(* DeleteAttachmentCommand::Execute finds an attachment of normal entries only. *)
Found(d, c) == c.id \notin Bases /\ RefFound(d, c.entry)

Execute1(d, c) ==
    CASE c.op = "add"       -> DoAddEntry(d, c.id, c.entry, c.att)
      [] c.op = "delete"    -> DoDeleteEntry(d, c.id, c.entry)
      [] c.op = "deleteatt" -> IF Found(d, c) THEN DoDeleteAttachment(d, d.atts[c.entry.att])
                               ELSE d
      [] c.op = "edit"      -> DoReplaceEntry(d, c.id, c.new)
      [] c.op = "editatt"   -> DoReplaceAttachment(d, c.old, c.new)

(* Mutant: a copy is kept only of an attachment that others refer to. *)
OneOfMany(d, c) == c.id \in DOMAIN d.entries /\ RefFound(d, c.entry) /\ d.atts[c.entry.att].refs # 1

(* Is the attachment going to be removed with the entry?  An earlier copy   *)
(* stays when it is not.                                                    *)
OnlyRef(d, c) == c.id \in DOMAIN d.entries /\ RefFound(d, c.entry) /\ d.atts[c.entry.att].refs = 1

(* The command as its Execute on d leaves it. *)
Executed1(d, c) ==
    CASE c.op = "delete" ->
            [c EXCEPT !.done = @ \/ c.id \in DOMAIN d.entries,
                      !.saved = IF OnlyRef(d, c) THEN d.atts[c.entry.att] ELSE @]
      [] c.op = "deleteatt" ->
            [c EXCEPT !.saved = IF Found(d, c) THEN d.atts[c.entry.att] ELSE @]
      [] OTHER -> c

Undo1(d, c) ==
    CASE c.op = "add"       -> DoDeleteEntry(d, c.id, c.entry)
      [] c.op = "delete"    -> IF c.done THEN DoAddEntry(d, c.id, c.entry, c.saved) ELSE d
      [] c.op = "deleteatt" -> DoAddAttachment(d, c.saved)
      [] c.op = "edit"      -> DoReplaceEntry(d, c.id, c.old)
      [] c.op = "editatt"   -> DoReplaceAttachment(d, c.new, c.old)

(* MultiCommands: in order, and undone in reverse. *)
ExecuteAll(list, d) ==
    LET after[k \in 0 .. Len(list)] ==
            IF k = 0 THEN d ELSE Execute1(after[k - 1], list[k])
    IN  [db  |-> after[Len(list)],
         did |-> [k \in 1 .. Len(list) |-> Executed1(after[k - 1], list[k])]]

UndoAll(list, d) ==
    LET last == Reverse(list)
        back[k \in 0 .. Len(list)] ==
            IF k = 0 THEN d ELSE Undo1(back[k - 1], last[k])
    IN  back[Len(list)]

-----------------------------------------------------------------------------
(* What the user sees of each entry: its text and its attachment.           *)
View(d) ==
    [i \in DOMAIN d.entries |->
        [text  |-> d.entries[i].text, att |-> d.entries[i].att,
         title |-> GetAtt(d, d.entries[i].att).title]]

RefsTo(entries, a) == {i \in DOMAIN entries : entries[i].att = a}

(* What the references in a file make of the counts.                        *)
ParseDependants(entries, atts) ==
    [a \in DOMAIN atts |-> [atts[a] EXCEPT !.refs = Cardinality(RefsTo(entries, a))]]

(* A file whose references all lead somewhere; attachments may be left over. *)
Init ==
    /\ \E ids \in SUBSET Ids, uuids \in SUBSET Atts : \E atts \in [uuids -> Titles] :
        \E entries \in [ids -> [text : Texts, att : uuids \cup {NoAtt}]] :
            db = [entries |-> entries,
                  atts    |-> ParseDependants(entries,
                                [a \in uuids |-> [uuid |-> a, title |-> atts[a], refs |-> 0]])]
    /\ commands = <<>>
    /\ next = 1
    /\ history = <<View(db)>>

-----------------------------------------------------------------------------
(* PWScore's Execute, Undo and Redo. *)

Execute(list) ==
    /\ next <= MaxCommands
    /\ LET result == ExecuteAll(list, db)
       IN  /\ db' = result.db
           /\ commands' = Append(SubSeq(commands, 1, next - 1), result.did)
           /\ history' = Append(SubSeq(history, 1, next), View(result.db))
    /\ next' = next + 1

(* Undoing and redoing a deletion counts up for ever: the counts are bounded. *)
CountsInBound == \A a \in DOMAIN db.atts : db.atts[a].refs <= MaxRefs

Undo ==
    /\ next > 1 /\ CountsInBound
    /\ db' = UndoAll(commands[next - 1], db)
    /\ next' = next - 1
    /\ UNCHANGED <<commands, history>>

Redo ==
    /\ next <= Len(commands) /\ CountsInBound
    /\ LET result == ExecuteAll(commands[next], db)
       IN  /\ db' = result.db
           /\ commands' = [commands EXCEPT ![next] = result.did]
    /\ next' = next + 1
    /\ UNCHANGED history

(* Locking saves and clears the database and unlocking reads it, without     *)
(* validation; the chain stays.  An attachment without content is written as *)
(* one of no uuid, and is not read.                                          *)
LockAndUnlock ==
    /\ LET read == {a \in DOMAIN db.atts : HasContent(db.atts[a])}
       IN  db' = [db EXCEPT !.atts = ParseDependants(db.entries, Restrict(@, read))]
    /\ db' # db
    /\ UNCHANGED <<commands, next, history>>

-----------------------------------------------------------------------------
(* The front end's operations. *)

Entry(id) == db.entries[id]
Used == DOMAIN db.entries

(* A new uuid is none that is in the database or in a state of it. *)
FreshIds == Ids \ UNION {DOMAIN history[k] : k \in 1..Len(history)}

FreshAtts ==
    Atts \ (DOMAIN db.atts \cup
            UNION {{history[k][i].att : i \in DOMAIN history[k]} : k \in 1..Len(history)})

NewAttachments == [uuid : FreshAtts, title : Titles, refs : {0}]

AddEntry ==
    \E id \in FreshIds, text \in Texts, att \in NewAttachments \cup {Empty} :
        Execute(<<AddCommand(id, [text |-> text, att |-> NoAtt], att)>>)

(* The copy is a normal entry that refers to the same attachment. *)
Duplicate ==
    \E id \in FreshIds \ Bases, of \in Used : Execute(<<AddCommand(id, Entry(of), Empty)>>)

(* An entry or a group, shown in any order. *)
Delete ==
    \E group \in SUBSET Used : \E order \in SetToSeqs(group) :
        /\ group # {}
        /\ Execute([k \in DOMAIN order |-> DeleteCommand(order[k], Entry(order[k]))])

EditText ==
    \E id \in Used, text \in Texts :
        /\ text # Entry(id).text
        /\ Execute(<<EditCommand(id, [Entry(id) EXCEPT !.text = text])>>)

(* Only an AddEntryCommand attaches, so the entry is deleted, as edited by  *)
(* then, and added.  The attachment is given only to one without reference. *)
Attach ==
    \E id \in Used \ Bases, text \in Texts, att \in NewAttachments :
        LET edited == [Entry(id) EXCEPT !.text = text]
        IN  /\ text = Entry(id).text \/ "edited" \in Risky
            /\ Entry(id).att = NoAtt \/ "replace" \in Risky
            /\ Execute(<<DeleteCommand(id, edited),
                         AddCommand(id, edited, IF edited.att = NoAtt THEN att ELSE Empty)>>)

(* Mutant: the reference stays. *)
DetachedNot(entry, text) == [entry EXCEPT !.text = text]

Detached(entry, text) == [entry EXCEPT !.text = text, !.att = NoAtt]

RemoveAttachment ==
    \E id \in Used, text \in Texts :
        /\ RefFound(db, Entry(id))
        /\ id \notin Bases \/ "base" \in Risky
        /\ RefsTo(db.entries, Entry(id).att) = {id} \/ "shared" \in Risky
        /\ Execute(<<DeleteAttachmentCommand(id), EditCommand(id, Detached(Entry(id), text))>>)

Retitle ==
    \E id \in Used, text \in Texts, title \in Titles :
        LET att == db.atts[Entry(id).att]
        IN  /\ RefFound(db, Entry(id)) /\ HasContent(att) /\ title # att.title
            /\ Execute(<<EditAttachmentCommand(att, [att EXCEPT !.title = title]),
                         EditCommand(id, [Entry(id) EXCEPT !.text = text])>>)

Next ==
    \/ AddEntry \/ Duplicate \/ Delete
    \/ EditText \/ Attach \/ RemoveAttachment \/ Retitle
    \/ Undo \/ Redo \/ LockAndUnlock

Spec == Init /\ [][Next]_vars

-----------------------------------------------------------------------------
(* m_pwlist and m_attlist hold entries and attachments, each attachment     *)
(* under its uuid; the undo of a removal that found none puts an empty one. *)
TypeOK ==
    /\ DOMAIN db.entries \subseteq Ids /\ DOMAIN db.atts \subseteq Atts \cup {NoAtt}
    /\ \A i \in DOMAIN db.entries : db.entries[i] \in Entries
    /\ \A a \in DOMAIN db.atts \ {NoAtt} : db.atts[a] \in Attachment /\ db.atts[a].uuid = a
    /\ next \in 1..(Len(commands) + 1) /\ Len(commands) <= MaxCommands
    /\ Len(history) = Len(commands) + 1

(* Every reference (ATTREF) of an entry leads to an attachment with content: *)
(* no deletion, undo, redo or reading of the file leaves one dangling.       *)
RefsResolve ==
    \A i \in DOMAIN db.entries :
        db.entries[i].att # NoAtt =>
            RefFound(db, db.entries[i]) /\ HasContent(db.atts[db.entries[i].att])

(* No attachment is counted lower than the entries that refer to it, so that *)
(* none is removed (DoDeleteEntry) while one needs it.  It may be counted    *)
(* higher: the undo of a deletion counts twice.                              *)
NeverFreedEarly ==
    \A a \in DOMAIN db.atts : a # NoAtt => db.atts[a].refs >= Cardinality(RefsTo(db.entries, a))

(* Wherever undos and redos lead, and through locking and unlocking, every   *)
(* entry shows the text and the attachment it had when it was first there.   *)
AttachmentsRestored == View(db) = history[next]
=============================================================================
