----------------------------- MODULE EntryStore -----------------------------
(***************************************************************************)
(* The entries of an open database, what PWScore keeps beside them (the    *)
(* base-to-alias and base-to-shortcut multimaps, the keyboard shortcuts,   *)
(* the entries that expire), the commands that change them, and the lists  *)
(* of commands the front ends build for each edit.                         *)
(*                                                                         *)
(* Groups, titles and users are abstracted: any set of entries may be a    *)
(* group, shown in any order.  The undo chain is CommandChain's, kept here *)
(* as a list and a position; history is a history variable.                *)
(***************************************************************************)
EXTENDS Naturals, Sequences, FiniteSets, Bags, SequencesExt, FiniteSetsExt, Functions

CONSTANTS
    Ids,          \* uuids of entries
    Passwords,
    Keys,         \* keyboard shortcuts
    NoId,         \* CUUID::NullUUID()
    NoPassword,   \* the password of a dependent, "[Alias]" or "[Shortcut]"
    NoKey,
    FrontEnd,     \* "wx" (ui/wxWidgets) or "mfc" (ui/Windows)
    MaxCommands   \* bound on the commands kept for undo

ASSUME StoreAssumption ==
    /\ NoId \notin Ids
    /\ NoPassword \notin Passwords
    /\ NoKey \notin Keys
    /\ FrontEnd \in {"wx", "mfc"}
    /\ MaxCommands \in Nat

VARIABLES
    db,        \* the entries and what is kept beside them
    commands,  \* the MultiCommands executed, and undone
    next,      \* the one to redo; the one before is the one to undo
    history    \* what the database was before and after each of them

vars == <<db, commands, next, history>>

Kinds == {"alias", "shortcut"}                         \* dependents
BaseType == [alias |-> "aliasbase", shortcut |-> "shortcutbase"]

Bases == [type : {"normal", "aliasbase", "shortcutbase"}, base : {NoId} \cup Ids,
          password : Passwords, key : Keys \cup {NoKey}, expires : BOOLEAN]
Dependents == [type : Kinds, base : Ids, password : {NoPassword},
               key : Keys \cup {NoKey}, expires : BOOLEAN]

IsDependent(entry) == entry.type \in Kinds

-----------------------------------------------------------------------------
(* What is kept beside the entries.  db.sound turns FALSE when an ASSERT of *)
(* DoAddDependentEntry fails; without the base the build goes on with the   *)
(* fields of a node that is not there.                                      *)

Link(base, id) == SetToBag({<<base, id>>})

LinkedTo(d, kind, base) == {p[2] : p \in {q \in BagToSet(d.deps[kind]) : q[1] = base}}

(* std::multimap::erase of a key. *)
Unlinked(links, base) == Restrict(links, {p \in DOMAIN links : p[1] # base})

AddDependent(d, base, id, kind) ==
    IF {base, id} \subseteq DOMAIN d.entries
    THEN [d EXCEPT
            !.sound = @ /\ d.entries[base].type \in {"normal", BaseType[kind]},
            !.entries[id].base = base,
            !.entries[base].type = BaseType[kind],
            !.deps[kind] = @ (+) Link(base, id)]
    ELSE [d EXCEPT !.sound = FALSE]

(* Mutant: the base stays a base without dependents. *)
RemoveLinkOnly(d, base, id, kind) == [d EXCEPT !.deps[kind] = @ (-) Link(base, id)]

RemoveDependent(d, base, id, kind) ==
    IF LinkedTo(d, kind, base) = {} THEN d
    ELSE LET left == [d EXCEPT !.deps[kind] = @ (-) Link(base, id)]
         IN  IF LinkedTo(left, kind, base) = {} /\ base \in DOMAIN d.entries
             THEN [left EXCEPT !.entries[base].type = "normal"]
             ELSE left

AddKey(d, key, id) ==
    IF key # NoKey /\ d.keys[key] = NoId THEN [d EXCEPT !.keys[key] = id] ELSE d

DelKey(d, key, id) ==
    IF key # NoKey /\ d.keys[key] = id THEN [d EXCEPT !.keys[key] = NoId] ELSE d

AddExpiry(d, id, entry) ==
    IF entry.expires /\ ~IsDependent(entry)
    THEN [d EXCEPT !.expired = @ (+) SetToBag({id})] ELSE d

RemoveExpiry(d, id) == [d EXCEPT !.expired = @ (-) SetToBag({id})]

-----------------------------------------------------------------------------
(* PWScore's DoAddEntry, DoDeleteEntry and DoReplaceEntry.  entry is what   *)
(* the command recorded, not what the database holds by now.                *)

(* std::map::operator[] *)
Put(map, id, entry) == [i \in DOMAIN map \cup {id} |-> IF i = id THEN entry ELSE map[i]]

DoAddEntry(d, id, entry) ==
    AddKey([d EXCEPT !.entries = Put(@, id, entry)], entry.key, id)

Erase(d, id, entry) ==
    LET unkeyed == DelKey(d, entry.key, id)
    IN  [unkeyed EXCEPT !.entries = Restrict(@, DOMAIN @ \ {id})]

(* Mutant: the aliases of a deleted base keep pointing to it. *)
ForgetAliases(d, base) ==
    [d EXCEPT !.deps["alias"] = Unlinked(@, base)]

(* The aliases of a base about to go become normal, with its password. *)
ResetAllAliasPasswords(d, base) ==
    LET aliases == LinkedTo(d, "alias", base) \cap DOMAIN d.entries
    IN  [d EXCEPT
            !.deps["alias"] = Unlinked(@, base),
            !.entries = [i \in DOMAIN @ |->
                IF i \in aliases
                THEN [@[i] EXCEPT !.type = "normal", !.password = d.entries[base].password]
                ELSE @[i]]]

DeleteDependent(d, id) ==
    LET entry == d.entries[id]
    IN  Erase(RemoveDependent(d, entry.base, id, entry.type), id, entry)

DeleteDependents(d, deps) == FoldSet(LAMBDA dep, rest : DeleteDependent(rest, dep), d, deps)

DoDeleteEntry(d, id, entry) ==
    IF id \notin DOMAIN d.entries THEN d
    ELSE Erase(CASE IsDependent(entry) -> RemoveDependent(d, entry.base, id, entry.type)
                 [] entry.type = "aliasbase" -> ResetAllAliasPasswords(d, id)
                 [] entry.type = "shortcutbase" -> DeleteDependents(d, LinkedTo(d, "shortcut", id))
                 [] OTHER -> d,
               id, entry)

(* Mutant: the entry's old shortcut key stays in the map. *)
ReplaceKeepingKey(d, id, old, new) ==
    LET replaced == [d EXCEPT !.entries = Put(@, id, new)]
        expiring == IF old.expires = new.expires THEN replaced
                    ELSE IF old.expires THEN RemoveExpiry(replaced, id)
                    ELSE AddExpiry(replaced, id, new)
    IN  IF old.key = new.key THEN expiring ELSE AddKey(expiring, new.key, id)

DoReplaceEntry(d, id, old, new) ==
    LET replaced == [d EXCEPT !.entries = Put(@, id, new)]
        expiring == IF old.expires = new.expires THEN replaced
                    ELSE IF old.expires THEN RemoveExpiry(replaced, id)
                    ELSE AddExpiry(replaced, id, new)
    IN  IF old.key = new.key THEN expiring
        ELSE AddKey(DelKey(expiring, old.key, id), new.key, id)

-----------------------------------------------------------------------------
(* The commands.  add, delete, edit, adddep, remdep and movedeps are records; *)
(* a delete keeps the dependents its entry had when it was built, "done" is *)
(* m_CommandDBChange, and only a done command is undone.                   *)

DependentsOf(d, id) ==
    CASE d.entries[id].type = "aliasbase"    -> LinkedTo(d, "alias", id)
      [] d.entries[id].type = "shortcutbase" -> LinkedTo(d, "shortcut", id)
      [] OTHER                               -> {}

AddCommand(id, entry) == [op |-> "add", id |-> id, entry |-> entry]

DeleteCommand(id) ==
    [op |-> "delete", id |-> id, entry |-> db.entries[id], done |-> FALSE,
     deps |-> Restrict(db.entries, DependentsOf(db, id) \cap DOMAIN db.entries)]

EditCommand(id, new) == [op |-> "edit", id |-> id, old |-> db.entries[id], new |-> new]

AddAliasCommand(base, id) == [op |-> "adddep", base |-> base, id |-> id]

RemoveAliasCommand(base, id) == [op |-> "remdep", base |-> base, id |-> id]

MoveCommand(from, to) ==
    [op |-> "movedeps", from |-> from, to |-> to, done |-> FALSE, saved |-> EmptyBag]

AddEntry(d, id, entry) ==
    LET added == DoAddEntry(d, id, entry)
    IN  AddExpiry(IF IsDependent(entry)
                  THEN AddDependent(added, entry.base, id, entry.type) ELSE added,
                  id, entry)

DeleteEntry(d, id, entry) ==
    IF id \in DOMAIN d.entries THEN RemoveExpiry(DoDeleteEntry(d, id, entry), id) ELSE d

UndoAdd(d, id, entry) ==
    DeleteEntry(IF IsDependent(entry) THEN RemoveDependent(d, entry.base, id, entry.type)
                ELSE d,
                id, entry)

(* A base comes back with the shortcuts deleted with it, and the aliases it *)
(* made normal are replaced by what they were, except those that went too.  *)
AddBack(d, entries) ==
    FoldSet(LAMBDA dep, rest : AddEntry(rest, dep, entries[dep]), d, DOMAIN entries)

PutBack(d, entries, deps) ==
    FoldSet(LAMBDA dep, rest :
                AddEntry(DeleteEntry(rest, dep, entries[dep]), dep, entries[dep]),
            d, deps)

UndoDelete(d, c) ==
    IF IsDependent(c.entry)
    THEN IF c.id \in DOMAIN d.entries THEN d ELSE AddEntry(d, c.id, c.entry)
    ELSE LET added == AddEntry(d, c.id, c.entry)
         IN  CASE c.entry.type = "shortcutbase" -> AddBack(added, c.deps)
               [] c.entry.type = "aliasbase" ->
                      PutBack(added, c.deps, DOMAIN c.deps \cap DOMAIN d.entries)
               [] OTHER -> added

MoveDependents(d, from, to) ==
    LET links  == d.deps["alias"]
        copies == [p \in {<<to, id>> : id \in LinkedTo(d, "alias", from)} |-> links[<<from, p[2]>>]]
    IN  [d EXCEPT !.deps["alias"] = Unlinked(links (+) copies, from)]

(* Mutant: the aliases of "to" are moved back, with those it had before. *)
MoveBack(d, c) == MoveDependents(d, c.to, c.from)

UndoMove(d, c) == [d EXCEPT !.deps["alias"] = c.saved]

Execute1(d, c) ==
    CASE c.op = "add"      -> AddEntry(d, c.id, c.entry)
      [] c.op = "delete"   -> DeleteEntry(d, c.id, c.entry)
      [] c.op = "edit"     -> DoReplaceEntry(d, c.id, c.old, c.new)
      [] c.op = "adddep"   -> AddDependent(d, c.base, c.id, "alias")
      [] c.op = "remdep"   -> RemoveDependent(d, c.base, c.id, "alias")
      [] c.op = "movedeps" -> MoveDependents(d, c.from, c.to)

(* The command as its Execute on d leaves it. *)
Executed1(d, c) ==
    CASE c.op = "delete"   -> [c EXCEPT !.done = @ \/ c.id \in DOMAIN d.entries]
      [] c.op = "movedeps" -> [c EXCEPT !.done = @ \/ LinkedTo(d, "alias", c.from) # {},
                                        !.saved = d.deps["alias"]]
      [] OTHER             -> c

Undo1(d, c) ==
    CASE c.op = "add"      -> UndoAdd(d, c.id, c.entry)
      [] c.op = "delete"   -> IF c.done THEN UndoDelete(d, c) ELSE d
      [] c.op = "edit"     -> DoReplaceEntry(d, c.id, c.new, c.old)
      [] c.op = "adddep"   -> RemoveDependent(d, c.base, c.id, "alias")
      [] c.op = "remdep"   -> AddDependent(d, c.base, c.id, "alias")
      [] c.op = "movedeps" -> IF c.done THEN UndoMove(d, c) ELSE d

(* MultiCommands: in order, and undone in reverse. *)
ExecuteAll(list, d) ==
    LET after[k \in 0 .. Len(list)] ==
            IF k = 0 THEN d ELSE Execute1(after[k - 1], list[k])
    IN  [db  |-> after[Len(list)],
         did |-> [k \in 1 .. Len(list) |-> Executed1(after[k - 1], list[k])]]

UndoAll(list, d) ==
    LET last == Reverse(list)
        back[k \in 0 .. Len(list)] ==
            IF k = 0 THEN d ELSE Undo1(back[k - 1], last[k])
    IN  back[Len(list)]

-----------------------------------------------------------------------------
(* What an undo must bring back.  A base id is read of dependents only.     *)
View(d) ==
    [deps |-> d.deps, keys |-> d.keys, expired |-> d.expired,
     entries |-> [i \in DOMAIN d.entries |->
                    IF IsDependent(d.entries[i]) THEN d.entries[i]
                    ELSE [d.entries[i] EXCEPT !.base = NoId]]]

LinksOf(entries, kind) ==
    {<<entries[i].base, i>> : i \in {j \in DOMAIN entries : entries[j].type = kind}}

HolderOf(entries, key) ==
    IF \E i \in DOMAIN entries : entries[i].key = key
    THEN CHOOSE i \in DOMAIN entries : entries[i].key = key ELSE NoId

ExpiringOf(entries) == {i \in DOMAIN entries : entries[i].expires /\ ~IsDependent(entries[i])}

(* PWScore as ReadFile leaves it after reading these entries. *)
DatabaseOf(entries) ==
    [entries |-> entries,
     deps    |-> [kind \in Kinds |-> SetToBag(LinksOf(entries, kind))],
     keys    |-> [key \in Keys |-> HolderOf(entries, key)],
     expired |-> SetToBag(ExpiringOf(entries)),
     sound   |-> TRUE]

WellFormed(entries) ==
    /\ \A i \in DOMAIN entries :
        IF IsDependent(entries[i])
        THEN /\ ~entries[i].expires
             /\ entries[i].base \in DOMAIN entries
             /\ entries[entries[i].base].type = BaseType[entries[i].type]
        ELSE \A kind \in Kinds :
                entries[i].type = BaseType[kind] =>
                    \E j \in DOMAIN entries : entries[j].type = kind /\ entries[j].base = i
    /\ \A i, j \in DOMAIN entries : i # j => entries[i].key # entries[j].key \/ entries[i].key = NoKey

Files(ids) ==
    LET bases == {entry \in Bases : entry.base = NoId}
    IN  {e \in UNION {[S -> bases \cup Dependents] : S \in SUBSET ids} : WellFormed(e)}

Init ==
    /\ \E e \in Files(Ids) : db = DatabaseOf(e)
    /\ commands = <<>>
    /\ next = 1
    /\ history = <<View(db)>>

-----------------------------------------------------------------------------
(* PWScore's Execute, Undo and Redo of a list of commands, which the front  *)
(* ends build as a MultiCommands.                                           *)

Execute(list) ==
    /\ db.sound /\ next <= MaxCommands
    /\ LET result == ExecuteAll(list, db)
       IN  /\ db' = result.db
           /\ commands' = Append(SubSeq(commands, 1, next - 1), result.did)
           /\ history' = Append(SubSeq(history, 1, next), View(result.db))
    /\ next' = next + 1

Undo ==
    /\ db.sound /\ next > 1
    /\ db' = UndoAll(commands[next - 1], db)
    /\ next' = next - 1
    /\ UNCHANGED <<commands, history>>

Redo ==
    /\ db.sound /\ next <= Len(commands)
    /\ LET result == ExecuteAll(commands[next], db)
       IN  /\ db' = result.db
           /\ commands' = [commands EXCEPT ![next] = result.did]
    /\ next' = next + 1
    /\ UNCHANGED history

-----------------------------------------------------------------------------
(* The front ends' operations.                                              *)

Entry(id) == db.entries[id]
Used == DOMAIN db.entries

(* A new uuid is none that the database, or an undone state of it, has. *)
Fresh == Ids \ UNION {DOMAIN history[k].entries : k \in 1..Len(history)}

(* The dialogs refuse a shortcut key in use; wxWidgets has no such field.   *)
FreeKeys(id) ==
    {NoKey} \cup IF FrontEnd = "wx" THEN {}
                 ELSE {key \in Keys : db.keys[key] \in {NoId, id}}

EditKeys(id) == {Entry(id).key} \cup IF FrontEnd = "wx" THEN {} ELSE FreeKeys(id)

(* CheckAliasValidity *)
AliasTargets(id) == {b \in Used \ {id} : Entry(b).type \in {"normal", "aliasbase"}}

AddNormal ==
    \E id \in Fresh, entry \in Bases :
        /\ entry.type = "normal" /\ entry.base = NoId /\ entry.key \in FreeKeys(id)
        /\ Execute(<<AddCommand(id, entry)>>)

AddAlias ==
    \E id \in Fresh, base \in Used :
        /\ base \in AliasTargets(id)
        /\ \E key \in FreeKeys(id) :
            Execute(<<AddCommand(id, [type |-> "alias", base |-> base, key |-> key,
                                      password |-> NoPassword, expires |-> FALSE])>>)

AddShortcut ==
    \E id \in Fresh, base \in Used :
        /\ Entry(base).type \in {"normal", "shortcutbase"}
        /\ Execute(<<AddCommand(id, [type |-> "shortcut", base |-> base, key |-> NoKey,
                                     password |-> NoPassword, expires |-> FALSE])>>)

(* Mutant: the Windows duplicate keeps the shortcut key. *)
DuplicateWithKey(entry) ==
    IF IsDependent(entry) THEN entry ELSE [entry EXCEPT !.type = "normal"]

DuplicateOf(entry) ==
    [entry EXCEPT !.type = IF IsDependent(entry) THEN @ ELSE "normal",
                  !.key = IF FrontEnd = "mfc" THEN NoKey ELSE @]

Duplicate ==
    \E id \in Fresh, of \in Used : Execute(<<AddCommand(id, DuplicateOf(Entry(of)))>>)

DeleteOne == \E id \in Used : Execute(<<DeleteCommand(id)>>)

(* Mutant: everything in the order of the tree. *)
TreeOrder(order) == TRUE

(* Windows deletes bases last, so that undo adds them first; wxWidgets goes *)
(* by the tree.                                                             *)
GroupOrder(order) ==
    FrontEnd = "mfc" =>
        \A i, j \in DOMAIN order :
            i < j /\ Entry(order[i]).type \in {"aliasbase", "shortcutbase"} =>
                Entry(order[j]).type \in {"aliasbase", "shortcutbase"}

DeleteGroup ==
    \E group \in SUBSET Used : \E order \in SetToSeqs(group) :
        /\ Cardinality(group) > 1
        /\ GroupOrder(order)
        /\ Execute([k \in DOMAIN order |-> DeleteCommand(order[k])])

(* A wxWidgets edit of the password makes any entry that is no alias normal. *)
Edited(id, password, key, expires) ==
    LET old == Entry(id)
    IN  [old EXCEPT !.password = password, !.key = key, !.expires = expires,
                    !.type = IF FrontEnd = "wx" /\ password # old.password
                             THEN "normal" ELSE @]

EditFields ==
    \E id \in Used, password \in Passwords \cup {NoPassword}, expires \in BOOLEAN :
        \E key \in EditKeys(id) :
            /\ Entry(id).type # "shortcut"
            /\ Entry(id).type = "alias" => password = NoPassword /\ ~expires
            /\ Entry(id).type # "alias" => password # NoPassword
            /\ Edited(id, password, key, expires) # Entry(id)
            /\ Execute(<<EditCommand(id, Edited(id, password, key, expires))>>)

(* Mutant: an alias keeps its expiry date. *)
AliasWithExpiry(entry, base, key) ==
    [entry EXCEPT !.type = "alias", !.base = base, !.password = NoPassword, !.key = key]

(* Windows clears the expiry date of an entry that becomes an alias. *)
AsAlias(entry, base, key) ==
    [entry EXCEPT !.type = "alias", !.base = base, !.password = NoPassword, !.key = key,
                  !.expires = @ /\ FrontEnd = "wx"]

NormalToAlias ==
    \E id \in Used : \E base \in AliasTargets(id), key \in EditKeys(id) :
        /\ Entry(id).type = "normal"
        /\ Execute(<<AddAliasCommand(base, id), EditCommand(id, AsAlias(Entry(id), base, key))>>)

(* The aliases follow to the new base.  wxWidgets asks to move those of the *)
(* base of the entry, which is a base itself.                               *)
AliasBaseToAlias ==
    \E id \in Used : \E base \in AliasTargets(id), key \in EditKeys(id) :
        /\ Entry(id).type = "aliasbase"
        /\ \E order \in SetToSeqs(LinkedTo(db, "alias", id)) :
            Execute(<<AddAliasCommand(base, id),
                      IF FrontEnd = "wx" THEN MoveCommand(Entry(id).base, id)
                      ELSE MoveCommand(id, base)>>
                    \o [k \in DOMAIN order |->
                          EditCommand(order[k], [Entry(order[k]) EXCEPT !.base = base])]
                    \o <<EditCommand(id, AsAlias(Entry(id), base, key))>>)

ShortcutBaseToAlias ==
    \E id \in Used : \E base \in AliasTargets(id), key \in EditKeys(id) :
        /\ Entry(id).type = "shortcutbase"
        /\ \E order \in SetToSeqs(LinkedTo(db, "shortcut", id)) :
            Execute(<<AddAliasCommand(base, id)>>
                    \o [k \in DOMAIN order |-> DeleteCommand(order[k])]
                    \o <<EditCommand(id, AsAlias(Entry(id), base, key))>>)

Rebase ==
    \E id \in Used : \E base \in AliasTargets(id), key \in EditKeys(id) :
        /\ Entry(id).type = "alias" /\ Entry(id).base # base
        /\ Execute(<<RemoveAliasCommand(Entry(id).base, id), AddAliasCommand(base, id),
                     EditCommand(id, AsAlias(Entry(id), base, key))>>)

(* Mutant: the password stays "[Alias]". *)
NormalWithoutPassword(entry, password, key, expires) ==
    [entry EXCEPT !.type = "normal", !.key = key, !.expires = expires]

AsNormal(entry, password, key, expires) ==
    [entry EXCEPT !.type = "normal", !.password = password, !.key = key, !.expires = expires]

AliasToNormal ==
    \E id \in Used, password \in Passwords, expires \in BOOLEAN : \E key \in EditKeys(id) :
        /\ Entry(id).type = "alias"
        /\ Execute(<<RemoveAliasCommand(Entry(id).base, id),
                     EditCommand(id, AsNormal(Entry(id), password, key, expires))>>)

Next ==
    \/ AddNormal \/ AddAlias \/ AddShortcut \/ Duplicate
    \/ DeleteOne \/ DeleteGroup
    \/ EditFields \/ NormalToAlias \/ AliasBaseToAlias \/ ShortcutBaseToAlias
    \/ Rebase \/ AliasToNormal
    \/ Undo \/ Redo

Spec == Init /\ [][Next]_vars

-----------------------------------------------------------------------------
(* Entries are bases with a password of their own or dependents without     *)
(* one (ItemData's entry types), and the position lies in the chain.        *)
TypeOK ==
    /\ \A i \in DOMAIN db.entries : db.entries[i] \in Bases \cup Dependents
    /\ DOMAIN db.entries \subseteq Ids
    /\ next \in 1..(Len(commands) + 1) /\ Len(commands) <= MaxCommands
    /\ Len(history) = Len(commands) + 1

(* Wherever undos and redos lead, the database is what it was when it was   *)
(* first there: entries, links, shortcut keys and expiry dates alike.       *)
UndoIsExact == View(db) = history[next]

(* The multimaps from bases to dependents hold each dependent once, under   *)
(* its base, and an entry is a base exactly while it has dependents.        *)
DependentsAgree ==
    /\ \A kind \in Kinds : db.deps[kind] = SetToBag(LinksOf(db.entries, kind))
    /\ \A i \in DOMAIN db.entries, kind \in Kinds :
        (db.entries[i].type = BaseType[kind]) = (LinkedTo(db, kind, i) # {})

(* DoAddDependentEntry always finds base and dependent, and the base normal *)
(* or a base of that kind: its ASSERTs hold.                                *)
BasesFound == db.sound

(* A shortcut key leads to the entry that has it and to no other, and the    *)
(* list of expiring entries holds those with an expiry date, each once.     *)
ListsAgree ==
    /\ \A key \in Keys : db.keys[key] = HolderOf(db.entries, key)
    /\ \A i, j \in DOMAIN db.entries :
        i # j => db.entries[i].key # db.entries[j].key \/ db.entries[i].key = NoKey
    /\ db.expired = SetToBag(ExpiringOf(db.entries))

(* The password an entry shows: its own or its base's. *)
Shown(d, id) ==
    IF ~IsDependent(d.entries[id]) THEN d.entries[id].password
    ELSE IF d.entries[id].base \in DOMAIN d.entries
         THEN d.entries[d.entries[id].base].password ELSE NoPassword

(* No deletion changes the password shown by an entry that stays: the       *)
(* aliases of a deleted base take over its password.                        *)
DeletionKeepsPasswords ==
    [][DeleteOne \/ DeleteGroup =>
        \A id \in DOMAIN db'.entries : Shown(db', id) = Shown(db, id)]_vars
=============================================================================
