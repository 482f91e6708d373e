--------------------------- MODULE OtherDatabase ---------------------------
(***************************************************************************)
(* Merge, Synchronize and Compare of core/CoreOtherDB.cpp: the open        *)
(* database of EntryStore and another one that is only read.  Entries of   *)
(* the two are matched by group, title and user, here their name.  Merge   *)
(* and Synchronize build one list of commands from the database as it is   *)
(* and then execute it, so that they can be undone.                        *)
(*                                                                         *)
(* Of the fields these compare and copy there are the password, the expiry *)
(* date, the password policy - an entry's own, or that of a name - and the *)
(* shortcut key; a name is a title and the times of the merges that        *)
(* renamed it.  Empty groups are left out.                                 *)
(***************************************************************************)
EXTENDS EntryStore

CONSTANTS
    Cases,         \* pairs of databases [entries, policies], the open one first
    Renewed,       \* at each position, the new uuid for one that is in use
    FieldSets,     \* the sets of fields to synchronise
    Subgroups,     \* the sets of names to merge or synchronise
    NoOwn,         \* an entry without a policy of its own
    NoPolicy,      \* an entry without a named policy
    RenamedPolicy, \* at each position, the name MakePolicyUnique makes of one
    Risky          \* which of RiskyKinds happen

(***************************************************************************)
(* What a merge or synchronisation does not withstand:                     *)
(*   identical  dependents of an entry that is not merged, being there     *)
(*   skipped    a merged base all of whose dependents are skipped          *)
(*   keys       a shortcut key in use, of a dependent or synchronised      *)
(*   second     two merges in one second                                   *)
(*   own        an entry's own policy where the default policies differ    *)
(*   policy     synchronising to another named policy known already, or    *)
(*              to or from none                                            *)
(*   alias      synchronising a dependent with a base of the same name     *)
(*   named      a dependent whose named policy the open database has not   *)
(***************************************************************************)
RiskyKinds == {"identical", "skipped", "keys", "second", "own", "policy", "alias", "named"}

CopiedFields == {"password", "expires", "key", "own", "pname"}

(* An entry of a file: one of EntryStore's with a name, a policy and a      *)
(* protection.  Merges before this session have 0 for their time.           *)
IsFileEntry(x) ==
    /\ x = [f \in {"type", "base", "password", "key", "expires",
                   "name", "own", "pname", "protected"} |-> x[f]]
    /\ [type |-> x.type, base |-> x.base, password |-> x.password, key |-> x.key,
        expires |-> x.expires] \in {entry \in Bases : entry.base = NoId} \cup Dependents
    /\ x.name = [title |-> x.name.title, merged |-> x.name.merged]
    /\ x.name.merged \in Seq({0})

(* A file that can be merged: its names are unique, and a policy that is    *)
(* named is there.                                                          *)
IsFile(d) ==
    /\ d.entries = [i \in DOMAIN d.entries |-> d.entries[i]] /\ DOMAIN d.entries \subseteq Ids
    /\ d.policies = [default |-> d.policies.default, named |-> d.policies.named]
    /\ NoPolicy \notin DOMAIN d.policies.named /\ d.policies.default # NoOwn
    /\ WellFormed(d.entries)
    /\ \A i \in DOMAIN d.entries :
          /\ IsFileEntry(d.entries[i])
          /\ d.entries[i].pname \in DOMAIN d.policies.named \cup {NoPolicy}
          /\ \A j \in DOMAIN d.entries : i # j => d.entries[i].name # d.entries[j].name

FileIds == UNION {DOMAIN case[1].entries \cup DOMAIN case[2].entries : case \in Cases}
FilePolicies ==
    UNION {DOMAIN case[1].policies.named \cup DOMAIN case[2].policies.named : case \in Cases}

(* What the merge at position k makes of something in use is new.           *)
AreNew(made, of, used) ==
    \A k \in 1 .. MaxCommands, x \in of :
        /\ made[k][x] \notin used
        /\ \A j \in 1 .. MaxCommands, y \in of : made[k][x] = made[j][y] => k = j /\ x = y

ASSUME OtherAssumption ==
    /\ Risky \subseteq RiskyKinds /\ FieldSets \subseteq SUBSET CopiedFields
    /\ \A case \in Cases : IsFile(case[1]) /\ IsFile(case[2])
    /\ AreNew(Renewed, FileIds, FileIds)
    /\ \A k \in 1 .. MaxCommands, i \in FileIds : Renewed[k][i] \in Ids
    /\ AreNew(RenamedPolicy, FilePolicies, FilePolicies \cup {NoPolicy})

VARIABLES
    policies,   \* the default and the named policies of the open database
    other,      \* the other database
    added,      \* with each list of commands, the policies it added and what was there
    last        \* a history variable: the operation there was last

otherVars == <<vars, policies, other, added, last>>

Current == [entries |-> db.entries, policies |-> policies]

EntryOf(d, id) == d.entries[id]
Named(d, name) == {i \in DOMAIN d.entries : d.entries[i].name = name}
DependentsIn(d, base) ==
    {i \in DOMAIN d.entries : IsDependent(d.entries[i]) /\ d.entries[i].base = base}
BasesIn(d, names) == {i \in DOMAIN d.entries : ~IsDependent(d.entries[i]) /\ d.entries[i].name \in names}

(* The policy an entry's passwords are made with. *)
PolicyOf(d, id) ==
    LET entry == d.entries[id]
    IN  IF entry.pname # NoPolicy THEN d.policies.named[entry.pname]
        ELSE IF entry.own # NoOwn THEN entry.own ELSE d.policies.default

-----------------------------------------------------------------------------
(* What differs between entry c of the open database and entry o of the    *)
(* other one.                                                              *)

PoliciesDiffer(c, o) ==
    \/ EntryOf(Current, c).pname # EntryOf(other, o).pname
    \/ PolicyOf(Current, c) # PolicyOf(other, o)

(* Mutant: the expiry date is not compared. *)
DiffersButExpiry(c, o) ==
    EntryOf(Current, c).password # EntryOf(other, o).password \/ PoliciesDiffer(c, o)

(* Merge's diff_flags. *)
Differs(c, o) ==
    \/ EntryOf(Current, c).password # EntryOf(other, o).password
    \/ EntryOf(Current, c).expires # EntryOf(other, o).expires
    \/ PoliciesDiffer(c, o)

(* Compare's conflict in a field, other than the name of a policy, which   *)
(* synchronising may change; dependents have their base's password.        *)
Conflict(d, c, o, field) ==
    CASE field = "password" -> Shown(d, c) # Shown(other, o)
      [] field = "own" -> /\ EntryOf(d, c).pname = NoPolicy
                          /\ EntryOf(other, o).pname = NoPolicy
                          /\ PolicyOf(d, c) # PolicyOf(other, o)
      [] OTHER -> EntryOf(d, c)[field] # EntryOf(other, o)[field]

OnlyInOther(d) == {o \in DOMAIN other.entries : Named(d, EntryOf(other, o).name) = {}}

-----------------------------------------------------------------------------
(* ProcessPolicyName: the entry with the policy it is to have, of one whose *)
(* policy in the other database is pname, and the policies that adds.      *)

(* The policies, and those of other names.                                 *)
Extended(named, more) ==
    [n \in DOMAIN named \cup DOMAIN more |-> IF n \in DOMAIN named THEN named[n] ELSE more[n]]

PolicyKnown(pname) == pname \in DOMAIN policies.named

(* Mutant: a policy of that name is taken for the same. *)
KeepPolicy(entry, pname) ==
    IF pname = NoPolicy \/ PolicyKnown(pname) THEN entry ELSE [entry EXCEPT !.pname = pname]

WithPolicy(entry, pname) ==
    CASE pname = NoPolicy ->
             IF policies.default = other.policies.default THEN entry
             ELSE [entry EXCEPT !.own = other.policies.default]
      [] pname # NoPolicy /\ ~PolicyKnown(pname) -> [entry EXCEPT !.pname = pname]
      [] pname # NoPolicy /\ PolicyKnown(pname) ->
             IF policies.named[pname] = other.policies.named[pname] THEN entry
             ELSE [entry EXCEPT !.pname = RenamedPolicy[next][pname]]

PoliciesAdded(pnames) ==
    LET new == {n \in pnames : n # NoPolicy /\ ~PolicyKnown(n)}
        renamed == {n \in pnames : n # NoPolicy /\ PolicyKnown(n)
                                   /\ policies.named[n] # other.policies.named[n]}
    IN  Extended([n \in new |-> other.policies.named[n]],
                 [n \in {RenamedPolicy[next][k] : k \in renamed} |->
                    other.policies.named[CHOOSE k \in renamed : RenamedPolicy[next][k] = n]])

(* Execute, with the policies to add in front. *)
ExecuteWith(list, pnames, operation) ==
    /\ Execute(list)
    /\ last' = operation
    /\ added' = Append(SubSeq(added, 1, next - 1),
                       [new |-> PoliciesAdded(pnames), old |-> policies.named])
    /\ policies' = [policies EXCEPT !.named = Extended(@, PoliciesAdded(pnames))]
    /\ UNCHANGED other

-----------------------------------------------------------------------------
(* Merge. *)

(* The time of this merge, in seconds: another than those before. *)
Stamp == IF "second" \in Risky THEN 1 ELSE next

MergedName(name) == [name EXCEPT !.merged = Append(@, Stamp)]

NewId(id) == IF id \in Used THEN Renewed[next][id] ELSE id

FreeKey(key) == IF key # NoKey /\ db.keys[key] # NoId THEN NoKey ELSE key

(* The entry of the open database that is o's match, and is no different. *)
Same(o) == {c \in Named(Current, EntryOf(other, o).name) : ~Differs(c, o)}

(* o, a base, as it is added: under a new name when its own is taken. *)
MergedBase(o) ==
    LET entry == EntryOf(other, o)
        named == IF Named(Current, entry.name) = {} THEN entry
                 ELSE [entry EXCEPT !.name = MergedName(@)]
    IN  WithPolicy([named EXCEPT !.key = FreeKey(@)], entry.pname)

(* The uuid MergeDependents gives as the base of o's dependents. *)
NewBase(o) == IF Same(o) # {} THEN o ELSE NewId(o)

(* Mutant: a dependent is added also where its name is taken. *)
AllDependents(o) == DependentsIn(other, o)

(* "Check this is unique - if not - don't add this one!" *)
DependentsToAdd(o) ==
    {i \in DependentsIn(other, o) : Named(Current, EntryOf(other, i).name) = {}}

(* Mutant: the dependents keep their base's uuid. *)
DependentOfOld(i, o) == AddCommand(NewId(i), EntryOf(other, i))

MergedDependent(i, o) == AddCommand(NewId(i), [EntryOf(other, i) EXCEPT !.base = NewBase(o)])

MergeOne(o) ==
    LET deps == SetToSeq(DependentsToAdd(o))
    IN  (IF Same(o) = {} THEN <<AddCommand(NewId(o), MergedBase(o))>> ELSE <<>>)
        \o [k \in DOMAIN deps |-> MergedDependent(deps[k], o)]

(* What the merge of bases must not meet, but for Risky. *)
MergeIsCareful(bases) ==
    \A o \in bases :
        /\ \/ "identical" \in Risky \/ Same(o) = {} \/ DependentsToAdd(o) = {}
           \/ o \in Same(o) /\ Entry(o).type \in {"normal", EntryOf(other, o).type}
        /\ \/ "skipped" \in Risky \/ Same(o) # {}
           \/ DependentsIn(other, o) = {} \/ DependentsToAdd(o) # {}
        /\ \/ "keys" \in Risky
           \/ \A i \in DependentsToAdd(o) :
                 EntryOf(other, i).key = FreeKey(EntryOf(other, i).key)
        /\ \/ "named" \in Risky
           \/ \A i \in DependentsToAdd(o) :
                 EntryOf(other, i).pname \in DOMAIN policies.named \cup {NoPolicy}
        /\ \/ "own" \in Risky \/ Same(o) # {} \/ EntryOf(other, o).own = NoOwn
           \/ EntryOf(other, o).pname # NoPolicy
           \/ policies.default = other.policies.default

Merge(names) ==
    LET bases == BasesIn(other, names)
        toAdd == {o \in bases : Same(o) = {}}
        order == SetToSeq(bases)
    IN  ExecuteWith(FlattenSeq([k \in DOMAIN order |-> MergeOne(order[k])]),
                    {EntryOf(other, o).pname : o \in toAdd},
                    [op |-> "merge", names |-> names, fields |-> {}])

-----------------------------------------------------------------------------
(* Synchronize. *)

Matches(o) == Named(Current, EntryOf(other, o).name)

(* Mutant: protected entries are updated too. *)
SyncedAll(names) == {o \in BasesIn(other, names) : Matches(o) # {}}

(* "Don't update if entry is protected": in core/CoreOtherDB.cpp; the      *)
(* wxWidgets wizard has a loop of its own, without that.                   *)
Synced(names) ==
    {o \in BasesIn(other, names) :
        \E c \in Matches(o) : FrontEnd = "mfc" => ~Entry(c).protected}

(* Entry c with the fields of o, the policy's name after the others. *)
Updated(c, o, fields) ==
    LET copied == [f \in DOMAIN Entry(c) |->
                      IF f \in fields \ {"pname"} THEN EntryOf(other, o)[f] ELSE Entry(c)[f]]
    IN  IF "pname" \in fields THEN WithPolicy(copied, EntryOf(other, o).pname) ELSE copied

(* bUpdated: also set by a policy that turns out to be the one there was.  *)
IsUpdated(c, o, fields) ==
    \/ Updated(c, o, fields) # Entry(c)
    \/ /\ "pname" \in fields /\ EntryOf(other, o).pname = NoPolicy
       /\ policies.default # other.policies.default

SyncIsCareful(o, c, fields) ==
    /\ "alias" \in Risky \/ {"password", "expires"} \cap fields = {} \/ ~IsDependent(Entry(c))
    /\ \/ "keys" \in Risky \/ "key" \notin fields
       \/ EntryOf(other, o).key = Entry(c).key
       \/ FreeKey(EntryOf(other, o).key) = EntryOf(other, o).key
    /\ \/ "policy" \in Risky
       \/ /\ "pname" \in fields => Entry(c).pname = EntryOf(other, o).pname
                                   \/ EntryOf(other, o).pname \notin DOMAIN policies.named \cup {NoPolicy}
          /\ "own" \in fields => "pname" \in fields
                                 /\ (Entry(c).pname # NoPolicy \/ policies.default = other.policies.default)
          /\ "pname" \in fields /\ EntryOf(other, o).pname = NoPolicy => "own" \in fields

(* The entries to synchronise, each with the one to take the fields of. *)
Pairs(names) == {pair \in Used \X Synced(names) : pair[1] \in Matches(pair[2])}

Synchronize(names, fields) ==
    LET pairs == Pairs(names)
        changed == {pair \in pairs : IsUpdated(pair[1], pair[2], fields)}
        order == SetToSeq(changed)
    IN  ExecuteWith(
            [k \in DOMAIN order |->
               EditCommand(order[k][1], Updated(order[k][1], order[k][2], fields))],
            IF "pname" \in fields THEN {EntryOf(other, pair[2]).pname : pair \in pairs} ELSE {},
            [op |-> "synchronize", names |-> names, fields |-> fields])

-----------------------------------------------------------------------------
NoOperation == [op |-> "none", names |-> {}, fields |-> {}]

InitOther ==
    \E case \in Cases :
        /\ db = DatabaseOf(case[1].entries)
        /\ policies = case[1].policies
        /\ other = case[2]
        /\ commands = <<>>
        /\ next = 1
        /\ history = <<View(db)>>
        /\ added = <<>>
        /\ last = NoOperation

UndoOther ==
    /\ Undo
    /\ policies' = [policies EXCEPT !.named = added[next - 1].old]
    /\ last' = NoOperation
    /\ UNCHANGED <<other, added>>

RedoOther ==
    /\ Redo
    /\ policies' = [policies EXCEPT !.named = Extended(@, added[next].new)]
    /\ last' = NoOperation
    /\ UNCHANGED <<other, added>>

NextOther ==
    \/ \E names \in {n \in Subgroups : MergeIsCareful(BasesIn(other, n))} : Merge(names)
    \/ \E names \in Subgroups :
         \E fields \in {f \in FieldSets : \A pair \in Pairs(names) :
                                           SyncIsCareful(pair[2], pair[1], f)} :
            Synchronize(names, fields)
    \/ UndoOther
    \/ RedoOther

SpecOther == InitOther /\ [][NextOther]_otherVars

-----------------------------------------------------------------------------
(* Properties. *)

(* What is kept beside the entries is what reading the file would make of  *)
(* them: every dependent has its base, a base has dependents, and each key *)
(* leads to its entry.  No ASSERT of DoAddDependentEntry fails.            *)
StoreAgrees ==
    /\ db.sound
    /\ WellFormed(db.entries)
    /\ View(db) = View(DatabaseOf(db.entries))
    /\ \A i \in Used : Entry(i).pname \in DOMAIN policies.named \cup {NoPolicy}

(* No two entries have the same group, title and user: the front ends      *)
(* refuse to merge or synchronise a database that has.                     *)
NamesUnique == \A i, j \in Used : i # j => Entry(i).name # Entry(j).name

(* A merge changes no entry that was there, nor does a synchronisation     *)
(* change one that is protected or that the other database does not have.  *)
CurrentKept ==
    [][last'.op # "none" => \A i \in Used :
         \/ last'.op = "synchronize" /\ ~Entry(i).protected
               /\ \E o \in BasesIn(other, last'.names) : EntryOf(other, o).name = Entry(i).name
         \/ /\ i \in DOMAIN db'.entries
            /\ \A f \in {"name", "password", "expires", "key", "own", "pname", "protected"} :
                  db'.entries[i][f] = Entry(i)[f]]_otherVars

(* o is in the open database, under its name or the one of the merge and   *)
(* with its password, expiry date and policy.                              *)
Arrived(o, d) ==
    \E i \in DOMAIN d.entries :
        /\ d.entries[i].name.title = EntryOf(other, o).name.title
        /\ Shown(d, i) = Shown(other, o)
        /\ d.entries[i].expires = EntryOf(other, o).expires
        /\ PolicyOf(d, i) = PolicyOf(other, o)

(* Dependent i is in d, under its name and of its kind, and shows the       *)
(* password it shows in the other database.                                *)
DependentArrived(i, d) ==
    \E j \in Named(d, EntryOf(other, i).name) :
        /\ d.entries[j].type = EntryOf(other, i).type
        /\ Shown(d, j) = Shown(other, i)

(* After a merge every entry of the other database that was asked for is   *)
(* in the open one, and so are its aliases and shortcuts, linked to an     *)
(* entry that has their password; but not those whose name an entry had    *)
(* before, which the code leaves out ("if not - don't add this one!").     *)
MergeArrives ==
    [][last'.op = "merge" => \A o \in BasesIn(other, last'.names) :
         /\ Arrived(o, Current')
         /\ \A i \in DependentsIn(other, o) \cap OnlyInOther(db) :
               DependentArrived(i, Current')]_otherVars

(* After a synchronisation Compare finds no conflict in the fields asked   *)
(* for, but of protected entries and dependents, and a policy asked for is *)
(* the one of the other database, under whatever name.                     *)
SyncLeavesNoConflict ==
    [][last'.op = "synchronize" =>
         \A o \in BasesIn(other, last'.names), c \in DOMAIN db'.entries :
            db'.entries[c].name = EntryOf(other, o).name
                /\ ~db.entries[c].protected /\ ~IsDependent(db'.entries[c]) =>
                /\ \A f \in last'.fields \ {"pname"} : ~Conflict(Current', c, o, f)
                /\ "pname" \in last'.fields =>
                      PolicyOf(Current', c) = PolicyOf(other, o)]_otherVars
=============================================================================
