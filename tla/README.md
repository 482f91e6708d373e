# Password Safe: a TLA+ model of its database core

This directory models the part of Password Safe that can lose a user's data by
logic rather than by disk or crypto: the undo/redo chain of an open database and
what it believes about the file (`PWScore::Execute`, `Undo`, `Redo`,
`WriteFile`, ...); the front ends' operations that open, save, lock and close it;
the entries with everything `PWScore` keeps beside them (aliases, shortcuts,
keyboard shortcuts, expiry dates, attachments); merging and synchronising with another
database; the lock files that keep processes apart; and the file operations of a
save with its intermediate backup.  Paths are relative to `src/src` of the
repository unless they start with `src/`.

    UndoDocument.tla         what an undo chain promises (abstract)
    CommandChain.tla         the chain, the states, the files, both front ends
    CommandChainProofs.tla   theorems, for every value of the constants, and the
                             refinement of UndoDocument
    EntryStore.tla           entries, dependents, commands, lists of commands
    EntryStoreSteps.tla      what its commands and their undo do, proved
    EntryStoreProofs.tla     where its lists of commands lead, and the theorems
    OtherDatabase.tla        merge and synchronise, over EntryStore
    OtherDatabaseProofs.tla  where a merge and a synchronisation lead, and the theorems
    Attachments.tla          attachments and their reference counts
    NumberInduction.tla      induction over sets of numbers, for the proofs
    AttachmentsProofs.tla    theorems
    ExclusiveWriter.tla      what the lock files promise (abstract)
    DatabaseLock.tla         processes, databases, lock files
    DatabaseLockProofs.tla   theorems, and the refinement of ExclusiveWriter
    SaveSteps.tla            a save, its backup and crashes, step by step
    SaveStepsProofs.tla      theorems
    *MC.tla, *.cfg           small instances for TLC: the runs of section 7
    PROJECT.json             runs, mutants, source lines of every definition,
                             findings, hazards, theorems

## 1. Inventory

Password Safe is one process with one user-interface thread per open window;
`core/` is a library with one `PWScore` per open database, called by three front
ends (`ui/wxWidgets`, `ui/Windows`, `ui/cli`).  Callbacks go back from the core
through `UIInterFace` (`NotifyGUINeedsUpdating`, `DatabaseModified`), so a front
end may save *inside* `Execute`.  Other processes share only files: the database,
its backups and its lock file.

| Component | State | Operations | Hard part | Makes it correct |
|---|---|---|---|---|
| Undo/redo chain (`core/PWScore.cpp` 857-1046) | `m_vpcommands`, `m_vDBState`, four iterators, `m_DBCurrentState` | `Execute`, `Undo`, `Redo`, `ClearCommands`; `WriteFile` rewrites the states | a save moves the clean position; vectors and iterators moved by hand; UB on `*end()` | iterators in step; undo applies to the content it was recorded for; clean means saved |
| Database lifecycle (`ui/*/…File…`, `MainManage`, `MainView`, `PasswordSafeFrame`) | current file, read-only flag, version, signature | New, Open, Close, Save, Save As, Backup, Restore, Export, Lock, Unlock, Change Mode, Save Immediately | order of core calls in each operation; a failed write in the middle; calls that are not paired | no unsaved change is dropped without asking; no save is refused without cause |
| Entry store (`core/PWScore.cpp`) | `m_pwlist`, two base-to-dependents multimaps, keyboard shortcuts, expiring entries, attachments, policies, empty groups | `DoAddEntry`, `DoDeleteEntry`, `DoReplaceEntry`, dependents' operations | the same fact is kept in three places | the places agree; every base is found |
| Commands (`core/Command.cpp`) | what each recorded when built and when executed | `Execute`, `Undo` of 24 classes, `MultiCommands` | recorded data may be stale; a list is built before any of it runs | undo is exact |
| Editing in the front ends (`MainEdit.cpp`, `MenuEditHandlers.cpp`, `AddEditPropSheetDlg.cpp`) | none | the lists of commands for add, edit, delete, duplicate, alias changes | two implementations of the same edits | the store stays consistent |
| Lock file (`os/unix/file.cpp`; callers in `PWScore.cpp`, the front ends, the CLI) | `.plk` file holding `user@host:pid`; `m_lockFileHandle` | lock, unlock, remove an orphan | races of processes, crashes, locks given up by the wrong name or mode | one writer, who knows the file; orphans go |
| Save with backups (`PWScore::BackupCurFile`, `WriteFile`, `RenameFile`) | numbered backups, signature | remove the oldest, rename, write, move back | failures and crashes between the steps | a readable, newest database exists at every step |
| Compare, merge, synchronize (`core/CoreOtherDB.cpp`) | two cores | matching by group, title and user; new uuids, names, policies | a list built before any of it runs; dependents of merged bases; policies of one name | everything arrives, nothing is overwritten, the store agrees |
| Alias parsing (`core/CoreAlias.cpp`), validation (`core/Validate.cpp`) | none | `[g:t:u]` to a base; repair on open | ambiguous names; repair outside the undo chain | every dependent has its base |
| Password history (`core/PWHistory.cpp`) | a field of an entry | parse, add, trim | bounds of the header's numbers | newest kept, never more than the maximum |
| Recently used, expiry lists | small vectors | add, remove, expire | the limit | bounded, no stale uuid |
| Preferences (`core/PWSprefs.cpp`) | application and database preferences, a locked configuration file | get, set, store, copy | read by code that runs later | the database string round-trips |
| Items, fields, file formats, import and export, crypto, generation, filters, views | | | conversions and presentation | not state machines: outside this project (PROJECT.json says why for each) |

How they interact: a front end builds a `Command` (usually a `MultiCommands`; a
merge builds one too), `PWScore::Execute` cuts the undone tail of the chain, runs
the command over the entry store, records the clean/dirty state before and after,
and calls `DatabaseModified`, upon which a front end with *Save Immediately* calls
`WriteFile`, which rewrites the recorded states.  A save first moves the file away
as its intermediate backup.  Locking the window saves, clears the data and keeps
the commands; unlocking reads the file and goes on with the old chain.  Opening for
writing creates the lock file; closing, quitting and the switch to read-only
remove it.

The hazards this gives rise to, each at its line and with the property that
watches it, are the list `hazards` of PROJECT.json.

## 2. Plan

Done, in the order of what can lose data first:

1. `UndoDocument`, `CommandChain`, with runs, proofs and a proved refinement.
2. `EntryStore`: entries, dependents, keyboard shortcuts and expiry, with runs and proofs.
3. `ExclusiveWriter`, `DatabaseLock`, with runs, proofs and a proved refinement.
4. `SaveSteps`, with a run and proofs.
5. `OtherDatabase`, composing merge and synchronise with `EntryStore`, with runs and proofs.
6. `Attachments`: `m_attlist` and its counts under the wxWidgets front end.

Left:

- `EntryStore`: use counts of named policies, empty groups, `UpdateEntryCommand` and
  `UpdatePasswordCommand`, the repair of dependents in `DoAddDependentEntries`.
- `PasswordHistory`: the pure algorithm against a reference definition.

## 3. CommandChain

**State.** `chain` is the two vectors and four iterators of `PWScore`; an iterator
is an index and `end()` is the length plus one.  `dbState` is `m_DBCurrentState`,
`version` `m_ReadFileVersion`, `cur` `m_currfile`, `sig` the file `m_pFileSig`
describes (or none: a null pointer), `disk` what each file holds and in which
format, `notify` `m_bNotifyDB`.  `content` stands for everything commands change;
it is opaque, and a command is the pair of contents it leads between together with
its `WasDBChanged()`.  `phase` is what the user sees; `"undefined"` is reached when
`*end()` or a null signature has been dereferenced, and nothing is claimed after it.

**Actions.** One per operation, each with all the calls its handler makes: `Execute`
includes the notification and, with Save Immediately, the save made from inside it;
`Lock` includes the forced save; `Open` of wxWidgets leaves the chain and of Windows
clears it; `BackOut` starts the loop of `ChangeMode` and `BackOutStep` is one Undo of
it.  Writes may fail, after an intermediate backup at any time, without one before the
file is touched (`unopened`) or half way through it (`garble`).  When the backup fails
or is refused, `SaveOf` gives up, but for an immediate save of wxWidgets, which the user
may let go on without it (`MenuFileHandlers.cpp:362`); on Windows the same answer falls
through to the next case of the `switch`, which gives up (`MainFile.cpp:1227`).

**Constants.** `FrontEnd` chooses which handlers are meant.  `Risky` is the set of
things a session may do that the code does not handle well, each described in the
module, so that a passing run with a smaller `Risky` says exactly under which
conditions a property holds.  What the code does with some of them, found by putting
the kind into `Risky`:

| In `Risky` | Fails | Because |
|---|---|---|
| `noop` | `LockLosesNothing` | `Execute` of a command that changed nothing sets a dirty database `CLEAN` (`PWScore.cpp:940`); the lock then neither saves nor keeps the change |
| `backup` | `CleanIsSaved` | Make Backup writes another file, and `WriteFile` marks the open database clean (`PWScore.cpp:678`) |
| `restore` | `CleanIsSaved` | a restored backup is Untitled and reported as unchanged |
| `new` | `CleanIsSaved` | a New whose write fails leaves its file current and the new database open and reported as unchanged, though the file does not hold it (`MenuFileHandlers.cpp:131`) |
| `unopened` | `SavedWhenNotified` only | the immediate save has failed; nothing else is lost |
| `garble` | `CleanIsSaved` (backups off) | a write half done leaves a database that cannot be read, also where the chain has it marked clean |
| (wxWidgets) | `ChainLeadsToContent` | Open keeps the chain of the database before: run `chain_wxopen` |
| `backout` | none of the properties | after a save followed by undos the loop of `ChangeMode` runs past the first command, into `"undefined"` |
| none | none of the properties | a failed write leaves no signature (`PWScore.cpp:593`), and a database switched to read-only and back then dereferences it: `"undefined"` |

**Properties.** `IteratorsInStep`, `ChainLeadsToContent` (undo and redo always apply
to the content they were recorded for, across lock and unlock), `CleanIsSaved`,
`PositionsTellTruth` (every position of the chain marked clean is the content of the
file), `LockLosesNothing`, `SavedWhenNotified`, `NeverRefused`, `BackOutEnds` (the loop
of `ChangeMode` ends, and when a clean position is behind it, or is where it stands, it
ends in an open read-only database; the clean position ahead leads to `"undefined"`, as
the table says, which is no success but an end), and the refinement `ImplementsDocument`: under the mapping at the end of the module the
chain is a document with a linear history and a cursor.  `UndoDocument` has neither
commands nor states, and demands of every step that a visible document reported
unchanged is the one stored.

## 4. EntryStore and OtherDatabase

**State of `EntryStore`.** `db` is `m_pwlist` (a function from uuids to entries), the
multimaps as bags of pairs, the keyboard shortcut map and the expiry list; `db.sound`
turns FALSE when an `ASSERT` of `DoAddDependentEntry` would fail.  An entry has a
type, a base, a password, a shortcut key and whether it expires: the fields its
operations tell apart.  Groups and titles are gone: any set of entries may be a
group, and the tree may show it in any order.  `commands`, `next` are the chain in
its simplest form; `history` is a history variable holding what the database looked
like.

**Commands** are records of what the C++ objects record.  `Execute1`, `Executed1` and
`Undo1` are their Execute, what Execute leaves in the object, and their Undo; a
`MultiCommands` is a sequence, and its commands are built before the first runs, as
in the code.  **Actions** are the front ends' edits, each a list of commands.

**Properties.** `UndoIsExact` (undo and redo restore entries, links, keys and expiry
list), `DependentsAgree` (types, base fields and multimaps tell one story),
`BasesFound`, `ListsAgree` (shortcut keys and expiry list), `DeletionKeepsPasswords` (aliases of a
deleted base take over its password).  An edit that changes an entry's kind may choose
its shortcut key in the same step, and, where an alias becomes normal, its expiry date;
the dialogs have both beside the password that decides the kind.

They hold for `FrontEnd = "mfc"`.  With `"wx"` `BasesFound` fails: a group is deleted
in the order of the tree, and when that has a base before its alias, undo, which goes
backwards, adds the alias first (`MenuEditHandlers.cpp:231`; the Windows front end
sorts).  And `DeletionKeepsPasswords` fails: an edit of a base's password makes it a
normal entry (`AddEditPropSheetDlg.cpp:3160`), and its deletion then strands its
aliases.

**`OtherDatabase`** extends `EntryStore`: its commands and its undo, with entries
that also have a name (what entries of two databases are matched by), a policy of
their own or the name of one, and a protected flag.  `other` is the second database,
which is only read; `policies` the default and the named policies of the open one.
`Merge` is `PWScore::Merge` with `MergeDependents` and `ProcessPolicyName`: one list
of `AddEntryCommand`s, each computed from the database as it is before the first is
executed.  `Synchronize` is `PWScore::Synchronize`, one list of `EditEntryCommand`s
over the matching unprotected entries and the chosen fields.  `IsUpdated` is `bUpdated`:
it is also set where an entry comes out as it was (an own policy that equals the other
default), and then the list has an edit that changes nothing.  `NewId` and
`RenamedPolicy` stand for the fresh uuid and the renamed policy; `Stamp` for the
time that makes a merged entry's name a new one.  `OtherAssumption` says what the two
files are - well formed, names unique, every named policy there - and that the new
uuids and policy names are new and differ from position to position.

**Properties.** `StoreAgrees` (everything kept beside the entries is what reading the
file would make of them), `NamesUnique`, `CurrentKept` (a merge changes nothing that
was there), `MergeArrives` (every entry asked for is there afterwards, with its
password, expiry and policy; and of its dependents each whose name was free is there as
the same kind and shows the password it shows in the other database, while one whose
name was taken is skipped, which is `MergeDependents`' rule), `SyncLeavesNoConflict`
(afterwards `Compare` has nothing to report in the fields asked for), `UndoIsExact`.

They hold with `Risky` empty.  Each kind, alone, breaks exactly what is shown:

| In `Risky` | Fails | Because |
|---|---|---|
| `identical` | `StoreAgrees` (and `BasesFound`) | dependents of an entry that is not merged, being there under another uuid, refer to the uuid of the other database (`CoreOtherDB.cpp:537`): run `other_identical` |
| `skipped` | `StoreAgrees` | a base whose dependents' names are all taken is merged as a base without dependents; a comment announces that they are renamed, but `bTitleRenamed` is never set |
| `keys` | `StoreAgrees` | the keyboard shortcuts of dependents, and those synchronised, are not checked |
| `second` | `NamesUnique` | two merges in one second give one name twice |
| `own` | `MergeArrives` | where the default policies differ, `ProcessPolicyName` overwrites an entry's own policy with the other default (`CoreOtherDB.cpp:1237`) |
| `alias` | `MergeArrives` | a dependent is synchronised with a base of the same name and gets its password or date |
| `named` | `StoreAgrees` | an alias made from an entry with a named policy keeps the policy's name (`AddEdit_PropertySheet.cpp:525` clears only its own policy), and `MergeDependents` brings no policy along, so the merged alias names one that is not there |
| `policy` | `SyncLeavesNoConflict` | synchronising to a policy name known with the same rules, or to none, does nothing |

The wxWidgets synchronisation is a loop of its own (`SyncWizard.cpp`), without the
check of protected entries: with `FrontEnd = "wx"` `CurrentKept` fails.

**`Attachments`** is built like `EntryStore` and leaves dependents to it.  An entry has
a text (whatever an edit of it changes) and at most one reference, `att`; `db.atts` is
`m_attlist`, an attachment its title and `m_refcount`, an unsigned int that wraps.
`NoTitle` is that of an attachment without content, which `m_attlist[uuid]` makes when
there is none.  The actions are the wxWidgets edits: an entry added with an attachment,
a duplicate (which refers to the same one), deletion of entries and groups, attaching
(only an `AddEntryCommand` does, so the entry is deleted and added), removing and
retitling; `LockAndUnlock` writes the file and reads it, which counts the references
afresh while the undo chain stays.

**Properties.** `RefsResolve` (no reference dangles), `NeverFreedEarly` (no attachment
is counted lower than it is referred to), `AttachmentsRestored` (wherever undos, redos
and unlocking lead, every entry shows the text and attachment it had there).  The counts
are not exact: the undo of a deletion that found one reference puts the attachment back
with that count and counts again, and an attachment added with its entry stays in the
list when that is undone, because the entry recorded has no reference.  Either only
leaks until the database is read again.  The three hold with `Risky` empty; each kind,
alone, breaks exactly what is shown:

| In `Risky` | Fails | Because |
|---|---|---|
| `replace` | all three | removing an attachment and importing another in one edit deletes and adds the entry with its old reference: `NewAddEntryCommand` (`AddEditPropSheetDlg.cpp:2851`) passes no attachment then, the new one is lost, and the old one is removed when its count was one |
| `shared` | `RefsResolve` | `DoDeleteAttachment` removes what a duplicate refers to, too (`PWScore.cpp:418`) |
| `base` | all three | `DeleteAttachmentCommand` acts on normal entries only, so of a base just the reference goes, and its undo adds an empty attachment; locked in between, the count is zero when the reference is back |
| `edited` | `AttachmentsRestored` | the delete that attaching begins with records the entry as edited, as the TODO at `AddEditPropSheetDlg.cpp:3263` suspects: undo keeps the edit |

## 5. DatabaseLock and ExclusiveWriter

**State.** For every lock file what it holds (`owner`: nothing, a process, or nothing
written yet) and whether its process is gone (`orphans`); for every process its
current file, its mode, whether its copy is that of the file (`fresh`: what the
comparison of signatures in `ChangeMode` finds), and how far its operation and its
call of `pws_os::LockFile` are.  `LockOf` is `GetLockFileName`, which several
databases may share (`db.psafe3` and `db.bak` both have `db.plk`).

**Actions.** `LockFile` is one system call per step: the test for an orphan and its
removal, `open(O_CREAT | O_EXCL)`, the write of `user@host:pid`.  An operation of the
front end is the step that begins it and the step after its call returned, granted or
denied: the first dialog, New, Save As, Change Mode; Save, Reload (unlock of the
window), Close, Quit and the command line have theirs.  `Crash` kills a process at
any step, `Signal` runs `cleanup_handler`.

**Properties.** `OneWriter`; `WritersAreCurrent` (no lost update: whoever may save has
what the file holds); `LocksNameWriters` (a writer's lock file names it, and a lock
file that names a live process belongs to its database); `LocksOutliveWriters` (no
step takes a lock from a process that goes on writing); `OrphansGo` (liveness: the
lock file of a dead process that holds its name never keeps anybody out; an empty one
does); and the refinement
`ImplementsExclusiveWriter`: `ExclusiveWriter` has for each lock at most one writer
and the set of processes that know the file, and no lock files, crashes or calls.

They hold with `Risky` empty.  All kinds but `unwritten` break `LocksOutliveWriters`, and
most the others too; `unwritten` breaks `WritersAreCurrent`, `LocksNameWriters` and the
refinement:

| In `Risky` | Because |
|---|---|
| `unwritten` | a new file is locked and cannot be written: New keeps it as its current database, read-write, which the file does not hold (`MenuFileHandlers.cpp:131`); the first dialog stays up and keeps its lock (`SafeCombinationEntryDlg.cpp:568`) |
| `open` | File > Open takes no lock for the new database and gives up the old one's by the mode there is now (`PasswordSafeFrame.cpp:1489`): two processes write one database, though "Only one R/W access at a time is allowed" (`MenuManageHandlers.cpp:485`) |
| `restore` | Manage > Restore unlocks the file of the backup's name, not the database it leaves |
| `remove` | the user may have the lock of a live instance of his own removed |
| `race` | two processes both find the orphan; the second removes the lock the first created in its place (`os/unix/file.cpp:274`) |
| `signal` | SIGTERM at the first dialog removes the lock of the database named there, whoever has it |
| `cli` | `pwsafe-cli` unlocks what it never locked, when it could not (`ui/cli/main.cpp:603`) |

Also in the code and the model: a crash between the creation of a lock file and the
write leaves an empty one, which is never recognised as an orphan (`NoPid`).

## 6. SaveSteps

**State.** The database file, the backup of each name, and what each holds: a content
(numbered, a greater one is newer), nothing, a part of a file, or something damaged
behind the program's back, visibly to `PWSFileSig` or not (it hashes only the head
and the tail of a file).  Of the program: what it has in memory, `clean`, whether the
database has a name, the signature, the preferences of backups, and the step.

**Actions.** `PasswordSafeFrame::Save` with `BackupCurFile`, `ManageIncBackupFiles`,
`RenameFile` - on one device, or as copy and unlink across two - `WriteFile`, and the
move back after a failed write.  Each step can fail and each can be the last before
`Crash`; `Start` and `Recover` (Manage > Restore of the newest backup) go on from
there.  `Damage` is another program.

**Properties.** `NewestKept` (no step of the program, nor its death after any,
loses the newest intact copy on disk), `BackupIsWhole` (whenever the database file is
not intact during a save, the backup is), `BackupsInOrder` (numbers tell age, so that
those deleted first are the oldest), `TrimmedToMax`, `CleanIsOnDisk`, and the liveness
property `SaveEnds`: nothing that fails is tried for ever.

`SaveEnds` holds whatever happens.  The others hold with `Risky` empty; each kind,
alone, breaks exactly what is shown:

| In `Risky` | Fails |
|---|---|
| `inplace`: no intermediate backups | `BackupIsWhole`, `CleanIsOnDisk`, `NewestKept` |
| `continue`: the user saves though the backup failed | `BackupIsWhole`, `BackupsInOrder`, `CleanIsOnDisk`, `NewestKept` |
| `restorefails`: the backup cannot be moved back | `BackupIsWhole`, `CleanIsOnDisk`, `NewestKept` |
| `older`: an older backup is restored and saved | `BackupsInOrder`, `NewestKept` |
| `undeleted`: an excess backup cannot be deleted | `TrimmedToMax` |
| `unsigned`: damage while there is no signature | `BackupIsWhole`, `NewestKept` |
| `hidden`: damage that `PWSFileSig` does not see | `BackupIsWhole`, `NewestKept` |

`CommandChain` has a save as one step and its `sig` as the file a signature
describes; `SaveSteps` has the steps, and one database.

## 7. Runs

| Run | Bounds | Shows |
|---|---|---|
| `chain_manual` | 2 contents, 2 files, 3 commands; Windows, backups on; `backout` and `unopened` | all invariants but `SavedWhenNotified` (and `IteratorsInStep`, see `chain_anything`), the refinement and `BackOutEnds` hold |
| `chain_immediate` | 2 contents, 2 files, 2 commands; Windows, Save Immediately, no backups, every risky thing but `unopened`, `garble`, `new`, `restore` and `suspend` | the file is current whenever notifications are on |
| `chain_anything` | 2 commands; wxWidgets, every risky thing | the iterators stay in step regardless |
| `chain_wxopen` | wxWidgets | **violated**: the chain of the previous database survives Open |
| `store_single` | at most 3 entries, 2 passwords, 1 key; two commands, from every database of two entries and every one of three with one password and no key or date; Windows | all properties hold, whatever a command recorded and met again later |
| `attachments` | at most 3 entries, one a base, 2 attachments, 2 titles and texts; two commands, from every file of two entries | all properties hold |
| `lock_shared` | 2 processes of one account, 2 databases, each with its lock file | safety and the refinement hold |
| `lock_anything` | 2 processes, 1 database, every risky thing; fairness | orphans go, whatever else happens |
| `save_steps` | contents 0..3, numbers 1..3 in place of 999, one date | all properties hold |
| `save_anything` | 1 content, numbers 1..3, every risky thing but damage without or past the signature, which changes no step; fairness | a save ends |
| `other_database` | pairs of databases of at most two entries each; two operations | all properties hold |
| `other_identical` | the same, with `identical` | **violated**: a dependent is merged whose base is not there |

The violation runs each check one property, stating what a comment, an assertion or
a message of the program says; `findings` in PROJECT.json quotes the line.

**Why the bounds are enough.** The chain distinguishes a command from the one before,
the one to undo and the one to redo, and the saved position behind, at or ahead of
the current one: three commands have all of these.  Two contents tell a saved one
from another; two files are the database and any other (backup, export, second
database).  In the store an operation involves at most an entry, its old base (or
dependents) and its new base; a base with one dependent and a base with two are both
among databases of three.  `store_single` starts from *every* well-formed database of
two entries, and an add leads from there to those of three; of these it starts with
the ones whose passwords, keys and dates play no part.  Two operations in a row are
there for what a command recorded and met again later.

`attachments` starts from every file of two entries (of one text), sharing an attachment or not; the
third is a duplicate or new.  Two commands are one that changes the count an earlier
one relied on.  `MaxRefs` stops undos and redos once a count is past 3, since undoing
a deletion counts up for ever; `UIntMax`, 99, stands for the largest unsigned int, and
is met from below only: by counting down from zero.

A lock is contended by two, and a third process waits like the second; two databases
are the one left and the one taken.  Lock names shared by databases, and processes of
other accounts, change which locks meet and who may remove an orphan; the proofs
cover both.  A save and the one after it, each with a failure or a crash, need a
content on disk, one being written and one edited since; three numbers reach the last
number, the switch to date and time, and a limit below, at and above it.  For a merge
the pairs are *all* small databases of two families - entries, aliases and keys; and
policies, protection and expiry - and some with aliases that name a policy.  Two
operations are a merge and its repetition, or a merge then synchronised.

**Abstractions to know.** Deadlock is not checked in the `chain_*` runs because a
session may stop anywhere (the command bound, `"undefined"`), in `save_steps` because
a database may be lost to damage when no backup was made yet, and in `other_*` because
the operations are bounded.  It is checked in the `lock_*` runs, `store_single` and `attachments`.
Symmetry is used only where no temporal property is checked, or only properties of
steps, over files, entries, passwords, attachments and texts, none of which any definition names.  Every
property of a passing run is shown to have teeth by a mutant: a plausible slip in a
modelled definition that makes it fail.

**Fairness.** `BackOutStep` and `BackOutDone` are weakly fair: the loop
`while (HasDBChanged()) OnUndo()` shows no dialog and waits for nothing.  In
`lock_anything` each process's `LockFile` is: its system calls do not block and no
dialog comes between them.  In `save_anything` the next step of a save under way is:
its calls return, and the user answers what is asked when one failed.  Nothing obliges a user to do anything, or a process to
live.

## 8. Proofs

**`CommandChainProofs`** proves, from `ConstantsAssumption` alone and so for both
front ends, every preference, any number of contents, files and commands, and every
risky operation, `TypesCorrect` and `IteratorsStayInStep`.  The two are one inductive
invariant.  Types alone are not inductive, because whether an Undo leaves its indices
in range depends on the iterators being in step; and that needs the types of the
vectors.  What Execute, Undo, Redo and a write make of the chain are lemmas; one step
per action of `Next` uses them.

Under the further condition `Careful` - the Windows front end, and `Risky` within
`{"backout", "suspend", "unopened"}` - it proves `PositionsAreTrue` and from it
`CleanDatabasesAreSaved`, `ChainsLeadToContent`, `LocksLoseNothing`.  `CleanIsSaved`
is not inductive: an Undo may reach a position marked clean long ago, so the invariant
has to speak of every position of the chain (`StatesTell`) and of what the commands
lead to (`LeadsTo`), also while the database is locked and only the file knows its
content.  `Saved`, the inductive form, adds that the current state of the database is
that of its position.  `Careful` is not a convenience: section 3 shows what happens
without it.

Two more of its theorems have conditions, and invariants, of their own.
`SavesNotRefused` (`NeverRefused`) asks for the Windows front end only, whatever is
risked: its invariant `Signed` says that the signature held, if any, is that of the
current file, in every step and while backing out.
`NotifiedChangesAreSaved` (`SavedWhenNotified`) asks for `Prompt`: the Windows front end
with Save Immediately and without intermediate backups (which may refuse the save), no
write that fails, and neither restoring a backup nor suspending the
notifications.  Its invariant `Immediate` adds that the database has a name, and covers the steps of
backing out.

The last part of the module is the refinement, `ChainImplementsDocument`.  The mapping
reads the history off the commands (`HistoryOf`) and takes the redo iterator for the
cursor.  `HistoryExecuted` is the heart of it: what `Execute` does to commands and
iterators is to cut the history after the cursor and append.  `CursorAtContent` says
that the content in memory, or in the file of a locked database, is the one at the
cursor; with `Saved` of the next state it makes every report of "unchanged" honest.
Then one step per action: the four forms of `Execute` are `Change`; Undo, Redo and a
step of backing out are `Move`, whether or not they save on the way; New and Open are
`Open`; a backup of a clean database is a `Save` of what is stored already; an export,
a save that fails and the switch to read-write leave the document alone.

**`DatabaseLockProofs`** proves `LockTypes` from `LockConstants` alone, and under
`Careful` - `Risky` empty - for any number of processes, accounts, databases and lock
files, shared or not: `LockFilesNameWriters`, `WritersExclude`, `NoLostUpdate`,
`LocksStayWithWriters`, and `LockFilesImplementExclusiveWriter`, the refinement, whose
steps are one per action: a step of a call, a crash before the lock is granted and a
denial are stutters; a granted operation is `Take`; closing, quitting and dying are
`Leave`.  `OneWriter` is not inductive, since what keeps two processes apart is the
lock file between them; the invariant `Flows /\ Safe` says which operations are in
which steps of a call, that a process past the creation of a lock file is the one that
holds it (`Held`), that lock files name writers, and that writers are current.

**`SaveStepsProofs`** proves `SaveTypes` from `SaveConstants` alone and under
`Careful`, for any contents, last number and dates: `BackupsAreWhole`,
`BackupNumbersTellAge`, `CleanDatabasesAreOnDisk`, `NewestCopyIsKept`.  The inductive
invariant `Safe` has a part for what numbers say of age (`Ages`), and one for each
stretch of a save: at rest, backing up, writing; `NewestKept` is a property of steps
and follows from it action by action.  `BackupsAreTrimmed` (`TrimmedToMax`) needs less of
the user, only that excess backups can be deleted, and another invariant, `Trimming`:
from the step that deletes them until the new backup is there, the numbered backups that
will be left are one fewer than the preference allows.  It is about the cardinality of
sets of numbers, so it rests on the lemmas of `FiniteSetTheorems`.

**`AttachmentsProofs`** proves of `Attachments`, under `Careful`, `AttachmentsTyped`,
`ReferencesResolve`, `NoneFreedEarly` and `UndoRestoresAttachments`, for any number of
entries, attachments, titles and commands.  `Careful` says that the user does nothing of
`RiskyKinds`, that entries are finitely many, and that `MaxRefs` plus the number of
entries plus the number of commands is below `UIntMax`: a count that wrapped to zero
would free an attachment in use, and nothing in the code prevents it; a C++ `unsigned
int` and the handful of references to one attachment do.

None of the four is inductive: an undo applies what its command recorded, perhaps long
ago, to what other commands and a lock have left.  So the invariant `Explains` is about
the chain: there is a `past`, one abstract content for each position - the entries, and
the title of every attachment ever used - such that each list of commands *leads* from
the content of its position to the next (`Leads`: one case for each edit of the front
end), and the database is *at* the content of its own (`At`: same entries, the list has
what they refer to, and the counts are between the number of references and a bound that
grows by one with every command).  `ExecuteArrives` and `UndoReturns` are the heart:
executing or undoing a list that leads from p to q takes any database at the one to the
other, and leaves a list that still does.  Counts are only bounded, not known, which is
why a leak of a reference (section 4) hurts nobody.  `Kept` says that an attachment which an earlier
position needs is in the list, or saved by a command that will be undone on the way
there.  A group is deleted by induction over its list; `ExecuteAll` and
`UndoAll` are recursive functions for that reason, and `NumberInduction` has the
induction over sets of numbers that the prover can use, where those of the library take
an operator.

**`EntryStoreSteps` and `EntryStoreProofs`** prove of `EntryStore` every property that
`store_single` checks: `StoreTyped`, `UndosAreExact`, `LinksAgree`, `AssertsHold`,
`KeysAndDatesAgree` and `DeletionsKeepPasswords`, for any passwords, shortcut keys and
length of the chain, and any number of entries.  Two conditions: `IsFiniteSet(Ids)`, since
the dependents of an entry are a finite multimap range, and `FrontEnd = "mfc"`.  Windows
refuses a shortcut key in use, deletes bases last, and clears the date of an entry that
becomes an alias; wxWidgets does none of these, and section 4 says what each of them costs.

- *What a database is.*  `At(d, p)` says that the database `d` has the entries `p` -
  a function from uuids, with the base ids that nobody reads left out - with the
  multimaps, shortcut keys and expiry dates that go with them.  Inside a list of commands
  that does not hold: the base of an entry is linked to it while the entry is no alias
  yet, or an alias has lost its link and not its type.  So the lemmas about operations
  and commands speak of `Sto(d, e, L)`: entries `e` and links `L` that need not fit.
- *What a command does.*  `Does(c, s, s2, t, t2)`: the command leads from `s` to `s2`, and its
  undo from `t2` to `t`.  The states on the way back differ from those on the way there.
  A group is deleted with the bases last, so their dependents are gone one by one, and the
  base with the last of them turned to normal; on the way back the base comes first and is
  a base at once, with its type but without a dependent.  `Part(e, L, A, R, F)` describes both: of the
  entries `e` those in `A` are gone, the aliases in `R` are reset to normal entries with
  the password of their base, and bases bereft of dependents are normal, but for those of
  `F`, which are back already.  Sets of dependents go and come back in no particular
  order: the folds are taken apart by `SubsetInduction`.
- *What a list of commands does.*  `Leads(list, p, q)`: the list executes from `p` to `q`,
  the commands as that leaves them undo to `p`, and both as often as one likes (`Alike`: an execution
  notes in a command what it did, which must not matter the next time).  One lemma for each operation
  of `Next` gives the list of the code and the entries `q` where it leads, which must be
  well formed again (`IsPast`).
- *The invariant.*  No property of the six is inductive: an Undo applies a command
  recorded in a state long left.  `StoreInv` says that every list of the chain leads from the
  entries that the history has before it to those after it, that the executed lists return,
  and that the database is at the entries of its position (`ChainFits`, `PastsFit`, `ListsLead`,
  `ListsReturn`, `Present`).  `Leads` quantifies over all databases, so TLC cannot check
  `StoreInv` itself; it checks what follows from it.
- `DeletionKeepsPasswords` is a property of steps and follows from where deletions lead.

What these modules prove of operations and commands does not depend on the fields an
entry has: `EntryFields` is a constant, which a theorem fixes.  In `EntryStoreProofs` it
is `StoreFields`, the five of `EntryStore`; in `OtherDatabaseProofs`, `OtherFields`, the
nine of `OtherDatabase`.

**`OtherDatabaseProofs`** proves of `OtherDatabase` every property that `other_database`
checks: `MergesAgree`, `MergesKeepNamesUnique`, `MergesUndoExactly`,
`MergesKeepCurrent`, `MergesArrive` and `SyncsSettle`, for any pairs of databases that
`OtherAssumption` admits and any number of operations.  The condition is `NoStoreRisk`,
that none of the kinds happens which break `StoreAgrees`, `NamesUnique` or a type, with
`IsFiniteSet(Ids)`.  `MergesArrive` excludes `own` too, `SyncsSettle` `policy`, and only
`MergesKeepCurrent` needs `FrontEnd = "mfc"`: section 4 has the reason of each.

- *Where a merge leads.*  A base of the other database is added with the type of a base,
  before its dependents, and when undo has removed these it is a normal entry: the stages
  of a list on the way there are not those on the way back, as in a deletion, but here the
  list grows with the other database.  `Runs(list, m, s, t, q)` says of the first `m` commands
  where they lead and where their undo does; `RunsJoin` puts two lists together.  A base
  with its dependents is one such list, by induction over the dependents, and `MergeLeads`
  joins them, by induction over the bases.  `EditsLead` does the same for the edits of a
  synchronisation, one pair of entries after the other, and `SyncLeads` says what they are.
- *The invariant.*  A merge finds what is in use - names, uuids, keys, policies - in the
  database as it is, and an undo may have brought that back from any earlier state.  So
  `OtherInv` is `StoreInv` with a claim on every position of the history: there are named
  policies for each (`PoliciesFit`), and there the entries have names of their own, no
  policy that is not there, and uuids, names and policies that come from a file or were
  made at an *earlier* position (`PositionFits`).  This is why what the next merge makes is new, also
  when it follows an undo and takes the position of one undone.  TLC checks `StoreInv`'s
  consequences, as above; the part about names and policies was checked as an invariant on
  the instance of `other_database` before it was proved.
- *The properties of steps* `CurrentKept`, `MergeArrives` and `SyncLeavesNoConflict` follow from
  where the lists lead, action by action.  In `MergeArrives` a base asked for is new, or there
  already (and then the same, or it arrives renamed).  Each of its dependents whose name was
free arrives: the entry it then refers to is the new base or the one that was there, and
either has the password the dependent showed (`NewBaseStands`).

The attempt corrected the model twice: the kind `named` and the scope of `alias` came
from obligations that could not be proved, and each now has its row in section 4.

Only model-checked: `BackOutEnds`, `OrphansGo` and `SaveEnds`, since liveness under
fairness is beyond the prover, and the refutations of the two violation runs.  That the lists of commands in the model are those the code builds is a matter
of reading, and of the mutants.

## 9. Not modelled, and why

Most of the repository is not a state machine.  The largest part by far is
presentation - dialogs, trees, grids, the dark-mode library - and vendored code (the
XML parser pugixml, ciphers).  Bytes, encryption, key stretching and file formats have
no control flow for TLC to explore; random generation and text import and export are
conversions; filters and views are predicates.  The definitions here map to the few
thousand lines that decide what happens to a database, and a reader should not take
the project to say anything of the rest.

Of what could be modelled: use counts of policies, empty groups,
validation and password history are left (section 2); of attachments, those kept in the entry (V3)
and the Windows front end, which puts them into the list outside the commands
(`AddEdit_PropertySheet.cpp:432`); of merging, the empty groups,
the filters and the report; of locking, the implementations of Windows
(`os/windows/file.cpp`, a kept handle) and macOS (which never removes an orphan), and
the conversion of a database older than version 3, which changes the current file
without locking; of saving, the order of two power failures and what a file system
does with unflushed data - a step here is durable.  The wxWidgets dialog is modelled
for the edits of `EntryStore` only in what differs from Windows: an edit of a password
sets the type to normal, an entry that becomes an alias keeps its date, the aliases of
a base that becomes an alias are asked to be moved from the wrong base, a duplicate
keeps its key, and a group is deleted in the order of the tree.
