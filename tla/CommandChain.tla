---------------------------- MODULE CommandChain ----------------------------
(***************************************************************************)
(* PWScore's undo/redo chain, the clean/dirty states it keeps beside the   *)
(* commands, and every operation of PWScore and of its front ends that     *)
(* creates, replaces, writes or forgets the open database: Execute, Undo,  *)
(* Redo, New, Open, Close, Save, Save As, Backup, Export, Restore, Lock,   *)
(* Unlock and Change Mode, with Save Immediately (NotifyDBModified).       *)
(*                                                                         *)
(* What a database contains is opaque here (an element of Contents): a     *)
(* command is the pair of contents it leads between.  That each command    *)
(* undoes exactly what it did is the subject of EntryStore.                *)
(*                                                                         *)
(* Iterators are indices: vector::end() is Len + 1.                        *)
(***************************************************************************)
EXTENDS Naturals, Sequences

CONSTANTS
    Contents,         \* what a database may contain
    NewContent,       \* the content of a database just created
    Files,            \* database files, backups and exports
    NoData,           \* no content: database locked or closed, file unreadable
    NoFile,           \* no file: Untitled, or m_pFileSig = nullptr
    FrontEnd,         \* "wx" (ui/wxWidgets) or "mfc" (ui/Windows)
    SaveImmediately,  \* preference SaveImmediately
    BackupFirst,      \* preference BackupBeforeEverySave
    Risky,            \* which of RiskyKinds the session's user and disk do
    MaxCommands       \* bound on the commands kept for undo

(***************************************************************************)
(* What a session may do that the code does not handle well:               *)
(*   noop     execute a command that changes nothing on a dirty database   *)
(*            (Synchronize with an identical one, an import of nothing)    *)
(*   backup   Manage > Make Backup of a dirty database                     *)
(*   export   export to a newer format                                     *)
(*   restore  open a backup as an Untitled database                        *)
(*   unopened a write that fails before the file is touched, with no       *)
(*            intermediate backup                                          *)
(*   garble   a write that fails half way with no intermediate backup      *)
(*   new      a New that cannot write its file, which stays current        *)
(*   saveas   a Save As that fails                                         *)
(*   backout  switch a dirty database to R/O and decline to save it        *)
(*   suspend  change the database while notifications are suspended        *)
(*            (Synchronize; a row deleted in the grid), or leave them so   *)
(*            (options changed in ui/wxWidgets)                            *)
(***************************************************************************)
RiskyKinds == {"noop", "backup", "export", "restore", "unopened", "garble", "new",
               "saveas", "backout", "suspend"}

ASSUME ConstantsAssumption ==
    /\ NewContent \in Contents
    /\ NoData \notin Contents
    /\ NoFile \notin Files
    /\ FrontEnd \in {"wx", "mfc"}
    /\ SaveImmediately \in BOOLEAN
    /\ BackupFirst \in BOOLEAN
    /\ Risky \subseteq RiskyKinds
    /\ MaxCommands \in Nat

VARIABLES
    chain,    \* m_vpcommands, m_vDBState and the four iterators
    dbState,  \* m_DBCurrentState
    content,  \* what commands change: entries, groups, policies, preferences
    version,  \* m_ReadFileVersion
    cur,      \* m_currfile
    sig,      \* the file m_pFileSig describes
    disk,     \* what each file holds, and in which format
    readOnly, \* m_bIsReadOnly
    notify,   \* m_bNotifyDB: are the front ends told of changes?
    phase     \* what the user sees; "undefined" once *end() was dereferenced

vars == <<chain, dbState, content, version, cur, sig, disk, readOnly, notify, phase>>

Phases == {"closed", "open", "locked", "backingOut", "undefined"}
States == {"CLEAN", "DIRTY"}
Versions == {2, 3, 4}     \* V20, V30 (= VCURRENT), V40
FileData == [data : Contents \cup {NoData}, ver : Versions]
Commands == [old : Contents, new : Contents, changed : BOOLEAN]
DBStates == [before : States, after : States]
Chains == [cmds : Seq(Commands), states : Seq(DBStates),
           undo : Nat, redo : Nat, undoState : Nat, redoState : Nat]

-----------------------------------------------------------------------------
(* The chain. *)

EmptyChain ==                                           \* ClearCommands
    [cmds |-> <<>>, states |-> <<>>,
     undo |-> 1, redo |-> 1, undoState |-> 1, redoState |-> 1]

(* m_undo_iter != m_vpcommands.end(), and the same of m_redo_iter. *)
AnyToUndo == chain.undo # Len(chain.cmds) + 1
AnyToRedo == chain.redo # Len(chain.cmds) + 1

(* Mutant: Execute leaves the states of the undone commands behind. *)
ExecutedKeepingStates(cmd, before, after) ==
    LET kept == SubSeq(chain.cmds, 1, chain.redo - 1)
    IN  [cmds |-> Append(kept, cmd),
         states |-> Append(chain.states, [before |-> before, after |-> after]),
         undo |-> Len(kept) + 1, redo |-> Len(kept) + 2,
         undoState |-> Len(chain.states) + 1, redoState |-> Len(chain.states) + 2]

(* Mutant: Execute leaves the undone commands in the chain. *)
ExecutedKeepingUndone(cmd, before, after) ==
    LET n == Len(chain.cmds)
    IN  [cmds |-> Append(chain.cmds, cmd),
         states |-> Append(chain.states, [before |-> before, after |-> after]),
         undo |-> n + 1, redo |-> n + 2, undoState |-> n + 1, redoState |-> n + 2]

(* Execute: the undone tail goes, the new command becomes the one to undo. *)
Executed(cmd, before, after) ==
    LET kept == SubSeq(chain.cmds, 1, chain.redo - 1)
        keptStates == SubSeq(chain.states, 1, chain.redoState - 1)
    IN  [cmds |-> Append(kept, cmd),
         states |-> Append(keptStates, [before |-> before, after |-> after]),
         undo |-> Len(kept) + 1, redo |-> Len(kept) + 2,
         undoState |-> Len(keptStates) + 1, redoState |-> Len(keptStates) + 2]

(* Mutant: Undo of the first command does not move the iterators to end(). *)
UndoneStuck ==
    LET previous == IF chain.undo = 1 THEN 1 ELSE chain.undo - 1
    IN  [chain EXCEPT
            !.redo = chain.undo, !.redoState = chain.undoState,
            !.undo = previous, !.undoState = previous]

(* Undo: the command undone is the next to redo; before begin() is end(). *)
Undone ==
    LET first == chain.undo = 1
    IN  [cmds |-> chain.cmds, states |-> chain.states,
         redo |-> chain.undo, redoState |-> chain.undoState,
         undo |-> IF first THEN Len(chain.cmds) + 1 ELSE chain.undo - 1,
         undoState |-> IF first THEN Len(chain.states) + 1 ELSE chain.undoState - 1]

(* Redo: the command redone is the next to undo. *)
Redone ==
    [cmds |-> chain.cmds, states |-> chain.states,
     undo |-> chain.redo, undoState |-> chain.redoState,
     redo |-> chain.redo + 1, redoState |-> chain.redoState + 1]

(* Mutants: WriteFile updates the states on one side of the position only. *)
MarkedBehind(ch) ==
    [ch EXCEPT !.states =
        [i \in DOMAIN @ |->
            IF ch.undoState # Len(ch.states) + 1 /\ i <= ch.undoState
            THEN [before |-> "DIRTY",
                  after |-> IF i = ch.undoState THEN "CLEAN" ELSE "DIRTY"]
            ELSE @[i]]]
MarkedAhead(ch) ==
    [ch EXCEPT !.states =
        [i \in DOMAIN @ |->
            IF i >= ch.redoState
            THEN [before |-> IF i = ch.redoState THEN "CLEAN" ELSE "DIRTY",
                  after |-> "DIRTY"]
            ELSE @[i]]]

(* WriteFile: only the current position is clean from now on. *)
MarkedSaved(ch) ==
    LET end == Len(ch.states) + 1
    IN  [ch EXCEPT !.states =
            [i \in DOMAIN @ |->
                IF ch.undoState # end /\ i <= ch.undoState
                THEN [before |-> "DIRTY",
                      after |-> IF i = ch.undoState THEN "CLEAN" ELSE "DIRTY"]
                ELSE IF i >= ch.redoState
                THEN [before |-> IF i = ch.redoState THEN "CLEAN" ELSE "DIRTY",
                      after |-> "DIRTY"]
                ELSE @[i]]]

(* The content a command's Undo, or its Execute, can turn c into.  What a  *)
(* command does to a content it was not made for is unknown.               *)
AfterUndo(cmd, c) ==
    IF ~cmd.changed THEN {c} ELSE IF c = cmd.new THEN {cmd.old} ELSE Contents
AfterRedo(cmd, c) ==
    IF ~cmd.changed THEN {c} ELSE IF c = cmd.old THEN {cmd.new} ELSE Contents

-----------------------------------------------------------------------------
(* Saving. *)

(* The format the current database is saved in. *)
SaveVersion == IF version = 4 THEN 4 ELSE 3

(* BackupCurFile refuses when the file is not the one last read or written. *)
BackupRefused == BackupFirst /\ sig \notin {NoFile, cur}

(* Neither the file nor PWScore's idea of it changes; the chain may. *)
Unwritten(ch, c, st) ==
    /\ chain' = ch /\ content' = c /\ dbState' = st
    /\ UNCHANGED <<disk, sig, version>>

(* Mutant: every write leaves its own signature, also that of a backup. *)
WriteFileSigned(ch, c, st, f, v, updateSig) ==
    /\ disk' = [disk EXCEPT ![f] = [data |-> c, ver |-> v]]
    /\ sig' = f
    /\ version' = IF v >= version THEN v ELSE version
    /\ IF v = version' THEN chain' = MarkedSaved(ch) /\ dbState' = "CLEAN"
                       ELSE chain' = ch /\ dbState' = st
    /\ content' = c

(* Mutant: a write in any format leaves the database clean. *)
WriteFileCleaning(ch, c, st, f, v, updateSig) ==
    /\ disk' = [disk EXCEPT ![f] = [data |-> c, ver |-> v]]
    /\ sig' = IF updateSig THEN f ELSE sig
    /\ version' = IF v >= version THEN v ELSE version
    /\ chain' = MarkedSaved(ch) /\ dbState' = "CLEAN"
    /\ content' = c

(* PWScore::WriteFile of content c to file f succeeds.                     *)
WriteFile(ch, c, st, f, v, updateSig) ==
    /\ disk' = [disk EXCEPT ![f] = [data |-> c, ver |-> v]]
    /\ sig' = IF updateSig THEN f ELSE sig
    /\ version' = IF v >= version THEN v ELSE version
    /\ IF v = version' THEN chain' = MarkedSaved(ch) /\ dbState' = "CLEAN"
                       ELSE chain' = ch /\ dbState' = st
    /\ content' = c

(* WriteFile fails: the signature is already gone.  The file is as it was  *)
(* (an intermediate backup is renamed back to it) or left half written.    *)
WriteFails(ch, c, st, f, halfWritten) ==
    /\ disk' = IF halfWritten THEN [disk EXCEPT ![f].data = NoData] ELSE disk
    /\ sig' = NoFile
    /\ chain' = ch /\ content' = c /\ dbState' = st
    /\ UNCHANGED version

(* ui/wxWidgets disables most of its File menu for an Untitled database. *)
FileSet == FrontEnd = "wx" => cur # NoFile

(* Is the file to be written backed up?  When the backup is refused, or    *)
(* fails, an immediate save of ui/wxWidgets may go on without it; any      *)
(* other is given up, also the immediate one of ui/Windows.                *)
BackupOutcomes(immediate) ==
    {backedUp \in BOOLEAN :
        IF backedUp THEN BackupFirst /\ ~BackupRefused
                    ELSE ~BackupFirst \/ (immediate /\ FrontEnd = "wx")}

(* The front ends' Save. *)
SaveOf(ch, c, st, immediate) ==
    \/ /\ BackupOutcomes(immediate) # {}
       /\ WriteFile(ch, c, st, cur, SaveVersion, TRUE)
    \/ \E backedUp \in BackupOutcomes(immediate), halfWritten \in BOOLEAN :
        /\ IF halfWritten THEN ~backedUp /\ "garble" \in Risky
                          ELSE backedUp \/ "unopened" \in Risky
        /\ WriteFails(ch, c, st, cur, halfWritten)
    \/ BackupFirst /\ Unwritten(ch, c, st)

(* Mutant: the front end is told before the new state is set. *)
NotifyEarly(ch, c, st, told) ==
    LET saves == told /\ SaveImmediately /\ cur # NoFile /\ dbState = "DIRTY"
    IN  \/ saves /\ SaveOf(ch, c, st, TRUE)
        \/ ~saves /\ Unwritten(ch, c, st)

(* NotifyDBModified: told to save immediately, ui/wxWidgets saves a dirty   *)
(* database and ui/Windows any; of an Untitled one the user is asked a name *)
(* and may decline (accepting is SaveAs taken next).                        *)
Notify(ch, c, st, told) ==
    LET saves == told /\ SaveImmediately /\ cur # NoFile /\ (st = "DIRTY" \/ FrontEnd = "mfc")
    IN  \/ saves /\ SaveOf(ch, c, st, TRUE)
        \/ ~saves /\ Unwritten(ch, c, st)

-----------------------------------------------------------------------------
(* Commands. *)

(* PWScore::Execute of a command that makes the content new. *)
ExecuteCommand(new, told) ==
    LET cmd == [old |-> content, new |-> new, changed |-> TRUE]
    IN  Notify(Executed(cmd, dbState, "DIRTY"), new, "DIRTY", told)

MayExecute ==
    /\ phase = "open" /\ ~readOnly
    /\ chain.redo <= MaxCommands
    /\ UNCHANGED <<cur, readOnly, phase>>

Execute ==
    /\ MayExecute
    /\ \E new \in Contents : ExecuteCommand(new, notify)
    /\ UNCHANGED notify

(* A command of which WasDBChanged() is FALSE leaves the database "clean". *)
ExecuteNothing ==
    /\ MayExecute
    /\ dbState = "CLEAN" \/ "noop" \in Risky
    /\ LET cmd == [old |-> content, new |-> content, changed |-> FALSE]
       IN  Notify(Executed(cmd, dbState, "CLEAN"), content, "CLEAN", notify)
    /\ UNCHANGED notify

(* PWScore::Synchronize, and the deletion of a row in the grid of          *)
(* ui/wxWidgets: notifications resume after the command.                   *)
ExecuteSuspended ==
    /\ MayExecute /\ "suspend" \in Risky
    /\ \E new \in Contents : ExecuteCommand(new, FALSE)
    /\ notify' = TRUE

(* DoPreferencesClick of ui/wxWidgets: and are suspended after this one. *)
ChangeOptions ==
    /\ MayExecute /\ "suspend" \in Risky /\ FrontEnd = "wx" /\ cur # NoFile
    /\ \E new \in Contents : ExecuteCommand(new, TRUE)
    /\ notify' = FALSE

(* PWScore::Undo.  With nothing to undo it dereferences end(). *)
CoreUndo ==
    \/ /\ chain.undo \in DOMAIN chain.cmds
       /\ \E c \in AfterUndo(chain.cmds[chain.undo], content) :
            Notify(Undone, c, chain.states[chain.undoState].before, notify)
       /\ UNCHANGED phase
    \/ /\ chain.undo \notin DOMAIN chain.cmds
       /\ phase' = "undefined"
       /\ UNCHANGED <<chain, dbState, content, version, sig, disk>>

Undo ==
    /\ phase = "open" /\ AnyToUndo
    /\ CoreUndo
    /\ UNCHANGED <<cur, readOnly, notify>>

Redo ==
    /\ phase = "open" /\ AnyToRedo
    /\ \E c \in AfterRedo(chain.cmds[chain.redo], content) :
        Notify(Redone, c, chain.states[chain.redoState].after, notify)
    /\ UNCHANGED <<cur, readOnly, notify, phase>>

-----------------------------------------------------------------------------
(* The database and its file.  Wherever the front end first offers to save *)
(* (SaveIfChanged) the user can decline; accepting is Save taken before.   *)

(* A New that cannot write its file has made it the current one all the    *)
(* same, and leaves it so.                                                 *)
New ==
    /\ phase \in {"closed", "open"}
    /\ \E f \in Files \ {cur} :
        /\ cur' = f
        /\ \/ /\ disk' = [disk EXCEPT ![f] = [data |-> NewContent, ver |-> 3]]
              /\ sig' = f
           \/ /\ "new" \in Risky
              /\ disk' \in {disk, [disk EXCEPT ![f].data = NoData]}
              /\ sig' = NoFile
    /\ chain' = EmptyChain
    /\ dbState' = "CLEAN"
    /\ content' = NewContent
    /\ version' = 3
    /\ readOnly' = FALSE
    /\ phase' = "open"
    /\ UNCHANGED notify

(* Mutant: a file that cannot be read leaves an empty database open. *)
ReadAnything(f) ==
    /\ content' = disk[f].data
    /\ version' = disk[f].ver
    /\ dbState' = "CLEAN"
    /\ UNCHANGED disk

(* ReadFile: ClearDBData, then the content of the file.  The chain stays.  *)
(* Files in a format before V30 are only ever written here.                *)
ReadFile(f) ==
    /\ disk[f].data \in Contents /\ disk[f].ver >= 3
    /\ content' = disk[f].data
    /\ version' = disk[f].ver
    /\ dbState' = "CLEAN"
    /\ UNCHANGED disk

(* Opening another database.  ui/Windows calls ReInit first. *)
Open ==
    /\ phase \in {"closed", "open"}
    /\ \E f \in Files \ {cur} :
        /\ ReadFile(f)
        /\ cur' = f
        /\ sig' = f
    /\ chain' = IF FrontEnd = "mfc" THEN EmptyChain ELSE chain
    /\ readOnly' \in (IF FrontEnd = "wx" /\ phase = "open" THEN {readOnly} ELSE BOOLEAN)
    /\ notify' = TRUE
    /\ phase' = "open"

(* Restore: a backup becomes an Untitled database. *)
Restore ==
    /\ phase = "open" /\ "restore" \in Risky
    /\ IF FrontEnd = "wx" THEN FileSet ELSE ~readOnly
    /\ \E f \in Files :
        ReadFile(f) /\ sig' = IF f = cur \/ FrontEnd = "wx" THEN f ELSE sig
    /\ cur' = NoFile
    /\ chain' = EmptyChain
    /\ phase' = "open"
    /\ UNCHANGED <<readOnly, notify>>

Close ==
    /\ phase = "open" /\ cur # NoFile
    /\ chain' = EmptyChain
    /\ dbState' = "CLEAN"
    /\ content' = NoData
    /\ cur' = NoFile
    /\ readOnly' = FALSE
    /\ phase' = "closed"
    /\ UNCHANGED <<version, sig, disk, notify>>

Save ==
    /\ phase = "open" /\ ~readOnly /\ cur # NoFile
    /\ SaveOf(chain, content, dbState, FALSE)
    /\ UNCHANGED <<cur, readOnly, notify, phase>>

(* Save As.  When it fails the signature is that of no file. *)
SaveAs ==
    /\ phase = "open" /\ FileSet
    /\ \E f \in Files \ {cur} :
        \/ /\ WriteFile(chain, content, dbState, f, SaveVersion, TRUE)
           /\ cur' = f
           /\ readOnly' = FALSE
        \/ /\ "saveas" \in Risky
           /\ \E halfWritten \in BOOLEAN :
                WriteFails(chain, content, dbState, f, halfWritten)
           /\ UNCHANGED <<cur, readOnly>>
    /\ UNCHANGED <<notify, phase>>

(* Make Backup: WriteFile to another file, without a new signature. *)
Backup ==
    /\ phase = "open" /\ FileSet
    /\ dbState = "CLEAN" \/ "backup" \in Risky
    /\ \E f \in Files \ {cur} :
        WriteFile(chain, content, dbState, f, version, FALSE)
    /\ UNCHANGED <<cur, readOnly, notify, phase>>

(* OnExportVx: WriteFile in another format; ui/wxWidgets has none for V30, *)
(* and lets the signature default to that of the exported file.            *)
Exportable == IF FrontEnd = "wx" THEN {2, 4} ELSE Versions \ {version}

Export ==
    /\ phase = "open" /\ FileSet
    /\ \E f \in Files \ {cur}, v \in Exportable :
        /\ v < version \/ "export" \in Risky
        /\ WriteFile(chain, content, dbState, f, v, FrontEnd = "wx")
    /\ UNCHANGED <<cur, readOnly, notify, phase>>

(* Mutant: locking clears the database without saving it. *)
LockUnsaved ==
    /\ phase = "open" /\ cur # NoFile
    /\ UNCHANGED <<chain, disk, sig, version, cur, readOnly, notify>>
    /\ dbState' = "CLEAN"
    /\ content' = NoData
    /\ phase' = "locked"

(* Locking saves a dirty database and clears it, but not the commands. *)
Lock ==
    /\ phase = "open" /\ cur # NoFile
    /\ \/ /\ dbState = "CLEAN"
          /\ UNCHANGED <<chain, disk, sig, version>>
       \/ /\ dbState = "DIRTY" /\ ~readOnly /\ ~BackupRefused
          /\ disk' = [disk EXCEPT ![cur] = [data |-> content, ver |-> SaveVersion]]
          /\ sig' = cur
          /\ version' = SaveVersion
          /\ chain' = MarkedSaved(chain)
    /\ dbState' = "CLEAN"
    /\ content' = NoData
    /\ phase' = "locked"
    /\ UNCHANGED <<cur, readOnly, notify>>

Unlock ==
    /\ phase = "locked"
    /\ ReadFile(cur)
    /\ sig' = cur
    /\ phase' = "open"
    /\ notify' = (notify \/ FrontEnd = "wx")
    /\ UNCHANGED <<chain, cur, readOnly>>

-----------------------------------------------------------------------------
(* ChangeMode. *)

ToReadOnly ==
    /\ phase = "open" /\ ~readOnly /\ cur # NoFile
    /\ dbState = "CLEAN"
    /\ chain' = EmptyChain
    /\ readOnly' = TRUE
    /\ UNCHANGED <<dbState, content, version, cur, sig, disk, notify, phase>>

(* The user declines to save: undo until the database is clean again. *)
BackOut ==
    /\ phase = "open" /\ ~readOnly /\ cur # NoFile
    /\ dbState = "DIRTY" /\ "backout" \in Risky
    /\ phase' = "backingOut"
    /\ UNCHANGED <<chain, dbState, content, version, cur, sig, disk, readOnly, notify>>

BackOutStep ==
    /\ phase = "backingOut" /\ dbState = "DIRTY"
    /\ CoreUndo
    /\ UNCHANGED <<cur, readOnly, notify>>

BackOutDone ==
    /\ phase = "backingOut" /\ dbState = "CLEAN"
    /\ chain' = EmptyChain
    /\ readOnly' = TRUE
    /\ phase' = "open"
    /\ UNCHANGED <<dbState, content, version, cur, sig, disk, notify>>

(* R/O to R/W compares the file with *m_pFileSig, null after a failed write. *)
ToReadWrite ==
    /\ phase = "open" /\ readOnly /\ cur # NoFile
    /\ IF sig = NoFile THEN phase' = "undefined" /\ UNCHANGED readOnly
       ELSE sig = cur /\ readOnly' = FALSE /\ UNCHANGED phase
    /\ UNCHANGED <<chain, dbState, content, version, cur, sig, disk, notify>>

-----------------------------------------------------------------------------
Init ==
    /\ chain = EmptyChain
    /\ dbState = "CLEAN"
    /\ content = NoData
    /\ version = 3
    /\ cur = NoFile
    /\ sig = NoFile
    /\ disk \in [Files -> [data : {NewContent, NoData}, ver : {3}]]
    /\ readOnly = FALSE
    /\ notify = FALSE
    /\ phase = "closed"

Next ==
    \/ Execute \/ ExecuteNothing \/ ExecuteSuspended \/ ChangeOptions
    \/ Undo \/ Redo
    \/ New \/ Open \/ Restore \/ Close
    \/ Save \/ SaveAs \/ Backup \/ Export
    \/ Lock \/ Unlock
    \/ ToReadOnly \/ BackOut \/ BackOutStep \/ BackOutDone \/ ToReadWrite

Spec == Init /\ [][Next]_vars

-----------------------------------------------------------------------------
(* Properties. *)

(* Every variable has its type; the content is in memory exactly while the *)
(* database is open, and a locked database has a file to be read from.     *)
TypeOK ==
    /\ chain \in Chains
    /\ dbState \in States
    /\ content \in IF phase \in {"closed", "locked"} THEN {NoData} ELSE Contents
    /\ version \in Versions
    /\ cur \in Files \cup {NoFile}
    /\ sig \in Files \cup {NoFile}
    /\ disk \in [Files -> FileData]
    /\ readOnly \in BOOLEAN
    /\ notify \in BOOLEAN
    /\ phase \in Phases
    /\ phase = "locked" => cur # NoFile

InStep(ch) ==
    LET n == Len(ch.cmds)
    IN  /\ Len(ch.states) = n
        /\ ch.undoState = ch.undo
        /\ ch.redoState = ch.redo
        /\ ch.redo \in 1..(n + 1)
        /\ ch.undo = IF ch.redo = 1 THEN n + 1 ELSE ch.redo - 1

(* The four iterators of PWScore stay in step: the states vector is as     *)
(* long as the commands vector, its iterators point where those of the     *)
(* commands do, and the next command to redo is the one after the next to  *)
(* undo.  Execute, Undo, Redo and ClearCommands each move them by hand.    *)
IteratorsInStep == InStep(chain)

(* The content chain ch leads to after its first i commands. *)
ContentAfter(ch, i) == IF i = 0 THEN ch.cmds[1].old ELSE ch.cmds[i].new

LeadsTo(ch, c) ==
    /\ \A i \in DOMAIN ch.cmds :
        /\ i > 1 => ch.cmds[i].old = ch.cmds[i - 1].new
        /\ ~ch.cmds[i].changed => ch.cmds[i].old = ch.cmds[i].new
    /\ ch.cmds # <<>> => c = ContentAfter(ch, ch.redo - 1)

(* A command always starts from the content the one before it left, and    *)
(* the content in memory is the one the commands executed lead to: so the  *)
(* next Undo or Redo is applied to the content it was recorded for, after  *)
(* an unlock as well as before the lock.                                   *)
ChainLeadsToContent ==
    phase \in {"open", "backingOut"} => LeadsTo(chain, content)

(* HasDBChanged() is FALSE only while the database file holds the content  *)
(* in memory: what a front end does not offer to save is saved.            *)
CleanIsSaved ==
    (phase \in {"open", "backingOut"} /\ dbState = "CLEAN") =>
        cur # NoFile /\ disk[cur].data = content

(* What the states kept beside the commands say of the data in the file. *)
StatesTell(ch, data) ==
    \A i \in DOMAIN ch.cmds :
        /\ ch.states[i].before = "CLEAN" => ch.cmds[i].old = data
        /\ ch.states[i].after = "CLEAN" => ch.cmds[i].new = data

(* Every position the chain can be moved to, now or after an unlock, and   *)
(* that is marked CLEAN is the content the file holds: the inductive       *)
(* invariant behind CleanIsSaved.                                          *)
PositionsTellTruth ==
    phase \in {"open", "backingOut", "locked"} =>
        /\ cur # NoFile
        /\ LeadsTo(chain, IF phase = "locked" THEN disk[cur].data ELSE content)
        /\ StatesTell(chain, disk[cur].data)

(* Locking clears the database without asking, and loses no change: the    *)
(* file holds the content that is cleared.                                 *)
LockLosesNothing ==
    [][(phase = "open" /\ phase' = "locked") => disk'[cur].data = content]_vars

(* With Save Immediately, notifications on and a disk that works, whatever *)
(* Execute, Undo and Redo do is in the file before they return.            *)
SavedWhenNotified ==
    (SaveImmediately /\ notify /\ phase = "open") => disk[cur].data = content

(* A save is never refused for a file that looks changed by someone else   *)
(* when only this process writes it.                                       *)
NeverRefused == (phase = "open" /\ cur # NoFile) => ~BackupRefused

(* Is there a clean position for the undos to reach? *)
CleanBehind == \E i \in 1..(chain.redo - 1) : chain.states[i].before = "CLEAN"

(* Backing out does not undo for ever; and where the chain has a clean     *)
(* position at or behind the current one, it ends there, with the database *)
(* open and read-only, and never undoes past it to the end() of the chain. *)
BackOutEnds ==
    /\ phase = "backingOut" ~> phase # "backingOut"
    /\ (phase = "backingOut" /\ (dbState = "CLEAN" \/ CleanBehind)) ~>
            (phase = "open" /\ readOnly)

(* The document of UndoDocument that a chain is: the contents its commands *)
(* lead through, or the only one there is, which may be locked.            *)
HistoryOf(ch, c) ==
    IF ch.cmds # <<>>
    THEN <<ch.cmds[1].old>> \o [i \in DOMAIN ch.cmds |-> ch.cmds[i].new]
    ELSE <<c>>

History == HistoryOf(chain, IF phase = "locked" THEN disk[cur].data ELSE content)

Visible == phase \in {"open", "backingOut", "undefined"}

Stored == IF cur = NoFile THEN NoData ELSE disk[cur].data

Document == INSTANCE UndoDocument WITH
    history <- History, cursor <- chain.redo, visible <- Visible,
    changed <- dbState = "DIRTY", stored <- Stored

(* The chain implements the document with a linear history: every          *)
(* operation of the front ends changes it, moves in it, stores it, hides   *)
(* it or leaves it as it was, and what it reports unchanged is stored.     *)
ImplementsDocument == Document!Spec

(* The loop of ChangeMode runs to its end: it shows no dialog and waits    *)
(* for nothing.                                                            *)
FairSpec == Spec /\ WF_vars(BackOutStep) /\ WF_vars(BackOutDone)
=============================================================================
