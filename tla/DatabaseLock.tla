---------------------------- MODULE DatabaseLock ----------------------------
(***************************************************************************)
(* Several processes - the wxWidgets program and pwsafe-cli - that open    *)
(* the same databases, and the lock files (.plk) that keep all but one of  *)
(* them from writing: os/unix/file.cpp, the lock operations of PWScore and *)
(* every operation of the front ends that takes, keeps or gives up a lock. *)
(*                                                                         *)
(* A call of pws_os::LockFile is several system calls, and a step here is  *)
(* one of them: other processes run, and any process may be killed, in     *)
(* between.  A lock file holds "user@host:pid"; process numbers are not    *)
(* reused.  What a database contains is abstracted to whether the copy a   *)
(* process has is the one in the file.                                     *)
(***************************************************************************)

CONSTANTS
    Procs,     \* processes
    Account,   \* the user and host of each process
    Files,     \* database files
    Locks,     \* lock files
    LockOf,    \* the lock file of a database: GetLockFileName
    NoFile,    \* no database
    Nobody,    \* no lock file
    NoPid,     \* a lock file nothing was written to yet
    Risky      \* which of RiskyKinds happen

(***************************************************************************)
(* What the locking does not withstand:                                    *)
(*   open     File > Open and the list of recent databases                 *)
(*   restore  Manage > Restore                                             *)
(*   remove   the user has the lock of "yourself" removed                  *)
(*   race     another process acts between the two halves of TryUnlockFile *)
(*   signal   SIGTERM while the first dialog asks for a passphrase         *)
(*   cli      pwsafe-cli                                                   *)
(*   unwritten  the file of a new database cannot be written               *)
(***************************************************************************)
RiskyKinds == {"open", "restore", "remove", "race", "signal", "cli", "unwritten"}

ASSUME LockConstants ==
    /\ DOMAIN Account = Procs
    /\ LockOf \in [Files -> Locks]
    /\ NoFile \notin Files
    /\ Nobody \notin Procs
    /\ NoPid \notin Procs
    /\ Nobody # NoPid
    /\ Risky \subseteq RiskyKinds

VARIABLES
    owner,     \* what each lock file holds
    orphans,   \* the lock files whose process is no more
    running,   \* the processes that run
    cur,       \* m_currfile of each process
    readOnly,  \* m_bIsReadOnly of each process
    fresh,     \* the processes whose data, or m_pFileSig, is that of the file
    op,        \* the operation a process is in
    at,        \* how far its call of LockFile is
    target     \* the database that call is about

vars == <<owner, orphans, running, cur, readOnly, fresh, op, at, target>>
lockVars == <<owner, orphans>>
dbVars == <<running, cur, readOnly, fresh>>
callVars == <<op, at, target>>

(* "dialog" is SafeCombinationEntryDlg, "open" and "first" its OK and New. *)
Ops == {"none", "dialog", "open", "open2", "first", "first2", "new", "new2",
        "saveas", "mode", "cli"}
Steps == {"rest", "check", "unlink", "create", "write", "locked", "denied"}

(* The operation that goes on once the user had the lock removed. *)
Again == [open |-> "open2", first |-> "first2", new |-> "new2", mode |-> "mode"]

Holders == Procs \cup {Nobody, NoPid}

-----------------------------------------------------------------------------
(* What the operations are made of. *)

(* unlink of the lock files S. *)
Unlink(S) ==
    /\ owner' = [l \in Locks |-> IF l \in S THEN Nobody ELSE owner[l]]
    /\ orphans' = orphans \ S

(* The lock SafeUnlockFile(f) removes. *)
SafeUnlockFile(p, f) == IF f # NoFile /\ ~readOnly[p] THEN {LockOf[f]} ELSE {}

Begin(p, o, f) ==
    /\ op' = [op EXCEPT ![p] = o]
    /\ at' = [at EXCEPT ![p] = "check"]
    /\ target' = [target EXCEPT ![p] = f]

Rest(p, o) ==
    /\ op' = [op EXCEPT ![p] = o]
    /\ at' = [at EXCEPT ![p] = "rest"]
    /\ target' = [target EXCEPT ![p] = NoFile]

GoOn(p, step) == at' = [at EXCEPT ![p] = step] /\ UNCHANGED <<op, target>>

(* p's database is now f, in the given mode; its copy is fresh. *)
Opened(p, f, ro) ==
    /\ cur' = [cur EXCEPT ![p] = f]
    /\ readOnly' = [readOnly EXCEPT ![p] = ro]
    /\ fresh' = fresh \cup {p}
    /\ UNCHANGED running

(* Those left with their own copy when p writes f. *)
AfterWrite(p, f) == {q \in fresh : cur[q] # f} \cup {p}

(* p writes f, which becomes its database. *)
Written(p, f) ==
    /\ cur' = [cur EXCEPT ![p] = f]
    /\ readOnly' = [readOnly EXCEPT ![p] = FALSE]
    /\ fresh' = AfterWrite(p, f)
    /\ UNCHANGED running

(* p cannot write the new database f, and keeps its name and its lock: the *)
(* file is as it was, or damaged.                                          *)
Unwritten(p, f) ==
    /\ "unwritten" \in Risky
    /\ cur' = [cur EXCEPT ![p] = f]
    /\ readOnly' = [readOnly EXCEPT ![p] = FALSE]
    /\ fresh' \in {fresh \ {p}, AfterWrite(p, f) \ {p}}
    /\ UNCHANGED running

(* Mutant: a process that ended still counts. *)
EndUnnoticed(p, S) ==
    /\ Unlink(S)
    /\ running' = running \ {p}
    /\ UNCHANGED <<cur, readOnly, fresh>>
    /\ Rest(p, "none")

(* p ends and removes the lock files S; others it left become orphans. *)
End(p, S) ==
    /\ owner' = [l \in Locks |-> IF l \in S THEN Nobody ELSE owner[l]]
    /\ orphans' = (orphans \cup {l \in Locks : owner[l] = p}) \ S
    /\ running' = running \ {p}
    /\ cur' = [cur EXCEPT ![p] = NoFile]
    /\ readOnly' = [readOnly EXCEPT ![p] = FALSE]
    /\ fresh' = fresh \ {p}
    /\ Rest(p, "none")

Idle(p) == p \in running /\ op[p] = "none" /\ at[p] = "rest"
InDialog(p) == p \in running /\ op[p] = "dialog" /\ at[p] = "rest"
Calling(p, step) == p \in running /\ at[p] = step

-----------------------------------------------------------------------------
(* pws_os::LockFile, one system call at a time. *)

(* Mutant: TryUnlockFile does not ask whether the process exists. *)
OrphanOfAnybody(p, l) ==
    /\ owner[l] \in Procs
    /\ Account[owner[l]] = Account[p]

(* TryUnlockFile's test: same user, same machine, process not found. *)
IsOrphan(p, l) ==
    /\ owner[l] \in Procs
    /\ l \in orphans
    /\ Account[owner[l]] = Account[p]

(* Mutant: no orphan is ever removed, as in os/mac/file.cpp. *)
TryUnlockNothing(p) ==
    /\ Calling(p, "check")
    /\ GoOn(p, "create")
    /\ UNCHANGED <<lockVars, dbVars>>

(* IsLockedFile and TryUnlockFile, which reads the lock file again; with   *)
(* "race" its unlink is a step of its own.                                 *)
TryUnlock(p) ==
    LET l == LockOf[target[p]]
    IN  /\ Calling(p, "check")
        /\ \/ /\ IsOrphan(p, l) /\ "race" \notin Risky
              /\ Unlink({l}) /\ GoOn(p, "create")
           \/ /\ IsOrphan(p, l) /\ "race" \in Risky
              /\ GoOn(p, "unlink") /\ UNCHANGED lockVars
           \/ /\ ~IsOrphan(p, l)
              /\ GoOn(p, "create") /\ UNCHANGED lockVars
        /\ UNCHANGED dbVars

UnlinkOrphan(p) ==
    /\ Calling(p, "unlink")
    /\ Unlink({LockOf[target[p]]})
    /\ GoOn(p, "create")
    /\ UNCHANGED dbVars

(* Mutant: open without O_EXCL. *)
CreateAnyway(p) ==
    /\ Calling(p, "create")
    /\ owner' = [owner EXCEPT ![LockOf[target[p]]] = NoPid]
    /\ orphans' = orphans \ {LockOf[target[p]]}
    /\ GoOn(p, "write")
    /\ UNCHANGED dbVars

(* open(O_CREAT | O_EXCL). *)
CreateLock(p) ==
    LET l == LockOf[target[p]]
    IN  /\ Calling(p, "create")
        /\ \/ /\ owner[l] = Nobody
              /\ owner' = [owner EXCEPT ![l] = NoPid]
              /\ orphans' = orphans \ {l}
              /\ GoOn(p, "write")
           \/ /\ owner[l] # Nobody
              /\ GoOn(p, "denied")
              /\ UNCHANGED lockVars
        /\ UNCHANGED dbVars

(* The write of "user@host:pid" into the file created. *)
WriteLock(p) ==
    /\ Calling(p, "write")
    /\ owner' = [owner EXCEPT ![LockOf[target[p]]] = p]
    /\ GoOn(p, "locked")
    /\ UNCHANGED <<orphans, dbVars>>

LockFile(p) ==
    TryUnlock(p) \/ UnlinkOrphan(p) \/ CreateLock(p) \/ WriteLock(p)

-----------------------------------------------------------------------------
(* The wxWidgets front end. *)

(* The program starts on the database of its command line or last session, *)
(* with -r or not: m_currfile is set before anything is locked.            *)
StartDialog(p, f, ro) ==
    /\ p \notin running
    /\ running' = running \cup {p}
    /\ cur' = [cur EXCEPT ![p] = f]
    /\ readOnly' = [readOnly EXCEPT ![p] = ro]
    /\ Rest(p, "dialog")
    /\ UNCHANGED <<lockVars, fresh>>

(* It starts minimised or closed: no dialog and no database. *)
StartClosed(p, ro) ==
    /\ p \notin running
    /\ running' = running \cup {p}
    /\ readOnly' = [readOnly EXCEPT ![p] = ro]
    /\ UNCHANGED <<lockVars, cur, fresh, callVars>>

(* OK in the dialog, read-only not checked. *)
DialogOpen(p, f) ==
    InDialog(p) /\ Begin(p, "open", f) /\ UNCHANGED <<lockVars, dbVars>>

DialogOpenReadOnly(p, f) ==
    InDialog(p) /\ Opened(p, f, TRUE) /\ Rest(p, "none") /\ UNCHANGED lockVars

(* New in the dialog sets m_currfile, then locks it. *)
DialogNew(p, f) ==
    /\ InDialog(p)
    /\ cur' = [cur EXCEPT ![p] = f]
    /\ Begin(p, "first", f)
    /\ UNCHANGED <<lockVars, running, readOnly, fresh>>

(* The dialog cancelled: OnExit unlocks nothing, m_initComplete is false. *)
DialogCancel(p) == InDialog(p) /\ End(p, {})

(* File > New, to the call of LockFile. *)
New(p, f) ==
    Idle(p) /\ Begin(p, "new", f) /\ UNCHANGED <<lockVars, dbVars>>

(* SaveAs, to the call of LockFile2. *)
SaveAs(p, f) ==
    Idle(p) /\ Begin(p, "saveas", f) /\ UNCHANGED <<lockVars, dbVars>>

(* ChangeMode from read-only, to the call of LockFile. *)
ToReadWrite(p) ==
    /\ Idle(p)
    /\ cur[p] # NoFile
    /\ readOnly[p]
    /\ Begin(p, "mode", cur[p])
    /\ UNCHANGED <<lockVars, dbVars>>

(* ChangeMode to read-only. *)
ToReadOnly(p) ==
    /\ Idle(p)
    /\ cur[p] # NoFile
    /\ ~readOnly[p]
    /\ Unlink({LockOf[cur[p]]})
    /\ readOnly' = [readOnly EXCEPT ![p] = TRUE]
    /\ UNCHANGED <<running, cur, fresh, callVars>>

(* PasswordSafeFrame::Open: no lock is taken, and SafeUnlockFile of the    *)
(* database before goes by the mode there is now.  The read may fail.      *)
Open(p, f) ==
    /\ "open" \in Risky
    /\ Idle(p)
    /\ f # cur[p]
    /\ cur' = [cur EXCEPT ![p] = f]
    /\ \/ Unlink(SafeUnlockFile(p, cur[p])) /\ fresh' = fresh \cup {p}
       \/ fresh' = fresh \ {p} /\ UNCHANGED lockVars
    /\ UNCHANGED <<running, readOnly, callVars>>

(* OnRestoreSafe: the prompt makes the backup m_currfile, which is the     *)
(* file unlocked; then the database is Untitled.                           *)
Restore(p, backup) ==
    /\ "restore" \in Risky
    /\ Idle(p)
    /\ Unlink(SafeUnlockFile(p, backup))
    /\ cur' = [cur EXCEPT ![p] = NoFile]
    /\ fresh' = fresh \ {p}
    /\ UNCHANGED <<running, readOnly, callVars>>

(* Save and SaveImmediately. *)
Save(p) ==
    /\ Idle(p)
    /\ cur[p] # NoFile
    /\ ~readOnly[p]
    /\ fresh' = AfterWrite(p, cur[p])
    /\ UNCHANGED <<lockVars, running, cur, readOnly, callVars>>

(* UnlockSafe reads the database again. *)
Reload(p) ==
    /\ Idle(p)
    /\ cur[p] # NoFile
    /\ fresh' = fresh \cup {p}
    /\ UNCHANGED <<lockVars, running, cur, readOnly, callVars>>

CloseDB(p) ==
    /\ Idle(p)
    /\ cur[p] # NoFile
    /\ Unlink(SafeUnlockFile(p, cur[p]))
    /\ cur' = [cur EXCEPT ![p] = NoFile]
    /\ readOnly' = [readOnly EXCEPT ![p] = FALSE]
    /\ fresh' = fresh \ {p}
    /\ UNCHANGED <<running, callVars>>

(* OnCloseWindow and OnExit. *)
Quit(p) == Idle(p) /\ End(p, SafeUnlockFile(p, cur[p]))

(* cleanup_handler, in whatever the process is doing. *)
Signal(p) ==
    /\ p \in running
    /\ op[p] # "cli"
    /\ op[p] \in {"dialog", "open", "open2", "first", "first2"} => "signal" \in Risky
    /\ End(p, SafeUnlockFile(p, cur[p]))

(* kill -9, a crash of the program or of its machine. *)
Crash(p) == p \in running /\ End(p, {})

-----------------------------------------------------------------------------
(* What becomes of an operation once it has its lock ... *)

(* ProcessPhrase, then Load reads the database. *)
OpenLocked(p) ==
    /\ Calling(p, "locked")
    /\ op[p] \in {"open", "open2"}
    /\ Opened(p, target[p], FALSE)
    /\ Rest(p, "none")
    /\ UNCHANGED lockVars

(* DoNewDbClick writes the empty database, or returns to the dialog. *)
FirstLocked(p) ==
    /\ Calling(p, "locked")
    /\ op[p] \in {"first", "first2"}
    /\ \/ Written(p, target[p]) /\ Rest(p, "none")
       \/ Unwritten(p, target[p]) /\ Rest(p, "dialog")
    /\ UNCHANGED lockVars

(* NewFile gives up the database before, New writes the new one or fails. *)
NewLocked(p) ==
    /\ Calling(p, "locked")
    /\ op[p] \in {"new", "new2"}
    /\ Unlink(SafeUnlockFile(p, cur[p]))
    /\ Written(p, target[p]) \/ Unwritten(p, target[p])
    /\ Rest(p, "none")

(* Mutant: a failed Save As keeps the lock of the new file. *)
SaveAsKeepingLock(p) ==
    /\ Calling(p, "locked")
    /\ op[p] = "saveas"
    /\ \/ Unlink(SafeUnlockFile(p, cur[p])) /\ Written(p, target[p])
       \/ UNCHANGED <<lockVars, dbVars>>
    /\ Rest(p, "none")

(* SaveAs writes the new file and moves to it, or fails to write it. *)
SaveAsLocked(p) ==
    /\ Calling(p, "locked")
    /\ op[p] = "saveas"
    /\ \/ Unlink(SafeUnlockFile(p, cur[p])) /\ Written(p, target[p])
       \/ Unlink({LockOf[target[p]]}) /\ UNCHANGED dbVars
    /\ Rest(p, "none")

(* Mutant: ChangeMode does not compare the signatures. *)
ModeUnchecked(p) ==
    /\ Calling(p, "locked")
    /\ op[p] = "mode"
    /\ readOnly' = [readOnly EXCEPT ![p] = FALSE]
    /\ Rest(p, "none")
    /\ UNCHANGED <<lockVars, running, cur, fresh>>

(* ChangeMode: DB_HAS_CHANGED if the file's signature is not m_pFileSig. *)
ModeLocked(p) ==
    /\ Calling(p, "locked")
    /\ op[p] = "mode"
    /\ \/ /\ p \in fresh
          /\ readOnly' = [readOnly EXCEPT ![p] = FALSE]
          /\ UNCHANGED lockVars
       \/ /\ p \notin fresh
          /\ Unlink({LockOf[target[p]]})
          /\ UNCHANGED readOnly
    /\ Rest(p, "none")
    /\ UNCHANGED <<running, cur, fresh>>

(* ... and once it is refused. *)

(* Mutant: ProcessPhrase opens read/write all the same. *)
OpenDeniedWriting(p) ==
    /\ Calling(p, "denied")
    /\ op[p] \in {"open", "open2"}
    /\ Opened(p, target[p], FALSE)
    /\ Rest(p, "none")
    /\ UNCHANGED lockVars

(* ProcessPhrase opens read-only. *)
OpenDenied(p) ==
    /\ Calling(p, "denied")
    /\ op[p] \in {"open", "open2"}
    /\ Opened(p, target[p], TRUE)
    /\ Rest(p, "none")
    /\ UNCHANGED lockVars

(* The others say so; New in the first dialog keeps its m_currfile. *)
OtherDenied(p) ==
    /\ Calling(p, "denied")
    /\ op[p] \in {"first", "first2", "new", "new2", "saveas", "mode"}
    /\ Rest(p, IF op[p] \in {"first", "first2"} THEN "dialog" ELSE "none")
    /\ UNCHANGED <<lockVars, dbVars>>

(* "Lock is done by yourself": the user has it removed and tries again. *)
RemoveOwnLock(p) ==
    LET l == LockOf[target[p]]
    IN  /\ "remove" \in Risky
        /\ Calling(p, "denied")
        /\ op[p] \in DOMAIN Again
        /\ owner[l] \in Procs
        /\ Account[owner[l]] = Account[p]
        /\ Unlink({l})
        /\ Begin(p, Again[op[p]], target[p])
        /\ UNCHANGED dbVars

Outcome(p) ==
    OpenLocked(p) \/ FirstLocked(p) \/ NewLocked(p) \/ SaveAsLocked(p) \/ ModeLocked(p)
    \/ OpenDenied(p) \/ OtherDenied(p) \/ RemoveOwnLock(p)

-----------------------------------------------------------------------------
(* pwsafe-cli: one operation on one database. *)

CliStart(p, f) ==
    /\ "cli" \in Risky
    /\ p \notin running
    /\ running' = running \cup {p}
    /\ readOnly' = [readOnly EXCEPT ![p] = FALSE]
    /\ Begin(p, "cli", f)
    /\ UNCHANGED <<lockVars, cur, fresh>>

(* OpenCore has the lock and reads the database. *)
CliLocked(p) ==
    /\ Calling(p, "locked")
    /\ op[p] = "cli"
    /\ Opened(p, target[p], FALSE)
    /\ GoOn(p, "rest")
    /\ UNCHANGED lockVars

(* SaveCore, or nothing on a dry run; then main unlocks the database. *)
CliDone(p) ==
    /\ Calling(p, "rest")
    /\ op[p] = "cli"
    /\ End(p, {LockOf[target[p]]})

CliSave(p) ==
    /\ Calling(p, "rest")
    /\ op[p] = "cli"
    /\ fresh' = AfterWrite(p, cur[p])
    /\ UNCHANGED <<lockVars, running, cur, readOnly, callVars>>

(* OpenCore fails - a wrong passphrase, or the lock - and main unlocks the  *)
(* database all the same.                                                  *)
CliDenied(p) ==
    /\ Calling(p, "check") \/ Calling(p, "denied")
    /\ op[p] = "cli"
    /\ End(p, {LockOf[target[p]]})

Cli(p) == CliLocked(p) \/ CliSave(p) \/ CliDone(p) \/ CliDenied(p)

-----------------------------------------------------------------------------
Init ==
    /\ owner = [l \in Locks |-> Nobody]
    /\ orphans = {}
    /\ running = {}
    /\ cur = [p \in Procs |-> NoFile]
    /\ readOnly = [p \in Procs |-> FALSE]
    /\ fresh = {}
    /\ op = [p \in Procs |-> "none"]
    /\ at = [p \in Procs |-> "rest"]
    /\ target = [p \in Procs |-> NoFile]

User(p) ==
    \/ \E f \in Files :
         \/ \E ro \in BOOLEAN : StartDialog(p, f, ro)
         \/ DialogOpen(p, f) \/ DialogOpenReadOnly(p, f) \/ DialogNew(p, f)
         \/ New(p, f) \/ SaveAs(p, f) \/ Open(p, f) \/ Restore(p, f)
         \/ CliStart(p, f)
    \/ \E ro \in BOOLEAN : StartClosed(p, ro)
    \/ DialogCancel(p) \/ ToReadWrite(p) \/ ToReadOnly(p)
    \/ Save(p) \/ Reload(p) \/ CloseDB(p) \/ Quit(p)

Next ==
    \E p \in Procs :
        User(p) \/ LockFile(p) \/ Outcome(p) \/ Cli(p) \/ Signal(p) \/ Crash(p)

Spec == Init /\ [][Next]_vars

(* The calls of LockFile wait for nothing. *)
FairSpec == Spec /\ \A p \in Procs : WF_vars(LockFile(p))

-----------------------------------------------------------------------------
(* Properties. *)

(* Every variable has its type, and only processes that run have a copy of *)
(* a database: ending takes it away.                                       *)
TypeOK ==
    /\ owner \in [Locks -> Holders]
    /\ orphans \subseteq Locks
    /\ running \subseteq Procs
    /\ cur \in [Procs -> Files \cup {NoFile}]
    /\ readOnly \in [Procs -> BOOLEAN]
    /\ fresh \subseteq running
    /\ op \in [Procs -> Ops]
    /\ at \in [Procs -> Steps]
    /\ target \in [Procs -> Files \cup {NoFile}]

(* p has a database open that it may save.  While the first dialog is up   *)
(* m_currfile names a database that is not open.                           *)
Writes(p) ==
    /\ p \in running
    /\ cur[p] # NoFile
    /\ ~readOnly[p]
    /\ op[p] \notin {"dialog", "open", "open2", "first", "first2"}

(* "Only one R/W access at a time is allowed" (MenuManageHandlers.cpp):    *)
(* no two processes have a database open to write it.                      *)
OneWriter ==
    \A p, q \in Procs : p # q /\ Writes(p) /\ Writes(q) => LockOf[cur[p]] # LockOf[cur[q]]

(* No lost update: whoever may save a database has read, or written, what  *)
(* its file holds.                                                         *)
WritersAreCurrent == \A p \in Procs : Writes(p) => p \in fresh

(* p is between creating the lock file l and the end of its operation. *)
Taking(p, l) ==
    /\ p \in running
    /\ at[p] = "locked"
    /\ LockOf[target[p]] = l

(* "The only way we're the locker is if it's locked & we're !readonly"     *)
(* (PWScore.cpp): the lock file names the process that has the database    *)
(* open to write it, and no lock file is left behind by one that does not. *)
LocksNameWriters ==
    /\ \A p \in Procs : Writes(p) =>
         /\ owner[LockOf[cur[p]]] = p
         /\ LockOf[cur[p]] \notin orphans
    /\ \A l \in Locks \ orphans : owner[l] \in Procs =>
         LET p == owner[l]
         IN  Taking(p, l) \/ (Writes(p) /\ LockOf[cur[p]] = l)

(* A lock file goes only once its process is gone, or gives the database   *)
(* up in the same step; and never while its process still has to write to  *)
(* it ("unlock if locked by pre_op", ui/cli/main.cpp).                     *)
LocksOutliveWriters ==
    [][\A l \in Locks : owner[l] # Nobody /\ owner'[l] = Nobody =>
         \E p \in Procs :
            /\ owner[l] = p
            /\ l \in orphans \/ ~(Writes(p)' /\ LockOf[cur'[p]] = l)]_vars

(* The process that may write what a lock protects. *)
WriterOf(l) ==
    LET writers == {p \in Procs : Writes(p) /\ LockOf[cur[p]] = l}
    IN  IF writers = {} THEN Nobody ELSE CHOOSE p \in writers : TRUE

Exclusive == INSTANCE ExclusiveWriter WITH
    writer <- [l \in Locks |-> WriterOf(l)], current <- fresh

(* The lock files implement exclusive writers: one takes over only where   *)
(* there is none, knowing the file, and only writers change a file.        *)
ImplementsExclusiveWriter == Exclusive!Spec

(* Whoever asks for a lock that names a dead process of the same account   *)
(* sees it go: such an orphan never makes a database read-only.  (A lock   *)
(* file whose process died before writing its name to it is no orphan to   *)
(* IsOrphan, and stays.)                                                   *)
OrphansGo ==
    \A p \in Procs :
        (Calling(p, "check") /\ IsOrphan(p, LockOf[target[p]]))
            ~> (p \notin running \/ (at[p] # "rest" /\ LockOf[target[p]] \notin orphans))
=============================================================================
