----------------------------- MODULE SaveSteps -----------------------------
(***************************************************************************)
(* A database, its intermediate backups (.ibak), and what is on the disk   *)
(* at each step of a save: PasswordSafeFrame::Save with PWScore's          *)
(* BackupCurFile and WriteFile, and pws_os::RenameFile of os/unix.  A step *)
(* is one change of the file system; the program may be killed between any *)
(* two, and started again.                                                 *)
(*                                                                         *)
(* Contents are numbered in the order they were entered: a greater number  *)
(* is a newer database.                                                    *)
(***************************************************************************)
EXTENDS Integers, FiniteSets

CONSTANTS
    Contents,     \* what a database may contain: 0 .. n
    LastNumber,   \* 999: the last number a backup may have
    Times,        \* what MakeDateTimeString returns
    Plain,        \* the name of the backup without suffix
    NoName,       \* bu_fname is empty
    Missing,      \* there is no such file
    Partial,      \* a file that was truncated and not written to its end
    Damaged,      \* damaged behind the program's back, which PWSFileSig sees
    Hidden,       \* the same, outside the bytes PWSFileSig looks at
    NoSig,        \* m_pFileSig is null
    Risky         \* which of RiskyKinds happen

(***************************************************************************)
(* What the save does not withstand:                                       *)
(*   inplace       BackupBeforeEverySave is off                            *)
(*   continue      the user saves though the backup failed (IMMEDIATELY)   *)
(*   restorefails  after a failed save the backup cannot be moved back     *)
(*   older         the user restores a backup that is not the newest       *)
(*   undeleted     an excess backup cannot be deleted                      *)
(*   unsigned      damage while there is no m_pFileSig                     *)
(*   hidden        damage PWSFileSig does not see                          *)
(***************************************************************************)
RiskyKinds == {"inplace", "continue", "restorefails", "older", "undeleted",
               "unsigned", "hidden"}

Numbers == 1 .. LastNumber
Names == Numbers \cup Times \cup {Plain}
Copies == Contents \cup {Missing, Partial, Damaged, Hidden}

ASSUME SaveConstants ==
    /\ Contents \subseteq Nat
    /\ 0 \in Contents
    /\ LastNumber \in Nat \ {0, 1}
    /\ (Times \cup {Plain, NoName}) \cap Int = {}
    /\ Plain \notin Times
    /\ NoName \notin Times \cup {Plain}
    /\ {Missing, Partial, Damaged, Hidden} \cap Contents = {}
    /\ Missing \notin {Partial, Damaged, Hidden} /\ Hidden \notin {Partial, Damaged}
    /\ Partial # Damaged
    /\ NoSig \notin Copies
    /\ Risky \subseteq RiskyKinds

VARIABLES
    db,         \* the database file
    ibak,       \* the backup of each name
    suffix,     \* PWSprefs::BackupSuffix
    maxBackups, \* PWSprefs::BackupMaxIncremented
    mem,        \* what the program has
    clean,      \* m_DBCurrentState is CLEAN
    named,      \* m_currfile is the database: IsDbFileSet
    sig,        \* m_pFileSig
    pc,         \* the step of the save that is next
    bu,         \* bu_fname
    excess      \* the backups ManageIncBackupFiles has still to delete

vars == <<db, ibak, suffix, maxBackups, mem, clean, named, sig, pc, bu, excess>>
prefVars == <<suffix, maxBackups>>
coreVars == <<mem, clean, named, sig>>
callVars == <<pc, bu, excess>>
diskVars == <<db, ibak>>

Steps == {"down", "idle", "trim", "rename", "copy", "unlink", "open", "write",
          "restore", "recopy", "reunlink"}
Suffixes == {0, 1, 2}

Intact(copy) == copy \in Contents

(* The file c is found in an intact copy. *)
OnDisk(c) == db = c \/ \E n \in Names : ibak[n] = c

-----------------------------------------------------------------------------
(* What the save is made of. *)

Found == {n \in Numbers : ibak[n] # Missing}

(* "truncating maxnumincbackups to 998" *)
Limit == IF maxBackups >= LastNumber THEN LastNumber - 1 ELSE maxBackups

(* Mutant: one too many is kept. *)
ExcessButOne == {n \in Found : Cardinality({k \in Found : k > n}) >= Limit}

(* The oldest, until fewer than the limit are left. *)
Excess == {n \in Found : Cardinality({k \in Found : k > n}) >= Limit - 1}

(* Mutant: the first number that is free. *)
FirstFree(n) == n \notin Found /\ \A k \in 1 .. n - 1 : k \in Found

(* n is the number after the last one found: the next backup has it. *)
IsNextNumber(n) ==
    \/ Found = {} /\ n = 1
    \/ n - 1 \in Found /\ \A k \in Found : k < n

(* Mutant: the signature is not compared. *)
AnySig == TRUE

(* BackupCurFile's test: the file is unchanged since it was opened.        *)
SigMatches == sig \in {NoSig, db} \/ db = Hidden

GoTo(step) == pc' = step /\ UNCHANGED <<bu, excess>>

Idle ==
    /\ pc' = "idle"
    /\ bu' = NoName
    /\ excess' = {}

(* WriteFile failed: the backup is moved back, where there is one. *)
Undo == IF bu = NoName THEN Idle ELSE GoTo("restore")

-----------------------------------------------------------------------------
(* The user, and the world. *)

(* A change to the database. *)
Edit ==
    /\ pc = "idle"
    /\ \E c \in Contents :
          /\ \A d \in Contents : (OnDisk(d) \/ d = mem) => d < c
          /\ mem' = c
    /\ clean' = FALSE
    /\ UNCHANGED <<diskVars, prefVars, named, sig, callVars>>

SetPrefs ==
    /\ pc = "idle"
    /\ suffix' \in Suffixes
    /\ maxBackups' \in Numbers
    /\ UNCHANGED <<diskVars, coreVars, callVars>>

(* Something else damages the database. *)
Damage ==
    /\ \/ pc = "down"
       \/ pc = "idle" /\ named /\ (sig # NoSig \/ "unsigned" \in Risky)
    /\ Intact(db)
    /\ db' \in {Damaged} \cup (IF "hidden" \in Risky THEN {Hidden} ELSE {})
    /\ UNCHANGED <<ibak, prefVars, coreVars, callVars>>

Crash ==
    /\ pc # "down"
    /\ pc' = "down"
    /\ bu' = NoName
    /\ excess' = {}
    /\ UNCHANGED <<diskVars, prefVars, coreVars>>

(* Mutant: the signature is that of the database, whatever was read. *)
LoadedUnderItsName(c) ==
    /\ mem' = c
    /\ clean' = TRUE
    /\ sig' = db
    /\ pc' = "idle"
    /\ UNCHANGED <<diskVars, prefVars, bu, excess>>

(* The program has read the file with content c. *)
Loaded(c) ==
    /\ mem' = c
    /\ clean' = TRUE
    /\ sig' = c
    /\ pc' = "idle"
    /\ UNCHANGED <<diskVars, prefVars, bu, excess>>

(* The program starts; only an intact database is opened. *)
Start ==
    /\ pc = "down"
    /\ Intact(db)
    /\ Loaded(db)
    /\ named' = TRUE

(* Manage > Restore, of the newest copy there is unless "older". *)
Recover ==
    /\ pc = "down" \/ (pc = "idle" /\ clean)
    /\ \E n \in Names :
          /\ Intact(ibak[n])
          /\ \/ "older" \in Risky
             \/ \A c \in Contents : OnDisk(c) => c <= ibak[n]
          /\ Loaded(ibak[n])
    /\ named' = FALSE

(* Save As of a restored, Untitled database under the name of the database: *)
(* there is no backup then.                                                *)
SaveAs ==
    /\ pc = "idle"
    /\ ~named
    /\ GoTo("open")
    /\ UNCHANGED <<diskVars, prefVars, coreVars>>

-----------------------------------------------------------------------------
(* Save: the backup ... *)

(* Save without backup; the user may choose that too where BackupCurFile   *)
(* refuses a changed file.  Where the save is cancelled, nothing changes.  *)
SaveInPlace ==
    /\ "inplace" \in Risky \/ ("continue" \in Risky /\ ~SigMatches)
    /\ pc = "idle"
    /\ named
    /\ GoTo("open")
    /\ UNCHANGED <<diskVars, prefVars, coreVars>>

(* BackupCurFile with suffix none or date and time. *)
SaveToName ==
    /\ pc = "idle"
    /\ named
    /\ SigMatches
    /\ \/ suffix = 0 /\ bu' = Plain
       \/ suffix = 1 /\ bu' \in Times
    /\ pc' = "rename"
    /\ UNCHANGED <<diskVars, prefVars, coreVars, excess>>

(* With a number, ManageIncBackupFiles: past the last number the           *)
(* preference becomes the date and time, and nothing is deleted.           *)
SaveToNumber ==
    /\ pc = "idle"
    /\ named
    /\ SigMatches
    /\ suffix = 2
    /\ \/ /\ LastNumber \notin Found
          /\ \E n \in Numbers : IsNextNumber(n) /\ bu' = n
          /\ excess' = Excess
          /\ pc' = "trim"
          /\ UNCHANGED suffix
       \/ /\ LastNumber \in Found
          /\ bu' \in Times
          /\ suffix' = 1
          /\ pc' = "rename"
          /\ UNCHANGED excess
    /\ UNCHANGED <<diskVars, maxBackups, coreVars>>

(* One excess backup deleted, the oldest first; a failure is ignored. *)
Trim ==
    /\ pc = "trim"
    /\ \E n \in excess :
          /\ \A k \in excess : n <= k
          /\ excess' = excess \ {n}
          /\ \/ ibak' = [ibak EXCEPT ![n] = Missing]
             \/ "undeleted" \in Risky /\ UNCHANGED ibak
    /\ UNCHANGED <<db, prefVars, coreVars, pc, bu>>

Trimmed ==
    /\ pc = "trim"
    /\ excess = {}
    /\ GoTo("rename")
    /\ UNCHANGED <<diskVars, prefVars, coreVars>>

(* rename, on the same device. *)
Rename ==
    /\ pc = "rename"
    /\ ibak' = [ibak EXCEPT ![bu] = db]
    /\ db' = Missing
    /\ db # Missing
    /\ GoTo("open")
    /\ UNCHANGED <<prefVars, coreVars>>

(* Across devices: copy_file, then unlink of the original. *)
Copy ==
    /\ pc = "rename"
    /\ db # Missing
    /\ ibak' = [ibak EXCEPT ![bu] = Partial]
    /\ GoTo("copy")
    /\ UNCHANGED <<db, prefVars, coreVars>>

Copied ==
    /\ pc = "copy"
    /\ ibak' = [ibak EXCEPT ![bu] = db]
    /\ GoTo("unlink")
    /\ UNCHANGED <<db, prefVars, coreVars>>

UnlinkOriginal ==
    /\ pc = "unlink"
    /\ db' = Missing
    /\ GoTo("open")
    /\ UNCHANGED <<ibak, prefVars, coreVars>>

(* Mutant: the save goes on whatever becomes of the backup. *)
SaveAnyway ==
    /\ pc \in {"rename", "copy", "unlink"}
    /\ \/ pc \in {"rename", "copy"} /\ UNCHANGED ibak
       \/ pc = "unlink" /\ ibak' = [ibak EXCEPT ![bu] = Missing]
    /\ GoTo("open")
    /\ UNCHANGED <<db, prefVars, coreVars>>

(* Mutant: a backup that fails is tried again. *)
BackupRetried ==
    /\ pc \in {"rename", "copy", "unlink"}
    /\ \/ pc \in {"rename", "copy"} /\ UNCHANGED ibak
       \/ pc = "unlink" /\ ibak' = [ibak EXCEPT ![bu] = Missing]
    /\ GoTo("rename")
    /\ UNCHANGED <<db, prefVars, coreVars>>

(* RenameFile fails - when the unlink does, it removes the copy again -    *)
(* and the save is cancelled, or goes on with bu_fname set.                *)
BackupFails ==
    /\ pc \in {"rename", "copy", "unlink"}
    /\ \/ pc \in {"rename", "copy"} /\ UNCHANGED ibak
       \/ pc = "unlink" /\ ibak' = [ibak EXCEPT ![bu] = Missing]
    /\ \/ Idle
       \/ "continue" \in Risky /\ GoTo("open")
    /\ UNCHANGED <<db, prefVars, coreVars>>

(* ... WriteFile ... *)

(* fopen(..., "wb"); the signature goes whether it succeeds or not. *)
OpenFile ==
    /\ pc = "open"
    /\ db' = Partial
    /\ sig' = NoSig
    /\ GoTo("write")
    /\ UNCHANGED <<ibak, prefVars, mem, clean, named>>

OpenFails ==
    /\ pc = "open"
    /\ sig' = NoSig
    /\ Undo
    /\ UNCHANGED <<diskVars, prefVars, mem, clean, named>>

Written ==
    /\ pc = "write"
    /\ db' = mem
    /\ sig' = mem
    /\ clean' = TRUE
    /\ named' = TRUE
    /\ Idle
    /\ UNCHANGED <<ibak, prefVars, mem>>

(* Mutant: the state is set to CLEAN before the file is closed. *)
CleanTooEarly ==
    /\ pc = "write"
    /\ clean' = TRUE
    /\ Undo
    /\ UNCHANGED <<diskVars, prefVars, mem, named, sig>>

WriteFails ==
    /\ pc = "write"
    /\ Undo
    /\ UNCHANGED <<diskVars, prefVars, coreVars>>

(* ... and, when that failed, RenameFile(bu_fname, m_currfile). *)

PutBack ==
    /\ pc = "restore"
    /\ ibak[bu] # Missing
    /\ db' = ibak[bu]
    /\ ibak' = [ibak EXCEPT ![bu] = Missing]
    /\ Idle
    /\ UNCHANGED <<prefVars, coreVars>>

CopyBack ==
    /\ pc = "restore"
    /\ ibak[bu] # Missing
    /\ db' = Partial
    /\ GoTo("recopy")
    /\ UNCHANGED <<ibak, prefVars, coreVars>>

CopiedBack ==
    /\ pc = "recopy"
    /\ db' = ibak[bu]
    /\ GoTo("reunlink")
    /\ UNCHANGED <<ibak, prefVars, coreVars>>

UnlinkBackup ==
    /\ pc = "reunlink"
    /\ ibak' = [ibak EXCEPT ![bu] = Missing]
    /\ Idle
    /\ UNCHANGED <<db, prefVars, coreVars>>

(* Nobody looks at what RenameFile returned. *)
RestoreFails ==
    /\ \/ pc \in {"restore", "recopy", "reunlink"} /\ "restorefails" \in Risky
       \/ pc = "restore" /\ ibak[bu] = Missing
    /\ \/ pc \in {"restore", "recopy"} /\ UNCHANGED db
       \/ pc = "reunlink" /\ db' = Missing
    /\ Idle
    /\ UNCHANGED <<ibak, prefVars, coreVars>>

-----------------------------------------------------------------------------
Init ==
    /\ db = 0
    /\ ibak = [n \in Names |-> Missing]
    /\ suffix \in Suffixes
    /\ maxBackups \in Numbers
    /\ mem = 0
    /\ clean = TRUE
    /\ named = TRUE
    /\ sig = 0
    /\ pc = "idle"
    /\ bu = NoName
    /\ excess = {}

World == Edit \/ SetPrefs \/ Damage \/ Crash \/ Start \/ Recover \/ SaveAs
Backup == SaveInPlace \/ SaveToName \/ SaveToNumber \/ Trim \/ Trimmed
          \/ Rename \/ Copy \/ Copied \/ UnlinkOriginal \/ BackupFails
Write == OpenFile \/ OpenFails \/ Written \/ WriteFails
Restore == PutBack \/ CopyBack \/ CopiedBack \/ UnlinkBackup \/ RestoreFails

Next == World \/ Backup \/ Write \/ Restore

Spec == Init /\ [][Next]_vars

(* A save under way takes its next step: its calls return, and the user    *)
(* answers what it asks.                                                   *)
Saving == pc \notin {"down", "idle"}
SaveStep == Saving /\ (Backup \/ Write \/ Restore)
FairSpec == Spec /\ WF_vars(SaveStep)

-----------------------------------------------------------------------------
(* Properties. *)

(* Every variable has its type; what the program has in memory and signed, *)
(* unlike what is on the disk, is always a whole content.                  *)
TypeOK ==
    /\ db \in Copies
    /\ ibak \in [Names -> Copies]
    /\ suffix \in Suffixes
    /\ maxBackups \in Numbers
    /\ mem \in Contents
    /\ clean \in BOOLEAN
    /\ named \in BOOLEAN
    /\ sig \in Contents \cup {NoSig}
    /\ pc \in Steps
    /\ bu \in Names \cup {NoName}
    /\ excess \subseteq Numbers

(* No step of the program, nor its death after any step, loses the newest  *)
(* intact copy: one goes from the disk only when a newer one stays there,  *)
(* or when something else damages it (Save and BackupCurFile).             *)
NewestKept ==
    [][\A c \in Contents : OnDisk(c) /\ ~OnDisk(c)' =>
         Damage \/ \E d \in Contents : d > c /\ OnDisk(d)']_vars

(* While the database is rewritten its backup is whole.  "Check if the     *)
(* file we're about to backup is unchanged since we opened it, to avoid    *)
(* overwriting a good file with a bad one" (PWScore.cpp).                  *)
BackupIsWhole ==
    pc \in {"open", "write", "restore", "recopy"} /\ bu # NoName /\ ~Intact(db)
        => Intact(ibak[bu])

(* "make sure we've no more than maxnumincbackups backup files"            *)
(* (PWScore.cpp): so it is when the new backup has been made.              *)
TrimmedToMax ==
    pc = "open" /\ bu \in Numbers => Cardinality(Found) <= maxBackups

(* The numbers of the backups tell their age, so that those deleted first  *)
(* are the oldest, and the database is never older than one of them.       *)
BackupsInOrder ==
    \A n \in Numbers : Intact(ibak[n]) =>
        /\ \A k \in Numbers : k < n /\ Intact(ibak[k]) => ibak[k] <= ibak[n]
        /\ pc = "idle" /\ named /\ Intact(db) => ibak[n] <= db

(* A database shown as saved is in its file, unless something else damaged *)
(* that, also after saves that failed at any step.                         *)
CleanIsOnDisk ==
    pc = "idle" /\ named /\ clean => db \in {mem, Damaged, Hidden}

(* Whatever fails, and whatever is left on the disk by a save before, a    *)
(* save comes to an end: a backup that cannot be deleted, made or moved    *)
(* back is never tried for ever.                                           *)
SaveEnds == Saving ~> ~Saving
=============================================================================
