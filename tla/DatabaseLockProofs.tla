------------------------- MODULE DatabaseLockProofs -------------------------
(***************************************************************************)
(* Proofs about DatabaseLock, for every number of processes, databases and *)
(* lock files, and every assignment of lock files to databases.            *)
(***************************************************************************)
EXTENDS DatabaseLock, TLAPS

USE LockConstants DEF LockConstants, Holders

-----------------------------------------------------------------------------
(* Types, whatever risks are taken. *)

LEMMA InitTypes == Init => TypeOK
  BY DEF Init, TypeOK, Ops, Steps

LEMMA EndTypes ==
  ASSUME TypeOK, NEW p \in Procs, NEW S, End(p, S)
  PROVE  TypeOK'
  BY DEF TypeOK, End, Rest, Ops, Steps

LEMMA UserTypes ==
  ASSUME TypeOK, NEW p \in Procs, User(p)
  PROVE  TypeOK'
<1> USE DEF TypeOK, Ops, Steps, Idle, InDialog, Begin, Rest, GoOn, Opened, Written, AfterWrite,
            SafeUnlockFile, Unlink, lockVars, dbVars, callVars
<1>1. ASSUME NEW f \in Files, NEW ro \in BOOLEAN, StartDialog(p, f, ro)  PROVE TypeOK'
  BY <1>1 DEF StartDialog
<1>2. ASSUME NEW f \in Files, DialogOpen(p, f)  PROVE TypeOK'
  BY <1>2 DEF DialogOpen
<1>3. ASSUME NEW f \in Files, DialogOpenReadOnly(p, f)  PROVE TypeOK'
  BY <1>3 DEF DialogOpenReadOnly
<1>4. ASSUME NEW f \in Files, DialogNew(p, f)  PROVE TypeOK'
  BY <1>4 DEF DialogNew
<1>5. ASSUME NEW f \in Files, New(p, f)  PROVE TypeOK'
  BY <1>5 DEF New
<1>6. ASSUME NEW f \in Files, SaveAs(p, f)  PROVE TypeOK'
  BY <1>6 DEF SaveAs
<1>7. ASSUME NEW f \in Files, Open(p, f)  PROVE TypeOK'
  BY <1>7 DEF Open
<1>8. ASSUME NEW f \in Files, Restore(p, f)  PROVE TypeOK'
  BY <1>8 DEF Restore
<1>9. ASSUME NEW f \in Files, CliStart(p, f)  PROVE TypeOK'
  BY <1>9 DEF CliStart
<1>10. ASSUME NEW ro \in BOOLEAN, StartClosed(p, ro)  PROVE TypeOK'
  BY <1>10 DEF StartClosed
<1>11. CASE DialogCancel(p)
  BY <1>11, EndTypes DEF DialogCancel
<1>12. CASE ToReadWrite(p)
  BY <1>12 DEF ToReadWrite
<1>13. CASE ToReadOnly(p)
  BY <1>13 DEF ToReadOnly
<1>14. CASE Save(p)
  BY <1>14 DEF Save
<1>15. CASE Reload(p)
  BY <1>15 DEF Reload
<1>16. CASE CloseDB(p)
  BY <1>16 DEF CloseDB
<1>17. CASE Quit(p)
  BY <1>17, EndTypes DEF Quit
<1> QED BY <1>1, <1>2, <1>3, <1>4, <1>5, <1>6, <1>7, <1>8, <1>9, <1>10, <1>11, <1>12, <1>13,
           <1>14, <1>15, <1>16, <1>17 DEF User

LEMMA LockFileTypes ==
  ASSUME TypeOK, NEW p \in Procs, LockFile(p)
  PROVE  TypeOK'
<1> USE DEF TypeOK, Ops, Steps, Calling, GoOn, Unlink, lockVars, dbVars, callVars
<1>1. CASE TryUnlock(p)
  BY <1>1 DEF TryUnlock
<1>2. CASE UnlinkOrphan(p)
  BY <1>2 DEF UnlinkOrphan
<1>3. CASE CreateLock(p)
  BY <1>3 DEF CreateLock
<1>4. CASE WriteLock(p)
  BY <1>4 DEF WriteLock
<1> QED BY <1>1, <1>2, <1>3, <1>4 DEF LockFile

LEMMA OutcomeTypes ==
  ASSUME TypeOK, NEW p \in Procs, Outcome(p)
  PROVE  TypeOK'
<1> USE DEF TypeOK, Ops, Steps, Calling, Begin, Rest, Opened, Written, Unwritten, AfterWrite,
            SafeUnlockFile, Unlink, lockVars, dbVars
<1>1. CASE OpenLocked(p)
  BY <1>1 DEF OpenLocked
<1>2. CASE FirstLocked(p)
  <2>1. CASE Written(p, target[p]) /\ Rest(p, "none")
    BY <1>2, <2>1 DEF FirstLocked
  <2>2. CASE Unwritten(p, target[p]) /\ Rest(p, "dialog")
    BY <1>2, <2>2 DEF FirstLocked
  <2> QED BY <1>2, <2>1, <2>2 DEF FirstLocked
<1>3. CASE NewLocked(p)
  BY <1>3 DEF NewLocked
<1>4. CASE SaveAsLocked(p)
  <2>1. CASE Unlink(SafeUnlockFile(p, cur[p])) /\ Written(p, target[p])
    BY <1>4, <2>1 DEF SaveAsLocked
  <2>2. CASE Unlink({LockOf[target[p]]}) /\ UNCHANGED dbVars
    BY <1>4, <2>2 DEF SaveAsLocked
  <2> QED BY <1>4, <2>1, <2>2 DEF SaveAsLocked
<1>5. CASE ModeLocked(p)
  BY <1>5 DEF ModeLocked
<1>6. CASE OpenDenied(p)
  BY <1>6 DEF OpenDenied
<1>7. CASE OtherDenied(p)
  BY <1>7 DEF OtherDenied
<1>8. CASE RemoveOwnLock(p)
  <2>1. op[p] \in {"open", "first", "new", "mode"}
    BY <1>8 DEF RemoveOwnLock, Again
  <2>2. Again[op[p]] \in Ops
    BY <2>1 DEF Again
  <2> HIDE DEF Ops, Unlink
  <2>3. owner' \in [Locks -> Holders] /\ orphans' \subseteq Locks
    BY <1>8 DEF RemoveOwnLock, Unlink
  <2>4. op' \in [Procs -> Ops] /\ at' \in [Procs -> Steps] /\ target' \in [Procs -> Files \cup {NoFile}]
    BY <1>8, <2>2 DEF RemoveOwnLock
  <2> QED BY <1>8, <2>3, <2>4 DEF RemoveOwnLock
<1> QED BY <1>1, <1>2, <1>3, <1>4, <1>5, <1>6, <1>7, <1>8 DEF Outcome

LEMMA CliTypes ==
  ASSUME TypeOK, NEW p \in Procs, Cli(p)
  PROVE  TypeOK'
<1> USE DEF Calling, GoOn, Opened, AfterWrite, lockVars, callVars
<1>1. CASE CliLocked(p)
  BY <1>1 DEF CliLocked, TypeOK, Steps
<1>2. CASE CliSave(p)
  BY <1>2 DEF CliSave, TypeOK
<1>3. CASE CliDone(p)
  BY <1>3, EndTypes DEF CliDone
<1>4. CASE CliDenied(p)
  BY <1>4, EndTypes DEF CliDenied
<1> QED BY <1>1, <1>2, <1>3, <1>4 DEF Cli

LEMMA StepTypes == TypeOK /\ [Next]_vars => TypeOK'
<1> SUFFICES ASSUME TypeOK, [Next]_vars  PROVE TypeOK'
  OBVIOUS
<1>1. ASSUME NEW p \in Procs, Signal(p)  PROVE TypeOK'
  BY <1>1, EndTypes DEF Signal
<1>2. ASSUME NEW p \in Procs, Crash(p)  PROVE TypeOK'
  BY <1>2, EndTypes DEF Crash
<1>3. CASE UNCHANGED vars
  BY <1>3 DEF vars, TypeOK
<1> QED BY <1>1, <1>2, <1>3, UserTypes, LockFileTypes, OutcomeTypes, CliTypes DEF Next

(* Every variable of the processes and lock files keeps its type.          *)
THEOREM LockTypes == Spec => []TypeOK
  BY InitTypes, StepTypes, PTL DEF Spec

-----------------------------------------------------------------------------
(* Locks used with care.                                                   *)

Careful == Risky = {}

(* Where a process is in its operation. *)
Flow(p) ==
    /\ p \notin running => op[p] = "none" /\ cur[p] = NoFile
    /\ op[p] \in {"none", "dialog", "open", "first", "new", "saveas", "mode"}
    /\ at[p] # "unlink"
    /\ (op[p] \in {"none", "dialog"}) <=> (at[p] = "rest")
    /\ at[p] # "rest" => target[p] \in Files
    /\ op[p] = "mode" => target[p] = cur[p] /\ readOnly[p]

Flows == \A p \in Procs : Flow(p)

LEMMA InitFlows == Init => Flows
  BY DEF Init, Flows, Flow

LEMMA StepFlows ==
  ASSUME Careful, TypeOK, Flows, NEW p \in Procs,
         User(p) \/ LockFile(p) \/ Outcome(p) \/ Cli(p) \/ Signal(p) \/ Crash(p)
  PROVE  Flows'
<1> USE DEF TypeOK, Careful, Flow, Flows, Idle, InDialog, Calling, Begin, Rest, GoOn, Opened,
            Written, Unwritten, lockVars, dbVars, callVars
<1>1. CASE User(p)
  BY <1>1 DEF User, StartDialog, StartClosed, DialogOpen, DialogOpenReadOnly, DialogNew,
       DialogCancel, New, SaveAs, ToReadWrite, ToReadOnly, Open, Restore, Save, Reload, CloseDB,
       Quit, CliStart, End
<1>2. CASE LockFile(p)
  BY <1>2 DEF LockFile, TryUnlock, UnlinkOrphan, CreateLock, WriteLock
<1>3. CASE Outcome(p)
  BY <1>3 DEF Outcome, OpenLocked, FirstLocked, NewLocked, SaveAsLocked, ModeLocked, OpenDenied,
       OtherDenied, RemoveOwnLock
<1>4. CASE Cli(p)
  BY <1>4 DEF Cli, CliLocked, CliSave, CliDone, CliDenied
<1>5. CASE Signal(p) \/ Crash(p)
  BY <1>5 DEF Signal, Crash, End
<1> QED BY <1>1, <1>2, <1>3, <1>4, <1>5

(* What the lock file of the database a process asks for holds meanwhile.   *)
(* From its creation on nobody but the process may change it.              *)
Held ==
    /\ \A p \in Procs : at[p] = "write" =>
         owner[LockOf[target[p]]] = NoPid /\ LockOf[target[p]] \notin orphans
    /\ \A p, q \in Procs :
         p # q /\ at[p] = "write" /\ at[q] = "write" => LockOf[target[p]] # LockOf[target[q]]
    /\ \A p \in Procs : at[p] = "locked" =>
         /\ owner[LockOf[target[p]]] = p
         /\ LockOf[target[p]] \notin orphans
         /\ Writes(p) => LockOf[cur[p]] # LockOf[target[p]]
    /\ \A l \in orphans : owner[l] \in Procs

Safe == Held /\ LocksNameWriters /\ WritersAreCurrent

(* Lock files are removed only after their process is known. *)
UnlinkedOwned ==
    \A l \in Locks : owner[l] # Nobody /\ owner'[l] = Nobody => owner[l] \in Procs

LEMMA InitSafe == Init => Safe
  BY DEF Init, Safe, Held, LocksNameWriters, WritersAreCurrent, Writes, Taking

(* A process ends and removes no lock file but its own. *)
LEMMA EndSafe ==
  ASSUME TypeOK, Flows, Safe, NEW p \in Procs, p \in running,
         NEW S \in SUBSET Locks, \A l \in S : owner[l] = p, End(p, S)
  PROVE  Safe' /\ UnlinkedOwned
<1> USE DEF TypeOK, Flows, Flow, End, Rest, Writes
<1>1. Held'
  BY DEF Safe, Held
<1>2. LocksNameWriters'
  BY DEF Safe, Held, LocksNameWriters, Taking
<1>3. WritersAreCurrent'
  BY DEF Safe, WritersAreCurrent
<1>4. UnlinkedOwned
  BY DEF UnlinkedOwned
<1> QED BY <1>1, <1>2, <1>3, <1>4 DEF Safe

(* SafeUnlockFile of a database that is open removes a lock of p's. *)
LEMMA OwnUnlocked ==
  ASSUME TypeOK, Safe, NEW p \in Procs, p \in running,
         op[p] \notin {"dialog", "open", "open2", "first", "first2"}
  PROVE  /\ SafeUnlockFile(p, cur[p]) \in SUBSET Locks
         /\ \A l \in SafeUnlockFile(p, cur[p]) : owner[l] = p
  BY DEF TypeOK, Safe, LocksNameWriters, Writes, SafeUnlockFile

LEMMA UserSafe ==
  ASSUME Careful, TypeOK, Flows, Safe, NEW p \in Procs, User(p)
  PROVE  Safe' /\ UnlinkedOwned
<1> USE DEF Careful, TypeOK, Flows, Flow, Idle, InDialog, Begin, Rest, Opened,
            SafeUnlockFile, Unlink, lockVars, dbVars, callVars,
            Safe, Held, LocksNameWriters, WritersAreCurrent, UnlinkedOwned, Writes, Taking
<1>1. ASSUME NEW f \in Files, NEW ro \in BOOLEAN, StartDialog(p, f, ro)
      PROVE  Safe' /\ UnlinkedOwned
  BY <1>1 DEF StartDialog
<1>2. ASSUME NEW f \in Files, DialogOpen(p, f)  PROVE Safe' /\ UnlinkedOwned
  BY <1>2 DEF DialogOpen
<1>3. ASSUME NEW f \in Files, DialogOpenReadOnly(p, f)  PROVE Safe' /\ UnlinkedOwned
  BY <1>3 DEF DialogOpenReadOnly
<1>4. ASSUME NEW f \in Files, DialogNew(p, f)  PROVE Safe' /\ UnlinkedOwned
  BY <1>4 DEF DialogNew
<1>5. ASSUME NEW f \in Files, New(p, f)  PROVE Safe' /\ UnlinkedOwned
  BY <1>5 DEF New
<1>6. ASSUME NEW f \in Files, SaveAs(p, f)  PROVE Safe' /\ UnlinkedOwned
  BY <1>6 DEF SaveAs
<1>7. ASSUME NEW ro \in BOOLEAN, StartClosed(p, ro)  PROVE Safe' /\ UnlinkedOwned
  BY <1>7 DEF StartClosed
<1>8. CASE DialogCancel(p)
  <2> HIDE DEF TypeOK, Flows, Safe, UnlinkedOwned
  <2> QED BY <1>8, EndSafe DEF DialogCancel
<1>9. CASE ToReadWrite(p)
  BY <1>9 DEF ToReadWrite
<1>10. CASE ToReadOnly(p)
  BY <1>10 DEF ToReadOnly
<1>11. CASE Save(p)
  BY <1>11 DEF Save, AfterWrite
<1>12. CASE Reload(p)
  BY <1>12 DEF Reload
<1>13. CASE CloseDB(p)
  BY <1>13 DEF CloseDB
<1>14. CASE Quit(p)
  <2> HIDE DEF TypeOK, Flows, Safe, UnlinkedOwned, SafeUnlockFile
  <2> QED BY <1>14, EndSafe, OwnUnlocked DEF Quit
<1> QED BY <1>1, <1>2, <1>3, <1>4, <1>5, <1>6, <1>7, <1>8, <1>9, <1>10, <1>11, <1>12, <1>13,
           <1>14 DEF User, Open, Restore, CliStart

LEMMA LockFileSafe ==
  ASSUME Careful, TypeOK, Flows, Safe, NEW p \in Procs, LockFile(p)
  PROVE  Safe' /\ UnlinkedOwned
<1> USE DEF Careful, TypeOK, Flows, Flow, Calling, GoOn, Unlink, lockVars, dbVars, callVars,
            Safe, Held, LocksNameWriters, WritersAreCurrent, UnlinkedOwned, Writes, Taking
<1>1. CASE TryUnlock(p)
  BY <1>1 DEF TryUnlock, IsOrphan
<1>2. CASE CreateLock(p)
  BY <1>2 DEF CreateLock
<1>3. CASE WriteLock(p)
  BY <1>3 DEF WriteLock
<1> QED BY <1>1, <1>2, <1>3 DEF LockFile, UnlinkOrphan

LEMMA OutcomeSafe ==
  ASSUME Careful, TypeOK, Flows, Safe, NEW p \in Procs, Outcome(p)
  PROVE  Safe' /\ UnlinkedOwned
<1> USE DEF Careful, TypeOK, Flows, Flow, Calling, Rest, Opened, Written, Unwritten, AfterWrite,
            SafeUnlockFile, Unlink, lockVars, dbVars,
            Safe, Held, LocksNameWriters, WritersAreCurrent, UnlinkedOwned, Writes, Taking
<1>1. CASE OpenLocked(p)
  BY <1>1 DEF OpenLocked
<1>2. CASE FirstLocked(p)
  BY <1>2 DEF FirstLocked
<1>3. CASE NewLocked(p)
  BY <1>3 DEF NewLocked
<1>4. CASE SaveAsLocked(p)
  <2>1. CASE Unlink(SafeUnlockFile(p, cur[p])) /\ Written(p, target[p])
    BY <1>4, <2>1 DEF SaveAsLocked
  <2>2. CASE Unlink({LockOf[target[p]]}) /\ UNCHANGED dbVars
    BY <1>4, <2>2 DEF SaveAsLocked
  <2> QED BY <1>4, <2>1, <2>2 DEF SaveAsLocked
<1>5. CASE ModeLocked(p)
  BY <1>5 DEF ModeLocked
<1>6. CASE OpenDenied(p)
  BY <1>6 DEF OpenDenied
<1>7. CASE OtherDenied(p)
  BY <1>7 DEF OtherDenied
<1> QED BY <1>1, <1>2, <1>3, <1>4, <1>5, <1>6, <1>7 DEF Outcome, RemoveOwnLock

LEMMA StepSafe ==
  ASSUME Careful
  PROVE  TypeOK /\ Flows /\ Safe /\ [Next]_vars => Flows' /\ Safe' /\ UnlinkedOwned
<1> SUFFICES ASSUME TypeOK, Flows, Safe, [Next]_vars
             PROVE  Flows' /\ Safe' /\ UnlinkedOwned
  OBVIOUS
<1>1. ASSUME NEW p \in Procs, Signal(p)  PROVE Safe' /\ UnlinkedOwned
  <2>1. p \in running /\ op[p] \notin {"dialog", "open", "open2", "first", "first2"}
    BY <1>1 DEF Signal, Careful
  <2> QED BY <1>1, <2>1, EndSafe, OwnUnlocked DEF Signal
<1>2. ASSUME NEW p \in Procs, Crash(p)  PROVE Safe' /\ UnlinkedOwned
  BY <1>2, EndSafe DEF Crash
<1>3. ASSUME NEW p \in Procs, Cli(p)  PROVE FALSE
  BY <1>3 DEF Cli, CliLocked, CliSave, CliDone, CliDenied, Flows, Flow
<1>4. CASE UNCHANGED vars
  BY <1>4 DEF vars, Flows, Flow, Safe, Held, LocksNameWriters, WritersAreCurrent, Writes,
       Taking, UnlinkedOwned
<1>5. CASE Next
  <2>1. PICK p \in Procs :
            User(p) \/ LockFile(p) \/ Outcome(p) \/ Cli(p) \/ Signal(p) \/ Crash(p)
    BY <1>5 DEF Next
  <2>2. Flows'
    BY <2>1, StepFlows
  <2> QED BY <2>1, <2>2, <1>1, <1>2, <1>3, UserSafe, LockFileSafe, OutcomeSafe
<1> QED BY <1>4, <1>5

LEMMA SafeInvariant ==
  ASSUME Careful
  PROVE  Spec => [](TypeOK /\ Flows /\ Safe)
<1>1. Init => TypeOK /\ Flows /\ Safe
  BY InitTypes, InitFlows, InitSafe
<1>2. TypeOK /\ Flows /\ Safe /\ [Next]_vars => (TypeOK /\ Flows /\ Safe)'
  BY StepTypes, StepSafe
<1> QED BY <1>1, <1>2, PTL DEF Spec

(* A lock file names the process that has the database open to write it,   *)
(* and none is left behind by a process that does not.                     *)
THEOREM LockFilesNameWriters ==
  ASSUME Careful
  PROVE  Spec => []LocksNameWriters
<1>1. Safe => LocksNameWriters
  BY DEF Safe
<1> QED BY <1>1, SafeInvariant, PTL

(* Whoever may save a database knows what its file holds: no lost update.  *)
THEOREM NoLostUpdate ==
  ASSUME Careful
  PROVE  Spec => []WritersAreCurrent
<1>1. Safe => WritersAreCurrent
  BY DEF Safe
<1> QED BY <1>1, SafeInvariant, PTL

LEMMA SafeIsExclusive == Safe => OneWriter
  BY DEF Safe, LocksNameWriters, OneWriter

(* No two processes have databases of one lock file open to write them.    *)
THEOREM WritersExclude ==
  ASSUME Careful
  PROVE  Spec => []OneWriter
  BY SafeIsExclusive, SafeInvariant, PTL

(* No lock file goes while its process still has to write, and none is     *)
(* taken from a process that has not yet written its name into it.         *)
THEOREM LocksStayWithWriters ==
  ASSUME Careful
  PROVE  Spec => LocksOutliveWriters
<1>1. TypeOK /\ Flows /\ Safe /\ [Next]_vars =>
        [\A l \in Locks : owner[l] # Nobody /\ owner'[l] = Nobody =>
            \E p \in Procs :
                /\ owner[l] = p
                /\ l \in orphans \/ ~(Writes(p)' /\ LockOf[cur'[p]] = l)]_vars
  <2> SUFFICES ASSUME TypeOK, Flows, Safe, [Next]_vars,
                      NEW l \in Locks, owner[l] # Nobody, owner'[l] = Nobody
               PROVE  \E p \in Procs :
                        /\ owner[l] = p
                        /\ l \in orphans \/ ~(Writes(p)' /\ LockOf[cur'[p]] = l)
    OBVIOUS
  <2>1. UnlinkedOwned /\ Safe'
    BY StepSafe
  <2> QED BY <2>1 DEF UnlinkedOwned, Safe, LocksNameWriters
<1> QED BY <1>1, SafeInvariant, PTL DEF Spec, LocksOutliveWriters

-----------------------------------------------------------------------------
(* The lock files implement ExclusiveWriter.                               *)

(* p is the writer of lock l. *)
Has(p, l) == Writes(p) /\ LockOf[cur[p]] = l

LEMMA WriterIs ==
  Safe => \A l \in Locks :
            /\ WriterOf(l) \in Procs \cup {Nobody}
            /\ \A q \in Procs : WriterOf(l) = q <=> Has(q, l)
<1> SUFFICES ASSUME Safe, NEW l \in Locks
             PROVE  /\ WriterOf(l) \in Procs \cup {Nobody}
                    /\ \A q \in Procs : WriterOf(l) = q <=> Has(q, l)
  OBVIOUS
<1> DEFINE writers == {p \in Procs : Writes(p) /\ LockOf[cur[p]] = l}
<1>1. CASE writers = {}
  BY <1>1 DEF WriterOf, Has
<1>2. CASE writers # {}
  <2>1. WriterOf(l) = CHOOSE p \in writers : TRUE
    BY <1>2 DEF WriterOf
  <2>2. WriterOf(l) \in writers
    BY <1>2, <2>1
  <2>3. \A q \in writers : q = WriterOf(l)
    BY <2>2, SafeIsExclusive DEF OneWriter
  <2> QED BY <2>2, <2>3 DEF Has
<1> QED BY <1>1, <1>2

(* What one step of p makes of the writers and of what is current. *)
Effect(p) ==
    /\ \A q \in Procs \ {p}, l \in Locks : Has(q, l)' <=> Has(q, l)
    /\ Writes(p)' => fresh' \subseteq fresh \cup {p}
    /\ ~Writes(p)' => fresh' \in {fresh, fresh \ {p}, fresh \cup {p}}

LEMMA StepEffect ==
  ASSUME Careful, TypeOK, Flows, NEW p \in Procs,
         User(p) \/ LockFile(p) \/ Outcome(p) \/ Signal(p) \/ Crash(p)
  PROVE  Effect(p)
<1> USE DEF Careful, TypeOK, Flows, Flow, Idle, InDialog, Calling, Begin, Rest, GoOn, Opened,
            Written, Unwritten, AfterWrite, lockVars, dbVars, callVars, Effect, Has, Writes
<1>1. CASE LockFile(p)
  BY <1>1 DEF LockFile, TryUnlock, UnlinkOrphan, CreateLock, WriteLock
<1>2. CASE Outcome(p)
  <2>1. CASE OpenLocked(p)
    BY <2>1 DEF OpenLocked
  <2>2. CASE FirstLocked(p)
    BY <2>2 DEF FirstLocked
  <2>3. CASE NewLocked(p)
    BY <2>3 DEF NewLocked
  <2>4. CASE SaveAsLocked(p)
    BY <2>4 DEF SaveAsLocked
  <2>5. CASE ModeLocked(p)
    BY <2>5 DEF ModeLocked
  <2>6. CASE OpenDenied(p)
    BY <2>6 DEF OpenDenied
  <2>7. CASE OtherDenied(p)
    BY <2>7 DEF OtherDenied
  <2> QED BY <1>2, <2>1, <2>2, <2>3, <2>4, <2>5, <2>6, <2>7 DEF Outcome, RemoveOwnLock
<1>3. ASSUME NEW S, End(p, S)  PROVE Effect(p)
  BY <1>3 DEF End
<1>4. CASE User(p)
  <2>1. ASSUME NEW f \in Files,
               \/ \E ro \in BOOLEAN : StartDialog(p, f, ro)
               \/ DialogOpen(p, f) \/ DialogOpenReadOnly(p, f) \/ DialogNew(p, f)
               \/ New(p, f) \/ SaveAs(p, f)
        PROVE  Effect(p)
    BY <2>1 DEF StartDialog, DialogOpen, DialogOpenReadOnly, DialogNew, New, SaveAs
  <2>2. ASSUME NEW ro \in BOOLEAN, StartClosed(p, ro)  PROVE Effect(p)
    BY <2>2 DEF StartClosed
  <2>3. CASE DialogCancel(p) \/ Quit(p)
    BY <2>3, <1>3 DEF DialogCancel, Quit
  <2>4. CASE ToReadWrite(p) \/ ToReadOnly(p)
    BY <2>4 DEF ToReadWrite, ToReadOnly
  <2>5. CASE Save(p) \/ Reload(p) \/ CloseDB(p)
    BY <2>5 DEF Save, Reload, CloseDB
  <2> HIDE DEF Effect
  <2> QED BY <1>4, <2>1, <2>2, <2>3, <2>4, <2>5 DEF User, Open, Restore, CliStart
<1>5. CASE Signal(p) \/ Crash(p)
  BY <1>5, <1>3 DEF Signal, Crash
<1> QED BY <1>1, <1>2, <1>4, <1>5

Writers == [l \in Locks |-> WriterOf(l)]

LEMMA EffectRefines ==
  ASSUME TypeOK, TypeOK', Safe, Safe', NEW p \in Procs, Effect(p)
  PROVE  Exclusive!Next \/ UNCHANGED <<Writers, fresh>>
<1> DEFINE w == Writers
           w2 == Writers'
<1>1. \A l \in Locks : w[l] \in Procs \cup {Nobody} /\ \A q \in Procs : w[l] = q <=> Has(q, l)
  BY WriterIs DEF Writers
<1>2. \A l \in Locks : w2[l] \in Procs \cup {Nobody} /\ \A q \in Procs : w2[l] = q <=> Has(q, l)'
  <2>1. (Safe => \A l \in Locks :
            /\ WriterOf(l) \in Procs \cup {Nobody}
            /\ \A q \in Procs : WriterOf(l) = q <=> Has(q, l))'
    BY WriterIs, PTL
  <2> QED BY <2>1 DEF Writers
<1>3. w = [l \in Locks |-> w[l]] /\ w2 = [l \in Locks |-> w2[l]]
  BY DEF Writers
<1>4. w = [l \in Locks |-> WriterOf(l)] /\ w2 = [l \in Locks |-> WriterOf(l)]'
  BY DEF Writers
<1> HIDE DEF w, w2
<1>5. \A l \in Locks : w2[l] = w[l] \/ (w[l] = p /\ w2[l] = Nobody) \/ (w[l] = Nobody /\ w2[l] = p)
  BY <1>1, <1>2 DEF Effect
<1>6. CASE Writes(p)'
  <2> DEFINE l0 == LockOf[cur'[p]]
  <2>1. l0 \in Locks /\ w2[l0] = p /\ p \in fresh' /\ fresh' \subseteq fresh \cup {p}
    BY <1>2, <1>6 DEF TypeOK, Writes, Has, Safe, WritersAreCurrent, Effect
  <2>2. \A l \in Locks \ {l0} : w2[l] # p
    BY <1>2 DEF Has
  <2>3. CASE w[l0] = p
    <3>1. \A l \in Locks : w2[l] = w[l]
      BY <1>1, <1>5, <2>1, <2>2, <2>3 DEF Has
    <3>2. w2 = w
      BY <3>1, <1>3
    <3>3. p \in fresh
      BY <1>1, <2>1, <2>3 DEF Has, Safe, WritersAreCurrent
    <3>4. Exclusive!Write(p)
      BY <1>4, <2>1, <2>3, <3>2, <3>3 DEF Exclusive!Write
    <3> QED BY <3>4 DEF Exclusive!Next
  <2>4. CASE w[l0] # p
    <3>1. w[l0] = Nobody
      BY <1>5, <2>1, <2>4
    <3> HIDE DEF l0
    <3> DEFINE without == [l \in Locks |-> IF w[l] = p THEN Nobody ELSE w[l]]
    <3>2. \A l \in Locks : w2[l] = IF l = l0 THEN p ELSE without[l]
      BY <1>5, <2>1, <2>2
    <3>3. w2 = [without EXCEPT ![l0] = p]
      <4> HIDE DEF without
      <4>1. without = [l \in Locks |-> without[l]]
        BY DEF without
      <4> QED BY <1>3, <2>1, <3>2, <4>1
    <3>4. without = Exclusive!Without(p)
      BY <1>4 DEF Exclusive!Without
    <3> HIDE DEF without
    <3>5. Exclusive!Take(p, l0)
      BY <1>4, <2>1, <3>1, <3>3, <3>4 DEF Exclusive!Take
    <3> QED BY <2>1, <3>5 DEF Exclusive!Next
  <2> QED BY <2>3, <2>4
<1>7. CASE ~Writes(p)'
  <2>1. \A l \in Locks : w2[l] # p
    BY <1>2, <1>7 DEF Has
  <2>2. w2 = [l \in Locks |-> IF w[l] = p THEN Nobody ELSE w[l]]
    BY <1>3, <1>5, <2>1
  <2>3. CASE fresh' \in {fresh, fresh \ {p}}
    <3>1. Exclusive!Leave(p)
      BY <1>4, <2>2, <2>3 DEF Exclusive!Leave, Exclusive!Without
    <3> QED BY <3>1 DEF Exclusive!Next
  <2>4. CASE fresh' = fresh \cup {p} /\ p \notin fresh
    <3>1. \A l \in Locks : w[l] # p
      BY <1>1, <2>4 DEF Has, Safe, WritersAreCurrent
    <3>2. w2 = w
      BY <1>3, <2>2, <3>1
    <3>3. Exclusive!Read(p)
      BY <1>4, <2>4, <3>2 DEF Exclusive!Read
    <3> QED BY <3>3 DEF Exclusive!Next
  <2> QED BY <1>7, <2>3, <2>4 DEF Effect
<1> QED BY <1>6, <1>7

LEMMA StepRefines ==
  ASSUME Careful
  PROVE  TypeOK /\ Flows /\ Safe /\ [Next]_vars => [Exclusive!Next]_<<Writers, fresh>>
<1> SUFFICES ASSUME TypeOK, Flows, Safe, [Next]_vars
             PROVE  Exclusive!Next \/ UNCHANGED <<Writers, fresh>>
  OBVIOUS
<1>1. TypeOK' /\ Safe'
  BY StepTypes, StepSafe
<1>2. CASE UNCHANGED vars
  BY <1>2 DEF vars, Writers, WriterOf, Writes
<1>3. CASE Next
  <2>1. PICK p \in Procs :
            User(p) \/ LockFile(p) \/ Outcome(p) \/ Cli(p) \/ Signal(p) \/ Crash(p)
    BY <1>3 DEF Next
  <2>2. ~Cli(p)
    BY DEF Cli, CliLocked, CliSave, CliDone, CliDenied, Flows, Flow
  <2>3. Effect(p)
    BY <2>1, <2>2, StepEffect
  <2> QED BY <1>1, <2>3, EffectRefines
<1> QED BY <1>2, <1>3

(* Used with care, the lock files give each database one writer at a time, *)
(* who takes over only where there is none and knows what the file holds.  *)
THEOREM LockFilesImplementExclusiveWriter ==
  ASSUME Careful
  PROVE  Spec => ImplementsExclusiveWriter
<1>1. Init => Exclusive!Init
  BY DEF Init, Exclusive!Init, WriterOf, Writes
<1>2. TypeOK /\ Flows /\ Safe /\ [Next]_vars =>
        [Exclusive!Next]_<<[l \in Locks |-> WriterOf(l)], fresh>>
  BY StepRefines DEF Writers
<1> QED BY <1>1, <1>2, SafeInvariant, PTL DEF Spec, ImplementsExclusiveWriter, Exclusive!Spec

=============================================================================
