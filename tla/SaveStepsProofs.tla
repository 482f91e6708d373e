-------------------------- MODULE SaveStepsProofs --------------------------
(***************************************************************************)
(* Proofs about SaveSteps, for every number of versions of the database    *)
(* and every highest number of a backup.                                   *)
(***************************************************************************)
EXTENDS SaveSteps, NumberInduction, FiniteSetTheorems, TLAPS

USE SaveConstants DEF SaveConstants, Copies, Steps, Suffixes, Numbers, Names

LEMMA InitTypes == Init => TypeOK
  BY DEF Init, TypeOK

LEMMA StepTypes == TypeOK /\ [Next]_vars => TypeOK'
<1> SUFFICES ASSUME TypeOK, [Next]_vars  PROVE TypeOK'
  OBVIOUS
<1> USE DEF TypeOK, GoTo, Idle, Undo, Loaded, Intact, prefVars, coreVars, callVars, diskVars
<1>1. CASE World
  <2>1. CASE Edit
    BY <2>1 DEF Edit
  <2>2. CASE SetPrefs
    BY <2>2 DEF SetPrefs
  <2>3. CASE Damage
    BY <2>3 DEF Damage
  <2>4. CASE Crash
    BY <2>4 DEF Crash
  <2>5. CASE Start
    BY <2>5 DEF Start
  <2>6. CASE Recover
    BY <2>6 DEF Recover
  <2>7. CASE SaveAs
    BY <2>7 DEF SaveAs
  <2> QED BY <1>1, <2>1, <2>2, <2>3, <2>4, <2>5, <2>6, <2>7 DEF World
<1>2. CASE Backup
  <2>1. CASE SaveInPlace
    BY <2>1 DEF SaveInPlace
  <2>2. CASE SaveToName
    BY <2>2 DEF SaveToName
  <2>3. CASE SaveToNumber
    BY <2>3 DEF SaveToNumber, Excess, Found
  <2>4. CASE Trim
    BY <2>4 DEF Trim
  <2>5. CASE Trimmed
    BY <2>5 DEF Trimmed
  <2>6. CASE Rename
    BY <2>6 DEF Rename
  <2>7. CASE Copy
    BY <2>7 DEF Copy
  <2>8. CASE Copied
    BY <2>8 DEF Copied
  <2>9. CASE UnlinkOriginal
    BY <2>9 DEF UnlinkOriginal
  <2>10. CASE BackupFails
    BY <2>10 DEF BackupFails
  <2> QED BY <1>2, <2>1, <2>2, <2>3, <2>4, <2>5, <2>6, <2>7, <2>8, <2>9, <2>10 DEF Backup
<1>3. CASE Write
  <2>1. CASE OpenFile
    BY <2>1 DEF OpenFile
  <2>2. CASE OpenFails
    BY <2>2 DEF OpenFails
  <2>3. CASE Written
    BY <2>3 DEF Written
  <2>4. CASE WriteFails
    BY <2>4 DEF WriteFails
  <2> QED BY <1>3, <2>1, <2>2, <2>3, <2>4 DEF Write
<1>4. CASE Restore
  <2>1. CASE PutBack
    BY <2>1 DEF PutBack
  <2>2. CASE CopyBack
    BY <2>2 DEF CopyBack
  <2>3. CASE CopiedBack
    BY <2>3 DEF CopiedBack
  <2>4. CASE UnlinkBackup
    BY <2>4 DEF UnlinkBackup
  <2>5. CASE RestoreFails
    BY <2>5 DEF RestoreFails
  <2> QED BY <1>4, <2>1, <2>2, <2>3, <2>4, <2>5 DEF Restore
<1>5. CASE UNCHANGED vars
  BY <1>5 DEF vars
<1> QED BY <1>1, <1>2, <1>3, <1>4, <1>5 DEF Next

(* Every variable of the program and of the disk keeps its type. *)
THEOREM SaveTypes == Spec => []TypeOK
  BY InitTypes, StepTypes, PTL DEF Spec

-----------------------------------------------------------------------------
(* Saves with backups, that a signature guards, and with nothing in the    *)
(* way of undoing one that fails.                                          *)

Careful == Risky = {}

(* No intact copy on the disk is newer than c. *)
Newest(c) == \A d \in Contents : OnDisk(d) => d <= c

NewestBackup == \E n \in Names : Intact(ibak[n]) /\ Newest(ibak[n])

(* An intact database, and what the program has, are the newest there is.  *)
Ages ==
    /\ Intact(db) => Newest(db)
    /\ pc # "down" => Newest(mem)
    /\ db # Hidden
    /\ \A k, n \in Numbers :
          k < n /\ Intact(ibak[k]) /\ Intact(ibak[n]) => ibak[k] <= ibak[n]

(* Between saves. *)
AtRest ==
    /\ pc \in {"idle", "down"} => bu = NoName
    /\ pc = "idle" =>
         /\ named /\ sig = NoSig => Intact(db)
         /\ named /\ clean => db \in {mem, Damaged}
         /\ ~named => NewestBackup

(* While the backup is made the database is whole ... *)
BackingUp ==
    /\ pc \in {"trim", "rename", "copy", "unlink"} =>
         /\ named
         /\ bu # NoName
         /\ Intact(db)
         /\ clean => db = mem
         /\ bu \in Numbers => \A k \in Numbers : ibak[k] # Missing => k <= bu
    /\ pc = "unlink" => ibak[bu] = db

(* ... and while the database is rewritten the newest copy is a backup.    *)
Writing ==
    /\ pc \in {"open", "write", "restore", "recopy", "reunlink"} =>
         \/ bu = NoName /\ ~named /\ pc \in {"open", "write"} /\ NewestBackup
         \/ /\ bu # NoName
            /\ named
            /\ Intact(ibak[bu])
            /\ Newest(ibak[bu])
            /\ clean => ibak[bu] = mem
    /\ pc = "reunlink" => db = ibak[bu]

Safe == Ages /\ AtRest /\ BackingUp /\ Writing

LEMMA InitSafe == Init => Safe
  BY DEF Init, Safe, Ages, AtRest, BackingUp, Writing, Newest, OnDisk, Intact

LEMMA StepSafe ==
  ASSUME Careful
  PROVE  TypeOK /\ Safe /\ [Next]_vars => Safe'
<1> SUFFICES ASSUME TypeOK, Safe, [Next]_vars  PROVE Safe'
  OBVIOUS
<1> USE DEF Careful, TypeOK, Safe, Ages, AtRest, BackingUp, Writing, Newest, NewestBackup, OnDisk,
            Intact, GoTo, Idle, Undo, Loaded, prefVars, coreVars, callVars, diskVars
<1>1. CASE World
  <2>1. CASE Edit
    BY <2>1 DEF Edit
  <2>2. CASE SetPrefs
    BY <2>2 DEF SetPrefs
  <2>3. CASE Damage
    BY <2>3 DEF Damage
  <2>4. CASE Crash
    BY <2>4 DEF Crash
  <2>5. CASE Start
    BY <2>5 DEF Start
  <2>6. CASE Recover
    BY <2>6 DEF Recover
  <2>7. CASE SaveAs
    BY <2>7 DEF SaveAs
  <2> QED BY <1>1, <2>1, <2>2, <2>3, <2>4, <2>5, <2>6, <2>7 DEF World
<1>2. CASE Backup
  <2>1. CASE SaveInPlace
    BY <2>1 DEF SaveInPlace, SigMatches
  <2>2. CASE SaveToName
    BY <2>2 DEF SaveToName, SigMatches
  <2>3. CASE SaveToNumber
    BY <2>3 DEF SaveToNumber, SigMatches, IsNextNumber, Found
  <2>4. CASE Trim
    BY <2>4 DEF Trim
  <2>5. CASE Trimmed
    BY <2>5 DEF Trimmed
  <2>6. CASE Rename
    <3>1. Ages'
      <4>1. /\ db \in Contents
            /\ \A n \in Names : ibak'[n] = IF n = bu THEN db ELSE ibak[n]
            /\ \A n \in Numbers : ibak[n] \in Contents => ibak[n] <= db
            /\ bu \in Numbers => \A k \in Numbers : ibak[k] # Missing => k <= bu
        BY <2>6 DEF Rename
      <4>2. ASSUME NEW k \in Numbers, NEW n \in Numbers, k < n,
                   ibak'[k] \in Contents, ibak'[n] \in Contents
            PROVE  ibak'[k] <= ibak'[n]
        <5>1. CASE n = bu
          BY <4>1, <4>2, <5>1
        <5>2. CASE n # bu
          BY <4>1, <4>2, <5>2
        <5> QED BY <5>1, <5>2
      <4>3. Intact(db)' => Newest(db)'
        BY <2>6, <4>1 DEF Rename
      <4>4. pc' # "down" => Newest(mem)'
        BY <2>6, <4>1 DEF Rename
      <4> QED BY <2>6, <4>2, <4>3, <4>4 DEF Rename
    <3>2. AtRest' /\ BackingUp'
      BY <2>6 DEF Rename
    <3>3. Writing'
      BY <2>6 DEF Rename
    <3> QED BY <3>1, <3>2, <3>3
  <2>7. CASE Copy
    BY <2>7 DEF Copy
  <2>8. CASE Copied
    <3>1. Ages'
      <4>1. /\ db \in Contents
            /\ \A n \in Names : ibak'[n] = IF n = bu THEN db ELSE ibak[n]
            /\ \A n \in Numbers : ibak[n] \in Contents => ibak[n] <= db
            /\ bu \in Numbers => \A k \in Numbers : ibak[k] # Missing => k <= bu
        BY <2>8 DEF Copied
      <4>2. ASSUME NEW k \in Numbers, NEW n \in Numbers, k < n,
                   ibak'[k] \in Contents, ibak'[n] \in Contents
            PROVE  ibak'[k] <= ibak'[n]
        <5>1. CASE n = bu
          BY <4>1, <4>2, <5>1
        <5>2. CASE n # bu
          BY <4>1, <4>2, <5>2
        <5> QED BY <5>1, <5>2
      <4>3. Intact(db)' => Newest(db)'
        BY <2>8, <4>1 DEF Copied
      <4>4. pc' # "down" => Newest(mem)'
        BY <2>8, <4>1 DEF Copied
      <4> QED BY <2>8, <4>2, <4>3, <4>4 DEF Copied
    <3>2. AtRest' /\ BackingUp' /\ Writing'
      BY <2>8 DEF Copied
    <3> QED BY <3>1, <3>2
  <2>9. CASE UnlinkOriginal
    BY <2>9 DEF UnlinkOriginal
  <2>10. CASE BackupFails
    BY <2>10 DEF BackupFails
  <2> QED BY <1>2, <2>1, <2>2, <2>3, <2>4, <2>5, <2>6, <2>7, <2>8, <2>9, <2>10 DEF Backup
<1>3. CASE Write
  <2>1. CASE OpenFile
    BY <2>1 DEF OpenFile
  <2>2. CASE OpenFails
    BY <2>2 DEF OpenFails
  <2>3. CASE Written
    BY <2>3 DEF Written
  <2>4. CASE WriteFails
    BY <2>4 DEF WriteFails
  <2> QED BY <1>3, <2>1, <2>2, <2>3, <2>4 DEF Write
<1>4. CASE Restore
  <2>1. CASE PutBack
    BY <2>1 DEF PutBack
  <2>2. CASE CopyBack
    BY <2>2 DEF CopyBack
  <2>3. CASE CopiedBack
    BY <2>3 DEF CopiedBack
  <2>4. CASE UnlinkBackup
    BY <2>4 DEF UnlinkBackup
  <2>5. CASE RestoreFails
    BY <2>5 DEF RestoreFails
  <2> QED BY <1>4, <2>1, <2>2, <2>3, <2>4, <2>5 DEF Restore
<1>5. CASE UNCHANGED vars
  BY <1>5 DEF vars
<1> QED BY <1>1, <1>2, <1>3, <1>4, <1>5 DEF Next

LEMMA SafeInvariant ==
  ASSUME Careful
  PROVE  Spec => [](TypeOK /\ Safe)
<1>1. Init => TypeOK /\ Safe
  BY InitTypes, InitSafe
<1>2. TypeOK /\ Safe /\ [Next]_vars => (TypeOK /\ Safe)'
  BY StepTypes, StepSafe
<1> QED BY <1>1, <1>2, PTL DEF Spec

(* The backup of a database that is being rewritten, and is not whole      *)
(* itself, is whole.                                                       *)
THEOREM BackupsAreWhole ==
  ASSUME Careful
  PROVE  Spec => []BackupIsWhole
<1>1. Safe => BackupIsWhole
  BY DEF Safe, Writing, BackupIsWhole
<1> QED BY <1>1, SafeInvariant, PTL

(* The numbers of the backups tell their age, and an intact database is no *)
(* older than they are.                                                    *)
THEOREM BackupNumbersTellAge ==
  ASSUME Careful
  PROVE  Spec => []BackupsInOrder
<1>1. TypeOK /\ Safe => BackupsInOrder
  BY DEF Safe, Ages, Newest, OnDisk, Intact, BackupsInOrder, TypeOK
<1> QED BY <1>1, SafeInvariant, PTL

(* What is shown as saved is in the database file, whichever saves failed  *)
(* at whichever step, unless something else damaged the file.              *)
THEOREM CleanDatabasesAreOnDisk ==
  ASSUME Careful
  PROVE  Spec => []CleanIsOnDisk
<1>1. Safe => CleanIsOnDisk
  BY DEF Safe, AtRest, CleanIsOnDisk
<1> QED BY <1>1, SafeInvariant, PTL

(* No intact copy goes but for a newer one. *)
Superseded(c) == OnDisk(c) /\ ~OnDisk(c)' => \E d \in Contents : d > c /\ OnDisk(d)'

LEMMA StepKeepsNewest ==
  ASSUME Careful, TypeOK, Safe, [Next]_vars, ~Damage, NEW c \in Contents
  PROVE  Superseded(c)
<1> USE DEF Careful, TypeOK, Safe, Ages, AtRest, BackingUp, Writing, Newest, NewestBackup, OnDisk,
            Intact, GoTo, Idle, Undo, Loaded, prefVars, coreVars, callVars, diskVars, Superseded
<1>1. CASE Edit \/ SetPrefs \/ Crash \/ Start \/ Recover \/ SaveAs \/ SaveInPlace
            \/ SaveToName \/ SaveToNumber \/ Trimmed \/ OpenFails \/ WriteFails
  BY <1>1 DEF Edit, SetPrefs, Crash, Start, Recover, SaveAs, SaveInPlace,
       SaveToName, SaveToNumber, Trimmed, OpenFails, WriteFails
<1>2. CASE Trim
  BY <1>2 DEF Trim
<1>3. CASE Rename
  BY <1>3 DEF Rename
<1>4. CASE Copy
  BY <1>4 DEF Copy
<1>5. CASE Copied
  BY <1>5 DEF Copied
<1>6. CASE UnlinkOriginal
  BY <1>6 DEF UnlinkOriginal
<1>7. CASE BackupFails
  BY <1>7 DEF BackupFails
<1>8. CASE OpenFile
  <2>1. NewestBackup
    BY <1>8 DEF OpenFile
  <2>2. ibak' = ibak
    BY <1>8 DEF OpenFile
  <2>3. PICK n \in Names : Intact(ibak[n]) /\ Newest(ibak[n])
    BY <2>1 DEF NewestBackup
  <2> HIDE DEF Safe, TypeOK
  <2>4. PICK d \in Contents : d = ibak[n]
    BY <2>3
  <2>5. OnDisk(d)'
    BY <2>2, <2>4
  <2>6. OnDisk(c) /\ ~OnDisk(c)' => d > c
    <3> SUFFICES ASSUME OnDisk(c), ~OnDisk(c)'  PROVE d > c
      OBVIOUS
    <3>1. c <= d
      BY <2>3, <2>4
    <3>2. c # d
      BY <2>5
    <3> QED BY <3>1, <3>2
  <2> QED BY <2>5, <2>6 DEF Superseded
<1>9. CASE Written
  BY <1>9 DEF Written
<1>10. CASE PutBack
  BY <1>10 DEF PutBack
<1>11. CASE CopyBack
  <2>1. NewestBackup
    BY <1>11 DEF CopyBack
  <2>2. ibak' = ibak
    BY <1>11 DEF CopyBack
  <2>3. PICK n \in Names : Intact(ibak[n]) /\ Newest(ibak[n])
    BY <2>1 DEF NewestBackup
  <2> HIDE DEF Safe, TypeOK
  <2>4. PICK d \in Contents : d = ibak[n]
    BY <2>3
  <2>5. OnDisk(d)'
    BY <2>2, <2>4
  <2>6. OnDisk(c) /\ ~OnDisk(c)' => d > c
    <3> SUFFICES ASSUME OnDisk(c), ~OnDisk(c)'  PROVE d > c
      OBVIOUS
    <3>1. c <= d
      BY <2>3, <2>4
    <3>2. c # d
      BY <2>5
    <3> QED BY <3>1, <3>2
  <2> QED BY <2>5, <2>6 DEF Superseded
<1>12. CASE CopiedBack
  BY <1>12 DEF CopiedBack
<1>13. CASE UnlinkBackup
  BY <1>13 DEF UnlinkBackup
<1>14. CASE RestoreFails
  BY <1>14 DEF RestoreFails
<1>15. CASE UNCHANGED vars
  BY <1>15 DEF vars
<1> QED BY <1>1, <1>2, <1>3, <1>4, <1>5, <1>6, <1>7, <1>8, <1>9, <1>10, <1>11, <1>12, <1>13, <1>14, <1>15
    DEF Next, World, Backup, Write, Restore

(* No step of a save, failure or death of the program loses the newest     *)
(* intact copy of the database.                                            *)
THEOREM NewestCopyIsKept ==
  ASSUME Careful
  PROVE  Spec => NewestKept
<1>1. TypeOK /\ Safe /\ [Next]_vars =>
        [\A c \in Contents : OnDisk(c) /\ ~OnDisk(c)' =>
            Damage \/ \E d \in Contents : d > c /\ OnDisk(d)']_vars
  BY StepKeepsNewest DEF Superseded
<1> QED BY <1>1, SafeInvariant, PTL DEF Spec, NewestKept

-----------------------------------------------------------------------------
(* The number of backups, whatever else fails, while those in excess can   *)
(* be deleted.                                                             *)

(* The backups that will be left when the new one is made, but for it. *)
Others == (Found \ excess) \ {bu}

Trimming ==
    /\ pc # "trim" => excess = {}
    /\ pc \in {"idle", "down"} => bu = NoName
    /\ pc \in {"trim", "rename", "copy", "unlink", "open"} /\ bu \in Numbers =>
          Cardinality(Others) <= Limit - 1

LEMMA LimitType ==
  ASSUME TypeOK
  PROVE  Limit \in Nat /\ 1 <= Limit /\ Limit <= maxBackups
  BY DEF TypeOK, Limit

LEMMA FiniteNumbers ==
  ASSUME NEW S \in SUBSET Numbers
  PROVE  IsFiniteSet(S) /\ Cardinality(S) \in Nat
<1>1. IsFiniteSet(1 .. LastNumber)
  BY FS_Interval
<1>2. IsFiniteSet(S)
  BY <1>1, FS_Subset
<1> QED BY <1>2, FS_CardinalityType

(* What ManageIncBackupFiles keeps is less than the limit: the oldest it   *)
(* keeps has fewer than Limit - 1 newer ones.                              *)
LEMMA FewKept ==
  ASSUME TypeOK
  PROVE  Cardinality(Found \ Excess) <= Limit - 1
<1> DEFINE Kept == Found \ Excess
<1>1. Kept \subseteq Numbers /\ Found \subseteq Numbers
  BY DEF Found
<1>2. CASE Kept = {}
  <2>1. Cardinality(Kept) = 0
    BY <1>2, FS_EmptySet
  <2> QED BY <2>1, LimitType
<1>3. CASE Kept # {}
  <2>1. PICK m \in Kept : \A k \in Kept : m <= k
    <3>1. Kept \in SUBSET Nat
      BY <1>1
    <3> HIDE DEF Kept
    <3> QED BY <1>3, <3>1, LeastNumber
  <2> DEFINE Newer == {k \in Found : k > m}
  <2>2. Newer \in SUBSET Numbers /\ m \notin Newer
    <3>1. m \in Int
      BY <1>1
    <3>2. ~(m > m)
      BY <3>1
    <3> QED BY <1>1, <3>2
  <2>3. Cardinality(Newer) < Limit - 1
    <3>1. ~(Cardinality(Newer) >= Limit - 1)
      BY <2>1 DEF Excess
    <3> HIDE DEF Newer
    <3> QED BY <3>1, <2>2, FiniteNumbers, LimitType
  <2>4. Kept \subseteq Newer \cup {m}
    BY <1>1, <2>1
  <2>5. Newer \cup {m} \in SUBSET Numbers
    BY <1>1, <2>1, <2>2
  <2> HIDE DEF Newer, Kept
  <2>6. Cardinality(Newer \cup {m}) = Cardinality(Newer) + 1
    BY <2>2, FiniteNumbers, FS_AddElement
  <2>7. Cardinality(Kept) <= Cardinality(Newer \cup {m})
    BY <2>4, <2>5, FiniteNumbers, FS_Subset
  <2>8. Cardinality(Kept) \in Nat /\ Cardinality(Newer) \in Nat
    BY <1>1, <2>2, FiniteNumbers
  <2> QED BY <2>3, <2>6, <2>7, <2>8, LimitType DEF Kept
<1> QED BY <1>2, <1>3

(* No step of a save but the first adds to the others. *)
LEMMA OthersShrink ==
  ASSUME TypeOK, Trimming, Limit' = Limit, Others' \subseteq Others, UNCHANGED bu,
         pc \in {"trim", "rename", "copy", "unlink", "open"},
         pc' \notin {"idle", "down"}, pc' # "trim" => excess' = {}
  PROVE  Trimming'
<1>1. Others \in SUBSET Numbers
  BY DEF Others, Found
<1>2. Cardinality(Others') <= Cardinality(Others)
  BY <1>1, FiniteNumbers, FS_Subset
<1>3. Cardinality(Others') \in Nat /\ Cardinality(Others) \in Nat
  BY <1>1, FiniteNumbers
<1> QED BY <1>2, <1>3, LimitType DEF Trimming

LEMMA StepTrimming ==
  ASSUME "undeleted" \notin Risky
  PROVE  TypeOK /\ Trimming /\ [Next]_vars => Trimming'
<1> SUFFICES ASSUME TypeOK, Trimming, [Next]_vars  PROVE Trimming'
  OBVIOUS
<1> USE DEF GoTo, Idle, Undo, prefVars, coreVars, callVars, diskVars
<1>1. CASE Edit \/ SetPrefs \/ Damage
  BY <1>1 DEF Edit, SetPrefs, Damage, Trimming
<1>2. CASE Crash \/ Start \/ Recover \/ SaveAs \/ SaveInPlace
  <2>1. excess' = {} /\ bu' = NoName /\ NoName \notin Numbers
    BY <1>2 DEF Crash, Start, Recover, SaveAs, SaveInPlace, Loaded, Trimming
  <2> QED BY <1>2, <2>1 DEF Crash, Start, Recover, SaveAs, SaveInPlace, Loaded, Trimming
<1>3. CASE SaveToName
  BY <1>3 DEF SaveToName, Trimming
<1>4. CASE SaveToNumber
  <2>1. CASE excess' = Excess /\ pc' = "trim" /\ bu' \in Numbers
    <3>1. Others' \subseteq Found \ Excess /\ Limit' = Limit
      BY <1>4, <2>1 DEF SaveToNumber, Others, Found, Limit
    <3>2. Found \ Excess \in SUBSET Numbers
      BY DEF Found
    <3>3. Cardinality(Others') <= Cardinality(Found \ Excess)
      BY <3>1, <3>2, FiniteNumbers, FS_Subset
    <3>4. Cardinality(Others') \in Nat /\ Cardinality(Found \ Excess) \in Nat
      BY <3>1, <3>2, FiniteNumbers
    <3> QED BY <2>1, <3>1, <3>3, <3>4, FewKept, LimitType DEF Trimming
  <2>2. CASE bu' \in Times /\ pc' = "rename" /\ UNCHANGED excess /\ pc = "idle"
    BY <2>2 DEF Trimming
  <2> QED BY <1>4, <2>1, <2>2 DEF SaveToNumber
<1>5. CASE Trim
  <2>1. PICK n \in excess : excess' = excess \ {n} /\ ibak' = [ibak EXCEPT ![n] = Missing]
    BY <1>5 DEF Trim
  <2>2. Others' \subseteq Others /\ Limit' = Limit
    BY <1>5, <2>1 DEF Trim, Others, Found, Limit, TypeOK
  <2> QED BY <1>5, <2>2, OthersShrink DEF Trim
<1>6. CASE Trimmed
  BY <1>6, OthersShrink DEF Trimmed, Others, Found, Limit
<1>7. CASE Rename \/ Copy \/ Copied
  <2>1. Others' \subseteq Others /\ Limit' = Limit
    BY <1>7 DEF Rename, Copy, Copied, Others, Found, Limit, TypeOK
  <2> QED BY <1>7, <2>1, OthersShrink DEF Rename, Copy, Copied, Trimming
<1>8. CASE UnlinkOriginal
  BY <1>8, OthersShrink DEF UnlinkOriginal, Others, Found, Limit, Trimming
<1>9. CASE BackupFails
  <2>1. CASE Idle
    BY <2>1 DEF Trimming
  <2>2. CASE pc' = "open" /\ UNCHANGED <<bu, excess>>
    <3>1. Others' \subseteq Others /\ Limit' = Limit
      BY <1>9, <2>2 DEF BackupFails, Others, Found, Limit, TypeOK
    <3> QED BY <1>9, <2>2, <3>1, OthersShrink DEF BackupFails, Trimming
  <2> QED BY <1>9, <2>1, <2>2 DEF BackupFails
<1>10. CASE OpenFile \/ OpenFails \/ Written \/ WriteFails
  BY <1>10 DEF OpenFile, OpenFails, Written, WriteFails, Trimming
<1>11. CASE PutBack \/ CopyBack \/ CopiedBack \/ UnlinkBackup \/ RestoreFails
  BY <1>11 DEF PutBack, CopyBack, CopiedBack, UnlinkBackup, RestoreFails, Trimming
<1>12. CASE UNCHANGED vars
  BY <1>12 DEF vars, Trimming, Others, Found, Limit
<1> QED BY <1>1, <1>2, <1>3, <1>4, <1>5, <1>6, <1>7, <1>8, <1>9, <1>10, <1>11, <1>12
    DEF Next, World, Backup, Write, Restore

(* When the new backup has been made - or, where the user goes on without  *)
(* it, has not - there are no more than the preference asks for: whatever  *)
(* was found, however it is numbered, and whatever fails but the deletion  *)
(* of an excess one.                                                       *)
THEOREM BackupsAreTrimmed ==
  ASSUME "undeleted" \notin Risky
  PROVE  Spec => []TrimmedToMax
<1>1. Init => TypeOK /\ Trimming
  BY InitTypes DEF Init, Trimming
<1>2. TypeOK /\ Trimming /\ [Next]_vars => (TypeOK /\ Trimming)'
  BY StepTypes, StepTrimming
<1>3. TypeOK /\ Trimming => TrimmedToMax
  <2> SUFFICES ASSUME TypeOK, Trimming, pc = "open", bu \in Numbers
               PROVE  Cardinality(Found) <= maxBackups
    BY DEF TrimmedToMax
  <2>1. Others \in SUBSET Numbers /\ Found \subseteq Others \cup {bu} /\ bu \notin Others
    BY DEF Others, Found, Trimming
  <2>2. Others \cup {bu} \in SUBSET Numbers
    BY <2>1
  <2>3. Cardinality(Others \cup {bu}) = Cardinality(Others) + 1
    BY <2>1, FiniteNumbers, FS_AddElement
  <2>4. Cardinality(Found) <= Cardinality(Others \cup {bu})
    BY <2>1, <2>2, FiniteNumbers, FS_Subset
  <2>5. Cardinality(Others) \in Nat /\ Cardinality(Found) \in Nat
    BY <2>1, FiniteNumbers DEF Found
  <2> QED BY <2>3, <2>4, <2>5, LimitType DEF Trimming, TypeOK
<1> QED BY <1>1, <1>2, <1>3, PTL DEF Spec
=============================================================================
