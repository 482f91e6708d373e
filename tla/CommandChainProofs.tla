------------------------- MODULE CommandChainProofs -------------------------
(***************************************************************************)
(* Proofs about CommandChain, for every set of contents and files, every   *)
(* preference and both front ends; and, where the session only does what   *)
(* the code handles, that it implements UndoDocument.                      *)
(***************************************************************************)
EXTENDS CommandChain, SequenceTheorems, TLAPS

USE DEF States, Versions, Phases

-----------------------------------------------------------------------------
(* What Execute, Undo, Redo and a write make of the chain. *)

LEMMA EmptyChainOK == EmptyChain \in Chains /\ InStep(EmptyChain)
  BY EmptySeq DEF EmptyChain, Chains, InStep

LEMMA ExecutedOK ==
  ASSUME chain \in Chains, InStep(chain),
         NEW cmd \in Commands, NEW before \in States, NEW after \in States
  PROVE  LET ch == Executed(cmd, before, after)
             st == [before |-> before, after |-> after]
         IN  /\ ch \in Chains
             /\ InStep(ch)
             /\ ch.redo = chain.redo + 1
             /\ Len(ch.cmds) = chain.redo
             /\ \A i \in 1..chain.redo :
                    /\ ch.cmds[i] = IF i = chain.redo THEN cmd ELSE chain.cmds[i]
                    /\ ch.states[i] = IF i = chain.redo THEN st ELSE chain.states[i]
<1> DEFINE ch == Executed(cmd, before, after)
           st == [before |-> before, after |-> after]
           k == chain.redo - 1
           kept == SubSeq(chain.cmds, 1, k)
           keptStates == SubSeq(chain.states, 1, k)
<1>1. /\ chain.cmds \in Seq(Commands) /\ chain.states \in Seq(DBStates)
      /\ Len(chain.states) = Len(chain.cmds) /\ Len(chain.cmds) \in Nat
      /\ k \in 0..Len(chain.cmds) /\ chain.redo = k + 1 /\ chain.redoState = k + 1
  BY LenProperties DEF Chains, InStep
<1>2. /\ kept \in Seq(Commands) /\ Len(kept) = k
      /\ \A i \in 1..k : kept[i] = chain.cmds[i]
  <2>1. \A i \in 1..k : chain.cmds[i] \in Commands
    BY <1>1, ElementOfSeq
  <2>2. kept \in Seq(Commands) /\ Len(kept) = (IF 1 <= k THEN k - 1 + 1 ELSE 0)
        /\ \A i \in 1..(k - 1 + 1) : kept[i] = chain.cmds[1 + i - 1]
    <3> HIDE DEF k
    <3> QED BY <1>1, <2>1, SubSeqProperties
  <2> QED BY <2>2, <1>1
<1>3. /\ keptStates \in Seq(DBStates) /\ Len(keptStates) = k
      /\ \A i \in 1..k : keptStates[i] = chain.states[i]
  <2>1. \A i \in 1..k : chain.states[i] \in DBStates
    BY <1>1, ElementOfSeq
  <2>2. keptStates \in Seq(DBStates) /\ Len(keptStates) = (IF 1 <= k THEN k - 1 + 1 ELSE 0)
        /\ \A i \in 1..(k - 1 + 1) : keptStates[i] = chain.states[1 + i - 1]
    <3> HIDE DEF k
    <3> QED BY <1>1, <2>1, SubSeqProperties
  <2> QED BY <2>2, <1>1
<1>4. ch = [cmds |-> Append(kept, cmd), states |-> Append(keptStates, st),
            undo |-> k + 1, redo |-> k + 2, undoState |-> k + 1, redoState |-> k + 2]
  BY <1>1, <1>2, <1>3 DEF Executed
<1>5. /\ Append(kept, cmd) \in Seq(Commands) /\ Len(Append(kept, cmd)) = k + 1
      /\ \A i \in 1..(k + 1) :
            Append(kept, cmd)[i] = IF i = k + 1 THEN cmd ELSE chain.cmds[i]
  <2> HIDE DEF kept, k
  <2> QED BY <1>1, <1>2, AppendProperties
<1>6. /\ Append(keptStates, st) \in Seq(DBStates) /\ Len(Append(keptStates, st)) = k + 1
      /\ \A i \in 1..(k + 1) :
            Append(keptStates, st)[i] = IF i = k + 1 THEN st ELSE chain.states[i]
  <2>1. st \in DBStates
    BY DEF DBStates
  <2> HIDE DEF keptStates, k, st
  <2> QED BY <1>1, <1>3, <2>1, AppendProperties
<1> HIDE DEF ch, kept, keptStates, k, st
<1>7. ch \in Chains
  BY <1>1, <1>4, <1>5, <1>6 DEF Chains
<1>8. InStep(ch)
  BY <1>1, <1>4, <1>5, <1>6 DEF InStep
<1> QED BY <1>1, <1>4, <1>5, <1>6, <1>7, <1>8 DEF ch, st

(* The chain Undo and Redo leave differs only in its iterators. *)
LEMMA UndoneOK ==
  ASSUME chain \in Chains, InStep(chain), chain.undo \in DOMAIN chain.cmds
  PROVE  /\ Undone \in Chains
         /\ InStep(Undone)
         /\ Undone.cmds = chain.cmds
         /\ Undone.states = chain.states
         /\ Undone.redo = chain.redo - 1
         /\ chain.undo = chain.redo - 1
         /\ chain.undo \in 1..Len(chain.cmds)
<1>1. /\ Len(chain.cmds) \in Nat /\ Len(chain.states) \in Nat
      /\ DOMAIN chain.cmds = 1..Len(chain.cmds)
  BY LenProperties DEF Chains
<1>3. chain.undo = chain.redo - 1 /\ chain.undo \in 1..Len(chain.cmds)
  BY <1>1 DEF InStep, Chains
<1>4. Undone \in Chains
  BY <1>1, <1>3 DEF Chains, InStep, Undone
<1>5. InStep(Undone)
  BY <1>1, <1>3 DEF Chains, InStep, Undone
<1> QED BY <1>3, <1>4, <1>5 DEF Undone

LEMMA RedoneOK ==
  ASSUME chain \in Chains, InStep(chain), AnyToRedo
  PROVE  /\ Redone \in Chains
         /\ InStep(Redone)
         /\ Redone.cmds = chain.cmds
         /\ Redone.states = chain.states
         /\ Redone.redo = chain.redo + 1
         /\ chain.redo \in 1..Len(chain.cmds)
<1>1. Len(chain.cmds) \in Nat /\ Len(chain.states) \in Nat
  BY LenProperties DEF Chains
<1>3. chain.redo \in 1..Len(chain.cmds)
  BY <1>1 DEF InStep, Chains, AnyToRedo
<1>4. Redone \in Chains
  BY <1>1, <1>3 DEF Chains, InStep, Redone
<1>5. InStep(Redone)
  BY <1>1, <1>3 DEF Chains, InStep, Redone
<1> QED BY <1>3, <1>4, <1>5 DEF Redone

(* After a write the position is the only clean one. *)
LEMMA MarkedSavedOK ==
  ASSUME NEW ch \in Chains, InStep(ch)
  PROVE  /\ MarkedSaved(ch) \in Chains
         /\ InStep(MarkedSaved(ch))
         /\ MarkedSaved(ch).cmds = ch.cmds
         /\ MarkedSaved(ch).redo = ch.redo
         /\ \A i \in 1..Len(ch.cmds) :
               /\ MarkedSaved(ch).states[i].before = "CLEAN" => i = ch.redo
               /\ MarkedSaved(ch).states[i].after = "CLEAN" => i = ch.redo - 1
<1> DEFINE n == Len(ch.cmds)
           s == [i \in 1..n |->
                   IF ch.undoState # n + 1 /\ i <= ch.undoState
                   THEN [before |-> "DIRTY",
                         after |-> IF i = ch.undoState THEN "CLEAN" ELSE "DIRTY"]
                   ELSE IF i >= ch.redoState
                   THEN [before |-> IF i = ch.redoState THEN "CLEAN" ELSE "DIRTY",
                         after |-> "DIRTY"]
                   ELSE ch.states[i]]
<1>1. /\ n \in Nat /\ Len(ch.states) = n /\ DOMAIN ch.states = 1..n
      /\ ch.states \in Seq(DBStates)
      /\ ch.undoState \in Nat /\ ch.redoState \in Nat
      /\ ch.redo \in 1..(n + 1) /\ ch.redoState = ch.redo
      /\ ch.undoState = IF ch.redo = 1 THEN n + 1 ELSE ch.redo - 1
  BY LenProperties DEF Chains, InStep
<1>2. MarkedSaved(ch) = [ch EXCEPT !.states = s]
  BY <1>1 DEF MarkedSaved
<1>3. ASSUME NEW i \in 1..n
      PROVE  /\ i = ch.redo - 1 => s[i] = [before |-> "DIRTY", after |-> "CLEAN"]
             /\ i = ch.redo     => s[i] = [before |-> "CLEAN", after |-> "DIRTY"]
             /\ i \notin {ch.redo - 1, ch.redo} =>
                    s[i] = [before |-> "DIRTY", after |-> "DIRTY"]
  <2>1. CASE i < ch.redo
    BY <1>1, <2>1
  <2>2. CASE i >= ch.redo
    BY <1>1, <2>2
  <2> QED BY <1>1, <2>1, <2>2
<1>4. \A i \in 1..n : s[i] \in DBStates
  <2> HIDE DEF s, n
  <2>1. /\ [before |-> "DIRTY", after |-> "CLEAN"] \in DBStates
        /\ [before |-> "CLEAN", after |-> "DIRTY"] \in DBStates
        /\ [before |-> "DIRTY", after |-> "DIRTY"] \in DBStates
    BY DEF DBStates
  <2> QED BY <1>3, <2>1
<1>5. s \in Seq(DBStates) /\ Len(s) = n
  <2>1. s \in [1..n -> DBStates]
    BY <1>4
  <2> HIDE DEF s, n
  <2> QED BY <2>1, <1>1
<1> HIDE DEF s, n
<1>6. MarkedSaved(ch) \in Chains /\ InStep(MarkedSaved(ch))
  BY <1>1, <1>2, <1>5 DEF Chains, InStep, n
<1>7. \A i \in 1..n :
         /\ s[i].before = "CLEAN" => i = ch.redo
         /\ s[i].after = "CLEAN" => i = ch.redo - 1
  BY <1>3
<1>8. MarkedSaved(ch).states = s /\ MarkedSaved(ch).cmds = ch.cmds
      /\ MarkedSaved(ch).redo = ch.redo
  BY <1>2 DEF Chains
<1> QED BY <1>6, <1>7, <1>8 DEF n

-----------------------------------------------------------------------------
(* Saving. *)

(* What TypeOK and IteratorsInStep say of the core while a database is open. *)
CoreOK ==
    /\ chain \in Chains
    /\ InStep(chain)
    /\ dbState \in States
    /\ content \in Contents
    /\ version \in Versions
    /\ sig \in Files \cup {NoFile}
    /\ disk \in [Files -> FileData]

LEMMA WriteFileOK ==
  ASSUME TypeOK,
         NEW ch \in Chains, InStep(ch), NEW c \in Contents, NEW st \in States,
         NEW f \in Files, NEW v \in Versions, NEW updateSig \in BOOLEAN,
         WriteFile(ch, c, st, f, v, updateSig)
  PROVE  CoreOK'
<1>1. version' \in Versions /\ content' \in Contents
  BY DEF WriteFile, TypeOK
<1>2. sig' \in Files \cup {NoFile}
  BY DEF WriteFile, TypeOK
<1>3. disk' \in [Files -> FileData]
  BY DEF WriteFile, TypeOK, FileData
<1>4. chain' \in Chains /\ InStep(chain') /\ dbState' \in States
  BY MarkedSavedOK DEF WriteFile
<1> QED BY <1>1, <1>2, <1>3, <1>4 DEF CoreOK

LEMMA WriteFailsOK ==
  ASSUME TypeOK,
         NEW ch \in Chains, InStep(ch), NEW c \in Contents, NEW st \in States,
         NEW f \in Files, NEW halfWritten \in BOOLEAN,
         WriteFails(ch, c, st, f, halfWritten)
  PROVE  CoreOK'
<1>1. disk' \in [Files -> FileData]
  BY DEF WriteFails, TypeOK, FileData
<1> QED BY <1>1 DEF WriteFails, TypeOK, CoreOK

LEMMA UnwrittenOK ==
  ASSUME TypeOK,
         NEW ch \in Chains, InStep(ch), NEW c \in Contents, NEW st \in States,
         Unwritten(ch, c, st)
  PROVE  CoreOK'
  BY DEF Unwritten, TypeOK, CoreOK

LEMMA SaveOfOK ==
  ASSUME TypeOK, cur # NoFile,
         NEW ch \in Chains, InStep(ch), NEW c \in Contents, NEW st \in States,
         NEW immediate \in BOOLEAN, SaveOf(ch, c, st, immediate)
  PROVE  CoreOK'
<1>1. cur \in Files /\ SaveVersion \in Versions
  BY DEF TypeOK, SaveVersion
<1>2. CASE WriteFile(ch, c, st, cur, SaveVersion, TRUE)
  BY <1>1, <1>2, WriteFileOK
<1>3. CASE \E b \in BOOLEAN : WriteFails(ch, c, st, cur, b)
  BY <1>1, <1>3, WriteFailsOK
<1>4. CASE Unwritten(ch, c, st)
  BY <1>4, UnwrittenOK
<1> QED BY <1>2, <1>3, <1>4 DEF SaveOf

LEMMA NotifyOK ==
  ASSUME TypeOK,
         NEW ch \in Chains, InStep(ch), NEW c \in Contents, NEW st \in States,
         NEW told, Notify(ch, c, st, told)
  PROVE  CoreOK'
  BY SaveOfOK, UnwrittenOK DEF Notify

-----------------------------------------------------------------------------
(* The types, and the four iterators, whatever the session does. *)

LEMMA CommandTypes ==
  ASSUME TypeOK, NEW i \in DOMAIN chain.cmds
  PROVE  chain.cmds[i] \in Commands
  BY ElementOfSeq, LenProperties DEF TypeOK, Chains

LEMMA StateTypes ==
  ASSUME TypeOK, NEW i \in 1..Len(chain.states)
  PROVE  chain.states[i] \in DBStates
  BY ElementOfSeq DEF TypeOK, Chains

LEMMA CoreUndoOK ==
  ASSUME TypeOK, IteratorsInStep, phase \in {"open", "backingOut"}, CoreUndo
  PROVE  CoreOK' /\ phase' \in {phase, "undefined"}
<1>1. CASE chain.undo \in DOMAIN chain.cmds
  <2>1. chain.states[chain.undoState].before \in States
    BY <1>1, UndoneOK, StateTypes DEF IteratorsInStep, InStep, TypeOK, DBStates
  <2>2. chain.cmds[chain.undo] \in Commands
    BY <1>1, CommandTypes
  <2>3. \A c \in AfterUndo(chain.cmds[chain.undo], content) : c \in Contents
    BY <2>2 DEF AfterUndo, TypeOK, Commands
  <2>4. Undone \in Chains /\ InStep(Undone)
    BY <1>1, UndoneOK DEF TypeOK, IteratorsInStep
  <2> QED BY <1>1, <2>1, <2>3, <2>4, NotifyOK DEF CoreUndo
<1>2. CASE chain.undo \notin DOMAIN chain.cmds
  BY <1>2 DEF CoreUndo, TypeOK, IteratorsInStep, CoreOK
<1> QED BY <1>1, <1>2

LEMMA InitOK == Init => TypeOK /\ IteratorsInStep
<1> SUFFICES ASSUME Init PROVE TypeOK /\ IteratorsInStep
  OBVIOUS
<1>1. chain \in Chains /\ InStep(chain)
  BY EmptyChainOK DEF Init
<1>2. disk \in [Files -> FileData]
  BY ConstantsAssumption DEF Init, FileData
<1> QED BY <1>1, <1>2 DEF Init, TypeOK, IteratorsInStep

(* While a database is open, CoreOK is all there is to the types. *)
LEMMA OpenTypes ==
  ASSUME CoreOK', phase' \in {"open", "backingOut", "undefined"},
         cur' \in Files \cup {NoFile}, readOnly' \in BOOLEAN, notify' \in BOOLEAN
  PROVE  TypeOK' /\ IteratorsInStep'
  BY DEF CoreOK, TypeOK, IteratorsInStep

LEMMA StepOK == TypeOK /\ IteratorsInStep /\ [Next]_vars => TypeOK' /\ IteratorsInStep'
<1> SUFFICES ASSUME TypeOK, IteratorsInStep, [Next]_vars
             PROVE  TypeOK' /\ IteratorsInStep'
  OBVIOUS
<1>0. /\ chain \in Chains /\ InStep(chain)
      /\ cur \in Files \cup {NoFile} /\ readOnly \in BOOLEAN /\ notify \in BOOLEAN
      /\ NewContent \in Contents
      /\ phase \in {"open", "backingOut"} => content \in Contents
  BY ConstantsAssumption DEF TypeOK, IteratorsInStep
<1>1. ASSUME MayExecute, notify' \in BOOLEAN,
             NEW new \in Contents, NEW told, ExecuteCommand(new, told)
      PROVE  TypeOK' /\ IteratorsInStep'
  <2> DEFINE cmd == [old |-> content, new |-> new, changed |-> TRUE]
  <2>1. cmd \in Commands /\ dbState \in States
    BY <1>0, <1>1 DEF MayExecute, Commands, TypeOK
  <2>2. Notify(Executed(cmd, dbState, "DIRTY"), new, "DIRTY", told)
    BY <1>1 DEF ExecuteCommand
  <2> HIDE DEF cmd
  <2>3. CoreOK'
    BY <1>0, <1>1, <2>1, <2>2, ExecutedOK, NotifyOK
  <2> QED BY <1>0, <1>1, <2>3, OpenTypes DEF MayExecute
<1>2. CASE ExecuteNothing
  <2>1. Notify(Executed([old |-> content, new |-> content, changed |-> FALSE], dbState, "CLEAN"),
               content, "CLEAN", notify)
    BY <1>2 DEF ExecuteNothing
  <2>2. [old |-> content, new |-> content, changed |-> FALSE] \in Commands
        /\ dbState \in States /\ content \in Contents
    BY <1>0, <1>2 DEF ExecuteNothing, MayExecute, Commands, TypeOK
  <2>3. CoreOK'
    BY <1>0, <2>1, <2>2, ExecutedOK, NotifyOK
  <2> QED BY <1>0, <1>2, <2>3, OpenTypes DEF ExecuteNothing, MayExecute
<1>3. CASE Undo
  BY <1>0, <1>3, CoreUndoOK, OpenTypes DEF Undo
<1>4. CASE Redo
  <2>1. chain.redo \in 1..Len(chain.cmds) /\ Redone \in Chains /\ InStep(Redone)
    BY <1>0, <1>4, RedoneOK DEF Redo
  <2>2. chain.states[chain.redoState].after \in States
    BY <1>0, <2>1, StateTypes DEF InStep, DBStates
  <2>3. chain.cmds[chain.redo] \in Commands
    BY <1>0, <2>1, CommandTypes, LenProperties DEF Chains
  <2>4. \A c \in AfterRedo(chain.cmds[chain.redo], content) : c \in Contents
    BY <1>0, <1>4, <2>3 DEF AfterRedo, Commands, Redo
  <2>5. CoreOK'
    BY <1>4, <2>1, <2>2, <2>4, NotifyOK DEF Redo
  <2> QED BY <1>0, <1>4, <2>5, OpenTypes DEF Redo
<1>5. CASE New
  <2>1. PICK f \in Files \ {cur} :
          /\ cur' = f
          /\ \/ /\ disk' = [disk EXCEPT ![f] = [data |-> NewContent, ver |-> 3]]
                /\ sig' = f
             \/ /\ disk' \in {disk, [disk EXCEPT ![f].data = NoData]}
                /\ sig' = NoFile
    BY <1>5 DEF New
  <2>2. disk' \in [Files -> FileData] /\ sig' \in Files \cup {NoFile}
    BY <1>0, <2>1 DEF TypeOK, FileData
  <2> QED BY <1>0, <1>5, <2>1, <2>2, EmptyChainOK DEF New, TypeOK, IteratorsInStep
<1>6. CASE Open
  <2>1. chain' \in Chains /\ InStep(chain')
    BY <1>0, <1>6, EmptyChainOK DEF Open
  <2>2. readOnly' \in BOOLEAN
    BY <1>0, <1>6 DEF Open
  <2> QED BY <1>6, <2>1, <2>2 DEF Open, ReadFile, TypeOK, IteratorsInStep, FileData
<1>7. CASE Restore
  BY <1>0, <1>7, EmptyChainOK DEF Restore, ReadFile, TypeOK, IteratorsInStep, FileData
<1>8. CASE Close
  BY <1>8, EmptyChainOK DEF Close, TypeOK, IteratorsInStep
<1>9. CASE Save
  <2>1. CoreOK'
    BY <1>0, <1>9, SaveOfOK DEF Save, TypeOK
  <2> QED BY <1>0, <1>9, <2>1, OpenTypes DEF Save
<1>10. CASE SaveAs
  <2>1. SaveVersion \in Versions /\ dbState \in States
    BY DEF SaveVersion, TypeOK
  <2>2. PICK f \in Files :
          \/ WriteFile(chain, content, dbState, f, SaveVersion, TRUE)
             /\ cur' = f /\ readOnly' = FALSE
          \/ /\ \E b \in BOOLEAN : WriteFails(chain, content, dbState, f, b)
             /\ UNCHANGED <<cur, readOnly>>
    BY <1>10 DEF SaveAs
  <2>3. CoreOK'
    BY <1>0, <1>10, <2>1, <2>2, WriteFileOK, WriteFailsOK DEF SaveAs
  <2> QED BY <1>0, <1>10, <2>2, <2>3, OpenTypes DEF SaveAs
<1>11. CASE Backup
  <2>1. version \in Versions /\ dbState \in States
    BY DEF TypeOK
  <2>2. CoreOK'
    BY <1>0, <1>11, <2>1, WriteFileOK DEF Backup
  <2> QED BY <1>0, <1>11, <2>2, OpenTypes DEF Backup
<1>12. CASE Export
  <2> DEFINE signed == FrontEnd = "wx"
  <2>1. dbState \in States /\ signed \in BOOLEAN
    BY DEF TypeOK
  <2>2. PICK f \in Files, v \in Versions : WriteFile(chain, content, dbState, f, v, signed)
    BY <1>12 DEF Export, Exportable, Versions
  <2>3. content \in Contents
    BY <1>0, <1>12 DEF Export, Exportable, Versions
  <2> HIDE DEF signed
  <2>4. CoreOK'
    BY <1>0, <2>1, <2>2, <2>3, WriteFileOK
  <2> QED BY <1>0, <1>12, <2>4, OpenTypes DEF Export, Exportable, Versions
<1>13. CASE Lock
  BY <1>0, <1>13, MarkedSavedOK
  DEF Lock, TypeOK, IteratorsInStep, FileData, SaveVersion
<1>14. CASE Unlock
  BY <1>0, <1>14 DEF Unlock, ReadFile, TypeOK, IteratorsInStep, FileData
<1>15. CASE ToReadOnly
  BY <1>15, EmptyChainOK DEF ToReadOnly, TypeOK, IteratorsInStep
<1>16. CASE BackOut
  BY <1>16 DEF BackOut, TypeOK, IteratorsInStep
<1>17. CASE BackOutStep
  BY <1>0, <1>17, CoreUndoOK, OpenTypes DEF BackOutStep
<1>18. CASE BackOutDone
  BY <1>18, EmptyChainOK DEF BackOutDone, TypeOK, IteratorsInStep
<1>19. CASE ToReadWrite
  BY <1>19 DEF ToReadWrite, TypeOK, IteratorsInStep
<1>20. CASE UNCHANGED vars
  BY <1>20 DEF vars, TypeOK, IteratorsInStep
<1>21. CASE Execute
  BY <1>0, <1>1, <1>21 DEF Execute
<1>22. CASE ExecuteSuspended
  BY <1>1, <1>22 DEF ExecuteSuspended
<1>23. CASE ChangeOptions
  BY <1>1, <1>23 DEF ChangeOptions
<1> QED BY <1>2, <1>3, <1>4, <1>5, <1>6, <1>7, <1>8, <1>9, <1>10, <1>11, <1>12, <1>13,
           <1>14, <1>15, <1>16, <1>17, <1>18, <1>19, <1>20, <1>21, <1>22, <1>23 DEF Next

(* Every behaviour of either front end, on any disk, is well typed. *)
THEOREM TypesCorrect == Spec => []TypeOK
<1>1. Init => TypeOK /\ IteratorsInStep
  BY InitOK
<1> QED BY <1>1, StepOK, PTL DEF Spec

(* The four iterators of the chain stay in step, whatever the session does *)
(* and however writes fail.                                                *)
THEOREM IteratorsStayInStep == Spec => []IteratorsInStep
<1>1. Init => TypeOK /\ IteratorsInStep
  BY InitOK
<1> QED BY <1>1, StepOK, PTL DEF Spec

-----------------------------------------------------------------------------
(* What is reported clean is saved: ui/Windows, when the session only does *)
(* what the code handles (backing out of changes included).                *)

Careful == FrontEnd = "mfc" /\ Risky \subseteq {"backout", "suspend", "unopened"}

(* The chain ch, the content c in memory, the state st reported and the    *)
(* data in the file agree.                                                 *)
Agree(ch, c, st, data) ==
    /\ LeadsTo(ch, c)
    /\ StatesTell(ch, data)
    /\ st = "CLEAN" => c = data

Agreed == cur # NoFile /\ Agree(chain, content, dbState, disk[cur].data)

LEMMA EmptyAgrees ==
  ASSUME NEW c, NEW st
  PROVE  Agree(EmptyChain, c, st, c)
  BY DEF Agree, EmptyChain, LeadsTo, StatesTell

(* A chain in step has its positions, and a content for each. *)
LEMMA PositionsInStep ==
  ASSUME NEW ch \in Chains, InStep(ch)
  PROVE  /\ Len(ch.cmds) \in Nat
         /\ DOMAIN ch.cmds = 1..Len(ch.cmds)
         /\ ch.redo \in 1..(Len(ch.cmds) + 1)
         /\ ch.cmds # <<>> <=> Len(ch.cmds) > 0
<1>1. Len(ch.cmds) \in Nat /\ DOMAIN ch.cmds = 1..Len(ch.cmds)
  BY LenProperties DEF Chains
<1>2. ch.cmds # <<>> <=> Len(ch.cmds) > 0
  BY <1>1, EmptySeq DEF Chains
<1> QED BY <1>1, <1>2 DEF InStep

LEMMA ExecutedAgrees ==
  ASSUME chain \in Chains, InStep(chain),
         NEW cmd \in Commands, NEW st \in States, NEW data,
         Agree(chain, content, dbState, data), dbState \in States,
         cmd.old = content, ~cmd.changed => cmd.old = cmd.new,
         st = "CLEAN" => cmd.new = data
  PROVE  Agree(Executed(cmd, dbState, st), cmd.new, st, data)
<1> DEFINE ch == Executed(cmd, dbState, st)
           k == chain.redo
<1>1. /\ ch \in Chains /\ InStep(ch) /\ ch.redo = k + 1 /\ Len(ch.cmds) = k
      /\ \A i \in 1..k :
            /\ ch.cmds[i] = IF i = k THEN cmd ELSE chain.cmds[i]
            /\ ch.states[i] = IF i = k THEN [before |-> dbState, after |-> st] ELSE chain.states[i]
  BY ExecutedOK
<1>2. /\ k \in 1..(Len(chain.cmds) + 1) /\ Len(chain.cmds) \in Nat
      /\ DOMAIN chain.cmds = 1..Len(chain.cmds)
      /\ chain.cmds # <<>> <=> Len(chain.cmds) > 0
  BY PositionsInStep
<1> HIDE DEF ch, k
<1>3. DOMAIN ch.cmds = 1..k
  BY <1>1, PositionsInStep
<1>4. k > 1 => content = chain.cmds[k - 1].new
  BY <1>2 DEF Agree, LeadsTo, ContentAfter, k
<1>5. ASSUME NEW i \in 1..k
      PROVE  /\ i > 1 => ch.cmds[i].old = ch.cmds[i - 1].new
             /\ ~ch.cmds[i].changed => ch.cmds[i].old = ch.cmds[i].new
  <2>1. CASE i = k
    <3>1. k > 1 => ch.cmds[k - 1] = chain.cmds[k - 1]
      BY <1>1, <1>2
    <3> QED BY <1>1, <1>2, <1>4, <2>1, <3>1
  <2>2. CASE i # k
    <3>1. i \in DOMAIN chain.cmds /\ ch.cmds[i] = chain.cmds[i]
      BY <1>1, <1>2, <2>2
    <3>2. i > 1 => ch.cmds[i - 1] = chain.cmds[i - 1]
      BY <1>1, <1>2, <2>2
    <3> QED BY <3>1, <3>2 DEF Agree, LeadsTo
  <2> QED BY <2>1, <2>2
<1>6. cmd.new = ContentAfter(ch, ch.redo - 1)
  BY <1>1, <1>2 DEF ContentAfter
<1>7. LeadsTo(ch, cmd.new)
  BY <1>3, <1>5, <1>6 DEF LeadsTo
<1>8. StatesTell(ch, data)
  <2> SUFFICES ASSUME NEW i \in 1..k
               PROVE  /\ ch.states[i].before = "CLEAN" => ch.cmds[i].old = data
                      /\ ch.states[i].after = "CLEAN" => ch.cmds[i].new = data
    BY <1>3 DEF StatesTell
  <2>1. CASE i = k
    BY <1>1, <2>1 DEF Agree
  <2>2. CASE i # k
    <3>1. i \in DOMAIN chain.cmds /\ ch.cmds[i] = chain.cmds[i] /\ ch.states[i] = chain.states[i]
      BY <1>1, <1>2, <2>2
    <3> QED BY <3>1 DEF Agree, StatesTell
  <2> QED BY <2>1, <2>2
<1> QED BY <1>7, <1>8 DEF Agree, ch

LEMMA UndoneAgrees ==
  ASSUME chain \in Chains, InStep(chain), chain.undo \in DOMAIN chain.cmds,
         NEW data, Agree(chain, content, dbState, data),
         NEW c \in AfterUndo(chain.cmds[chain.undo], content)
  PROVE  Agree(Undone, c, chain.states[chain.undoState].before, data)
<1> DEFINE u == chain.undo
<1>1. /\ Undone.cmds = chain.cmds /\ Undone.states = chain.states
      /\ Undone.redo = u /\ u = chain.redo - 1 /\ u \in 1..Len(chain.cmds)
      /\ chain.undoState = u /\ chain.redo \in Nat
  BY UndoneOK DEF InStep, Chains
<1>2. /\ DOMAIN chain.cmds = 1..Len(chain.cmds) /\ Len(chain.cmds) \in Nat
      /\ chain.cmds # <<>>
  BY PositionsInStep, <1>1
<1>3. content = chain.cmds[u].new
  BY <1>1, <1>2 DEF Agree, LeadsTo, ContentAfter
<1>4. c = chain.cmds[u].old
  BY <1>1, <1>2, <1>3 DEF AfterUndo, Agree, LeadsTo
<1>5. c = ContentAfter(Undone, Undone.redo - 1)
  BY <1>1, <1>2, <1>4 DEF ContentAfter, Agree, LeadsTo
<1>6. LeadsTo(Undone, c)
  BY <1>1, <1>5 DEF Agree, LeadsTo
<1>7. StatesTell(Undone, data)
  BY <1>1 DEF Agree, StatesTell
<1> QED BY <1>1, <1>2, <1>4, <1>6, <1>7 DEF Agree, StatesTell

LEMMA RedoneAgrees ==
  ASSUME chain \in Chains, InStep(chain), AnyToRedo,
         NEW data, Agree(chain, content, dbState, data),
         NEW c \in AfterRedo(chain.cmds[chain.redo], content)
  PROVE  Agree(Redone, c, chain.states[chain.redoState].after, data)
<1> DEFINE r == chain.redo
<1>1. /\ Redone.cmds = chain.cmds /\ Redone.states = chain.states
      /\ Redone.redo = r + 1 /\ r \in 1..Len(chain.cmds) /\ chain.redoState = r
  BY RedoneOK DEF InStep, Chains
<1>2. /\ DOMAIN chain.cmds = 1..Len(chain.cmds) /\ Len(chain.cmds) \in Nat
      /\ chain.cmds # <<>>
  BY PositionsInStep, <1>1
<1>3. content = chain.cmds[r].old
  BY <1>1, <1>2 DEF Agree, LeadsTo, ContentAfter
<1>4. c = chain.cmds[r].new
  BY <1>1, <1>2, <1>3 DEF AfterRedo, Agree, LeadsTo
<1>5. c = ContentAfter(Redone, Redone.redo - 1)
  BY <1>1, <1>2, <1>4 DEF ContentAfter
<1>6. LeadsTo(Redone, c)
  BY <1>1, <1>5 DEF Agree, LeadsTo
<1>7. StatesTell(Redone, data)
  BY <1>1 DEF Agree, StatesTell
<1> QED BY <1>1, <1>2, <1>4, <1>6, <1>7 DEF Agree, StatesTell

(* Writing the content a chain leads to makes the two agree. *)
LEMMA MarkedSavedAgrees ==
  ASSUME NEW ch \in Chains, InStep(ch), NEW c, LeadsTo(ch, c), NEW st
  PROVE  Agree(MarkedSaved(ch), c, st, c)
<1> DEFINE m == MarkedSaved(ch)
<1>1. /\ m.cmds = ch.cmds /\ m.redo = ch.redo
      /\ \A i \in 1..Len(ch.cmds) :
            /\ m.states[i].before = "CLEAN" => i = ch.redo
            /\ m.states[i].after = "CLEAN" => i = ch.redo - 1
  BY MarkedSavedOK
<1>2. /\ DOMAIN ch.cmds = 1..Len(ch.cmds) /\ Len(ch.cmds) \in Nat
      /\ ch.cmds # <<>> <=> Len(ch.cmds) > 0
      /\ ch.redo \in 1..(Len(ch.cmds) + 1)
  BY PositionsInStep
<1> HIDE DEF m
<1>3. ch.redo \in DOMAIN ch.cmds => ch.cmds[ch.redo].old = c
  BY <1>2 DEF LeadsTo, ContentAfter
<1>4. ch.redo - 1 \in DOMAIN ch.cmds => ch.cmds[ch.redo - 1].new = c
  BY <1>2 DEF LeadsTo, ContentAfter
<1>5. StatesTell(m, c)
  BY <1>1, <1>2, <1>3, <1>4 DEF StatesTell
<1>6. LeadsTo(m, c)
  BY <1>1 DEF LeadsTo, ContentAfter
<1> QED BY <1>5, <1>6 DEF Agree, m

LEMMA UnwrittenAgrees ==
  ASSUME TypeOK, cur # NoFile, UNCHANGED cur,
         NEW ch, NEW c, NEW st, Agree(ch, c, st, disk[cur].data),
         chain' = ch, content' = c, dbState' = st, disk' = disk
  PROVE  Agreed'
  BY DEF Agreed

(* Only a write in an older format than the database's leaves it as it was. *)
LEMMA WriteFileAgrees ==
  ASSUME TypeOK, cur' \in Files,
         NEW ch \in Chains, InStep(ch), NEW c, LeadsTo(ch, c), NEW st,
         NEW updateSig, WriteFile(ch, c, st, cur', SaveVersion, updateSig)
  PROVE  Agreed'
<1>1. SaveVersion \in Versions /\ SaveVersion >= version
  BY DEF TypeOK, SaveVersion
<1>2. version' = SaveVersion
  BY <1>1 DEF WriteFile
<1>3. chain' = MarkedSaved(ch) /\ dbState' = "CLEAN" /\ content' = c
  BY <1>2 DEF WriteFile
<1>4. disk'[cur'].data = c
  BY DEF WriteFile, TypeOK
<1>5. cur' # NoFile
  BY ConstantsAssumption
<1> QED BY <1>3, <1>4, <1>5, MarkedSavedAgrees DEF Agreed

LEMMA SaveOfAgrees ==
  ASSUME TypeOK, cur # NoFile, UNCHANGED cur, "garble" \notin Risky,
         NEW ch \in Chains, InStep(ch), NEW c, NEW st,
         Agree(ch, c, st, disk[cur].data),
         NEW immediate \in BOOLEAN, SaveOf(ch, c, st, immediate)
  PROVE  Agreed'
<1>1. cur \in Files /\ LeadsTo(ch, c)
  BY DEF TypeOK, Agree
<1>2. CASE WriteFile(ch, c, st, cur, SaveVersion, TRUE)
  BY <1>1, <1>2, WriteFileAgrees
<1>3. CASE WriteFails(ch, c, st, cur, FALSE)
  BY <1>3, UnwrittenAgrees DEF WriteFails
<1>4. CASE Unwritten(ch, c, st)
  BY <1>4, UnwrittenAgrees DEF Unwritten
<1> QED BY <1>2, <1>3, <1>4 DEF SaveOf

LEMMA NotifyAgrees ==
  ASSUME TypeOK, cur # NoFile, UNCHANGED cur, "garble" \notin Risky,
         NEW ch \in Chains, InStep(ch), NEW c, NEW st,
         Agree(ch, c, st, disk[cur].data),
         NEW told, Notify(ch, c, st, told)
  PROVE  Agreed'
<1>1. CASE SaveOf(ch, c, st, TRUE)
  BY <1>1, SaveOfAgrees
<1>2. CASE Unwritten(ch, c, st)
  BY <1>2, UnwrittenAgrees DEF Unwritten
<1> QED BY <1>1, <1>2 DEF Notify

(* The inductive invariant. *)
Saved ==
    /\ phase \in {"open", "backingOut"} => Agreed
    /\ phase = "locked" => Agree(chain, disk[cur].data, "CLEAN", disk[cur].data)

LEMMA InitSaved == Init => Saved
  BY DEF Init, Saved

LEMMA StepSaved ==
  ASSUME Careful
  PROVE  TypeOK /\ IteratorsInStep /\ Saved /\ [Next]_vars => Saved'
<1> SUFFICES ASSUME TypeOK, IteratorsInStep, Saved, [Next]_vars
             PROVE  Saved'
  OBVIOUS
<1>0. /\ chain \in Chains /\ InStep(chain) /\ dbState \in States
      /\ "garble" \notin Risky
      /\ phase \in {"open", "backingOut"} =>
            content \in Contents /\ Agreed /\ cur \in Files /\ LeadsTo(chain, content)
  BY ConstantsAssumption DEF TypeOK, IteratorsInStep, Careful, Saved, Agreed, Agree
<1>a. ASSUME Agreed', phase' # "locked" PROVE Saved'
  BY <1>a DEF Saved
<1>1. ASSUME MayExecute, NEW new \in Contents, NEW told, ExecuteCommand(new, told)
      PROVE  Saved'
  <2> DEFINE cmd == [old |-> content, new |-> new, changed |-> TRUE]
  <2>1. Notify(Executed(cmd, dbState, "DIRTY"), new, "DIRTY", told)
    BY <1>1 DEF ExecuteCommand
  <2>2. cmd \in Commands /\ cmd.old = content /\ cmd.changed /\ cmd.new = new
    BY <1>0, <1>1 DEF MayExecute, Commands
  <2> HIDE DEF cmd
  <2>3. /\ Executed(cmd, dbState, "DIRTY") \in Chains
        /\ InStep(Executed(cmd, dbState, "DIRTY"))
    BY <1>0, <2>2, ExecutedOK
  <2>4. Agree(Executed(cmd, dbState, "DIRTY"), new, "DIRTY", disk[cur].data)
    BY <1>0, <1>1, <2>2, ExecutedAgrees DEF MayExecute, Agreed
  <2>5. Agreed'
    BY <1>0, <1>1, <2>1, <2>3, <2>4, NotifyAgrees DEF MayExecute, Agreed
  <2> QED BY <1>1, <1>a, <2>5 DEF MayExecute
<1>2. CASE ExecuteNothing
  <2> DEFINE cmd == [old |-> content, new |-> content, changed |-> FALSE]
  <2>1. Notify(Executed(cmd, dbState, "CLEAN"), content, "CLEAN", notify) /\ dbState = "CLEAN"
    BY <1>2 DEF ExecuteNothing, Careful
  <2>2. cmd \in Commands /\ cmd.old = content /\ cmd.new = content
    BY <1>0, <1>2 DEF ExecuteNothing, MayExecute, Commands
  <2> HIDE DEF cmd
  <2>3. /\ Executed(cmd, dbState, "CLEAN") \in Chains
        /\ InStep(Executed(cmd, dbState, "CLEAN"))
    BY <1>0, <2>2, ExecutedOK
  <2>4. content = disk[cur].data
    BY <1>0, <1>2, <2>1 DEF ExecuteNothing, MayExecute, Agreed, Agree
  <2>5. Agree(Executed(cmd, dbState, "CLEAN"), content, "CLEAN", disk[cur].data)
    BY <1>0, <1>2, <2>2, <2>4, ExecutedAgrees DEF ExecuteNothing, MayExecute, Agreed
  <2>6. Agreed'
    BY <1>0, <1>2, <2>1, <2>3, <2>5, NotifyAgrees DEF ExecuteNothing, MayExecute, Agreed
  <2> QED BY <1>2, <1>a, <2>6 DEF ExecuteNothing, MayExecute
<1>3. ASSUME CoreUndo, UNCHANGED cur, phase \in {"open", "backingOut"} PROVE Saved'
  <2>1. CASE chain.undo \in DOMAIN chain.cmds
    <3>1. PICK c \in AfterUndo(chain.cmds[chain.undo], content) :
            Notify(Undone, c, chain.states[chain.undoState].before, notify)
      BY <1>3, <2>1 DEF CoreUndo
    <3>2. Undone \in Chains /\ InStep(Undone)
      BY <1>0, <2>1, UndoneOK
    <3>3. Agree(Undone, c, chain.states[chain.undoState].before, disk[cur].data)
      BY <1>0, <1>3, <2>1, UndoneAgrees DEF Agreed
    <3>4. Agreed'
      BY <1>0, <1>3, <3>1, <3>2, <3>3, NotifyAgrees DEF Agreed
    <3> QED BY <1>3, <1>a, <2>1, <3>4 DEF CoreUndo
  <2>2. CASE chain.undo \notin DOMAIN chain.cmds
    BY <1>3, <2>2 DEF CoreUndo, Saved
  <2> QED BY <2>1, <2>2
<1>4. CASE Redo
  <2>1. PICK c \in AfterRedo(chain.cmds[chain.redo], content) :
          Notify(Redone, c, chain.states[chain.redoState].after, notify)
    BY <1>4 DEF Redo
  <2>2. Redone \in Chains /\ InStep(Redone)
    BY <1>0, <1>4, RedoneOK DEF Redo
  <2>3. Agree(Redone, c, chain.states[chain.redoState].after, disk[cur].data)
    BY <1>0, <1>4, RedoneAgrees DEF Agreed, Redo
  <2>4. Agreed'
    BY <1>0, <1>4, <2>1, <2>2, <2>3, NotifyAgrees DEF Redo, Agreed
  <2> QED BY <1>4, <1>a, <2>4 DEF Redo
<1>5. CASE New
  <2>1. PICK f \in Files : cur' = f /\ disk' = [disk EXCEPT ![f] = [data |-> NewContent, ver |-> 3]]
    BY <1>5 DEF New, Careful
  <2>2. cur' # NoFile /\ disk'[cur'].data = NewContent
    BY <2>1, ConstantsAssumption DEF TypeOK
  <2> QED BY <1>5, <1>a, <2>2, EmptyAgrees DEF New, Agreed
<1>6. CASE Open
  <2>1. cur' # NoFile /\ disk'[cur'].data = content'
    BY <1>6, ConstantsAssumption DEF Open, ReadFile
  <2>2. chain' = EmptyChain
    BY <1>6 DEF Open, Careful
  <2> QED BY <1>6, <1>a, <2>1, <2>2, EmptyAgrees DEF Open, Agreed
<1>7. CASE Restore
  BY <1>7 DEF Restore, Careful
<1>8. CASE Close
  BY <1>8 DEF Close, Saved
<1>9. CASE Save
  <2>1. Agreed'
    BY <1>0, <1>9, SaveOfAgrees DEF Save, Agreed
  <2> QED BY <1>9, <1>a, <2>1 DEF Save
<1>10. CASE SaveAs
  <2>1. WriteFile(chain, content, dbState, cur', SaveVersion, TRUE) /\ cur' \in Files
    BY <1>10 DEF SaveAs, Careful
  <2>2. Agreed'
    BY <1>0, <1>10, <2>1, WriteFileAgrees DEF SaveAs
  <2> QED BY <1>10, <1>a, <2>2 DEF SaveAs
<1>11. CASE Backup
  <2>1. /\ disk'[cur] = disk[cur] /\ chain' = MarkedSaved(chain)
        /\ content' = content /\ dbState' = "CLEAN" /\ cur' = cur
    BY <1>0, <1>11 DEF Backup, WriteFile, TypeOK
  <2>2. content = disk[cur].data
    BY <1>0, <1>11 DEF Backup, Agreed, Agree, Careful
  <2>3. Agree(MarkedSaved(chain), content, "CLEAN", content)
    BY <1>0, <1>11, MarkedSavedAgrees DEF Backup
  <2> QED BY <1>0, <1>11, <1>a, <2>1, <2>2, <2>3 DEF Backup, Agreed
<1>12. CASE Export
  <2>1. /\ disk'[cur] = disk[cur] /\ chain' = chain
        /\ content' = content /\ dbState' = dbState /\ cur' = cur
    BY <1>0, <1>12 DEF Export, Exportable, Versions, WriteFile, TypeOK, Careful
  <2> QED BY <1>0, <1>12, <1>a, <2>1 DEF Export, Agreed
<1>13. CASE Lock
  <2>1. CASE dbState = "CLEAN"
    BY <1>0, <1>13, <2>1 DEF Lock, Saved, Agreed, Agree
  <2>2. CASE dbState = "DIRTY"
    <3>1. disk'[cur'].data = content /\ chain' = MarkedSaved(chain)
      BY <1>0, <1>13, <2>2 DEF Lock, TypeOK
    <3>2. Agree(MarkedSaved(chain), content, "CLEAN", content)
      BY <1>0, <1>13, MarkedSavedAgrees DEF Lock
    <3> QED BY <1>13, <3>1, <3>2 DEF Lock, Saved
  <2> QED BY <1>0, <2>1, <2>2
<1>14. CASE Unlock
  BY <1>14, <1>a DEF Unlock, ReadFile, TypeOK, Saved, Agreed
<1>15. CASE ToReadOnly
  BY <1>0, <1>15, <1>a, EmptyAgrees DEF ToReadOnly, Agreed, Agree
<1>16. CASE BackOut
  BY <1>0, <1>16, <1>a DEF BackOut, Agreed
<1>18. CASE BackOutDone
  BY <1>0, <1>18, <1>a, EmptyAgrees DEF BackOutDone, Agreed, Agree
<1>19. CASE ToReadWrite
  BY <1>0, <1>19 DEF ToReadWrite, Saved, Agreed
<1>20. CASE UNCHANGED vars
  BY <1>20 DEF vars, Saved, Agreed
<1> QED BY <1>1, <1>2, <1>3, <1>4, <1>5, <1>6, <1>7, <1>8, <1>9, <1>10, <1>11, <1>12,
           <1>13, <1>14, <1>15, <1>16, <1>18, <1>19, <1>20
    DEF Next, Execute, ExecuteSuspended, ChangeOptions, Undo, BackOutStep

LEMMA SavedInvariant ==
  ASSUME Careful
  PROVE  Spec => [](TypeOK /\ IteratorsInStep /\ Saved)
<1>1. Init => TypeOK /\ IteratorsInStep /\ Saved
  BY InitOK, InitSaved
<1>2. TypeOK /\ IteratorsInStep /\ Saved /\ [Next]_vars =>
        (TypeOK /\ IteratorsInStep /\ Saved)'
  BY StepOK, StepSaved
<1> QED BY <1>1, <1>2, PTL DEF Spec

(* The positions marked CLEAN are those the file holds. *)
THEOREM PositionsAreTrue ==
  ASSUME Careful
  PROVE  Spec => []PositionsTellTruth
<1>1. TypeOK /\ Saved => PositionsTellTruth
  BY DEF Saved, Agreed, Agree, PositionsTellTruth, TypeOK
<1> QED BY <1>1, SavedInvariant, PTL

(* HasDBChanged() is FALSE only while the file holds what is in memory. *)
THEOREM CleanDatabasesAreSaved ==
  ASSUME Careful
  PROVE  Spec => []CleanIsSaved
<1>1. Saved => CleanIsSaved
  BY DEF Saved, Agreed, Agree, CleanIsSaved
<1> QED BY <1>1, SavedInvariant, PTL

(* Undo and Redo are always applied to the content they were recorded for. *)
THEOREM ChainsLeadToContent ==
  ASSUME Careful
  PROVE  Spec => []ChainLeadsToContent
<1>1. Saved => ChainLeadsToContent
  BY DEF Saved, Agreed, Agree, ChainLeadsToContent
<1> QED BY <1>1, SavedInvariant, PTL

(* Locking clears only what the file holds. *)
THEOREM LocksLoseNothing ==
  ASSUME Careful
  PROVE  Spec => LockLosesNothing
<1>1. TypeOK /\ Saved /\ [Next]_vars =>
        [(phase = "open" /\ phase' = "locked") => disk'[cur].data = content]_vars
  <2> SUFFICES ASSUME TypeOK, Saved, Next, phase = "open", phase' = "locked"
               PROVE  disk'[cur].data = content
    BY DEF vars
  <2>1. Lock
    BY DEF Next, Execute, ExecuteNothing, ExecuteSuspended, ChangeOptions, MayExecute, Undo, CoreUndo, Redo, New, Open, Restore, Close,
           Save, SaveAs, Backup, Export, Unlock, ToReadOnly, BackOut, BackOutStep,
           BackOutDone, ToReadWrite
  <2> QED BY <2>1 DEF Lock, Saved, Agreed, Agree, TypeOK
<1> QED BY <1>1, SavedInvariant, PTL DEF Spec, LockLosesNothing

-----------------------------------------------------------------------------
(* The signature: in ui/Windows it is that of the database file, or of     *)
(* none after a write that failed, whatever the session does.  In          *)
(* ui/wxWidgets an export leaves the signature of the exported file.       *)

Signed == (phase \in {"open", "backingOut"} /\ cur # NoFile) => sig \in {NoFile, cur}

LEMMA NotifySigns ==
  ASSUME sig \in {NoFile, cur} \/ cur = NoFile, UNCHANGED cur,
         NEW ch, NEW c, NEW st, NEW told, Notify(ch, c, st, told)
  PROVE  sig' \in {NoFile, cur'} \/ cur' = NoFile
  BY DEF Notify, SaveOf, WriteFile, WriteFails, Unwritten

LEMMA StepSigned ==
  ASSUME FrontEnd = "mfc"
  PROVE  Signed /\ [Next]_vars => Signed'
<1> SUFFICES ASSUME Signed, [Next]_vars
             PROVE  Signed'
  OBVIOUS
<1>0. phase \in {"open", "backingOut"} => sig \in {NoFile, cur} \/ cur = NoFile
  BY DEF Signed
<1>1. CASE Execute \/ ExecuteNothing \/ ExecuteSuspended \/ ChangeOptions
  BY <1>0, <1>1, NotifySigns
  DEF Execute, ExecuteNothing, ExecuteSuspended, ChangeOptions, ExecuteCommand, MayExecute,
      Signed
<1>2. ASSUME CoreUndo, UNCHANGED cur, phase \in {"open", "backingOut"} PROVE Signed'
  BY <1>0, <1>2, NotifySigns DEF CoreUndo, Signed
<1>3. CASE Undo \/ BackOutStep
  BY <1>2, <1>3 DEF Undo, BackOutStep
<1>4. CASE Redo
  BY <1>0, <1>4, NotifySigns DEF Redo, Signed
<1>5. CASE New \/ Open \/ Restore \/ Close
  BY <1>5 DEF New, Open, Restore, Close, Signed
<1>6. CASE Save
  BY <1>0, <1>6 DEF Save, SaveOf, WriteFile, WriteFails, Unwritten, Signed
<1>7. CASE SaveAs
  BY <1>7 DEF SaveAs, WriteFile, WriteFails, Signed
<1>8. CASE Backup
  BY <1>0, <1>8 DEF Backup, WriteFile, Signed
<1>9. CASE Export
  BY <1>0, <1>9 DEF Export, WriteFile, Signed
<1>10. CASE Lock \/ Unlock
  BY <1>10 DEF Lock, Unlock, Signed
<1>11. CASE ToReadOnly \/ BackOut \/ BackOutDone \/ ToReadWrite
  BY <1>0, <1>11 DEF ToReadOnly, BackOut, BackOutDone, ToReadWrite, Signed
<1>12. CASE UNCHANGED vars
  BY <1>12 DEF vars, Signed
<1> QED BY <1>1, <1>3, <1>4, <1>5, <1>6, <1>7, <1>8, <1>9, <1>10, <1>11, <1>12 DEF Next

(* ui/Windows never refuses a save because the file looks changed by       *)
(* someone else, whatever fails on the way: BackupCurFile finds either the *)
(* signature of the current file or none.                                  *)
THEOREM SavesNotRefused ==
  ASSUME FrontEnd = "mfc"
  PROVE  Spec => []NeverRefused
<1>1. Init => Signed
  BY DEF Init, Signed
<1>2. Signed => NeverRefused
  BY DEF Signed, NeverRefused, BackupRefused
<1> QED BY <1>1, <1>2, StepSigned, PTL DEF Spec

-----------------------------------------------------------------------------
(* Save Immediately in ui/Windows. *)

(* No write of the current file fails, no backup is opened as an Untitled  *)
(* database, and no command is executed while notifications are suspended. *)
Prompt ==
    /\ FrontEnd = "mfc"
    /\ ~BackupFirst
    /\ Risky \cap {"unopened", "garble", "new", "restore", "suspend"} = {}

(* What a notified change leaves in the file, also while backing out. *)
Immediate ==
    phase \in {"open", "backingOut"} =>
        /\ cur # NoFile
        /\ SaveImmediately /\ notify => disk[cur].data = content

LEMMA NotifySaves ==
  ASSUME Prompt, TypeOK, cur # NoFile, UNCHANGED cur,
         NEW ch, NEW c, NEW st, NEW told, Notify(ch, c, st, told)
  PROVE  SaveImmediately /\ told => disk'[cur'].data = content'
<1> SUFFICES ASSUME SaveImmediately, told
             PROVE  disk'[cur'].data = content'
  OBVIOUS
<1>1. SaveOf(ch, c, st, TRUE)
  BY DEF Notify, Prompt
<1>2. WriteFile(ch, c, st, cur, SaveVersion, TRUE)
  BY <1>1, ConstantsAssumption DEF SaveOf, BackupOutcomes, Prompt
<1>3. cur \in DOMAIN disk
  BY DEF TypeOK
<1> QED BY <1>2, <1>3 DEF WriteFile

LEMMA StepImmediate ==
  ASSUME Prompt
  PROVE  TypeOK /\ Immediate /\ [Next]_vars => Immediate'
<1> SUFFICES ASSUME TypeOK, Immediate, [Next]_vars
             PROVE  Immediate'
  OBVIOUS
<1>0. phase \in {"open", "backingOut"} => cur # NoFile /\ cur \in Files
  BY DEF Immediate, TypeOK
<1>1. CASE Execute \/ ExecuteNothing
  <2>1. cur # NoFile /\ cur' = cur /\ notify' = notify
    BY <1>0, <1>1 DEF Execute, ExecuteNothing, MayExecute
  <2>2. \E ch, c, st : Notify(ch, c, st, notify)
    BY <1>1 DEF Execute, ExecuteNothing, ExecuteCommand
  <2> QED BY <2>1, <2>2, NotifySaves DEF Immediate
<1>2. CASE ExecuteSuspended \/ ChangeOptions \/ Restore
  BY <1>2 DEF ExecuteSuspended, ChangeOptions, Restore, Prompt
<1>3. ASSUME CoreUndo, UNCHANGED <<cur, notify>>, phase \in {"open", "backingOut"}
      PROVE  Immediate'
  <2>1. CASE chain.undo \in DOMAIN chain.cmds
    <3>1. \E ch, c, st : Notify(ch, c, st, notify)
      BY <1>3, <2>1 DEF CoreUndo
    <3> QED BY <1>0, <1>3, <3>1, NotifySaves DEF Immediate
  <2>2. CASE chain.undo \notin DOMAIN chain.cmds
    BY <1>3, <2>2 DEF CoreUndo, Immediate
  <2> QED BY <2>1, <2>2
<1>4. CASE Undo \/ BackOutStep
  BY <1>3, <1>4 DEF Undo, BackOutStep
<1>5. CASE Redo
  <2>1. \E ch, c, st : Notify(ch, c, st, notify)
    BY <1>5 DEF Redo
  <2> QED BY <1>0, <1>5, <2>1, NotifySaves DEF Redo, Immediate
<1>6. CASE New
  <2>1. PICK f \in Files : cur' = f /\ disk' = [disk EXCEPT ![f] = [data |-> NewContent, ver |-> 3]]
    BY <1>6 DEF New, Prompt
  <2>2. disk'[cur'].data = NewContent
    BY <2>1 DEF TypeOK
  <2> QED BY <1>6, <2>1, <2>2, ConstantsAssumption DEF New, Immediate
<1>7. CASE Open
  BY <1>7, ConstantsAssumption DEF Open, ReadFile, Immediate
<1>8. CASE Close \/ Lock
  BY <1>8 DEF Close, Lock, Immediate
<1>9. CASE Save
  <2>1. WriteFile(chain, content, dbState, cur, SaveVersion, TRUE)
    BY <1>9, ConstantsAssumption DEF Save, SaveOf, BackupOutcomes, Prompt
  <2> QED BY <1>0, <1>9, <2>1 DEF Save, WriteFile, TypeOK, Immediate
<1>10. CASE SaveAs
  <2>1. CASE \E f \in Files : WriteFile(chain, content, dbState, f, SaveVersion, TRUE) /\ cur' = f
    <3>1. cur' \in Files /\ disk'[cur'].data = content'
      BY <2>1 DEF WriteFile, TypeOK
    <3> QED BY <1>10, <3>1, ConstantsAssumption DEF SaveAs, Immediate
  <2>2. CASE \E f \in Files \ {cur}, b \in BOOLEAN :
               WriteFails(chain, content, dbState, f, b) /\ UNCHANGED cur
    <3>1. disk'[cur] = disk[cur] /\ content' = content
      BY <1>0, <1>10, <2>2 DEF SaveAs, WriteFails, TypeOK
    <3> QED BY <1>10, <2>2, <3>1 DEF SaveAs, Immediate
  <2> QED BY <1>10, <2>1, <2>2 DEF SaveAs
<1>11. CASE Backup \/ Export
  <2>1. \E f \in Files \ {cur}, v \in Versions, s \in BOOLEAN :
          WriteFile(chain, content, dbState, f, v, s)
    BY <1>11 DEF Backup, Export, Exportable, TypeOK, Prompt
  <2>2. disk'[cur] = disk[cur] /\ content' = content
    BY <1>0, <1>11, <2>1 DEF Backup, Export, WriteFile, TypeOK
  <2> QED BY <1>11, <2>2 DEF Backup, Export, Immediate
<1>12. CASE Unlock
  BY <1>12 DEF Unlock, ReadFile, TypeOK, Immediate
<1>13. CASE ToReadOnly \/ BackOut \/ BackOutDone \/ ToReadWrite
  BY <1>13 DEF ToReadOnly, BackOut, BackOutDone, ToReadWrite, Immediate
<1>14. CASE UNCHANGED vars
  BY <1>14 DEF vars, Immediate
<1> QED BY <1>1, <1>2, <1>4, <1>5, <1>6, <1>7, <1>8, <1>9, <1>10, <1>11, <1>12, <1>13,
           <1>14 DEF Next

(* With Save Immediately the file of an open database holds every change   *)
(* the front end was told of, also those made by Undo, Redo and backing    *)
(* out, and after failed Save As, backups and exports.                     *)
THEOREM NotifiedChangesAreSaved ==
  ASSUME Prompt
  PROVE  Spec => []SavedWhenNotified
<1>1. Init => TypeOK /\ IteratorsInStep /\ Immediate
  BY InitOK DEF Init, Immediate
<1>2. TypeOK /\ IteratorsInStep /\ Immediate /\ [Next]_vars =>
        (TypeOK /\ IteratorsInStep /\ Immediate)'
  BY StepOK, StepImmediate
<1>3. Immediate => SavedWhenNotified
  BY DEF Immediate, SavedWhenNotified
<1> QED BY <1>1, <1>2, <1>3, PTL DEF Spec

-----------------------------------------------------------------------------
(* CommandChain implements UndoDocument, for every set of contents and      *)
(* files: ui/Windows, when the session only does what the code handles.     *)


-----------------------------------------------------------------------------
(* The history of contents of a chain. *)

LEMMA Prefixed ==
  ASSUME NEW S, NEW x \in S, NEW s \in Seq(S)
  PROVE  /\ <<x>> \o s \in Seq(S)
         /\ Len(<<x>> \o s) = Len(s) + 1
         /\ (<<x>> \o s)[1] = x
         /\ \A i \in 1..Len(s) : (<<x>> \o s)[i + 1] = s[i]
<1> DEFINE first == <<x>>
<1>1. first \in Seq(S) /\ Len(first) = 1 /\ first[1] = x
  OBVIOUS
<1>2. Len(s) \in Nat
  BY LenProperties
<1> HIDE DEF first
<1>3. /\ first \o s \in Seq(S)
      /\ Len(first \o s) = Len(first) + Len(s)
      /\ \A i \in 1..(Len(first) + Len(s)) :
            (first \o s)[i] = IF i <= Len(first) THEN first[i] ELSE s[i - Len(first)]
  BY <1>1, ConcatProperties
<1>4. \A i \in 1..Len(s) : i + 1 \in 1..(1 + Len(s)) /\ ~(i + 1 <= 1) /\ (i + 1) - 1 = i
  BY <1>2
<1>5. ASSUME NEW i \in 1..Len(s) PROVE (first \o s)[i + 1] = s[i]
  BY <1>1, <1>2, <1>3, <1>4
<1>6. (first \o s)[1] = x
  BY <1>1, <1>2, <1>3
<1> QED BY <1>1, <1>2, <1>3, <1>5, <1>6 DEF first

LEMMA HistoryElements ==
  ASSUME NEW ch \in Chains, NEW c \in Contents
  PROVE  /\ HistoryOf(ch, c) \in Seq(Contents)
         /\ Len(HistoryOf(ch, c)) = Len(ch.cmds) + 1
         /\ ch.cmds # <<>> => HistoryOf(ch, c)[1] = ch.cmds[1].old
         /\ ch.cmds = <<>> => HistoryOf(ch, c)[1] = c
         /\ \A i \in 1..Len(ch.cmds) : HistoryOf(ch, c)[i + 1] = ch.cmds[i].new
<1>1. /\ Len(ch.cmds) \in Nat /\ DOMAIN ch.cmds = 1..Len(ch.cmds)
      /\ ch.cmds # <<>> <=> Len(ch.cmds) > 0
      /\ \A i \in 1..Len(ch.cmds) : ch.cmds[i] \in Commands
  BY LenProperties, EmptySeq, ElementOfSeq DEF Chains
<1>2. CASE ch.cmds = <<>>
  <2>1. HistoryOf(ch, c) = <<c>>
    BY <1>2 DEF HistoryOf
  <2> QED BY <1>1, <1>2, <2>1
<1>3. CASE ch.cmds # <<>>
  <2> DEFINE rest == [i \in 1..Len(ch.cmds) |-> ch.cmds[i].new]
  <2>1. ch.cmds[1].old \in Contents
    BY <1>1, <1>3 DEF Commands
  <2>2. \A i \in 1..Len(ch.cmds) : ch.cmds[i].new \in Contents
    BY <1>1 DEF Commands
  <2>3. rest \in Seq(Contents) /\ Len(rest) = Len(ch.cmds)
    BY <1>1, <2>2
  <2>4. \A i \in 1..Len(ch.cmds) : rest[i] = ch.cmds[i].new
    OBVIOUS
  <2>5. HistoryOf(ch, c) = <<ch.cmds[1].old>> \o rest
    BY <1>1, <1>3 DEF HistoryOf
  <2> HIDE DEF rest
  <2> QED BY <1>3, <2>1, <2>3, <2>4, <2>5, Prefixed
<1> QED BY <1>2, <1>3

(* The cursor is at the content the chain leads to. *)
LEMMA CursorAtContent ==
  ASSUME NEW ch \in Chains, InStep(ch), NEW c \in Contents, LeadsTo(ch, c)
  PROVE  /\ ch.redo \in 1..Len(HistoryOf(ch, c))
         /\ HistoryOf(ch, c)[ch.redo] = c
<1>1. /\ Len(ch.cmds) \in Nat /\ DOMAIN ch.cmds = 1..Len(ch.cmds)
      /\ ch.redo \in 1..(Len(ch.cmds) + 1)
      /\ ch.cmds # <<>> <=> Len(ch.cmds) > 0
  BY PositionsInStep
<1>2. CASE ch.cmds = <<>>
  BY <1>1, <1>2, HistoryElements
<1>3. CASE ch.cmds # <<>> /\ ch.redo = 1
  BY <1>1, <1>3, HistoryElements DEF LeadsTo, ContentAfter
<1>4. CASE ch.cmds # <<>> /\ ch.redo # 1
  <2>1. ch.redo - 1 \in 1..Len(ch.cmds) /\ c = ch.cmds[ch.redo - 1].new
    BY <1>1, <1>4 DEF LeadsTo, ContentAfter
  <2>2. HistoryOf(ch, c)[(ch.redo - 1) + 1] = c
    BY <2>1, HistoryElements
  <2> QED BY <1>1, <2>2, HistoryElements
<1> QED BY <1>2, <1>3, <1>4

(* Execute drops what was undone and appends. *)
LEMMA HistoryExecuted ==
  ASSUME chain \in Chains, InStep(chain), content \in Contents, LeadsTo(chain, content),
         NEW cmd \in Commands, cmd.old = content,
         NEW before \in States, NEW after \in States
  PROVE  HistoryOf(Executed(cmd, before, after), cmd.new) =
            Append(SubSeq(HistoryOf(chain, content), 1, chain.redo), cmd.new)
<1> DEFINE ch == Executed(cmd, before, after)
           k == chain.redo
           old == HistoryOf(chain, content)
           new == HistoryOf(ch, cmd.new)
           kept == SubSeq(old, 1, k)
<1>1. /\ ch \in Chains /\ InStep(ch) /\ ch.redo = k + 1 /\ Len(ch.cmds) = k
      /\ \A i \in 1..k :
            /\ ch.cmds[i] = IF i = k THEN cmd ELSE chain.cmds[i]
            /\ ch.states[i] = IF i = k THEN [before |-> before, after |-> after]
                              ELSE chain.states[i]
  BY ExecutedOK
<1>2. /\ k \in 1..(Len(chain.cmds) + 1) /\ Len(chain.cmds) \in Nat
      /\ chain.cmds # <<>> <=> Len(chain.cmds) > 0
  BY PositionsInStep
<1>3. cmd.new \in Contents
  BY DEF Commands
<1>4. /\ old \in Seq(Contents) /\ Len(old) = Len(chain.cmds) + 1
      /\ chain.cmds # <<>> => old[1] = chain.cmds[1].old
      /\ chain.cmds = <<>> => old[1] = content
      /\ \A i \in 1..Len(chain.cmds) : old[i + 1] = chain.cmds[i].new
  BY HistoryElements
<1>5. ch.cmds # <<>>
  BY <1>1, <1>2, EmptySeq DEF Chains
<1> HIDE DEF ch
<1>6. /\ new \in Seq(Contents) /\ Len(new) = k + 1
      /\ new[1] = ch.cmds[1].old
      /\ \A i \in 1..k : new[i + 1] = ch.cmds[i].new
  <2>1. ch \in Chains /\ Len(ch.cmds) = k
    BY <1>1
  <2> HIDE DEF k
  <2>2. /\ HistoryOf(ch, cmd.new) \in Seq(Contents)
        /\ Len(HistoryOf(ch, cmd.new)) = Len(ch.cmds) + 1
        /\ HistoryOf(ch, cmd.new)[1] = ch.cmds[1].old
        /\ \A i \in 1..Len(ch.cmds) : HistoryOf(ch, cmd.new)[i + 1] = ch.cmds[i].new
    BY <2>1, <1>3, <1>5, HistoryElements
  <2> QED BY <2>1, <2>2
<1>7. old[k] = content
  BY CursorAtContent
<1> HIDE DEF ch, old, new, k
<1>8. /\ kept \in Seq(Contents) /\ Len(kept) = k
      /\ \A i \in 1..k : kept[i] = old[i]
  BY <1>2, <1>4, SubSeqProperties
<1> HIDE DEF kept
<1> DEFINE grown == Append(kept, cmd.new)
<1>9. /\ grown \in Seq(Contents) /\ Len(grown) = k + 1
      /\ \A i \in 1..k : grown[i] = old[i]
      /\ grown[k + 1] = cmd.new
  BY <1>2, <1>3, <1>8, AppendProperties
<1> HIDE DEF grown
<1>10. ch.cmds[k] = cmd /\ k \in 1..k
  BY <1>1, <1>2
<1>11. ASSUME NEW i \in 1..(k + 1) PROVE new[i] = grown[i]
  <2>1. CASE i = k + 1
    BY <1>6, <1>9, <1>10, <2>1
  <2>2. CASE i = 1 /\ k = 1
    <3>1. new[1] = content
      BY <1>6, <1>10, <2>2
    <3> QED BY <1>7, <1>9, <1>10, <2>2, <3>1
  <2>3. CASE i = 1 /\ k # 1
    <3>1. 1 \in 1..k /\ 1 # k /\ chain.cmds # <<>>
      BY <1>2, <2>3
    <3>2. ch.cmds[1] = chain.cmds[1]
      BY <1>1, <3>1
    <3> QED BY <1>4, <1>6, <1>9, <2>3, <3>1, <3>2
  <2>4. CASE i \in 2..k
    <3>1. PICK j \in 1..k : i = j + 1 /\ j # k /\ j \in 1..Len(chain.cmds) /\ i \in 1..k
      <4>1. /\ i - 1 \in 1..k /\ i - 1 # k /\ i - 1 \in 1..Len(chain.cmds)
            /\ i \in 1..k /\ i = (i - 1) + 1
        BY <1>2, <2>4
      <4> QED BY <4>1
    <3>2. ch.cmds[j] = chain.cmds[j]
      BY <1>1, <3>1
    <3>3. new[j + 1] = ch.cmds[j].new /\ old[j + 1] = chain.cmds[j].new
      BY <1>4, <1>6, <3>1
    <3> QED BY <1>9, <3>1, <3>2, <3>3
  <2> QED BY <1>2, <2>1, <2>2, <2>3, <2>4
<1>12. new = grown
  BY <1>2, <1>6, <1>9, <1>11, SeqEqual
<1> QED BY <1>12 DEF grown, kept, new, old, ch, k

-----------------------------------------------------------------------------
(* What a write leaves alone. *)

LEMMA SaveOfEffect ==
  ASSUME TypeOK, cur # NoFile, "garble" \notin Risky,
         NEW ch \in Chains, InStep(ch), NEW c, NEW st,
         NEW immediate, SaveOf(ch, c, st, immediate)
  PROVE  /\ chain'.cmds = ch.cmds /\ chain'.redo = ch.redo /\ content' = c
         /\ \/ disk'[cur].data = c
            \/ disk' = disk /\ chain' = ch /\ dbState' = st
<1>1. cur \in Files
  BY DEF TypeOK
<1>2. CASE WriteFile(ch, c, st, cur, SaveVersion, TRUE)
  <2>1. chain' \in {ch, MarkedSaved(ch)}
    BY <1>2 DEF WriteFile
  <2>2. disk'[cur].data = c /\ content' = c
    BY <1>1, <1>2 DEF WriteFile, TypeOK
  <2> QED BY <2>1, <2>2, MarkedSavedOK
<1>3. CASE WriteFails(ch, c, st, cur, FALSE)
  BY <1>3 DEF WriteFails
<1>4. CASE Unwritten(ch, c, st)
  BY <1>4 DEF Unwritten
<1> QED BY <1>2, <1>3, <1>4 DEF SaveOf

LEMMA NotifyEffect ==
  ASSUME TypeOK, cur # NoFile, "garble" \notin Risky,
         NEW ch \in Chains, InStep(ch), NEW c, NEW st,
         NEW told, Notify(ch, c, st, told)
  PROVE  /\ chain'.cmds = ch.cmds /\ chain'.redo = ch.redo /\ content' = c
         /\ disk'[cur].data \in {disk[cur].data, c}
<1>1. CASE SaveOf(ch, c, st, TRUE)
  <2>1. /\ chain'.cmds = ch.cmds /\ chain'.redo = ch.redo /\ content' = c
        /\ \/ disk'[cur].data = c
           \/ disk' = disk /\ chain' = ch /\ dbState' = st
    BY <1>1, SaveOfEffect, Zenon
  <2> QED BY <2>1
<1>2. CASE Unwritten(ch, c, st)
  BY <1>2 DEF Unwritten
<1> QED BY <1>1, <1>2 DEF Notify

-----------------------------------------------------------------------------
(* The document of an open or a locked database. *)

LEMMA OpenDocument ==
  ASSUME TypeOK, IteratorsInStep, Saved, phase \in {"open", "backingOut"}
  PROVE  /\ Visible /\ cur \in Files /\ cur # NoFile /\ content \in Contents
         /\ LeadsTo(chain, content)
         /\ History = HistoryOf(chain, content)
         /\ chain.redo \in 1..Len(History) /\ History[chain.redo] = content
         /\ Len(History) = Len(chain.cmds) + 1
         /\ Stored = disk[cur].data
         /\ dbState # "DIRTY" => Stored = content
<1>1. /\ cur # NoFile /\ LeadsTo(chain, content) /\ (dbState = "CLEAN" => content = disk[cur].data)
  BY DEF Saved, Agreed, Agree
<1>2. cur \in Files /\ content \in Contents /\ chain \in Chains /\ InStep(chain) /\ dbState \in States
  BY <1>1 DEF TypeOK, IteratorsInStep
<1>3. History = HistoryOf(chain, content)
  BY DEF History, HistoryOf
<1>4. Stored = disk[cur].data
  BY <1>1 DEF Stored
<1>5. chain.redo \in 1..Len(History) /\ History[chain.redo] = content
  BY <1>1, <1>2, <1>3, CursorAtContent
<1>6. Len(History) = Len(chain.cmds) + 1
  BY <1>2, <1>3, HistoryElements
<1>7. dbState # "DIRTY" => Stored = content
  BY <1>1, <1>2, <1>4
<1> QED BY <1>1, <1>2, <1>3, <1>4, <1>5, <1>6, <1>7 DEF Visible

LEMMA LockedDocument ==
  ASSUME TypeOK, IteratorsInStep, Saved, phase = "locked", disk[cur].data \in Contents
  PROVE  /\ ~Visible
         /\ History = HistoryOf(chain, disk[cur].data)
         /\ Stored = disk[cur].data
         /\ History[chain.redo] = Stored
<1>1. LeadsTo(chain, disk[cur].data) /\ chain \in Chains /\ InStep(chain) /\ cur # NoFile
  BY DEF Saved, Agree, TypeOK, IteratorsInStep
<1>2. History = HistoryOf(chain, disk[cur].data)
  BY DEF History, HistoryOf
<1>3. Stored = disk[cur].data
  BY <1>1 DEF Stored
<1> QED BY <1>1, <1>2, <1>3, CursorAtContent DEF Visible

(* Chains of the same commands have the same history. *)
LEMMA SameHistory ==
  ASSUME NEW ch1, NEW ch2, NEW c1, NEW c2, ch1.cmds = ch2.cmds,
         ch1.cmds = <<>> => c1 = c2
  PROVE  HistoryOf(ch1, c1) = HistoryOf(ch2, c2)
  BY DEF HistoryOf

(* The same of the next state. *)
LEMMA NextDocument ==
  TypeOK' /\ IteratorsInStep' /\ Saved' /\ phase' \in {"open", "backingOut"} =>
      /\ Visible'
      /\ LeadsTo(chain', content')
      /\ History' = HistoryOf(chain', content')
      /\ History'[chain'.redo] = content'
      /\ Stored' = disk'[cur'].data
      /\ dbState' # "DIRTY" => Stored' = content'
<1>1. (TypeOK /\ IteratorsInStep /\ Saved /\ phase \in {"open", "backingOut"} =>
      /\ Visible
      /\ LeadsTo(chain, content)
      /\ History = HistoryOf(chain, content)
      /\ History[chain.redo] = content
      /\ Stored = disk[cur].data
      /\ dbState # "DIRTY" => Stored = content)'
  BY OpenDocument, PTL
<1> QED BY <1>1

-----------------------------------------------------------------------------
(* Every step of the chain is one of the document, or leaves it alone. *)

LEMMA StepDocument ==
  ASSUME Careful
  PROVE  TypeOK /\ IteratorsInStep /\ Saved /\ [Next]_vars =>
             Document!Next \/ UNCHANGED Document!vars
<1> SUFFICES ASSUME TypeOK, IteratorsInStep, Saved, [Next]_vars
             PROVE  Document!Next \/ UNCHANGED Document!vars
  OBVIOUS
<1>0. /\ chain \in Chains /\ InStep(chain) /\ dbState \in States
      /\ "garble" \notin Risky /\ FrontEnd = "mfc"
  BY DEF TypeOK, IteratorsInStep, Careful
<1>a. phase \in {"open", "backingOut"} =>
         /\ Visible /\ cur \in Files /\ cur # NoFile /\ content \in Contents
         /\ LeadsTo(chain, content)
         /\ History = HistoryOf(chain, content)
         /\ chain.redo \in 1..Len(History) /\ History[chain.redo] = content
         /\ Len(History) = Len(chain.cmds) + 1
         /\ Stored = disk[cur].data
         /\ dbState # "DIRTY" => Stored = content
  BY OpenDocument
<1>b. phase' \in {"open", "backingOut"} =>
         /\ Visible'
         /\ LeadsTo(chain', content')
         /\ History' = HistoryOf(chain', content')
         /\ History'[chain'.redo] = content'
         /\ Stored' = disk'[cur'].data
         /\ dbState' # "DIRTY" => Stored' = content'
  BY StepOK, StepSaved, NextDocument
<1>c. ASSUME phase \in {"open", "backingOut"},
             UNCHANGED <<chain, content, dbState>>, phase' # "locked",
             Visible', Stored' = Stored
      PROVE  UNCHANGED Document!vars
  <2>1. History' = History
    BY <1>c DEF History, HistoryOf, Visible
  <2>2. Visible' = Visible
    BY <1>a, <1>c DEF Visible
  <2> QED BY <1>c, <2>1, <2>2 DEF Document!vars
<1>1. ASSUME MayExecute, NEW cmd \in Commands, cmd.old = content,
             NEW after \in States, NEW told,
             Notify(Executed(cmd, dbState, after), cmd.new, after, told)
      PROVE  Document!Change
  <2> DEFINE ch == Executed(cmd, dbState, after)
  <2>1. phase = "open" /\ phase' = "open" /\ cur' = cur
    BY <1>1 DEF MayExecute
  <2>2. ch \in Chains /\ InStep(ch) /\ ch.redo = chain.redo + 1
    BY <1>0, <1>1, ExecutedOK
  <2>3. /\ chain'.cmds = ch.cmds /\ chain'.redo = ch.redo /\ content' = cmd.new
        /\ disk'[cur].data \in {disk[cur].data, cmd.new}
    <3> HIDE DEF ch
    <3>1. Notify(ch, cmd.new, after, told)
      BY <1>1 DEF ch
    <3> QED BY <1>0, <1>a, <2>1, <2>2, <3>1, NotifyEffect
  <2>4. HistoryOf(ch, cmd.new) = Append(SubSeq(HistoryOf(chain, content), 1, chain.redo), cmd.new)
    BY <1>0, <1>1, <1>a, <2>1, HistoryExecuted
  <2>5. HistoryOf(chain', content') = HistoryOf(ch, cmd.new)
    BY <2>3 DEF HistoryOf
  <2>6. History' = Append(SubSeq(History, 1, chain.redo), cmd.new)
    BY <1>a, <1>b, <2>1, <2>4, <2>5
  <2>7. Stored' \in {Stored, History'[chain'.redo]}
    BY <1>a, <1>b, <2>1, <2>3
  <2>8. chain'.redo = chain.redo + 1
    BY <2>2, <2>3
  <2>9. cmd.new \in Contents
    BY <1>1 DEF Commands
  <2>10. (Visible' /\ ~(dbState = "DIRTY")') => Stored' = History'[chain'.redo]
    BY <1>b, <2>1
  <2> QED BY <1>a, <1>b, <2>1, <2>6, <2>7, <2>8, <2>9, <2>10
    DEF Document!Change, Document!MayStore, Document!HonestReport
<1>2. ASSUME MayExecute, NEW new \in Contents, NEW told, ExecuteCommand(new, told)
      PROVE  Document!Change
  <2> DEFINE cmd == [old |-> content, new |-> new, changed |-> TRUE]
  <2>1. Notify(Executed(cmd, dbState, "DIRTY"), cmd.new, "DIRTY", told)
    BY <1>2 DEF ExecuteCommand
  <2>2. cmd \in Commands /\ cmd.old = content
    BY <1>a, <1>2 DEF MayExecute, Commands
  <2> HIDE DEF cmd
  <2> QED BY <1>1, <1>2, <2>1, <2>2
<1>3. CASE ExecuteNothing
  <2> DEFINE cmd == [old |-> content, new |-> content, changed |-> FALSE]
  <2>1. Notify(Executed(cmd, dbState, "CLEAN"), cmd.new, "CLEAN", notify)
    BY <1>3 DEF ExecuteNothing
  <2>2. cmd \in Commands /\ cmd.old = content
    BY <1>a, <1>3 DEF ExecuteNothing, MayExecute, Commands
  <2> HIDE DEF cmd
  <2>3. Document!Change
    BY <1>1, <1>3, <2>1, <2>2 DEF ExecuteNothing
  <2> QED BY <2>3 DEF Document!Next
<1>4. ASSUME NEW ch \in Chains, InStep(ch), NEW c \in Contents, NEW st, NEW told,
             Notify(ch, c, st, told), ch.cmds = chain.cmds, chain.cmds # <<>>,
             phase \in {"open", "backingOut"}, phase' \in {"open", "backingOut"}, cur' = cur,
             ch.redo \in 1..(Len(chain.cmds) + 1)
      PROVE  Document!Move(ch.redo)
  <2>1. /\ chain'.cmds = ch.cmds /\ chain'.redo = ch.redo /\ content' = c
        /\ disk'[cur].data \in {disk[cur].data, c}
    BY <1>0, <1>4, <1>a, NotifyEffect
  <2>2. History' = History
    BY <1>4, <1>a, <1>b, <2>1 DEF HistoryOf
  <2>3. Stored' \in {Stored, History'[chain'.redo]}
    BY <1>4, <1>a, <1>b, <2>1
  <2>4. (Visible' /\ ~(dbState = "DIRTY")') => Stored' = History'[chain'.redo]
    BY <1>4, <1>b
  <2>5. Visible /\ Visible' = Visible /\ ch.redo \in 1..Len(History)
    BY <1>4, <1>a DEF Visible
  <2> QED BY <2>1, <2>2, <2>3, <2>4, <2>5
    DEF Document!Move, Document!MayStore, Document!HonestReport
<1>5. ASSUME CoreUndo, UNCHANGED cur, phase \in {"open", "backingOut"}
      PROVE  Document!Next \/ UNCHANGED Document!vars
  <2>1. CASE chain.undo \in DOMAIN chain.cmds
    <3>1. PICK c \in AfterUndo(chain.cmds[chain.undo], content) :
            Notify(Undone, c, chain.states[chain.undoState].before, notify)
      BY <1>5, <2>1 DEF CoreUndo
    <3>2. phase' \in {"open", "backingOut"}
      BY <1>5, <2>1 DEF CoreUndo
    <3>3. /\ Undone \in Chains /\ InStep(Undone) /\ Undone.cmds = chain.cmds
          /\ Undone.redo = chain.redo - 1
          /\ chain.undo = chain.redo - 1 /\ chain.undo \in 1..Len(chain.cmds)
      BY <1>0, <2>1, UndoneOK
    <3>4. c \in Contents
      BY <1>5, <1>a, <2>1, <3>1, CommandTypes DEF AfterUndo, Commands
    <3>5. chain.cmds # <<>> /\ chain.redo - 1 \in 1..(Len(chain.cmds) + 1)
      BY <1>0, <3>3, PositionsInStep
    <3>6. Document!Move(Undone.redo)
      BY <1>4, <1>5, <3>1, <3>2, <3>3, <3>4, <3>5
    <3> QED BY <3>3, <3>6 DEF Document!Undo, Document!Next
  <2>2. CASE chain.undo \notin DOMAIN chain.cmds
    <3>1. phase' = "undefined" /\ UNCHANGED <<chain, dbState, content, disk>>
      BY <2>2, <1>5 DEF CoreUndo
    <3> QED BY <1>5, <1>c, <3>1 DEF Visible, Stored
  <2> QED BY <2>1, <2>2
<1>6. CASE Redo
  <2>1. PICK c \in AfterRedo(chain.cmds[chain.redo], content) :
          Notify(Redone, c, chain.states[chain.redoState].after, notify)
    BY <1>6 DEF Redo
  <2>2. /\ Redone \in Chains /\ InStep(Redone) /\ Redone.cmds = chain.cmds
        /\ Redone.redo = chain.redo + 1 /\ chain.redo \in 1..Len(chain.cmds)
    BY <1>0, <1>6, RedoneOK DEF Redo
  <2>3. chain.cmds # <<>> /\ chain.redo + 1 \in 1..(Len(chain.cmds) + 1)
        /\ chain.redo \in DOMAIN chain.cmds
    BY <1>0, <2>2, PositionsInStep
  <2>4. c \in Contents
    BY <1>6, <1>a, <2>1, <2>3, CommandTypes DEF AfterRedo, Commands, Redo
  <2>5. Document!Move(Redone.redo)
    BY <1>4, <1>6, <2>1, <2>2, <2>3, <2>4 DEF Redo
  <2> QED BY <2>2, <2>5 DEF Document!Redo, Document!Next
<1>7. ASSUME phase' = "open", chain' = EmptyChain, content' \in Contents,
             disk'[cur'].data = content'
      PROVE  Document!Open
  <2>1. History' = <<content'>> /\ chain'.redo = 1
    BY <1>7, <1>b DEF HistoryOf, EmptyChain
  <2> QED BY <1>7, <1>b, <2>1 DEF Document!Open, Document!HonestReport
<1>8. CASE New
  <2>1. PICK f \in Files : cur' = f /\ disk' = [disk EXCEPT ![f] = [data |-> NewContent, ver |-> 3]]
    BY <1>8 DEF New, Careful
  <2>2. disk'[cur'].data = NewContent
    BY <2>1 DEF TypeOK
  <2>3. Document!Open
    BY <1>7, <1>8, <2>2, ConstantsAssumption DEF New
  <2> QED BY <2>3 DEF Document!Next
<1>9. CASE Open
  <2>1. Document!Open
    BY <1>0, <1>7, <1>9 DEF Open, ReadFile
  <2> QED BY <2>1 DEF Document!Next
<1>10. CASE Restore
  BY <1>10 DEF Restore, Careful
<1>11. CASE Close
  <2>1. History' = <<NoData>> /\ chain'.redo = 1
    BY <1>11 DEF Close, History, HistoryOf, EmptyChain
  <2>2. ~Visible' /\ Stored' = NoData /\ dbState' = "CLEAN"
    BY <1>11 DEF Close, Visible, Stored
  <2>3. Document!Close
    BY <2>1, <2>2 DEF Document!Close
  <2> QED BY <2>3 DEF Document!Next
<1>12. ASSUME phase = "open", phase' = "open",
              chain'.cmds = chain.cmds, chain'.redo = chain.redo, content' = content,
              disk'[cur'].data = content
       PROVE  Document!Save
  <2>1. History' = History
    BY <1>12, <1>a, <1>b DEF HistoryOf
  <2>2. Stored' = History[chain.redo]
    BY <1>12, <1>a, <1>b
  <2>3. Visible' = Visible
    BY <1>12 DEF Visible
  <2>4. (Visible' /\ ~(dbState = "DIRTY")') => Stored' = History'[chain'.redo]
    BY <1>12, <1>b
  <2> QED BY <1>12, <1>a, <2>1, <2>2, <2>3, <2>4 DEF Document!Save, Document!HonestReport
<1>13. CASE Save
  <2>1. phase = "open" /\ phase' = "open" /\ cur' = cur /\ SaveOf(chain, content, dbState, FALSE)
    BY <1>13 DEF Save
  <2>2. /\ chain'.cmds = chain.cmds /\ chain'.redo = chain.redo /\ content' = content
        /\ \/ disk'[cur].data = content
           \/ disk' = disk /\ chain' = chain /\ dbState' = dbState
    BY <1>0, <1>a, <2>1, SaveOfEffect
  <2>3. CASE disk'[cur].data = content
    <3>1. Document!Save
      BY <1>12, <2>1, <2>2, <2>3
    <3> QED BY <3>1 DEF Document!Next
  <2>4. CASE disk' = disk /\ chain' = chain /\ dbState' = dbState
    BY <1>c, <2>1, <2>2, <2>4 DEF Visible, Stored
  <2> QED BY <2>2, <2>3, <2>4
<1>14. CASE SaveAs
  <2>1. WriteFile(chain, content, dbState, cur', SaveVersion, TRUE) /\ cur' \in Files
        /\ phase = "open" /\ phase' = "open"
    BY <1>14 DEF SaveAs, Careful
  <2>2. chain' \in {chain, MarkedSaved(chain)} /\ content' = content
    BY <2>1 DEF WriteFile
  <2>3. disk'[cur'].data = content
    BY <2>1 DEF WriteFile, TypeOK
  <2>4. chain'.cmds = chain.cmds /\ chain'.redo = chain.redo
    BY <1>0, <2>2, MarkedSavedOK
  <2>5. Document!Save
    BY <1>12, <2>1, <2>2, <2>3, <2>4
  <2> QED BY <2>5 DEF Document!Next
<1>15. CASE Backup
  <2>1. /\ disk'[cur] = disk[cur] /\ chain' = MarkedSaved(chain)
        /\ content' = content /\ dbState' = "CLEAN" /\ cur' = cur
        /\ dbState = "CLEAN" /\ phase = "open" /\ phase' = "open"
    BY <1>0, <1>a, <1>15 DEF Backup, WriteFile, TypeOK, Careful
  <2>2. chain'.cmds = chain.cmds /\ chain'.redo = chain.redo
    BY <1>0, <2>1, MarkedSavedOK
  <2>3. disk'[cur'].data = content
    BY <1>a, <2>1
  <2>4. Document!Save
    BY <1>12, <2>1, <2>2, <2>3
  <2> QED BY <2>4 DEF Document!Next
<1>16. CASE Export
  <2>1. /\ disk'[cur] = disk[cur] /\ chain' = chain
        /\ content' = content /\ dbState' = dbState /\ cur' = cur
        /\ phase = "open" /\ phase' = "open"
    BY <1>0, <1>a, <1>16 DEF Export, Exportable, WriteFile, TypeOK, Careful
  <2>2. Visible' /\ Stored' = Stored
    BY <1>a, <2>1 DEF Visible, Stored
  <2> QED BY <1>c, <2>1, <2>2
<1>17. CASE Lock
  <2>1. phase = "open" /\ phase' = "locked" /\ dbState' = "CLEAN" /\ cur' = cur
    BY <1>17 DEF Lock
  <2>2. disk'[cur].data = content /\ chain'.cmds = chain.cmds /\ chain'.redo = chain.redo
    <3>1. CASE dbState = "CLEAN"
      BY <1>a, <1>17, <3>1 DEF Lock
    <3>2. CASE dbState = "DIRTY"
      <4>1. disk'[cur].data = content /\ chain' = MarkedSaved(chain)
        BY <1>a, <1>17, <3>2 DEF Lock, TypeOK
      <4> QED BY <1>0, <4>1, MarkedSavedOK
    <3> QED BY <1>0, <3>1, <3>2
  <2>3. History' = HistoryOf(chain', content)
    BY <2>1, <2>2 DEF History, HistoryOf
  <2>4. History' = History
    BY <1>a, <2>1, <2>2, <2>3 DEF HistoryOf
  <2>5. ~Visible' /\ Stored' = History[chain.redo]
    BY <1>a, <2>1, <2>2 DEF Visible, Stored
  <2>6. Document!Lock
    BY <1>a, <2>1, <2>2, <2>4, <2>5 DEF Document!Lock
  <2> QED BY <2>6 DEF Document!Next
<1>18. CASE Unlock
  <2>1. /\ phase = "locked" /\ phase' = "open" /\ UNCHANGED <<chain, cur, disk>>
        /\ disk[cur].data \in Contents /\ content' = disk[cur].data /\ dbState' = "CLEAN"
    BY <1>18 DEF Unlock, ReadFile
  <2>2. /\ ~Visible /\ History = HistoryOf(chain, disk[cur].data)
        /\ Stored = disk[cur].data /\ History[chain.redo] = Stored
    BY <2>1, LockedDocument
  <2>3. History' = History /\ Visible' /\ Stored' = Stored
    BY <1>b, <2>1, <2>2
  <2>4. Document!Unlock
    BY <2>1, <2>2, <2>3 DEF Document!Unlock
  <2> QED BY <2>4 DEF Document!Next
<1>19. ASSUME phase \in {"open", "backingOut"}, phase' = "open", chain' = EmptyChain,
              UNCHANGED <<dbState, content, cur, disk>>
       PROVE  Document!Forget
  <2>1. History' = <<content>> /\ chain'.redo = 1
    BY <1>19, <1>b DEF HistoryOf, EmptyChain
  <2>2. Visible /\ Visible' = Visible /\ Stored' = Stored
    BY <1>19, <1>a DEF Visible, Stored
  <2> QED BY <1>19, <1>a, <2>1, <2>2 DEF Document!Forget
<1>20. CASE ToReadOnly
  <2>1. Document!Forget
    BY <1>19, <1>20 DEF ToReadOnly
  <2> QED BY <2>1 DEF Document!Next
<1>21. CASE BackOut
  BY <1>c, <1>21 DEF BackOut, Visible, Stored
<1>22. CASE BackOutDone
  <2>1. Document!Forget
    BY <1>19, <1>22 DEF BackOutDone
  <2> QED BY <2>1 DEF Document!Next
<1>23. CASE ToReadWrite
  BY <1>c, <1>23 DEF ToReadWrite, Visible, Stored
<1>24. CASE UNCHANGED vars
  BY <1>24 DEF vars, Document!vars, History, HistoryOf, Visible, Stored
<1>25. CASE Execute \/ ExecuteSuspended \/ ChangeOptions
  BY <1>2, <1>25 DEF Execute, ExecuteSuspended, ChangeOptions, Document!Next
<1>26. CASE Undo
  BY <1>5, <1>26 DEF Undo
<1>27. CASE BackOutStep
  BY <1>5, <1>27 DEF BackOutStep
<1> QED BY <1>3, <1>6, <1>8, <1>9, <1>10, <1>11, <1>13, <1>14, <1>15, <1>16, <1>17, <1>18,
           <1>20, <1>21, <1>22, <1>23, <1>24, <1>25, <1>26, <1>27 DEF Next

(* The undo/redo chain of ui/Windows is a document with a linear history,  *)
(* for every set of contents and files: no sequence of its operations, the *)
(* failures it handles included, loses, adds or reorders a content that    *)
(* Undo or Redo leads to, or reports as saved what the file does not hold. *)
THEOREM ChainImplementsDocument ==
  ASSUME Careful
  PROVE  Spec => ImplementsDocument
<1>1. Init => Document!Init
  <2> SUFFICES ASSUME Init PROVE Document!Init
    OBVIOUS
  <2>1. History = <<NoData>> /\ chain.redo = 1
    BY DEF Init, History, HistoryOf, EmptyChain
  <2>2. ~Visible /\ Stored = NoData /\ dbState # "DIRTY"
    BY DEF Init, Visible, Stored
  <2> QED BY <2>1, <2>2 DEF Document!Init
<1>2. TypeOK /\ IteratorsInStep /\ Saved /\ [Next]_vars => [Document!Next]_(Document!vars)
  BY StepDocument
<1> QED BY <1>1, <1>2, SavedInvariant, PTL DEF Spec, ImplementsDocument, Document!Spec
=============================================================================
