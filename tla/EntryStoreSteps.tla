-------------------------- MODULE EntryStoreSteps ---------------------------
(***************************************************************************)
(* What the steps of EntryStore do to a database, one by one.              *)
(*                                                                         *)
(* A database is described by the entries it has, with the base ids that   *)
(* nothing reads left out, and by the links from bases to dependents (Sto).*)
(* In the midst of a list of commands the links do not fit the entries, so *)
(* the two are kept apart until the end of the list, where Links gives the *)
(* one from the other (At).  A command is followed in both directions:     *)
(* Does(c, s, s2, t, t2) says that it leads from s to s2 and its undo from *)
(* t2 to t, which need not be s2 and s.  A list of commands then Leads     *)
(* from one set of entries to another, and its undo back.                  *)
(***************************************************************************)
EXTENDS EntryStore, NumberInduction, FiniteSetTheorems, SequenceTheorems, TLAPS

(* The fields an entry has: those of EntryStore, or more.  Nothing here     *)
(* depends on which; the theorems say.                                      *)
CONSTANT EntryFields

-----------------------------------------------------------------------------
(* The fold of DeleteDependents. *)
Deleting(d, S) ==
    CHOOSE f : f = [s \in SUBSET S |->
        IF s = {} THEN d
        ELSE DeleteDependent(f[s \ {CHOOSE x \in s : TRUE}], CHOOSE x \in s : TRUE)]

LEMMA DeletingFolds ==
  ASSUME NEW d, NEW S, IsFiniteSet(S)
  PROVE  /\ Deleting(d, S)[{}] = d
         /\ DeleteDependents(d, S) = Deleting(d, S)[S]
         /\ \A s \in SUBSET S : s # {} =>
               \E x \in s : Deleting(d, S)[s] = DeleteDependent(Deleting(d, S)[s \ {x}], x)
<1> DEFINE pick(s) == CHOOSE x \in s : TRUE
           Body(f, s) == IF s = {} THEN d ELSE DeleteDependent(f[s \ {pick(s)}], pick(s))
           Small(m) == {s \in SUBSET S : Cardinality(s) <= m}
           IsFold(f, m) == f = [s \in Small(m) |-> Body(f, s)]
           Done == {m \in Nat : \E f : IsFold(f, m)}
           fold == Deleting(d, S)
<1>1. \A s \in SUBSET S : IsFiniteSet(s) /\ Cardinality(s) \in Nat
  BY FS_Subset, FS_CardinalityType
<1>2. ASSUME NEW s \in SUBSET S, s # {}
      PROVE  pick(s) \in s /\ Cardinality(s \ {pick(s)}) = Cardinality(s) - 1
  BY <1>1, <1>2, FS_RemoveElement
<1>3. 0 \in Done
  <2> DEFINE f == [s \in Small(0) |-> d]
  <2>1. \A s \in Small(0) : s = {}
    BY <1>1, FS_EmptySet
  <2>2. IsFold(f, 0)
    BY <2>1
  <2> QED BY <2>2
<1>4. ASSUME NEW m \in Nat, m \in Done PROVE m + 1 \in Done
  <2>1. PICK f : IsFold(f, m)
    BY <1>4
  <2> DEFINE g == [s \in Small(m + 1) |-> Body(f, s)]
  <2> HIDE DEF pick
  <2>2. \A s \in Small(m) : g[s] = f[s]
    <3>1. \A s \in Small(m) : s \in Small(m + 1)
      BY <1>1
    <3> QED BY <2>1, <3>1
  <2>3. \A s \in Small(m + 1) : s # {} => s \ {pick(s)} \in Small(m)
    BY <1>1, <1>2
  <2>4. \A s \in Small(m + 1) : Body(f, s) = Body(g, s)
    <3> HIDE DEF g
    <3> QED BY <2>2, <2>3
  <2>5. IsFold(g, m + 1)
    BY <2>4
  <2> HIDE DEF g, IsFold
  <2> QED BY <2>5
<1>5. PICK f : IsFold(f, Cardinality(S))
  <2> HIDE DEF IsFold
  <2>1. Nat \subseteq Done
    <3> HIDE DEF Done
    <3> QED BY <1>3, <1>4, SetInduction
  <2> QED BY <1>1, <2>1
<1>6. Small(Cardinality(S)) = SUBSET S
  BY <1>1, FS_Subset
<1>7. fold = [s \in SUBSET S |-> Body(fold, s)]
  <2> DEFINE All(g) == [s \in SUBSET S |-> Body(g, s)]
  <2>1. f = All(f)
    BY <1>5, <1>6
  <2>2. fold = CHOOSE g : g = All(g)
    BY DEF Deleting
  <2> HIDE DEF All, fold
  <2>3. fold = All(fold)
    BY <2>1, <2>2
  <2> QED BY <2>3 DEF All
<1>8. DeleteDependents(d, S) = fold[S]
  BY Zenon DEF DeleteDependents, Deleting, FoldSet, MapThenFoldSet
<1> HIDE DEF fold, pick
<1>9. fold[{}] = d
  BY <1>7
<1>10. \A s \in SUBSET S : s # {} => \E x \in s : fold[s] = DeleteDependent(fold[s \ {x}], x)
  BY <1>2, <1>7
<1> QED BY <1>8, <1>9, <1>10 DEF fold

(* The fold of PutBack. *)
PuttingBack(d, entries, S) ==
    CHOOSE f : f = [s \in SUBSET S |->
        IF s = {} THEN d
        ELSE AddEntry(DeleteEntry(f[s \ {CHOOSE x \in s : TRUE}], CHOOSE x \in s : TRUE, entries[CHOOSE x \in s : TRUE]), CHOOSE x \in s : TRUE, entries[CHOOSE x \in s : TRUE])]

LEMMA PuttingBackFolds ==
  ASSUME NEW d, NEW entries, NEW S, IsFiniteSet(S)
  PROVE  /\ PuttingBack(d, entries, S)[{}] = d
         /\ PutBack(d, entries, S) = PuttingBack(d, entries, S)[S]
         /\ \A s \in SUBSET S : s # {} =>
               \E x \in s : PuttingBack(d, entries, S)[s] = AddEntry(DeleteEntry(PuttingBack(d, entries, S)[s \ {x}], x, entries[x]), x, entries[x])
<1> DEFINE pick(s) == CHOOSE x \in s : TRUE
           Body(f, s) == IF s = {} THEN d ELSE AddEntry(DeleteEntry(f[s \ {pick(s)}], pick(s), entries[pick(s)]), pick(s), entries[pick(s)])
           Small(m) == {s \in SUBSET S : Cardinality(s) <= m}
           IsFold(f, m) == f = [s \in Small(m) |-> Body(f, s)]
           Done == {m \in Nat : \E f : IsFold(f, m)}
           fold == PuttingBack(d, entries, S)
<1>1. \A s \in SUBSET S : IsFiniteSet(s) /\ Cardinality(s) \in Nat
  BY FS_Subset, FS_CardinalityType
<1>2. ASSUME NEW s \in SUBSET S, s # {}
      PROVE  pick(s) \in s /\ Cardinality(s \ {pick(s)}) = Cardinality(s) - 1
  BY <1>1, <1>2, FS_RemoveElement
<1>3. 0 \in Done
  <2> DEFINE f == [s \in Small(0) |-> d]
  <2>1. \A s \in Small(0) : s = {}
    BY <1>1, FS_EmptySet
  <2>2. IsFold(f, 0)
    BY <2>1
  <2> QED BY <2>2
<1>4. ASSUME NEW m \in Nat, m \in Done PROVE m + 1 \in Done
  <2>1. PICK f : IsFold(f, m)
    BY <1>4
  <2> DEFINE g == [s \in Small(m + 1) |-> Body(f, s)]
  <2> HIDE DEF pick
  <2>2. \A s \in Small(m) : g[s] = f[s]
    <3>1. \A s \in Small(m) : s \in Small(m + 1)
      BY <1>1
    <3> QED BY <2>1, <3>1
  <2>3. \A s \in Small(m + 1) : s # {} => s \ {pick(s)} \in Small(m)
    BY <1>1, <1>2
  <2>4. \A s \in Small(m + 1) : Body(f, s) = Body(g, s)
    <3> HIDE DEF g
    <3> QED BY <2>2, <2>3
  <2>5. IsFold(g, m + 1)
    BY <2>4
  <2> HIDE DEF g, IsFold
  <2> QED BY <2>5
<1>5. PICK f : IsFold(f, Cardinality(S))
  <2> HIDE DEF IsFold
  <2>1. Nat \subseteq Done
    <3> HIDE DEF Done
    <3> QED BY <1>3, <1>4, SetInduction
  <2> QED BY <1>1, <2>1
<1>6. Small(Cardinality(S)) = SUBSET S
  BY <1>1, FS_Subset
<1>7. fold = [s \in SUBSET S |-> Body(fold, s)]
  <2> DEFINE All(g) == [s \in SUBSET S |-> Body(g, s)]
  <2>1. f = All(f)
    BY <1>5, <1>6
  <2>2. fold = CHOOSE g : g = All(g)
    BY DEF PuttingBack
  <2> HIDE DEF All, fold
  <2>3. fold = All(fold)
    BY <2>1, <2>2
  <2> QED BY <2>3 DEF All
<1>8. PutBack(d, entries, S) = fold[S]
  BY Zenon DEF PutBack, PuttingBack, FoldSet, MapThenFoldSet
<1> HIDE DEF fold, pick
<1>9. fold[{}] = d
  BY <1>7
<1>10. \A s \in SUBSET S : s # {} => \E x \in s : fold[s] = AddEntry(DeleteEntry(fold[s \ {x}], x, entries[x]), x, entries[x])
  BY <1>2, <1>7
<1> QED BY <1>8, <1>9, <1>10 DEF fold

(* The fold of AddBack. *)
AddingBack(d, entries, S) ==
    CHOOSE f : f = [s \in SUBSET S |->
        IF s = {} THEN d
        ELSE AddEntry(f[s \ {CHOOSE x \in s : TRUE}], CHOOSE x \in s : TRUE, entries[CHOOSE x \in s : TRUE])]

LEMMA AddingBackFolds ==
  ASSUME NEW d, NEW entries, NEW S, S = DOMAIN entries, IsFiniteSet(S)
  PROVE  /\ AddingBack(d, entries, S)[{}] = d
         /\ AddBack(d, entries) = AddingBack(d, entries, S)[S]
         /\ \A s \in SUBSET S : s # {} =>
               \E x \in s : AddingBack(d, entries, S)[s] = AddEntry(AddingBack(d, entries, S)[s \ {x}], x, entries[x])
<1> DEFINE pick(s) == CHOOSE x \in s : TRUE
           Body(f, s) == IF s = {} THEN d ELSE AddEntry(f[s \ {pick(s)}], pick(s), entries[pick(s)])
           Small(m) == {s \in SUBSET S : Cardinality(s) <= m}
           IsFold(f, m) == f = [s \in Small(m) |-> Body(f, s)]
           Done == {m \in Nat : \E f : IsFold(f, m)}
           fold == AddingBack(d, entries, S)
<1>1. \A s \in SUBSET S : IsFiniteSet(s) /\ Cardinality(s) \in Nat
  BY FS_Subset, FS_CardinalityType
<1>2. ASSUME NEW s \in SUBSET S, s # {}
      PROVE  pick(s) \in s /\ Cardinality(s \ {pick(s)}) = Cardinality(s) - 1
  BY <1>1, <1>2, FS_RemoveElement
<1>3. 0 \in Done
  <2> DEFINE f == [s \in Small(0) |-> d]
  <2>1. \A s \in Small(0) : s = {}
    BY <1>1, FS_EmptySet
  <2>2. IsFold(f, 0)
    BY <2>1
  <2> QED BY <2>2
<1>4. ASSUME NEW m \in Nat, m \in Done PROVE m + 1 \in Done
  <2>1. PICK f : IsFold(f, m)
    BY <1>4
  <2> DEFINE g == [s \in Small(m + 1) |-> Body(f, s)]
  <2> HIDE DEF pick
  <2>2. \A s \in Small(m) : g[s] = f[s]
    <3>1. \A s \in Small(m) : s \in Small(m + 1)
      BY <1>1
    <3> QED BY <2>1, <3>1
  <2>3. \A s \in Small(m + 1) : s # {} => s \ {pick(s)} \in Small(m)
    BY <1>1, <1>2
  <2>4. \A s \in Small(m + 1) : Body(f, s) = Body(g, s)
    <3> HIDE DEF g
    <3> QED BY <2>2, <2>3
  <2>5. IsFold(g, m + 1)
    BY <2>4
  <2> HIDE DEF g, IsFold
  <2> QED BY <2>5
<1>5. PICK f : IsFold(f, Cardinality(S))
  <2> HIDE DEF IsFold
  <2>1. Nat \subseteq Done
    <3> HIDE DEF Done
    <3> QED BY <1>3, <1>4, SetInduction
  <2> QED BY <1>1, <2>1
<1>6. Small(Cardinality(S)) = SUBSET S
  BY <1>1, FS_Subset
<1>7. fold = [s \in SUBSET S |-> Body(fold, s)]
  <2> DEFINE All(g) == [s \in SUBSET S |-> Body(g, s)]
  <2>1. f = All(f)
    BY <1>5, <1>6
  <2>2. fold = CHOOSE g : g = All(g)
    BY DEF AddingBack
  <2> HIDE DEF All, fold
  <2>3. fold = All(fold)
    BY <2>1, <2>2
  <2> QED BY <2>3 DEF All
<1>8. AddBack(d, entries) = fold[S]
  BY Zenon DEF AddBack, AddingBack, FoldSet, MapThenFoldSet
<1> HIDE DEF fold, pick
<1>9. fold[{}] = d
  BY <1>7
<1>10. \A s \in SUBSET S : s # {} => \E x \in s : fold[s] = AddEntry(fold[s \ {x}], x, entries[x])
  BY <1>2, <1>7
<1> QED BY <1>8, <1>9, <1>10 DEF fold

-----------------------------------------------------------------------------
(* The recursive functions of ExecuteAll and UndoAll. *)

LEMMA LenIs ==
  ASSUME NEW n \in Nat, NEW f, f = [k \in 1 .. n |-> f[k]]
  PROVE  Len(f) = n
  OBVIOUS

(* The databases that the execution of a list goes through. *)
Ran(list, d) ==
    CHOOSE f : f = [k \in 0 .. Len(list) |-> IF k = 0 THEN d ELSE Execute1(f[k - 1], list[k])]

LEMMA ExecuteRuns ==
  ASSUME NEW d, NEW list, Len(list) \in Nat
  PROVE  /\ Ran(list, d)[0] = d
         /\ \A k \in 1 .. Len(list) : Ran(list, d)[k] = Execute1(Ran(list, d)[k - 1], list[k])
         /\ ExecuteAll(list, d).db = Ran(list, d)[Len(list)]
         /\ Len(ExecuteAll(list, d).did) = Len(list)
         /\ \A k \in 1 .. Len(list) :
               ExecuteAll(list, d).did[k] = Executed1(Ran(list, d)[k - 1], list[k])
<1> DEFINE n == Len(list)
           IsRun(f, m) == /\ f = [k \in 0 .. m |-> f[k]] /\ f[0] = d
                          /\ \A k \in 1 .. m : f[k] = Execute1(f[k - 1], list[k])
           S == {m \in Nat : \E f : IsRun(f, m)}
           Body(f) == [k \in 0 .. n |-> IF k = 0 THEN d ELSE Execute1(f[k - 1], list[k])]
           after == Ran(list, d)
<1>1. 0 \in S
  <2>1. IsRun([k \in 0..0 |-> d], 0)
    OBVIOUS
  <2> QED BY <2>1
<1>2. ASSUME NEW m \in Nat, m \in S PROVE m + 1 \in S
  <2>1. PICK f : IsRun(f, m)
    BY <1>2
  <2> DEFINE g == [k \in 0 .. m + 1 |-> IF k = m + 1 THEN Execute1(f[m], list[m + 1]) ELSE f[k]]
  <2>2. IsRun(g, m + 1)
    <3>1. g = [k \in 0 .. m + 1 |-> g[k]]
      OBVIOUS
    <3>2. g[0] = d
      BY <2>1
    <3>3. ASSUME NEW k \in 1 .. m + 1 PROVE g[k] = Execute1(g[k - 1], list[k])
      <4>1. CASE k = m + 1
        <5>1. g[k] = Execute1(f[m], list[k]) /\ k - 1 = m /\ m \in 0 .. m + 1 /\ m # m + 1
          BY <4>1
        <5>2. g[m] = f[m]
          BY <5>1
        <5> HIDE DEF g
        <5> QED BY <5>1, <5>2
      <4>2. CASE k \in 1 .. m
        <5>1. g[k] = f[k] /\ g[k - 1] = f[k - 1]
          BY <4>2
        <5> HIDE DEF g
        <5> QED BY <2>1, <4>2, <5>1
      <4> QED BY <4>1, <4>2
    <3> HIDE DEF g
    <3> QED BY <3>1, <3>2, <3>3
  <2> HIDE DEF g, IsRun
  <2> QED BY <2>2
<1>3. PICK f : IsRun(f, n)
  <2> HIDE DEF IsRun
  <2>1. Nat \subseteq S
    <3> HIDE DEF S
    <3> QED BY <1>1, <1>2, SetInduction
  <2> QED BY <2>1
<1>4. f = Body(f)
  BY <1>3
<1>5. after = Body(after)
  <2>1. after = CHOOSE g : g = Body(g)
    BY DEF Ran
  <2> HIDE DEF Body, after
  <2> QED BY <1>4, <2>1
<1>6. after[0] = d /\ \A k \in 1 .. n : after[k] = Execute1(after[k - 1], list[k])
  <2> HIDE DEF after
  <2> QED BY <1>5
<1>7. ExecuteAll(list, d) = [db |-> after[n], did |-> [k \in 1 .. n |-> Executed1(after[k - 1], list[k])]]
  BY Zenon DEF ExecuteAll, Ran
<1> DEFINE did == [k \in 1 .. n |-> Executed1(after[k - 1], list[k])]
<1>8. did = [k \in 1 .. n |-> did[k]] /\ \A k \in 1 .. n : did[k] = Executed1(after[k - 1], list[k])
  OBVIOUS
<1>9. ExecuteAll(list, d).db = after[n] /\ ExecuteAll(list, d).did = did
  BY <1>7
<1> HIDE DEF after, did
<1>10. Len(did) = n
  BY <1>8, LenIs
<1> QED BY <1>6, <1>8, <1>9, <1>10 DEF after

(* The databases that the undo of a list goes through. *)
Unran(list, d) ==
    CHOOSE f : f = [k \in 0 .. Len(list) |-> IF k = 0 THEN d ELSE Undo1(f[k - 1], Reverse(list)[k])]

LEMMA ReversedIs ==
  ASSUME NEW list, Len(list) \in Nat, NEW k \in 1 .. Len(list), NEW j \in 1 .. Len(list),
         k + j = Len(list) + 1
  PROVE  Reverse(list)[k] = list[j]
<1>1. Reverse(list)[k] = list[(Len(list) - k) + 1]
  BY DEF Reverse
<1>2. (Len(list) - k) + 1 = j
  OBVIOUS
<1> QED BY <1>1, <1>2

LEMMA UndoRuns ==
  ASSUME NEW d, NEW list, Len(list) \in Nat
  PROVE  /\ Unran(list, d)[0] = d
         /\ \A k \in 1 .. Len(list) : Unran(list, d)[k] = Undo1(Unran(list, d)[k - 1], Reverse(list)[k])
         /\ UndoAll(list, d) = Unran(list, d)[Len(list)]
<1> DEFINE n == Len(list)
           IsRun(f, m) == /\ f = [k \in 0 .. m |-> f[k]] /\ f[0] = d
                          /\ \A k \in 1 .. m : f[k] = Undo1(f[k - 1], Reverse(list)[k])
           S == {m \in Nat : \E f : IsRun(f, m)}
           Body(f) == [k \in 0 .. n |-> IF k = 0 THEN d ELSE Undo1(f[k - 1], Reverse(list)[k])]
           back == Unran(list, d)
<1>1. 0 \in S
  <2>1. IsRun([k \in 0..0 |-> d], 0)
    OBVIOUS
  <2> QED BY <2>1
<1>2. ASSUME NEW m \in Nat, m \in S PROVE m + 1 \in S
  <2>1. PICK f : IsRun(f, m)
    BY <1>2
  <2> DEFINE g == [k \in 0 .. m + 1 |-> IF k = m + 1 THEN Undo1(f[m], Reverse(list)[m + 1]) ELSE f[k]]
  <2>2. IsRun(g, m + 1)
    <3>1. g = [k \in 0 .. m + 1 |-> g[k]]
      OBVIOUS
    <3>2. g[0] = d
      BY <2>1
    <3>3. ASSUME NEW k \in 1 .. m + 1 PROVE g[k] = Undo1(g[k - 1], Reverse(list)[k])
      <4>1. CASE k = m + 1
        <5>1. g[k] = Undo1(f[m], Reverse(list)[k]) /\ k - 1 = m /\ m \in 0 .. m + 1 /\ m # m + 1
          BY <4>1
        <5>2. g[m] = f[m]
          BY <5>1
        <5> HIDE DEF g
        <5> QED BY <5>1, <5>2
      <4>2. CASE k \in 1 .. m
        <5>1. g[k] = f[k] /\ g[k - 1] = f[k - 1]
          BY <4>2
        <5> HIDE DEF g
        <5> QED BY <2>1, <4>2, <5>1
      <4> QED BY <4>1, <4>2
    <3> HIDE DEF g
    <3> QED BY <3>1, <3>2, <3>3
  <2> HIDE DEF g, IsRun
  <2> QED BY <2>2
<1>3. PICK f : IsRun(f, n)
  <2> HIDE DEF IsRun
  <2>1. Nat \subseteq S
    <3> HIDE DEF S
    <3> QED BY <1>1, <1>2, SetInduction
  <2> QED BY <2>1
<1>4. f = Body(f)
  BY <1>3
<1>5. back = Body(back)
  <2>1. back = CHOOSE g : g = Body(g)
    BY DEF Unran
  <2> HIDE DEF Body, back
  <2> QED BY <1>4, <2>1
<1>6. back[0] = d /\ \A k \in 1 .. n : back[k] = Undo1(back[k - 1], Reverse(list)[k])
  <2> HIDE DEF back
  <2> QED BY <1>5
<1>7. UndoAll(list, d) = back[n]
  BY Zenon DEF UndoAll, Unran
<1> HIDE DEF back
<1> QED BY <1>6, <1>7 DEF back
-----------------------------------------------------------------------------
(* Bags that hold everything once. *)

LEMMA BagAdd ==
  ASSUME NEW S, NEW T, S \cap T = {}
  PROVE  SetToBag(S) (+) SetToBag(T) = SetToBag(S \cup T)
  BY DEF SetToBag, (+)

LEMMA BagRemove ==
  ASSUME NEW S, NEW x
  PROVE  SetToBag(S) (-) SetToBag({x}) = SetToBag(S \ {x})
<1> DEFINE B == [y \in S |-> IF y \in {x} THEN 1 - 1 ELSE 1]
<1>1. SetToBag(S) (-) SetToBag({x}) = [y \in {z \in S : B[z] > 0} |-> B[y]]
  BY DEF SetToBag, (-)
<1>2. {z \in S : B[z] > 0} = S \ {x}
  OBVIOUS
<1>3. \A y \in S \ {x} : B[y] = 1
  OBVIOUS
<1> HIDE DEF B
<1>4. [y \in {z \in S : B[z] > 0} |-> B[y]] = [y \in S \ {x} |-> 1]
  BY <1>2, <1>3
<1> QED BY <1>1, <1>4 DEF SetToBag

LEMMA BagSet ==
  ASSUME NEW S
  PROVE  BagToSet(SetToBag(S)) = S /\ DOMAIN SetToBag(S) = S
  BY DEF BagToSet, SetToBag

-----------------------------------------------------------------------------
(* The states of the store. *)

Types == {"normal", "alias", "shortcut", "aliasbase", "shortcutbase"}

(* What the store relies on in an entry, whatever else it has. *)
IsEntry(x) ==
    /\ x = [f \in DOMAIN x |-> x[f]]
    /\ {"type", "base", "password", "key", "expires"} \subseteq DOMAIN x
    /\ x.type \in Types /\ x.base \in Ids \cup {NoId}
    /\ x.key \in Keys \cup {NoKey} /\ x.expires \in BOOLEAN
    /\ IF IsDependent(x) THEN x.base \in Ids /\ x.password = NoPassword /\ ~x.expires
       ELSE x.password \in Passwords

(* A base id is read of dependents only. *)
Norm(x) == IF IsDependent(x) THEN x ELSE [x EXCEPT !.base = NoId]

Drop(f, S) == [z \in DOMAIN f \ S |-> f[z]]

Retyped(e, id, type) == [e EXCEPT ![id] = [@ EXCEPT !.type = type]]

IsLinks(L) ==
    /\ L = [kind \in Kinds |-> L[kind]]
    /\ \A kind \in Kinds : L[kind] \subseteq Ids \X Ids

Targets(L, kind, base) == {i \in Ids : <<base, i>> \in L[kind]}

(* The shortcut keys and the expiry list are those of the entries e. *)
KeysAre(keys, e) ==
    /\ keys \in [Keys -> Ids \cup {NoId}]
    /\ \A key \in Keys, i \in Ids : keys[key] = i <=> i \in DOMAIN e /\ e[i].key = key

Expiring(e) == {i \in DOMAIN e : e[i].expires}

Holds(entries, e) ==
    /\ entries = [i \in DOMAIN e |-> entries[i]]
    /\ e = [i \in DOMAIN e |-> e[i]] /\ DOMAIN e \subseteq Ids
    /\ \A i \in DOMAIN e : IsEntry(entries[i]) /\ e[i] = Norm(entries[i])

Bag(L) == [kind \in Kinds |-> SetToBag(L[kind])]

Fields == {"entries", "deps", "keys", "expired", "sound"}

(* d, field by field, and no ASSERT failed. *)
Db(d, entries, deps, keys, expired) ==
    /\ DOMAIN d = Fields
    /\ d.entries = entries /\ d.deps = deps /\ d.keys = keys /\ d.expired = expired
    /\ d.sound

(* The database d has the entries e and the links L from bases to           *)
(* dependents, which need not fit the entries: in the midst of a list of    *)
(* commands they do not.                                                    *)
Sto(d, e, L) ==
    /\ Db(d, d.entries, Bag(L), d.keys, SetToBag(Expiring(e)))
    /\ Holds(d.entries, e)
    /\ IsLinks(L)
    /\ KeysAre(d.keys, e)

LEMMA NormIs ==
  ASSUME NEW x, IsEntry(x)
  PROVE  /\ IsEntry(Norm(x)) /\ DOMAIN Norm(x) = DOMAIN x
         /\ Norm(x).type = x.type /\ Norm(x).key = x.key
         /\ Norm(x).expires = x.expires /\ Norm(x).password = x.password
         /\ IsDependent(Norm(x)) <=> IsDependent(x)
         /\ IsDependent(x) => Norm(x) = x
         /\ ~IsDependent(x) => Norm(x).base = NoId
  BY DEF IsEntry, Norm, IsDependent, Kinds, Types

(* The type of an entry that is no dependent changes. *)
LEMMA RetypeIs ==
  ASSUME NEW x, IsEntry(x), ~IsDependent(x), NEW type \in Types \ Kinds
  PROVE  /\ IsEntry([x EXCEPT !.type = type])
         /\ Norm([x EXCEPT !.type = type]) = [Norm(x) EXCEPT !.type = type]
         /\ [x EXCEPT !.type = type].type = type
         /\ [x EXCEPT !.type = type].key = x.key
         /\ [x EXCEPT !.type = type].expires = x.expires
         /\ [x EXCEPT !.type = type].password = x.password
         /\ [x EXCEPT !.type = type].base = x.base
  BY DEF IsEntry, Norm, IsDependent, Kinds, Types

(* The base an entry refers to changes. *)
LEMMA RebaseIs ==
  ASSUME NEW x, IsEntry(x), NEW base \in Ids
  PROVE  /\ IsEntry([x EXCEPT !.base = base])
         /\ Norm([x EXCEPT !.base = base]) =
               IF IsDependent(x) THEN [Norm(x) EXCEPT !.base = base] ELSE Norm(x)
         /\ [x EXCEPT !.base = base].base = base
         /\ [x EXCEPT !.base = base].type = x.type
         /\ [x EXCEPT !.base = base].key = x.key
         /\ [x EXCEPT !.base = base].expires = x.expires
         /\ [x EXCEPT !.base = base].password = x.password
  BY DEF IsEntry, Norm, IsDependent, Kinds, Types

LEMMA LinkedIs ==
  ASSUME NEW d, NEW e, NEW L, Sto(d, e, L), NEW kind \in Kinds, NEW base
  PROVE  LinkedTo(d, kind, base) = Targets(L, kind, base)
<1>1. d.deps[kind] = SetToBag(L[kind])
  BY DEF Sto, Db, Bag
<1>2. BagToSet(d.deps[kind]) = L[kind]
  BY <1>1, BagSet
<1>3. L[kind] \subseteq Ids \X Ids
  BY DEF Sto, IsLinks
<1> QED BY <1>2, <1>3 DEF LinkedTo, Targets
(* The entries once id has become a dependent of base. *)
Joined(e, base, id, kind) ==
    [i \in DOMAIN e |->
        IF i = base THEN [e[i] EXCEPT !.type = BaseType[kind]]
        ELSE IF i = id /\ IsDependent(e[i]) THEN [e[i] EXCEPT !.base = base]
        ELSE e[i]]

(* The keys and dates of the entries are what they were. *)
LEMMA Restyled ==
  ASSUME NEW keys, NEW e, KeysAre(keys, e), NEW f, DOMAIN f = DOMAIN e,
         \A i \in DOMAIN e : f[i].key = e[i].key /\ f[i].expires = e[i].expires
  PROVE  KeysAre(keys, f) /\ Expiring(f) = Expiring(e)
  BY DEF KeysAre, Expiring

LEMMA BagLinks ==
  ASSUME NEW L, IsLinks(L), NEW kind \in Kinds, NEW T, T \subseteq Ids \X Ids
  PROVE  /\ IsLinks([L EXCEPT ![kind] = T])
         /\ [Bag(L) EXCEPT ![kind] = SetToBag(T)] = Bag([L EXCEPT ![kind] = T])
  BY DEF IsLinks, Bag

LEMMA StoParts ==
  ASSUME NEW d, NEW e, NEW L, Sto(d, e, L)
  PROVE  /\ Db(d, d.entries, Bag(L), d.keys, SetToBag(Expiring(e)))
         /\ d.entries = [i \in DOMAIN e |-> d.entries[i]] /\ DOMAIN d.entries = DOMAIN e
         /\ e = [i \in DOMAIN e |-> e[i]] /\ DOMAIN e \subseteq Ids
         /\ \A i \in DOMAIN e : IsEntry(d.entries[i]) /\ e[i] = Norm(d.entries[i])
         /\ \A i \in DOMAIN e : IsEntry(e[i])
         /\ KeysAre(d.keys, e) /\ IsLinks(L)
<1>1. d.entries = [i \in DOMAIN e |-> d.entries[i]]
  BY DEF Sto, Holds
<1>2. DOMAIN d.entries = DOMAIN e
  BY <1>1
<1>3. \A i \in DOMAIN e : IsEntry(d.entries[i]) /\ e[i] = Norm(d.entries[i])
  BY DEF Sto, Holds
<1>4. \A i \in DOMAIN e : IsEntry(e[i])
  BY <1>3, NormIs
<1> QED BY <1>1, <1>2, <1>3, <1>4 DEF Sto, Holds

Tied(L, kind, base, id) == [L EXCEPT ![kind] = @ \cup {<<base, id>>}]

Cut(L, kind, base, id) == [L EXCEPT ![kind] = @ \ {<<base, id>>}]

LEMMA CutLinks ==
  ASSUME NEW L, IsLinks(L), NEW kind \in Kinds, NEW base \in Ids, NEW id \in Ids
  PROVE  IsLinks(Cut(L, kind, base, id)) /\ IsLinks(Tied(L, kind, base, id))
<1>1. L[kind] \ {<<base, id>>} \subseteq Ids \X Ids /\ L[kind] \cup {<<base, id>>} \subseteq Ids \X Ids
  BY DEF IsLinks
<1> QED BY <1>1, BagLinks DEF Cut, Tied

LEMMA CutIs ==
  ASSUME NEW L, IsLinks(L), NEW kind \in Kinds, NEW base \in Ids, NEW id \in Ids,
         NEW k \in Kinds, NEW b \in Ids, NEW i \in Ids
  PROVE  /\ <<b, i>> \in Cut(L, kind, base, id)[k] <=> <<b, i>> \in L[k] /\ ~(k = kind /\ b = base /\ i = id)
         /\ <<b, i>> \in Tied(L, kind, base, id)[k] <=> <<b, i>> \in L[k] \/ (k = kind /\ b = base /\ i = id)
<1>1. /\ Cut(L, kind, base, id)[k] = IF k = kind THEN L[k] \ {<<base, id>>} ELSE L[k]
      /\ Tied(L, kind, base, id)[k] = IF k = kind THEN L[k] \cup {<<base, id>>} ELSE L[k]
  BY DEF IsLinks, Cut, Tied
<1> QED BY <1>1

LEMMA JoinArrives ==
  ASSUME NEW d, NEW e, NEW L, Sto(d, e, L), NEW kind \in Kinds,
         NEW base \in DOMAIN e, NEW id \in DOMAIN e, base # id,
         e[base].type \in {"normal", BaseType[kind]}, <<base, id>> \notin L[kind]
  PROVE  Sto(AddDependent(d, base, id, kind), Joined(e, base, id, kind),
             Tied(L, kind, base, id))
<1> DEFINE old == d.entries
           f == Joined(e, base, id, kind)
           T == L[kind] \cup {<<base, id>>}
           M == [L EXCEPT ![kind] = T]
           new == [[old EXCEPT ![id].base = base] EXCEPT ![base].type = BaseType[kind]]
           r == AddDependent(d, base, id, kind)
<1>1. /\ Db(d, old, Bag(L), d.keys, SetToBag(Expiring(e)))
      /\ old = [i \in DOMAIN e |-> old[i]] /\ DOMAIN old = DOMAIN e
      /\ e = [i \in DOMAIN e |-> e[i]] /\ DOMAIN e \subseteq Ids
      /\ \A i \in DOMAIN e : IsEntry(old[i]) /\ e[i] = Norm(old[i])
      /\ KeysAre(d.keys, e) /\ IsLinks(L)
  BY StoParts
<1>2. BaseType[kind] \in Types \ Kinds
  BY DEF BaseType, Types, Kinds
<1>3. ~IsDependent(old[base]) /\ old[base].type \in {"normal", BaseType[kind]}
  BY <1>1, <1>2, NormIs DEF IsDependent, Kinds
<1>4. Bag(L)[kind] (+) Link(base, id) = SetToBag(T)
  <2>1. Bag(L)[kind] = SetToBag(L[kind])
    BY DEF Bag
  <2> QED BY <2>1, BagAdd DEF Link
<1>5. Db(r, new, [Bag(L) EXCEPT ![kind] = SetToBag(T)], d.keys, SetToBag(Expiring(e)))
  BY <1>1, <1>3, <1>4 DEF Db, Fields, AddDependent
<1>6. T \subseteq Ids \X Ids
  BY <1>1 DEF IsLinks
<1>7. IsLinks(M) /\ [Bag(L) EXCEPT ![kind] = SetToBag(T)] = Bag(M)
  <2> HIDE DEF T
  <2> QED BY <1>1, <1>6, BagLinks
<1>8. ASSUME NEW i \in DOMAIN e
      PROVE  /\ IsEntry(new[i]) /\ f[i] = Norm(new[i])
             /\ f[i].key = e[i].key /\ f[i].expires = e[i].expires
  <2>0. IsEntry(old[i]) /\ e[i] = Norm(old[i]) /\ base \in Ids
    BY <1>1
  <2>1. CASE i = base
    <3>1. new[i] = [old[i] EXCEPT !.type = BaseType[kind]] /\ f[i] = [e[i] EXCEPT !.type = BaseType[kind]]
      BY <1>1, <2>1 DEF Joined
    <3>2. ~IsDependent(old[i])
      BY <1>3, <2>1
    <3> HIDE DEF new, f, old
    <3> QED BY <1>2, <2>0, <3>1, <3>2, RetypeIs, NormIs
  <2>2. CASE i = id /\ i # base
    <3>1. new[i] = [old[i] EXCEPT !.base = base]
      BY <1>1, <2>2
    <3>2. f[i] = IF IsDependent(e[i]) THEN [e[i] EXCEPT !.base = base] ELSE e[i]
      BY <2>2 DEF Joined
    <3> HIDE DEF new, f, old
    <3> QED BY <2>0, <3>1, <3>2, RebaseIs, NormIs
  <2>3. CASE i # id /\ i # base
    <3>1. new[i] = old[i] /\ f[i] = e[i]
      BY <1>1, <2>3 DEF Joined
    <3> QED BY <2>0, <3>1
  <2> QED BY <2>1, <2>2, <2>3
<1>9. DOMAIN f = DOMAIN e /\ f = [i \in DOMAIN f |-> f[i]]
  BY DEF Joined
<1>10. KeysAre(d.keys, f) /\ Expiring(f) = Expiring(e)
  <2>1. \A i \in DOMAIN e : f[i].key = e[i].key /\ f[i].expires = e[i].expires
    BY <1>8
  <2> HIDE DEF f
  <2>2. KeysAre(d.keys, e) /\ DOMAIN f = DOMAIN e
    BY <1>1, <1>9
  <2> QED BY <2>1, <2>2, Restyled
<1>11. Holds(new, f)
  <2>1. new = [i \in DOMAIN f |-> new[i]]
    BY <1>1, <1>9
  <2> HIDE DEF new, f
  <2> QED BY <1>1, <1>8, <1>9, <2>1 DEF Holds
<1> HIDE DEF new, f, M, old, r
<1>12. r.entries = new /\ r.keys = d.keys
  BY <1>5 DEF Db
<1>13. Sto(r, f, M)
  BY <1>5, <1>7, <1>10, <1>11, <1>12 DEF Sto
<1> QED BY <1>13 DEF f, M, r, T, Tied
LEMMA StoFrom ==
  ASSUME NEW r, NEW new, NEW L, NEW keys, NEW f, Db(r, new, Bag(L), keys, SetToBag(Expiring(f))),
         Holds(new, f), IsLinks(L), KeysAre(keys, f)
  PROVE  Sto(r, f, L)
  BY DEF Sto, Db

(* A link goes. *)
LEMMA CutArrives ==
  ASSUME NEW d, NEW e, NEW L, Sto(d, e, L), NEW kind \in Kinds, NEW base, NEW id
  PROVE  Sto([d EXCEPT !.deps[kind] = @ (-) Link(base, id)], e, Cut(L, kind, base, id))
<1> DEFINE T == L[kind] \ {<<base, id>>}
           M == [L EXCEPT ![kind] = T]
           r == [d EXCEPT !.deps[kind] = @ (-) Link(base, id)]
<1>1. Db(d, d.entries, Bag(L), d.keys, SetToBag(Expiring(e))) /\ IsLinks(L)
  BY StoParts
<1>2. Bag(L)[kind] (-) Link(base, id) = SetToBag(T)
  <2>1. Bag(L)[kind] = SetToBag(L[kind])
    BY DEF Bag
  <2> QED BY <2>1, BagRemove DEF Link
<1>3. Db(r, d.entries, [Bag(L) EXCEPT ![kind] = SetToBag(T)], d.keys, SetToBag(Expiring(e)))
  BY <1>1, <1>2 DEF Db, Fields
<1>4. T \subseteq Ids \X Ids
  BY <1>1 DEF IsLinks
<1>5. IsLinks(M) /\ [Bag(L) EXCEPT ![kind] = SetToBag(T)] = Bag(M)
  <2> HIDE DEF T
  <2> QED BY <1>1, <1>4, BagLinks
<1> HIDE DEF r, M
<1>6. Sto(r, e, M)
  BY <1>3, <1>5, StoFrom DEF Sto
<1> QED BY <1>6 DEF r, M, Cut

(* The type of a base changes. *)
LEMMA RetypeArrives ==
  ASSUME NEW d, NEW e, NEW L, Sto(d, e, L), NEW base \in DOMAIN e, ~IsDependent(e[base]),
         NEW type \in Types \ Kinds
  PROVE  Sto([d EXCEPT !.entries[base].type = type], Retyped(e, base, type), L)
<1> DEFINE old == d.entries
           f == Retyped(e, base, type)
           new == [old EXCEPT ![base].type = type]
           r == [d EXCEPT !.entries[base].type = type]
<1>1. /\ Db(d, old, Bag(L), d.keys, SetToBag(Expiring(e)))
      /\ old = [i \in DOMAIN e |-> old[i]] /\ DOMAIN old = DOMAIN e
      /\ e = [i \in DOMAIN e |-> e[i]] /\ DOMAIN e \subseteq Ids
      /\ \A i \in DOMAIN e : IsEntry(old[i]) /\ e[i] = Norm(old[i])
      /\ KeysAre(d.keys, e) /\ IsLinks(L)
  BY StoParts
<1>2. Db(r, new, Bag(L), d.keys, SetToBag(Expiring(e)))
  BY <1>1 DEF Db, Fields
<1>3. ASSUME NEW i \in DOMAIN e
      PROVE  /\ IsEntry(new[i]) /\ f[i] = Norm(new[i])
             /\ f[i].key = e[i].key /\ f[i].expires = e[i].expires
  <2>0. IsEntry(old[i]) /\ e[i] = Norm(old[i])
    BY <1>1
  <2>1. CASE i = base
    <3>1. new[i] = [old[i] EXCEPT !.type = type] /\ f[i] = [e[i] EXCEPT !.type = type]
      BY <1>1, <2>1 DEF Retyped
    <3>2. ~IsDependent(old[i])
      BY <2>0, <2>1, NormIs
    <3> HIDE DEF new, f, old
    <3> QED BY <2>0, <3>1, <3>2, RetypeIs, NormIs
  <2>2. CASE i # base
    <3>1. new[i] = old[i] /\ f[i] = e[i]
      BY <1>1, <2>2 DEF Retyped
    <3> QED BY <2>0, <3>1
  <2> QED BY <2>1, <2>2
<1>4. DOMAIN f = DOMAIN e /\ f = [i \in DOMAIN f |-> f[i]]
  BY <1>1 DEF Retyped
<1>5. KeysAre(d.keys, f) /\ Expiring(f) = Expiring(e)
  <2>1. \A i \in DOMAIN e : f[i].key = e[i].key /\ f[i].expires = e[i].expires
    BY <1>3
  <2> HIDE DEF f
  <2>2. KeysAre(d.keys, e) /\ DOMAIN f = DOMAIN e
    BY <1>1, <1>4
  <2> QED BY <2>1, <2>2, Restyled
<1>6. Holds(new, f)
  <2>1. new = [i \in DOMAIN f |-> new[i]]
    BY <1>1, <1>4
  <2> HIDE DEF new, f
  <2> QED BY <1>1, <1>3, <1>4, <2>1 DEF Holds
<1> HIDE DEF new, f, old, r
<1>7. Sto(r, f, L)
  BY <1>1, <1>2, <1>5, <1>6, StoFrom
<1> QED BY <1>7 DEF f, r

(* A base without dependents is a normal entry again. *)
Released(e, L, base, id, kind) ==
    IF Targets(L, kind, base) \ {id} = {} THEN Retyped(e, base, "normal") ELSE e

LEMMA LeaveArrives ==
  ASSUME NEW d, NEW e, NEW L, Sto(d, e, L), NEW kind \in Kinds,
         NEW base \in DOMAIN e, ~IsDependent(e[base]), NEW id \in Ids, <<base, id>> \in L[kind]
  PROVE  Sto(RemoveDependent(d, base, id, kind), Released(e, L, base, id, kind),
             Cut(L, kind, base, id))
<1> DEFINE left == [d EXCEPT !.deps[kind] = @ (-) Link(base, id)]
           M == Cut(L, kind, base, id)
<1>1. LinkedTo(d, kind, base) # {}
  BY LinkedIs DEF Targets
<1>2. Sto(left, e, M)
  BY CutArrives
<1>3. LinkedTo(left, kind, base) = Targets(L, kind, base) \ {id}
  <2>1. LinkedTo(left, kind, base) = Targets(M, kind, base)
    <3> HIDE DEF left, M
    <3> QED BY <1>2, LinkedIs
  <2>2. M[kind] = L[kind] \ {<<base, id>>}
    <3>1. IsLinks(L)
      BY StoParts
    <3> QED BY <3>1 DEF IsLinks, Cut
  <2> QED BY <2>1, <2>2 DEF Targets
<1>4. base \in DOMAIN d.entries
  BY StoParts
<1>5. Sto([left EXCEPT !.entries[base].type = "normal"], Retyped(e, base, "normal"), M)
  <2> HIDE DEF left, M
  <2> QED BY <1>2, RetypeArrives DEF Types, Kinds
<1>6. RemoveDependent(d, base, id, kind) =
        IF Targets(L, kind, base) \ {id} = {}
        THEN [left EXCEPT !.entries[base].type = "normal"] ELSE left
  BY <1>1, <1>3, <1>4 DEF RemoveDependent
<1> HIDE DEF left, M
<1>7. Sto(RemoveDependent(d, base, id, kind), Released(e, L, base, id, kind), M)
  BY <1>2, <1>5, <1>6 DEF Released
<1> QED BY <1>7 DEF M

(* A link that is not there cannot go. *)
LEMMA LeaveKeeps ==
  ASSUME NEW d, NEW e, NEW L, Sto(d, e, L), NEW kind \in Kinds, NEW base, NEW id,
         <<base, id>> \notin L[kind]
  PROVE  Sto(RemoveDependent(d, base, id, kind), e, L)
<1> DEFINE left == [d EXCEPT !.deps[kind] = @ (-) Link(base, id)]
<1>1. IsLinks(L)
  BY StoParts
<1>2. Cut(L, kind, base, id) = L
  BY <1>1 DEF IsLinks, Cut
<1>3. Sto(left, e, L)
  <2>1. Sto(left, e, Cut(L, kind, base, id))
    BY CutArrives
  <2> QED BY <1>2, <2>1
<1>4. LinkedTo(left, kind, base) = LinkedTo(d, kind, base)
  <2> HIDE DEF left
  <2> QED BY <1>3, LinkedIs
<1>5. RemoveDependent(d, base, id, kind) \in {d, left}
  BY <1>4 DEF RemoveDependent
<1> QED BY <1>3, <1>5
(* The shortcut key of x is none that an entry of e has. *)
KeyFree(e, x) == x.key = NoKey \/ \A i \in DOMAIN e : e[i].key # x.key

LEMMA PutIs ==
  ASSUME NEW e, NEW id, NEW x
  PROVE  /\ DOMAIN Put(e, id, x) = DOMAIN e \cup {id}
         /\ Put(e, id, x) = [i \in DOMAIN e \cup {id} |-> Put(e, id, x)[i]]
         /\ Put(e, id, x)[id] = x
         /\ \A i \in DOMAIN e : i # id => Put(e, id, x)[i] = e[i]
  BY DEF Put

LEMMA DropIs ==
  ASSUME NEW e, NEW S
  PROVE  /\ DOMAIN Drop(e, S) = DOMAIN e \ S
         /\ Drop(e, S) = [i \in DOMAIN e \ S |-> Drop(e, S)[i]]
         /\ \A i \in DOMAIN e \ S : Drop(e, S)[i] = e[i]
  BY DEF Drop

LEMMA HoldsPut ==
  ASSUME NEW entries, NEW e, Holds(entries, e), NEW id \in Ids, NEW x, IsEntry(x)
  PROVE  Holds(Put(entries, id, x), Put(e, id, Norm(x)))
<1> DEFINE f == Put(e, id, Norm(x))
           new == Put(entries, id, x)
<1>1. DOMAIN entries = DOMAIN e /\ DOMAIN e \subseteq Ids
  BY DEF Holds
<1>2. DOMAIN f = DOMAIN e \cup {id} /\ f = [i \in DOMAIN e \cup {id} |-> f[i]]
  BY DEF Put
<1>3. DOMAIN new = DOMAIN e \cup {id} /\ new = [i \in DOMAIN e \cup {id} |-> new[i]]
  BY <1>1 DEF Put
<1>4. ASSUME NEW i \in DOMAIN e \cup {id}
      PROVE  IsEntry(new[i]) /\ f[i] = Norm(new[i])
  <2>1. CASE i = id
    BY <2>1 DEF Put
  <2>2. CASE i # id
    <3>1. new[i] = entries[i] /\ f[i] = e[i]
      BY <1>1, <2>2 DEF Put
    <3> HIDE DEF f, new
    <3> QED BY <2>2, <3>1 DEF Holds
  <2> QED BY <2>1, <2>2
<1> HIDE DEF f, new
<1>5. Holds(new, f)
  BY <1>1, <1>2, <1>3, <1>4 DEF Holds
<1> QED BY <1>5 DEF f, new

LEMMA HoldsDrop ==
  ASSUME NEW entries, NEW e, Holds(entries, e), NEW S
  PROVE  Holds(Drop(entries, S), Drop(e, S))
  BY DEF Holds, Drop

LEMMA KeysPut ==
  ASSUME NEW keys, NEW e, KeysAre(keys, e), NEW id \in Ids \ DOMAIN e, NEW x,
         x.key \in Keys \cup {NoKey}, KeyFree(e, x)
  PROVE  /\ x.key # NoKey => keys[x.key] = NoId
         /\ KeysAre(IF x.key # NoKey THEN [keys EXCEPT ![x.key] = id] ELSE keys, Put(e, id, x))
<1> DEFINE f == Put(e, id, x)
           new == IF x.key # NoKey THEN [keys EXCEPT ![x.key] = id] ELSE keys
<1>1. x.key # NoKey => keys[x.key] = NoId
  BY DEF KeysAre, KeyFree
<1>2. new \in [Keys -> Ids \cup {NoId}]
  BY DEF KeysAre
<1>3. ASSUME NEW key \in Keys, NEW i \in Ids
      PROVE  new[key] = i <=> i \in DOMAIN f /\ f[i].key = key
  <2>1. i \in DOMAIN f /\ f[i].key = key <=>
         ((i = id /\ x.key = key) \/ (i # id /\ i \in DOMAIN e /\ e[i].key = key))
    BY DEF Put
  <2>2. new[key] = IF x.key = key THEN id ELSE keys[key]
    BY StoreAssumption DEF KeysAre
  <2>3. keys[key] = i <=> i \in DOMAIN e /\ e[i].key = key
    BY DEF KeysAre
  <2>4. CASE x.key = key
    <3>1. keys[key] = NoId
      BY <1>1, <2>4, StoreAssumption
    <3>2. ~(i \in DOMAIN e /\ e[i].key = key)
      BY <2>3, <3>1, StoreAssumption
    <3> QED BY <2>1, <2>2, <2>4, <3>2
  <2>5. CASE x.key # key
    <3>1. keys[key] # id
      BY DEF KeysAre
    <3> QED BY <2>1, <2>2, <2>3, <2>5, <3>1
  <2> QED BY <2>4, <2>5
<1> QED BY <1>1, <1>2, <1>3 DEF KeysAre

LEMMA KeysDrop ==
  ASSUME NEW keys, NEW e, KeysAre(keys, e), NEW id \in DOMAIN e, id \in Ids, NEW key, key = e[id].key,
         key \in Keys \cup {NoKey}
  PROVE  /\ key # NoKey => keys[key] = id
         /\ KeysAre(IF key # NoKey THEN [keys EXCEPT ![key] = NoId] ELSE keys, Drop(e, {id}))
<1> DEFINE f == Drop(e, {id})
           new == IF key # NoKey THEN [keys EXCEPT ![key] = NoId] ELSE keys
<1>1. key # NoKey => keys[key] = id
  BY DEF KeysAre
<1>2. new \in [Keys -> Ids \cup {NoId}]
  BY DEF KeysAre
<1>3. ASSUME NEW k \in Keys, NEW i \in Ids
      PROVE  new[k] = i <=> i \in DOMAIN f /\ f[i].key = k
  <2>1. i \in DOMAIN f /\ f[i].key = k <=> i # id /\ i \in DOMAIN e /\ e[i].key = k
    BY DEF Drop
  <2>2. new[k] = IF k = key THEN NoId ELSE keys[k]
    BY StoreAssumption DEF KeysAre
  <2>3. keys[k] = i <=> i \in DOMAIN e /\ e[i].key = k
    BY DEF KeysAre
  <2>4. CASE k = key
    BY <1>1, <2>1, <2>2, <2>3, <2>4, StoreAssumption
  <2>5. CASE k # key
    BY <2>1, <2>2, <2>3, <2>5
  <2> QED BY <2>4, <2>5
<1> QED BY <1>1, <1>2, <1>3 DEF KeysAre
LEMMA KeysAddedIs ==
  ASSUME NEW d, NEW es, NEW ds, NEW ks, NEW xs, Db(d, es, ds, ks, xs), NEW key, NEW id,
         key # NoKey => ks[key] = NoId
  PROVE  Db(AddKey(d, key, id), es, ds, IF key # NoKey THEN [ks EXCEPT ![key] = id] ELSE ks, xs)
  BY DEF Db, Fields, AddKey

LEMMA KeyDeletedIs ==
  ASSUME NEW d, NEW es, NEW ds, NEW ks, NEW xs, Db(d, es, ds, ks, xs), NEW key, NEW id,
         key # NoKey => ks[key] = id
  PROVE  Db(DelKey(d, key, id), es, ds, IF key # NoKey THEN [ks EXCEPT ![key] = NoId] ELSE ks, xs)
  BY DEF Db, Fields, DelKey

LEMMA EntriesSetIs ==
  ASSUME NEW d, NEW es, NEW ds, NEW ks, NEW xs, Db(d, es, ds, ks, xs), NEW id, NEW x
  PROVE  Db([d EXCEPT !.entries = Put(@, id, x)], Put(es, id, x), ds, ks, xs)
  BY DEF Db, Fields

(* A new entry. *)
LEMMA InsertArrives ==
  ASSUME NEW d, NEW e, NEW L, Sto(d, e, L), NEW id \in Ids \ DOMAIN e, NEW x, IsEntry(x),
         KeyFree(e, x)
  PROVE  Sto(AddExpiry(DoAddEntry(d, id, x), id, x), Put(e, id, Norm(x)), L)
<1> DEFINE old == d.entries
           f == Put(e, id, Norm(x))
           new == Put(old, id, x)
           keys == IF x.key # NoKey THEN [d.keys EXCEPT ![x.key] = id] ELSE d.keys
           mid == [d EXCEPT !.entries = Put(@, id, x)]
           r == DoAddEntry(d, id, x)
           s == AddExpiry(r, id, x)
<1>1. /\ Db(d, old, Bag(L), d.keys, SetToBag(Expiring(e)))
      /\ KeysAre(d.keys, e) /\ IsLinks(L)
  BY StoParts
<1>2. x.key \in Keys \cup {NoKey} /\ Norm(x).key = x.key /\ Norm(x).expires = x.expires
      /\ (IsDependent(x) => ~x.expires) /\ x.expires \in BOOLEAN
  <2>1. Norm(x).key = x.key /\ Norm(x).expires = x.expires
    BY NormIs
  <2> QED BY <2>1 DEF IsEntry
<1>3. (x.key # NoKey => d.keys[x.key] = NoId) /\ KeysAre(keys, f)
  <2>1. KeyFree(e, Norm(x))
    BY <1>2 DEF KeyFree
  <2>2. /\ Norm(x).key # NoKey => d.keys[Norm(x).key] = NoId
        /\ KeysAre(IF Norm(x).key # NoKey THEN [d.keys EXCEPT ![Norm(x).key] = id] ELSE d.keys, f)
    BY <1>1, <1>2, <2>1, KeysPut
  <2> QED BY <1>2, <2>2
<1>4. Db(r, new, Bag(L), keys, SetToBag(Expiring(e)))
  <2>1. Db(mid, new, Bag(L), d.keys, SetToBag(Expiring(e)))
    BY <1>1, EntriesSetIs
  <2>2. r = AddKey(mid, x.key, id)
    BY DEF DoAddEntry
  <2> HIDE DEF new, mid
  <2> QED BY <1>3, <2>1, <2>2, KeysAddedIs
<1>5. Db(s, new, Bag(L), keys, SetToBag(Expiring(f)))
  <2>1. id \notin Expiring(e)
    BY DEF Expiring
  <2>2. CASE x.expires
    <3>1. Expiring(f) = Expiring(e) \cup {id}
      BY <1>2, <2>2 DEF Expiring, Put
    <3>2. SetToBag(Expiring(e)) (+) SetToBag({id}) = SetToBag(Expiring(f))
      BY <2>1, <3>1, BagAdd
    <3>3. s = [r EXCEPT !.expired = @ (+) SetToBag({id})]
      BY <1>2, <2>2 DEF AddExpiry
    <3> HIDE DEF s, r, f, new, keys
    <3> QED BY <1>4, <3>2, <3>3 DEF Db, Fields
  <2>3. CASE ~x.expires
    <3>1. Expiring(f) = Expiring(e)
      BY <1>2, <2>3 DEF Expiring, Put
    <3>2. s = r
      BY <2>3 DEF AddExpiry
    <3> HIDE DEF s, r, f, new, keys
    <3> QED BY <1>4, <3>1, <3>2
  <2> QED BY <1>2, <2>2, <2>3
<1>6. Holds(new, f)
  BY HoldsPut DEF Sto
<1> HIDE DEF new, f, keys, r, s
<1>7. Sto(s, f, L)
  BY <1>1, <1>3, <1>5, <1>6, StoFrom
<1> QED BY <1>7 DEF s, r, f

(* An entry goes, and with it its key. *)
LEMMA ErasedIs ==
  ASSUME NEW d, NEW e, NEW L, Sto(d, e, L), NEW id \in DOMAIN e, NEW x, x.key = e[id].key
  PROVE  \E keys : /\ KeysAre(keys, Drop(e, {id}))
                   /\ Db(Erase(d, id, x), Drop(d.entries, {id}), Bag(L), keys, SetToBag(Expiring(e)))
<1> DEFINE old == d.entries
           keys == IF x.key # NoKey THEN [d.keys EXCEPT ![x.key] = NoId] ELSE d.keys
           mid == DelKey(d, x.key, id)
           r == Erase(d, id, x)
<1>1. /\ Db(d, old, Bag(L), d.keys, SetToBag(Expiring(e)))
      /\ KeysAre(d.keys, e) /\ DOMAIN e \subseteq Ids /\ IsEntry(e[id])
  BY StoParts
<1>2. x.key \in Keys \cup {NoKey} /\ id \in Ids
  BY <1>1 DEF IsEntry
<1>3. (x.key # NoKey => d.keys[x.key] = id) /\ KeysAre(keys, Drop(e, {id}))
  BY <1>1, <1>2, KeysDrop
<1>4. Db(mid, old, Bag(L), keys, SetToBag(Expiring(e)))
  BY <1>1, <1>3, KeyDeletedIs
<1>5. r = [mid EXCEPT !.entries = Drop(mid.entries, {id})]
  BY DEF Erase, Drop, Restrict
<1>6. Db(r, Drop(old, {id}), Bag(L), keys, SetToBag(Expiring(e)))
  <2> HIDE DEF r, mid, keys
  <2> QED BY <1>4, <1>5 DEF Db, Fields
<1> QED BY <1>3, <1>6

LEMMA EraseArrives ==
  ASSUME NEW d, NEW e, NEW L, Sto(d, e, L), NEW id \in DOMAIN e, NEW x, x.key = e[id].key
  PROVE  /\ Sto(RemoveExpiry(Erase(d, id, x), id), Drop(e, {id}), L)
         /\ ~e[id].expires => Sto(Erase(d, id, x), Drop(e, {id}), L)
<1> DEFINE f == Drop(e, {id})
           new == Drop(d.entries, {id})
           r == Erase(d, id, x)
           s == RemoveExpiry(r, id)
<1>1. PICK keys : KeysAre(keys, f) /\ Db(r, new, Bag(L), keys, SetToBag(Expiring(e)))
  BY ErasedIs
<1>2. Holds(new, f) /\ IsLinks(L)
  BY HoldsDrop DEF Sto
<1>3. Expiring(f) = Expiring(e) \ {id}
  BY DEF Expiring, Drop
<1>4. Db(s, new, Bag(L), keys, SetToBag(Expiring(f)))
  <2>1. SetToBag(Expiring(e)) (-) SetToBag({id}) = SetToBag(Expiring(f))
    BY <1>3, BagRemove
  <2>2. s = [r EXCEPT !.expired = @ (-) SetToBag({id})]
    BY DEF RemoveExpiry
  <2> HIDE DEF s, r, f, new
  <2> QED BY <1>1, <2>1, <2>2 DEF Db, Fields
<1>5. ~e[id].expires => Expiring(f) = Expiring(e)
  BY <1>3 DEF Expiring
<1> HIDE DEF s, r, f, new
<1>6. Sto(s, f, L)
  BY <1>1, <1>2, <1>4, StoFrom
<1>7. ~e[id].expires => Sto(r, f, L)
  BY <1>1, <1>2, <1>5, StoFrom
<1> QED BY <1>6, <1>7 DEF s, r, f

(* An entry is replaced. *)
LEMMA PutKeepsKeys ==
  ASSUME NEW keys, NEW e, KeysAre(keys, e), NEW id \in DOMAIN e, NEW x, x.key = e[id].key
  PROVE  KeysAre(keys, Put(e, id, x))
<1>1. DOMAIN Put(e, id, x) = DOMAIN e /\ \A i \in DOMAIN e : Put(e, id, x)[i].key = e[i].key
  BY DEF Put
<1> QED BY <1>1 DEF KeysAre

LEMMA PutAfterDrop ==
  ASSUME NEW e, NEW id \in DOMAIN e, NEW x
  PROVE  Put(Drop(e, {id}), id, x) = Put(e, id, x)
<1>1. DOMAIN Put(Drop(e, {id}), id, x) = DOMAIN e /\ DOMAIN Put(e, id, x) = DOMAIN e
  BY DEF Put, Drop
<1>2. \A i \in DOMAIN e : Put(Drop(e, {id}), id, x)[i] = Put(e, id, x)[i]
  BY DEF Put, Drop
<1> QED BY <1>1, <1>2 DEF Put

LEMMA ReplaceArrives ==
  ASSUME NEW d, NEW e, NEW L, Sto(d, e, L), NEW id \in DOMAIN e, NEW old, NEW x, IsEntry(x),
         old.key = e[id].key, old.expires = e[id].expires,
         old.key # x.key => KeyFree(Drop(e, {id}), x)
  PROVE  Sto(DoReplaceEntry(d, id, old, x), Put(e, id, Norm(x)), L)
<1> DEFINE es == d.entries
           f == Put(e, id, Norm(x))
           new == Put(es, id, x)
           replaced == [d EXCEPT !.entries = Put(@, id, x)]
           expiring == IF old.expires = x.expires THEN replaced
                       ELSE IF old.expires THEN RemoveExpiry(replaced, id)
                       ELSE AddExpiry(replaced, id, x)
           r == DoReplaceEntry(d, id, old, x)
<1>1. /\ Db(d, es, Bag(L), d.keys, SetToBag(Expiring(e)))
      /\ KeysAre(d.keys, e) /\ IsLinks(L) /\ DOMAIN e \subseteq Ids
      /\ IsEntry(e[id])
  BY StoParts
<1>2. /\ x.key \in Keys \cup {NoKey} /\ Norm(x).key = x.key /\ Norm(x).expires = x.expires
      /\ (IsDependent(x) => ~x.expires) /\ x.expires \in BOOLEAN
      /\ e[id].key \in Keys \cup {NoKey} /\ e[id].expires \in BOOLEAN
  <2>1. Norm(x).key = x.key /\ Norm(x).expires = x.expires
    BY NormIs
  <2> QED BY <1>1, <2>1 DEF IsEntry
<1>3. Db(replaced, new, Bag(L), d.keys, SetToBag(Expiring(e)))
  BY <1>1, EntriesSetIs
<1>4. Expiring(f) = IF x.expires THEN Expiring(e) \cup {id} ELSE Expiring(e) \ {id}
  BY <1>2 DEF Expiring, Put
<1>5. id \in Expiring(e) <=> old.expires
  BY DEF Expiring
<1>6. Db(expiring, new, Bag(L), d.keys, SetToBag(Expiring(f)))
  <2>1. CASE old.expires = x.expires
    <3>1. Expiring(f) = Expiring(e)
      BY <1>4, <1>5, <2>1
    <3> HIDE DEF f, new, replaced
    <3> QED BY <1>3, <2>1, <3>1
  <2>2. CASE old.expires # x.expires /\ old.expires
    <3>1. SetToBag(Expiring(e)) (-) SetToBag({id}) = SetToBag(Expiring(f))
      BY <1>2, <1>4, <2>2, BagRemove
    <3>2. expiring = [replaced EXCEPT !.expired = @ (-) SetToBag({id})]
      BY <2>2 DEF RemoveExpiry
    <3> HIDE DEF f, new, replaced, expiring
    <3> QED BY <1>3, <3>1, <3>2 DEF Db, Fields
  <2>3. CASE old.expires # x.expires /\ ~old.expires
    <3>1. id \notin Expiring(e) /\ x.expires /\ ~IsDependent(x)
      BY <1>2, <1>5, <2>3
    <3>2. SetToBag(Expiring(e)) (+) SetToBag({id}) = SetToBag(Expiring(f))
      BY <1>4, <3>1, BagAdd
    <3>3. expiring = [replaced EXCEPT !.expired = @ (+) SetToBag({id})]
      BY <2>3, <3>1 DEF AddExpiry
    <3> HIDE DEF f, new, replaced, expiring
    <3> QED BY <1>3, <3>2, <3>3 DEF Db, Fields
  <2> QED BY <2>1, <2>2, <2>3
<1>7. Holds(new, f)
  <2>1. id \in Ids
    BY <1>1
  <2> QED BY <2>1, HoldsPut DEF Sto
<1>8. CASE old.key = x.key
  <2>1. r = expiring
    BY <1>8 DEF DoReplaceEntry
  <2>2. KeysAre(d.keys, f)
    BY <1>1, <1>2, <1>8, PutKeepsKeys
  <2> HIDE DEF f, new, expiring, r
  <2>3. Sto(r, f, L)
    BY <1>1, <1>6, <1>7, <2>1, <2>2, StoFrom
  <2> QED BY <2>3 DEF r, f
<1>9. CASE old.key # x.key
  <2> DEFINE cut == IF old.key # NoKey THEN [d.keys EXCEPT ![old.key] = NoId] ELSE d.keys
             keys == IF x.key # NoKey THEN [cut EXCEPT ![x.key] = id] ELSE cut
             unkeyed == DelKey(expiring, old.key, id)
             left == Drop(e, {id})
  <2>1. (old.key # NoKey => d.keys[old.key] = id) /\ KeysAre(cut, left)
    BY <1>1, <1>2, KeysDrop
  <2>2. (x.key # NoKey => cut[x.key] = NoId) /\ KeysAre(keys, f)
    <3>1. KeyFree(left, Norm(x))
      BY <1>2, <1>9 DEF KeyFree
    <3>2. id \in Ids \ DOMAIN left
      BY <1>1 DEF Drop
    <3>3. f = Put(left, id, Norm(x))
      BY PutAfterDrop
    <3> HIDE DEF cut, left, f
    <3>4. Norm(x).key \in Keys \cup {NoKey}
      BY <1>2
    <3>5. /\ Norm(x).key # NoKey => cut[Norm(x).key] = NoId
          /\ KeysAre(IF Norm(x).key # NoKey THEN [cut EXCEPT ![Norm(x).key] = id] ELSE cut, Put(left, id, Norm(x)))
      BY <2>1, <3>1, <3>2, <3>4, KeysPut
    <3> QED BY <1>2, <3>3, <3>5
  <2>3. Db(unkeyed, new, Bag(L), cut, SetToBag(Expiring(f)))
    <3> HIDE DEF new, f, expiring
    <3> QED BY <1>6, <2>1, KeyDeletedIs
  <2>4. r = AddKey(unkeyed, x.key, id)
    BY <1>9 DEF DoReplaceEntry
  <2> HIDE DEF f, new, expiring, unkeyed, cut, r
  <2>5. Db(r, new, Bag(L), keys, SetToBag(Expiring(f)))
    BY <2>2, <2>3, <2>4, KeysAddedIs
  <2> HIDE DEF keys
  <2>6. Sto(r, f, L)
    BY <1>1, <1>7, <2>2, <2>5, StoFrom
  <2> QED BY <2>6 DEF r, f
<1> QED BY <1>8, <1>9

-----------------------------------------------------------------------------
(* AddEntry and DeleteEntry. *)

LEMMA AddNormalArrives ==
  ASSUME NEW d, NEW e, NEW L, Sto(d, e, L), NEW id \in Ids \ DOMAIN e, NEW x, IsEntry(x),
         KeyFree(e, x), ~IsDependent(x)
  PROVE  Sto(AddEntry(d, id, x), Put(e, id, Norm(x)), L)
<1>1. AddEntry(d, id, x) = AddExpiry(DoAddEntry(d, id, x), id, x)
  BY DEF AddEntry
<1> QED BY <1>1, InsertArrives

(* The entries with a new dependent x in place. *)
Entered(e, id, x) == Put(Retyped(e, x.base, BaseType[x.type]), id, x)

LEMMA AddDependentArrives ==
  ASSUME NEW d, NEW e, NEW L, Sto(d, e, L), NEW id \in Ids \ DOMAIN e, NEW x, IsEntry(x),
         KeyFree(e, x), IsDependent(x), x.base \in DOMAIN e,
         e[x.base].type \in {"normal", BaseType[x.type]}, <<x.base, id>> \notin L[x.type]
  PROVE  Sto(AddEntry(d, id, x), Entered(e, id, x), Tied(L, x.type, x.base, id))
<1> DEFINE r == DoAddEntry(d, id, x)
           f == Put(e, id, Norm(x))
<1>1. ~x.expires /\ Norm(x) = x /\ x.type \in Kinds /\ x.base # id
  BY DEF IsEntry, Norm, IsDependent
<1>2. Sto(r, f, L)
  <2>1. AddExpiry(r, id, x) = r
    BY <1>1 DEF AddExpiry
  <2>2. Sto(AddExpiry(DoAddEntry(d, id, x), id, x), Put(e, id, Norm(x)), L)
    BY InsertArrives
  <2> QED BY <2>1, <2>2
<1>3. AddEntry(d, id, x) = AddDependent(r, x.base, id, x.type)
  BY <1>1 DEF AddEntry, AddExpiry
<1>4. f[x.base] = e[x.base] /\ x.base \in DOMAIN f /\ id \in DOMAIN f
  BY <1>1 DEF Put
<1>5. Sto(AddDependent(r, x.base, id, x.type), Joined(f, x.base, id, x.type),
          Tied(L, x.type, x.base, id))
  <2> HIDE DEF f, r
  <2> QED BY <1>1, <1>2, <1>4, JoinArrives
<1>6. Joined(f, x.base, id, x.type) = Entered(e, id, x)
  <2>1. [x EXCEPT !.base = x.base] = x
    BY DEF IsEntry
  <2>2. \A i \in DOMAIN e \cup {id} : Joined(f, x.base, id, x.type)[i] = Entered(e, id, x)[i]
    BY <1>1, <2>1 DEF Joined, Entered, Put, Retyped
  <2>3. DOMAIN e = DOMAIN Retyped(e, x.base, BaseType[x.type])
    BY DEF Retyped
  <2> QED BY <2>2, <2>3 DEF Joined, Entered, Put
<1> QED BY <1>3, <1>5, <1>6

(* An entry that has no links goes. *)
LEMMA DeleteArrives ==
  ASSUME NEW d, NEW e, NEW L, Sto(d, e, L), NEW id \in DOMAIN e, NEW x, x.key = e[id].key,
         \/ x.type = "normal"
         \/ x.type \in Kinds /\ <<x.base, id>> \notin L[x.type]
  PROVE  Sto(DeleteEntry(d, id, x), Drop(e, {id}), L)
<1>1. id \in DOMAIN d.entries
  BY StoParts
<1>2. CASE x.type = "normal"
  <2>1. DeleteEntry(d, id, x) = RemoveExpiry(Erase(d, id, x), id)
    BY <1>1, <1>2 DEF DeleteEntry, DoDeleteEntry, IsDependent, Kinds
  <2> QED BY <2>1, EraseArrives
<1>3. CASE x.type \in Kinds /\ <<x.base, id>> \notin L[x.type]
  <2> DEFINE mid == RemoveDependent(d, x.base, id, x.type)
  <2>1. DeleteEntry(d, id, x) = RemoveExpiry(Erase(mid, id, x), id)
    BY <1>1, <1>3 DEF DeleteEntry, DoDeleteEntry, IsDependent, Kinds
  <2>2. Sto(mid, e, L)
    BY <1>3, LeaveKeeps
  <2> HIDE DEF mid
  <2> QED BY <2>1, <2>2, EraseArrives
<1> QED BY <1>2, <1>3

(* A dependent goes, and with it its link. *)
LEMMA DeleteDependentArrives ==
  ASSUME NEW d, NEW e, NEW L, Sto(d, e, L), NEW id \in DOMAIN e, NEW x, x.key = e[id].key,
         x.type \in Kinds, x.base \in DOMAIN e, ~IsDependent(e[x.base]), x.base # id,
         <<x.base, id>> \in L[x.type]
  PROVE  LET f == Drop(Released(e, L, x.base, id, x.type), {id})
             M == Cut(L, x.type, x.base, id)
         IN  /\ Sto(DeleteEntry(d, id, x), f, M)
             /\ ~e[id].expires => Sto(Erase(RemoveDependent(d, x.base, id, x.type), id, x), f, M)
<1> DEFINE mid == RemoveDependent(d, x.base, id, x.type)
           g == Released(e, L, x.base, id, x.type)
           M == Cut(L, x.type, x.base, id)
<1>1. id \in DOMAIN d.entries /\ id \in Ids
  BY StoParts
<1>2. DeleteEntry(d, id, x) = RemoveExpiry(Erase(mid, id, x), id)
  BY <1>1 DEF DeleteEntry, DoDeleteEntry, IsDependent, Kinds
<1>3. Sto(mid, g, M)
  BY <1>1, LeaveArrives
<1>4. id \in DOMAIN g /\ g[id] = e[id]
  BY DEF Released, Retyped
<1> HIDE DEF mid, g, M
<1>5. Sto(RemoveExpiry(Erase(mid, id, x), id), Drop(g, {id}), M)
      /\ (~e[id].expires => Sto(Erase(mid, id, x), Drop(g, {id}), M))
  BY <1>3, <1>4, EraseArrives
<1> QED BY <1>2, <1>5 DEF mid, g, M

LEMMA UndoAddDependentArrives ==
  ASSUME NEW d, NEW e, NEW L, Sto(d, e, L), NEW id \in DOMAIN e, NEW x, x.key = e[id].key,
         x.type \in Kinds, x.base \in DOMAIN e, ~IsDependent(e[x.base]), x.base # id,
         <<x.base, id>> \in L[x.type]
  PROVE  Sto(UndoAdd(d, id, x), Drop(Released(e, L, x.base, id, x.type), {id}),
             Cut(L, x.type, x.base, id))
<1> DEFINE mid == RemoveDependent(d, x.base, id, x.type)
           g == Released(e, L, x.base, id, x.type)
           M == Cut(L, x.type, x.base, id)
<1>1. id \in Ids /\ IsLinks(L)
  BY StoParts
<1>2. UndoAdd(d, id, x) = DeleteEntry(mid, id, x)
  BY DEF UndoAdd, IsDependent
<1>3. Sto(mid, g, M)
  BY <1>1, LeaveArrives
<1>4. id \in DOMAIN g /\ g[id] = e[id]
  BY DEF Released, Retyped
<1>5. <<x.base, id>> \notin M[x.type]
  <2>1. x.base \in Ids
    BY StoParts
  <2> QED BY <1>1, <2>1, CutIs
<1> HIDE DEF mid, g, M
<1>6. Sto(DeleteEntry(mid, id, x), Drop(g, {id}), M)
  BY <1>3, <1>4, <1>5, DeleteArrives
<1> QED BY <1>2, <1>6 DEF g, M

-----------------------------------------------------------------------------
(* The aliases of a base are reset or moved. *)

LEMMA UnlinkedIs ==
  ASSUME NEW T, NEW base
  PROVE  Unlinked(SetToBag(T), base) = SetToBag({p \in T : p[1] # base})
<1>1. \A p \in T : SetToBag(T)[p] = 1
  BY DEF SetToBag
<1> QED BY <1>1, BagSet DEF Unlinked, Restrict, SetToBag

LEMMA ResetIs ==
  ASSUME NEW x, IsEntry(x), NEW password \in Passwords
  PROVE  LET y == [x EXCEPT !.type = "normal", !.password = password]
         IN  /\ IsEntry(y) /\ y.key = x.key /\ y.expires = x.expires
             /\ Norm(y) = [Norm(x) EXCEPT !.type = "normal", !.password = password, !.base = NoId]
  BY DEF IsEntry, Norm, IsDependent, Kinds, Types

(* The entries once the dependents S are normal, with the password of base. *)
AllReset(e, S, base) ==
    [i \in DOMAIN e |->
        IF i \in S THEN [e[i] EXCEPT !.type = "normal", !.password = e[base].password, !.base = NoId]
        ELSE e[i]]

LEMMA ResetArrives ==
  ASSUME NEW d, NEW e, NEW L, Sto(d, e, L), NEW base \in DOMAIN e, ~IsDependent(e[base])
  PROVE  Sto(ResetAllAliasPasswords(d, base), AllReset(e, Targets(L, "alias", base), base),
             [L EXCEPT !["alias"] = {p \in @ : p[1] # base}])
<1> DEFINE old == d.entries
           S == Targets(L, "alias", base)
           f == AllReset(e, S, base)
           T == {p \in L["alias"] : p[1] # base}
           M == [L EXCEPT !["alias"] = T]
           new == [i \in DOMAIN old |->
                     IF i \in S \cap DOMAIN old
                     THEN [old[i] EXCEPT !.type = "normal", !.password = old[base].password]
                     ELSE old[i]]
           r == ResetAllAliasPasswords(d, base)
<1>1. /\ Db(d, old, Bag(L), d.keys, SetToBag(Expiring(e)))
      /\ old = [i \in DOMAIN e |-> old[i]] /\ DOMAIN old = DOMAIN e
      /\ e = [i \in DOMAIN e |-> e[i]] /\ DOMAIN e \subseteq Ids
      /\ \A i \in DOMAIN e : IsEntry(old[i]) /\ e[i] = Norm(old[i])
      /\ KeysAre(d.keys, e) /\ IsLinks(L)
  BY StoParts
<1>2. LinkedTo(d, "alias", base) = S
  BY LinkedIs DEF Kinds
<1>3. Unlinked(Bag(L)["alias"], base) = SetToBag(T)
  BY UnlinkedIs DEF Bag, Kinds
<1>4. Db(r, new, [Bag(L) EXCEPT !["alias"] = SetToBag(T)], d.keys, SetToBag(Expiring(e)))
  <2>1. r = [d EXCEPT !.deps["alias"] = Unlinked(d.deps["alias"], base), !.entries = new]
    BY <1>2 DEF ResetAllAliasPasswords
  <2> HIDE DEF r, new, T
  <2> QED BY <1>1, <1>3, <2>1 DEF Db, Fields, Bag, Kinds
<1>5. T \subseteq Ids \X Ids /\ "alias" \in Kinds
  BY <1>1 DEF IsLinks, Kinds
<1>6. IsLinks(M) /\ [Bag(L) EXCEPT !["alias"] = SetToBag(T)] = Bag(M)
  <2> HIDE DEF T
  <2> QED BY <1>1, <1>5, BagLinks
<1>7. old[base].password \in Passwords /\ old[base].password = e[base].password
  <2>1. IsEntry(old[base]) /\ e[base] = Norm(old[base])
    BY <1>1
  <2>2. ~IsDependent(old[base]) /\ e[base].password = old[base].password
    BY <2>1, NormIs
  <2> QED BY <2>1, <2>2 DEF IsEntry
<1>8. ASSUME NEW i \in DOMAIN e
      PROVE  /\ IsEntry(new[i]) /\ f[i] = Norm(new[i])
             /\ f[i].key = e[i].key /\ f[i].expires = e[i].expires
  <2>0. IsEntry(old[i]) /\ e[i] = Norm(old[i])
    BY <1>1
  <2>1. CASE i \in S
    <3>1. /\ new[i] = [old[i] EXCEPT !.type = "normal", !.password = old[base].password]
          /\ f[i] = [e[i] EXCEPT !.type = "normal", !.password = old[base].password, !.base = NoId]
      BY <1>1, <1>7, <2>1 DEF AllReset
    <3> HIDE DEF new, f, old
    <3>2. /\ IsEntry(new[i]) /\ f[i] = Norm(new[i])
          /\ new[i].key = old[i].key /\ new[i].expires = old[i].expires
      <4>1. PICK password \in Passwords : password = old[base].password
        BY <1>7
      <4>2. /\ IsEntry([old[i] EXCEPT !.type = "normal", !.password = password])
            /\ [old[i] EXCEPT !.type = "normal", !.password = password].key = old[i].key
            /\ [old[i] EXCEPT !.type = "normal", !.password = password].expires = old[i].expires
            /\ Norm([old[i] EXCEPT !.type = "normal", !.password = password]) =
                  [Norm(old[i]) EXCEPT !.type = "normal", !.password = password, !.base = NoId]
        BY <2>0, ResetIs
      <4> QED BY <2>0, <3>1, <4>1, <4>2
    <3> QED BY <2>0, <3>2, NormIs
  <2>2. CASE i \notin S
    <3>1. new[i] = old[i] /\ f[i] = e[i]
      BY <1>1, <2>2 DEF AllReset
    <3> QED BY <2>0, <3>1
  <2> QED BY <2>1, <2>2
<1>9. DOMAIN f = DOMAIN e /\ f = [i \in DOMAIN f |-> f[i]]
  BY DEF AllReset
<1>10. KeysAre(d.keys, f) /\ Expiring(f) = Expiring(e)
  <2>1. \A i \in DOMAIN e : f[i].key = e[i].key /\ f[i].expires = e[i].expires
    BY <1>8
  <2> HIDE DEF f
  <2>2. KeysAre(d.keys, e) /\ DOMAIN f = DOMAIN e
    BY <1>1, <1>9
  <2> QED BY <2>1, <2>2, Restyled
<1>11. Holds(new, f)
  <2>1. new = [i \in DOMAIN f |-> new[i]]
    BY <1>1, <1>9
  <2> HIDE DEF new, f
  <2> QED BY <1>1, <1>8, <1>9, <2>1 DEF Holds
<1> HIDE DEF new, f, M, old, r
<1>12. Sto(r, f, M)
  BY <1>4, <1>6, <1>10, <1>11, StoFrom
<1> QED BY <1>12 DEF f, M, r

(* The links of the aliases of "from", with "to" in its place. *)
Moved(T, from, to) == {p \in T : p[1] # from} \cup {p \in Ids \X Ids : p[1] = to /\ <<from, p[2]>> \in T}

LEMMA MoveArrives ==
  ASSUME NEW d, NEW e, NEW L, Sto(d, e, L), NEW from \in Ids, NEW to \in Ids, from # to,
         \A i \in Targets(L, "alias", from) : <<to, i>> \notin L["alias"]
  PROVE  Sto(MoveDependents(d, from, to), e, [L EXCEPT !["alias"] = Moved(@, from, to)])
<1> DEFINE T == Moved(L["alias"], from, to)
           M == [L EXCEPT !["alias"] = T]
           links == d.deps["alias"]
           new == {<<to, id>> : id \in Targets(L, "alias", from)}
           copies == [p \in {<<to, id>> : id \in LinkedTo(d, "alias", from)} |-> links[<<from, p[2]>>]]
           r == MoveDependents(d, from, to)
<1>1. Db(d, d.entries, Bag(L), d.keys, SetToBag(Expiring(e))) /\ IsLinks(L)
  BY StoParts
<1>2. links = SetToBag(L["alias"]) /\ LinkedTo(d, "alias", from) = Targets(L, "alias", from)
  BY <1>1, LinkedIs DEF Db, Bag, Kinds
<1>3. copies = SetToBag(new)
  <2>1. ASSUME NEW p \in new PROVE links[<<from, p[2]>>] = 1
    <3>1. PICK id \in Targets(L, "alias", from) : p = <<to, id>>
      OBVIOUS
    <3>2. p[2] = id /\ <<from, id>> \in L["alias"]
      BY <3>1 DEF Targets
    <3> QED BY <1>2, <3>2 DEF SetToBag
  <2> QED BY <1>2, <2>1 DEF SetToBag
<1>4. links (+) copies = SetToBag(L["alias"] \cup new)
  <2>1. L["alias"] \cap new = {}
    OBVIOUS
  <2> HIDE DEF new, copies, links
  <2> QED BY <1>2, <1>3, <2>1, BagAdd
<1>5. {p \in L["alias"] \cup new : p[1] # from} = T
  <2>1. L["alias"] \subseteq Ids \X Ids
    BY <1>1 DEF IsLinks, Kinds
  <2>2. ASSUME NEW a, NEW b
        PROVE  <<a, b>> \in L["alias"] \cup new /\ a # from <=> <<a, b>> \in T
    <3>1. <<a, b>> \in T <=> (<<a, b>> \in L["alias"] /\ a # from)
                            \/ (<<a, b>> \in Ids \X Ids /\ a = to /\ <<from, b>> \in L["alias"])
      BY DEF Moved
    <3>2. <<a, b>> \in new <=> a = to /\ b \in Targets(L, "alias", from)
      OBVIOUS
    <3>3. b \in Targets(L, "alias", from) <=> b \in Ids /\ <<from, b>> \in L["alias"]
      BY DEF Targets
    <3> HIDE DEF new, T
    <3> QED BY <2>1, <3>1, <3>2, <3>3
  <2>3. new \subseteq Ids \X Ids /\ T \subseteq Ids \X Ids
    <3>1. Targets(L, "alias", from) \subseteq Ids
      BY DEF Targets
    <3>2. new \subseteq Ids \X Ids
      BY <3>1
    <3>3. T \subseteq Ids \X Ids
      BY <2>1 DEF Moved
    <3> QED BY <3>2, <3>3
  <2> HIDE DEF new, T
  <2>4. \A p \in Ids \X Ids : p = <<p[1], p[2]>>
    OBVIOUS
  <2> QED BY <2>1, <2>2, <2>3, <2>4
<1>6. Unlinked(links (+) copies, from) = SetToBag(T)
  <2> HIDE DEF new, copies, links, T
  <2> QED BY <1>4, <1>5, UnlinkedIs
<1>7. T \subseteq Ids \X Ids /\ "alias" \in Kinds
  BY <1>1 DEF IsLinks, Kinds, Moved
<1>8. IsLinks(M) /\ [Bag(L) EXCEPT !["alias"] = SetToBag(T)] = Bag(M)
  <2> HIDE DEF T
  <2> QED BY <1>1, <1>7, BagLinks
<1>9. Db(r, d.entries, [Bag(L) EXCEPT !["alias"] = SetToBag(T)], d.keys, SetToBag(Expiring(e)))
  <2>1. r = [d EXCEPT !.deps["alias"] = SetToBag(T)]
    <3> HIDE DEF T
    <3> QED BY <1>6 DEF MoveDependents
  <2> HIDE DEF r, T
  <2> QED BY <1>1, <2>1 DEF Db, Fields, Bag, Kinds
<1> HIDE DEF r, M
<1>10. Sto(r, e, M)
  BY <1>8, <1>9, StoFrom DEF Sto
<1> QED BY <1>10 DEF r, M

(* The links are what they were when a move was recorded. *)
LEMMA UnmoveArrives ==
  ASSUME NEW d, NEW e, NEW L, Sto(d, e, L), NEW T, T \subseteq Ids \X Ids, NEW c, c.saved = SetToBag(T)
  PROVE  Sto(UndoMove(d, c), e, [L EXCEPT !["alias"] = T])
<1> DEFINE M == [L EXCEPT !["alias"] = T]
           r == UndoMove(d, c)
<1>1. Db(d, d.entries, Bag(L), d.keys, SetToBag(Expiring(e))) /\ IsLinks(L)
  BY StoParts
<1>2. IsLinks(M) /\ [Bag(L) EXCEPT !["alias"] = SetToBag(T)] = Bag(M)
  BY <1>1, BagLinks DEF Kinds
<1>3. Db(r, d.entries, [Bag(L) EXCEPT !["alias"] = SetToBag(T)], d.keys, SetToBag(Expiring(e)))
  BY <1>1 DEF Db, Fields, Bag, Kinds, UndoMove
<1> HIDE DEF r, M
<1>4. Sto(r, e, M)
  BY <1>2, <1>3, StoFrom DEF Sto
<1> QED BY <1>4 DEF r, M

-----------------------------------------------------------------------------
(* Groups of entries go one after the other.  Of the entries e with the     *)
(* links L, those of A are gone, the aliases of R are reset, and the bases  *)
(* without dependents are normal, but for those of F, which are back before *)
(* their dependents are.                                                    *)

Remaining(L, G) == [kind \in Kinds |-> {p \in L[kind] : p[2] \notin G}]

Bereft(e, L, G, i) == \E kind \in Kinds : e[i].type = BaseType[kind] /\ Targets(L, kind, i) \subseteq G

ResetOf(e, i) ==
    [e[i] EXCEPT !.type = "normal", !.password = e[e[i].base].password, !.base = NoId]

Part(e, L, A, R, F) ==
    [i \in DOMAIN e \ A |->
        IF i \in R THEN ResetOf(e, i)
        ELSE IF i \notin F /\ Bereft(e, L, A \cup R, i) THEN [e[i] EXCEPT !.type = "normal"]
        ELSE e[i]]

AtPart(d, e, L, A, R, F) == Sto(d, Part(e, L, A, R, F), Remaining(L, A \cup R))

(* The links fit the entries, though not all of them need be of dependents. *)
IsFit(e, L) ==
    /\ e = [i \in DOMAIN e |-> e[i]] /\ DOMAIN e \subseteq Ids /\ IsLinks(L)
    /\ \A i \in DOMAIN e : IsEntry(e[i]) /\ Norm(e[i]) = e[i]
    /\ \A i, j \in DOMAIN e : i # j => e[i].key # e[j].key \/ e[i].key = NoKey
    /\ \A kind \in Kinds, b, i \in Ids : <<b, i>> \in L[kind] =>
          /\ b \in DOMAIN e /\ i \in DOMAIN e /\ e[b].type = BaseType[kind]
          /\ IsDependent(e[i]) => kind = e[i].type /\ b = e[i].base
    /\ \A i \in DOMAIN e : IsDependent(e[i]) => <<e[i].base, i>> \in L[e[i].type]
    /\ \A i \in DOMAIN e : ~Bereft(e, L, {}, i)

(* id is no dependent by the links either, and those linked to it are its   *)
(* dependents.                                                              *)
IsProper(e, L, id) ==
    /\ ~IsDependent(e[id])
    /\ \A kind \in Kinds, b \in Ids : <<b, id>> \notin L[kind]
    /\ \A kind \in Kinds : \A i \in Targets(L, kind, id) : e[i].type = kind /\ e[i].base = id

IsStage(e, A, R) ==
    /\ A \subseteq DOMAIN e /\ R \subseteq DOMAIN e \ A
    /\ \A i \in R : e[i].type = "alias"
    /\ \A i \in DOMAIN e \ (A \cup R) : IsDependent(e[i]) => e[i].base \notin A

LEMMA DependentIs ==
  ASSUME NEW e, NEW L, IsFit(e, L), NEW i \in DOMAIN e, IsDependent(e[i])
  PROVE  /\ e[i].base \in DOMAIN e /\ e[i].base # i /\ e[i].type \in Kinds
         /\ e[e[i].base].type = BaseType[e[i].type] /\ ~IsDependent(e[e[i].base])
         /\ <<e[i].base, i>> \in L[e[i].type] /\ ~e[i].expires
         /\ i \in Ids /\ e[i].base \in Ids /\ Norm(e[i]) = e[i]
<1>1. e[i].type \in Kinds /\ IsEntry(e[i]) /\ <<e[i].base, i>> \in L[e[i].type] /\ i \in Ids
  BY DEF IsDependent, IsFit
<1>2. e[i].base \in Ids /\ ~e[i].expires
  BY <1>1 DEF IsEntry
<1>3. e[i].base \in DOMAIN e /\ e[e[i].base].type = BaseType[e[i].type]
  BY <1>1, <1>2 DEF IsFit
<1>4. ~IsDependent(e[e[i].base])
  BY <1>1, <1>3 DEF BaseType, Kinds, IsDependent
<1> QED BY <1>1, <1>2, <1>3, <1>4 DEF IsFit

IsPart(f, e, L, A, R, F) ==
    /\ DOMAIN f = DOMAIN e \ A /\ f = [i \in DOMAIN e \ A |-> f[i]]
    /\ \A i \in DOMAIN e \ A :
          /\ f[i].key = e[i].key /\ f[i].expires = e[i].expires
          /\ i \in R => f[i] = ResetOf(e, i)
          /\ i \notin R => f[i] = e[i] \/ f[i] = [e[i] EXCEPT !.type = "normal"]
          /\ i \notin R /\ (i \in F \/ ~Bereft(e, L, A \cup R, i)) => f[i] = e[i]
          /\ i \notin R /\ i \notin F /\ Bereft(e, L, A \cup R, i) => f[i] = [e[i] EXCEPT !.type = "normal"]
          /\ i \notin R /\ IsDependent(e[i]) => f[i] = e[i]
          /\ i \notin R /\ ~IsDependent(e[i]) =>
                ~IsDependent(f[i]) /\ f[i].type \in {"normal", e[i].type} /\ f[i].password = e[i].password

LEMMA PartIs ==
  ASSUME NEW e, NEW L, IsFit(e, L), NEW A, NEW R, IsStage(e, A, R), NEW F
  PROVE  IsPart(Part(e, L, A, R, F), e, L, A, R, F)
<1> DEFINE f == Part(e, L, A, R, F)
<1>1. DOMAIN f = DOMAIN e \ A /\ f = [i \in DOMAIN e \ A |-> f[i]]
  BY DEF Part
<1>2. ASSUME NEW i \in DOMAIN e \ A
      PROVE  f[i] = IF i \in R THEN ResetOf(e, i)
                    ELSE IF i \notin F /\ Bereft(e, L, A \cup R, i) THEN [e[i] EXCEPT !.type = "normal"]
                    ELSE e[i]
  BY DEF Part
<1>3. ASSUME NEW i \in DOMAIN e \ A
      PROVE  /\ [e[i] EXCEPT !.type = "normal"].key = e[i].key
             /\ [e[i] EXCEPT !.type = "normal"].expires = e[i].expires
             /\ [e[i] EXCEPT !.type = "normal"].password = e[i].password
             /\ [e[i] EXCEPT !.type = "normal"].type = "normal"
             /\ ResetOf(e, i).key = e[i].key
             /\ ResetOf(e, i).expires = e[i].expires
             /\ IsDependent(e[i]) => ~Bereft(e, L, A \cup R, i)
  <2>1. IsEntry(e[i])
    BY DEF IsFit
  <2>2. IsDependent(e[i]) => ~Bereft(e, L, A \cup R, i)
    BY DEF IsDependent, Bereft, BaseType, Kinds
  <2> QED BY <2>1, <2>2 DEF IsEntry, ResetOf
<1> HIDE DEF f
<1>4. ASSUME NEW i \in DOMAIN e \ A, i \notin R, ~IsDependent(e[i])
      PROVE  ~IsDependent(f[i]) /\ f[i].type \in {"normal", e[i].type} /\ f[i].password = e[i].password
  BY <1>2, <1>3, <1>4 DEF IsDependent, Kinds
<1>5. \A i \in DOMAIN e \ A : f[i].key = e[i].key /\ f[i].expires = e[i].expires
  BY <1>2, <1>3
<1>6. \A i \in DOMAIN e \ A :
         /\ i \in R => f[i] = ResetOf(e, i)
         /\ i \notin R => f[i] = e[i] \/ f[i] = [e[i] EXCEPT !.type = "normal"]
         /\ i \notin R /\ (i \in F \/ ~Bereft(e, L, A \cup R, i)) => f[i] = e[i]
         /\ i \notin R /\ i \notin F /\ Bereft(e, L, A \cup R, i) => f[i] = [e[i] EXCEPT !.type = "normal"]
         /\ i \notin R /\ IsDependent(e[i]) => f[i] = e[i]
  BY <1>2, <1>3
<1> QED BY <1>1, <1>4, <1>5, <1>6 DEF f, IsPart

LEMMA RemainingLinks ==
  ASSUME NEW L, IsLinks(L), NEW G
  PROVE  IsLinks(Remaining(L, G))
  BY DEF IsLinks, Remaining

LEMMA RemainingIs ==
  ASSUME NEW L, NEW G, NEW kind \in Kinds, NEW b, NEW i
  PROVE  <<b, i>> \in Remaining(L, G)[kind] <=> <<b, i>> \in L[kind] /\ i \notin G
  BY DEF Remaining

LEMMA RemainingTargets ==
  ASSUME NEW L, NEW G, NEW kind \in Kinds, NEW b
  PROVE  Targets(Remaining(L, G), kind, b) = Targets(L, kind, b) \ G
  BY RemainingIs DEF Targets

(* Links are equal when they link the same. *)
LEMMA SameLinks ==
  ASSUME NEW L, IsLinks(L), NEW M, IsLinks(M),
         \A kind \in Kinds, b, i \in Ids : <<b, i>> \in L[kind] <=> <<b, i>> \in M[kind]
  PROVE  L = M
<1>1. ASSUME NEW kind \in Kinds PROVE L[kind] = M[kind]
  <2>1. L[kind] \subseteq Ids \X Ids /\ M[kind] \subseteq Ids \X Ids
    BY DEF IsLinks
  <2>2. ASSUME NEW p \in Ids \X Ids PROVE p \in L[kind] <=> p \in M[kind]
    <3>1. PICK b \in Ids, i \in Ids : p = <<b, i>>
      OBVIOUS
    <3> QED BY <3>1
  <2> QED BY <2>1, <2>2
<1> QED BY <1>1 DEF IsLinks

LEMMA SameLeft ==
  ASSUME NEW L, IsLinks(L), NEW G, NEW H,
         \A kind \in Kinds, b, i \in Ids : <<b, i>> \in L[kind] => (i \in G <=> i \in H)
  PROVE  Remaining(L, G) = Remaining(L, H)
<1>1. IsLinks(Remaining(L, G)) /\ IsLinks(Remaining(L, H))
  BY RemainingLinks
<1>2. ASSUME NEW kind \in Kinds, NEW b \in Ids, NEW i \in Ids
      PROVE  <<b, i>> \in Remaining(L, G)[kind] <=> <<b, i>> \in Remaining(L, H)[kind]
  BY RemainingIs
<1> HIDE DEF Remaining
<1> QED BY <1>1, <1>2, SameLinks

LEMMA OneMoreGone ==
  ASSUME NEW e, NEW L, IsFit(e, L), NEW G, NEW id \in DOMAIN e, IsDependent(e[id]), id \notin G
  PROVE  /\ Cut(Remaining(L, G), e[id].type, e[id].base, id) = Remaining(L, G \cup {id})
         /\ Tied(Remaining(L, G \cup {id}), e[id].type, e[id].base, id) = Remaining(L, G)
         /\ \A i \in DOMAIN e \ {e[id].base} : Bereft(e, L, G \cup {id}, i) = Bereft(e, L, G, i)
         /\ ~Bereft(e, L, G, e[id].base)
<1> DEFINE b0 == e[id].base
           kd == e[id].type
           M == Remaining(L, G)
           N == Remaining(L, G \cup {id})
           X == Cut(M, kd, b0, id)
           Y == Tied(N, kd, b0, id)
<1>1. /\ IsLinks(L) /\ kd \in Kinds /\ id \in Ids /\ b0 \in DOMAIN e /\ b0 \in Ids /\ <<b0, id>> \in L[kd]
      /\ e[b0].type = BaseType[kd]
  BY DependentIs DEF IsFit
<1>2. \A kind \in Kinds, b \in Ids : <<b, id>> \in L[kind] => kind = kd /\ b = b0
  BY <1>1 DEF IsFit
<1>3. IsLinks(M) /\ IsLinks(N)
  BY <1>1, RemainingLinks
<1>4. ASSUME NEW kind \in Kinds, NEW b \in Ids, NEW i \in Ids
      PROVE
         /\ <<b, i>> \in M[kind] <=> <<b, i>> \in L[kind] /\ i \notin G
         /\ <<b, i>> \in N[kind] <=> <<b, i>> \in L[kind] /\ i \notin G \cup {id}
  BY <1>1, RemainingIs
<1> HIDE DEF M, N, b0, kd
<1>5. IsLinks(X) /\ IsLinks(Y)
  BY <1>1, <1>3, CutLinks
<1>6. ASSUME NEW kind \in Kinds, NEW b \in Ids, NEW i \in Ids
      PROVE  /\ <<b, i>> \in X[kind] <=> <<b, i>> \in M[kind] /\ ~(kind = kd /\ b = b0 /\ i = id)
             /\ <<b, i>> \in Y[kind] <=> <<b, i>> \in N[kind] \/ (kind = kd /\ b = b0 /\ i = id)
  <2>1. kd \in Kinds /\ b0 \in Ids /\ id \in Ids /\ IsLinks(M) /\ IsLinks(N)
    BY <1>1, <1>3
  <2>2. <<b, i>> \in Cut(M, kd, b0, id)[kind] <=> <<b, i>> \in M[kind] /\ ~(kind = kd /\ b = b0 /\ i = id)
    BY <2>1, CutIs
  <2>3. <<b, i>> \in Tied(N, kd, b0, id)[kind] <=> <<b, i>> \in N[kind] \/ (kind = kd /\ b = b0 /\ i = id)
    BY <2>1, CutIs
  <2> QED BY <2>2, <2>3
<1>7. ASSUME NEW kind \in Kinds, NEW b \in Ids, NEW i \in Ids
      PROVE  /\ <<b, i>> \in X[kind] <=> <<b, i>> \in N[kind]
             /\ <<b, i>> \in Y[kind] <=> <<b, i>> \in M[kind]
  <2>1. /\ <<b, i>> \in M[kind] <=> <<b, i>> \in L[kind] /\ i \notin G
        /\ <<b, i>> \in N[kind] <=> <<b, i>> \in L[kind] /\ i \notin G \cup {id}
    BY <1>4
  <2>2. i = id /\ <<b, i>> \in L[kind] <=> kind = kd /\ b = b0 /\ i = id
    BY <1>1, <1>2
  <2> HIDE DEF X, Y
  <2> QED BY <1>6, <2>1, <2>2
<1> HIDE DEF X, Y
<1>8. X = N /\ Y = M
  BY <1>3, <1>5, <1>7, SameLinks
<1>9. ASSUME NEW i \in DOMAIN e \ {b0}
      PROVE  Bereft(e, L, G \cup {id}, i) = Bereft(e, L, G, i)
  <2>1. \A kind \in Kinds : id \notin Targets(L, kind, i)
    <3>1. i \in Ids
      BY DEF IsFit
    <3> QED BY <1>2, <3>1 DEF Targets
  <2> QED BY <2>1 DEF Bereft
<1>10. ~Bereft(e, L, G, b0)
  <2>1. id \in Targets(L, kd, b0)
    BY <1>1 DEF Targets
  <2>2. \A kind \in Kinds : e[b0].type = BaseType[kind] => kind = kd
    BY <1>1 DEF BaseType, Kinds
  <2> QED BY <2>1, <2>2 DEF Bereft
<1> QED BY <1>8, <1>9, <1>10 DEF X, Y, M, N, b0, kd

LEMMA RecordedIs ==
  ASSUME NEW d, NEW e, NEW L, Sto(d, e, L), NEW i \in DOMAIN e
  PROVE  IsEntry(d.entries[i]) /\ e[i] = Norm(d.entries[i])
  BY DEF Sto, Holds

LEMMA SamePart ==
  ASSUME NEW f, NEW g, DOMAIN f = DOMAIN g, f = [i \in DOMAIN f |-> f[i]], g = [i \in DOMAIN g |-> g[i]],
         \A i \in DOMAIN f : f[i] = g[i]
  PROVE  f = g
  OBVIOUS

(* A dependent goes. *)
LEMMA PartLosesDependent ==
  ASSUME NEW e, NEW L, IsFit(e, L), NEW A, NEW R, IsStage(e, A, R), NEW F,
         NEW d, AtPart(d, e, L, A, R, F), NEW id \in DOMAIN e \ (A \cup R), IsDependent(e[id]), e[id].base \notin F
  PROVE  /\ IsStage(e, A \cup {id}, R)
         /\ AtPart(DeleteEntry(d, id, e[id]), e, L, A \cup {id}, R, F)
         /\ AtPart(DeleteDependent(d, id), e, L, A \cup {id}, R, F)
<1> DEFINE b == e[id].base
           kind == e[id].type
           f == Part(e, L, A, R, F)
           h == Part(e, L, A \cup {id}, R, F)
           M == Remaining(L, A \cup R)
           g == Drop(Released(f, M, b, id, kind), {id})
<1>1. /\ kind \in Kinds /\ id \in Ids /\ b \in DOMAIN e /\ b \in Ids /\ <<b, id>> \in L[kind] /\ b # id
      /\ ~IsDependent(e[b]) /\ ~e[id].expires /\ e[b].type = BaseType[kind] /\ IsLinks(L)
      /\ Norm(e[id]) = e[id] /\ IsEntry(e[b])
  BY DependentIs DEF IsFit
<1>2. b \notin A /\ b \notin R
  BY <1>1 DEF IsStage, IsDependent, Kinds
<1>3. IsStage(e, A \cup {id}, R)
  BY DependentIs DEF IsStage
<1>4. /\ DOMAIN f = DOMAIN e \ A /\ f = [i \in DOMAIN e \ A |-> f[i]]
      /\ f[id] = e[id] /\ ~IsDependent(f[b])
      /\ DOMAIN h = DOMAIN e \ (A \cup {id}) /\ h = [i \in DOMAIN e \ (A \cup {id}) |-> h[i]]
  <2>1. IsPart(f, e, L, A, R, F) /\ IsPart(h, e, L, A \cup {id}, R, F)
    BY <1>3, PartIs
  <2> HIDE DEF f, h
  <2> QED BY <1>1, <1>2, <2>1 DEF IsPart
<1>5. <<b, id>> \in M[kind] /\ Targets(M, kind, b) = Targets(L, kind, b) \ (A \cup R)
  BY <1>1, RemainingIs, RemainingTargets
<1>6. /\ Cut(M, kind, b, id) = Remaining(L, (A \cup R) \cup {id})
      /\ \A i \in DOMAIN e \ {b} : Bereft(e, L, (A \cup R) \cup {id}, i) = Bereft(e, L, A \cup R, i)
      /\ ~Bereft(e, L, A \cup R, b)
  <2> DEFINE G == A \cup R
  <2>1. id \notin G
    OBVIOUS
  <2> HIDE DEF G
  <2>2. /\ Cut(Remaining(L, G), e[id].type, e[id].base, id) = Remaining(L, G \cup {id})
        /\ \A i \in DOMAIN e \ {e[id].base} : Bereft(e, L, G \cup {id}, i) = Bereft(e, L, G, i)
        /\ ~Bereft(e, L, G, e[id].base)
    BY <2>1, OneMoreGone
  <2> QED BY <2>2 DEF G
<1>7. (A \cup R) \cup {id} = (A \cup {id}) \cup R
  OBVIOUS
<1>8. g = h
  <2>1. Bereft(e, L, (A \cup {id}) \cup R, b) <=> Targets(M, kind, b) \ {id} = {}
    <3>1. \A k \in Kinds : e[b].type = BaseType[k] <=> k = kind
      BY <1>1 DEF BaseType, Kinds
    <3> QED BY <1>1, <1>5, <3>1 DEF Bereft
  <2>2. DOMAIN g = DOMAIN h /\ g = [i \in DOMAIN g |-> g[i]]
    BY <1>4 DEF Released, Retyped, Drop
  <2>3. ASSUME NEW i \in DOMAIN h PROVE g[i] = h[i]
    <3>0. i \in DOMAIN e \ A /\ i # id /\ i \in DOMAIN e \ (A \cup {id})
      BY <1>4
    <3>1. g[i] = IF i = b /\ Targets(M, kind, b) \ {id} = {} THEN [f[i] EXCEPT !.type = "normal"] ELSE f[i]
      BY <1>4, <3>0 DEF Released, Retyped, Drop
    <3>2. CASE i = b
      <4>1. f[i] = e[i]
        BY <1>2, <1>6, <3>0, <3>2 DEF Part
      <4>2. h[i] = IF Bereft(e, L, (A \cup {id}) \cup R, b) THEN [e[i] EXCEPT !.type = "normal"] ELSE e[i]
        BY <1>2, <3>0, <3>2, ~(b \in F) DEF Part
      <4> QED BY <2>1, <3>1, <3>2, <4>1, <4>2
    <3>3. CASE i # b
      <4>1. f[i] = h[i]
        BY <1>6, <1>7, <3>0, <3>3 DEF Part
      <4> QED BY <3>1, <3>3, <4>1
    <3> QED BY <3>2, <3>3
  <2> HIDE DEF g, h
  <2> QED BY <1>4, <2>2, <2>3, SamePart
<1>9. Sto(d, f, M)
  BY DEF AtPart
<1>10. e[id].key = f[id].key /\ ~f[id].expires /\ b \in DOMAIN f /\ id \in DOMAIN f
  BY <1>1, <1>2, <1>4
<1> HIDE DEF f, M, g, h
<1>11. /\ Sto(DeleteEntry(d, id, e[id]), g, Cut(M, kind, b, id))
       /\ Sto(Erase(RemoveDependent(d, b, id, kind), id, e[id]), g, Cut(M, kind, b, id))
  BY <1>1, <1>4, <1>5, <1>9, <1>10, DeleteDependentArrives DEF g
<1>12. d.entries[id] = e[id]
  <2>1. IsEntry(d.entries[id]) /\ f[id] = Norm(d.entries[id])
    BY <1>9, <1>10, RecordedIs
  <2> QED BY <1>4, <2>1, NormIs
<1>13. DeleteDependent(d, id) = Erase(RemoveDependent(d, b, id, kind), id, e[id])
  BY <1>12 DEF DeleteDependent
<1> QED BY <1>3, <1>6, <1>7, <1>8, <1>11, <1>13 DEF AtPart, h

(* A normal entry goes. *)
LEMMA PartLosesNormal ==
  ASSUME NEW e, NEW L, IsFit(e, L), NEW A, NEW R, IsStage(e, A, R), NEW F,
         NEW d, AtPart(d, e, L, A, R, F), NEW id \in DOMAIN e \ (A \cup R), IsProper(e, L, id),
         NEW x, IsEntry(x), Norm(x) = e[id], x.type = "normal"
  PROVE  /\ IsStage(e, A \cup {id}, R)
         /\ AtPart(DeleteEntry(d, id, x), e, L, A \cup {id}, R, F)
<1> DEFINE f == Part(e, L, A, R, F)
           h == Part(e, L, A \cup {id}, R, F)
           M == Remaining(L, A \cup R)
<1>1. e[id].type = "normal" /\ e[id].key = x.key /\ ~IsDependent(e[id]) /\ IsLinks(L) /\ id \in Ids
  <2>1. e[id].type = "normal" /\ e[id].key = x.key
    BY NormIs
  <2> QED BY <2>1 DEF IsFit, IsDependent, Kinds
<1>2. IsStage(e, A \cup {id}, R)
  <2>1. \A i \in DOMAIN e : IsDependent(e[i]) => e[i].base # id
    <3>1. \A kind \in Kinds : BaseType[kind] # "normal"
      BY DEF BaseType, Kinds
    <3>2. ASSUME NEW i \in DOMAIN e, IsDependent(e[i]) PROVE e[e[i].base].type # "normal"
      <4>1. e[i].type \in Kinds /\ e[e[i].base].type = BaseType[e[i].type]
        BY <3>2, DependentIs
      <4> QED BY <3>1, <4>1
    <3> QED BY <1>1, <3>2
  <2> QED BY <2>1 DEF IsStage
<1>3. /\ DOMAIN f = DOMAIN e \ A /\ f = [i \in DOMAIN e \ A |-> f[i]]
      /\ f[id].key = e[id].key
      /\ DOMAIN h = DOMAIN e \ (A \cup {id}) /\ h = [i \in DOMAIN e \ (A \cup {id}) |-> h[i]]
  <2>1. IsPart(f, e, L, A, R, F) /\ IsPart(h, e, L, A \cup {id}, R, F)
    BY <1>2, PartIs
  <2> HIDE DEF f, h
  <2> QED BY <2>1 DEF IsPart
<1>4. \A kind \in Kinds, b \in Ids : <<b, id>> \notin L[kind]
  BY DEF IsProper
<1>5. Remaining(L, (A \cup {id}) \cup R) = M
  <2>1. \A kind \in Kinds, b, i \in Ids : <<b, i>> \in L[kind] => (i \in (A \cup {id}) \cup R <=> i \in A \cup R)
    BY <1>4
  <2> QED BY <1>1, <2>1, SameLeft
<1>6. Drop(f, {id}) = h
  <2>1. DOMAIN Drop(f, {id}) = DOMAIN h /\ Drop(f, {id}) = [i \in DOMAIN h |-> Drop(f, {id})[i]]
    BY <1>3 DEF Drop
  <2>2. ASSUME NEW i \in DOMAIN h PROVE Drop(f, {id})[i] = h[i]
    <3>0. i \in DOMAIN e \ A /\ i # id /\ i \in DOMAIN e \ (A \cup {id}) /\ i \in Ids
      BY <1>3 DEF IsFit
    <3>1. Bereft(e, L, (A \cup {id}) \cup R, i) = Bereft(e, L, A \cup R, i)
      <4>1. \A kind \in Kinds : id \notin Targets(L, kind, i)
        BY <1>4, <3>0 DEF Targets
      <4> QED BY <4>1 DEF Bereft
    <3>2. Drop(f, {id})[i] = f[i]
      BY <1>3, <3>0 DEF Drop
    <3> QED BY <3>0, <3>1, <3>2 DEF Part
  <2> HIDE DEF f, h
  <2> QED BY <1>3, <2>1, <2>2, SamePart
<1>7. Sto(d, f, M) /\ id \in DOMAIN f
  BY <1>3 DEF AtPart
<1> HIDE DEF f, M, h
<1>8. Sto(DeleteEntry(d, id, x), Drop(f, {id}), M)
  BY <1>1, <1>3, <1>7, DeleteArrives
<1> QED BY <1>2, <1>5, <1>6, <1>8 DEF AtPart, h

(* A base goes, and its aliases are reset. *)
LEMMA PartLosesAliasBase ==
  ASSUME NEW e, NEW L, IsFit(e, L), NEW A, NEW R, IsStage(e, A, R), NEW F,
         NEW d, AtPart(d, e, L, A, R, F), NEW id \in DOMAIN e \ (A \cup R), IsProper(e, L, id),
         NEW x, IsEntry(x), Norm(x) = e[id], x.type = "aliasbase"
  PROVE  LET S == R \cup (Targets(L, "alias", id) \ A)
         IN  /\ IsStage(e, A \cup {id}, S)
             /\ AtPart(DeleteEntry(d, id, x), e, L, A \cup {id}, S, F)
<1> DEFINE f == Part(e, L, A, R, F)
           S == R \cup (Targets(L, "alias", id) \ A)
           h == Part(e, L, A \cup {id}, S, F)
           M == Remaining(L, A \cup R)
           T == Targets(M, "alias", id)
           mid == ResetAllAliasPasswords(d, id)
           g == AllReset(f, T, id)
           N == [M EXCEPT !["alias"] = {p \in @ : p[1] # id}]
<1>1. /\ e[id].type = "aliasbase" /\ e[id].key = x.key /\ ~IsDependent(e[id])
      /\ IsLinks(L) /\ id \in Ids /\ "alias" \in Kinds
  <2>1. e[id].type = "aliasbase" /\ e[id].key = x.key
    BY NormIs
  <2> QED BY <2>1 DEF IsFit, IsDependent, Kinds
<1>2. Targets(L, "alias", id) \subseteq DOMAIN e \ {id} /\ \A i \in Targets(L, "alias", id) : e[i].type = "alias" /\ e[i].base = id
  BY <1>1 DEF IsProper, IsFit, Targets
<1>3. IsStage(e, A \cup {id}, S)
  <2>1. ASSUME NEW i \in DOMAIN e, IsDependent(e[i]), e[i].base = id PROVE i \in Targets(L, "alias", id)
    <3>1. e[i].type = "alias"
      <4>1. e[i].type \in Kinds /\ e[id].type = BaseType[e[i].type]
        BY <2>1, DependentIs
      <4> QED BY <1>1, <4>1 DEF BaseType, Kinds
    <3> QED BY <2>1, <3>1, DependentIs DEF Targets
  <2> QED BY <1>2, <2>1 DEF IsStage
<1>4. /\ DOMAIN f = DOMAIN e \ A /\ f = [i \in DOMAIN e \ A |-> f[i]]
      /\ f[id].key = e[id].key /\ ~IsDependent(f[id]) /\ f[id].password = e[id].password
      /\ DOMAIN h = DOMAIN e \ (A \cup {id}) /\ h = [i \in DOMAIN e \ (A \cup {id}) |-> h[i]]
      /\ \A i \in DOMAIN e \ A : i \notin R /\ IsDependent(e[i]) => f[i] = e[i]
  <2>1. IsPart(f, e, L, A, R, F) /\ IsPart(h, e, L, A \cup {id}, S, F)
    BY <1>3, PartIs
  <2> HIDE DEF f, h, S
  <2> QED BY <1>1, <2>1 DEF IsPart
<1>5. T = Targets(L, "alias", id) \ (A \cup R)
  BY <1>1, RemainingTargets
<1>6. IsLinks(M) /\ IsLinks(Remaining(L, (A \cup {id}) \cup S))
  BY <1>1, RemainingLinks
<1>7. N = Remaining(L, (A \cup {id}) \cup S)
  <2>1. IsLinks(N)
    <3>1. {p \in M["alias"] : p[1] # id} \subseteq Ids \X Ids
      BY <1>1, <1>6 DEF IsLinks
    <3> HIDE DEF M
    <3> QED BY <1>1, <1>6, <3>1, BagLinks
  <2>2. ASSUME NEW kind \in Kinds, NEW b \in Ids, NEW i \in Ids
        PROVE  <<b, i>> \in N[kind] <=> <<b, i>> \in Remaining(L, (A \cup {id}) \cup S)[kind]
    <3>1. <<b, i>> \in N[kind] <=> <<b, i>> \in M[kind] /\ ~(kind = "alias" /\ b = id)
      <4>1. N[kind] = IF kind = "alias" THEN {p \in M[kind] : p[1] # id} ELSE M[kind]
        <5> HIDE DEF M
        <5> QED BY <1>6 DEF IsLinks
      <4> HIDE DEF M, N
      <4> QED BY <4>1
    <3>2. <<b, i>> \in M[kind] <=> <<b, i>> \in L[kind] /\ i \notin A \cup R
      BY <1>1, RemainingIs
    <3>3. <<b, i>> \in Remaining(L, (A \cup {id}) \cup S)[kind] <=> <<b, i>> \in L[kind] /\ i \notin (A \cup {id}) \cup S
      BY <1>1, RemainingIs
    <3>4. <<b, i>> \in L[kind] => i # id
      BY DEF IsProper
    <3>5. <<b, i>> \in L[kind] => (i \in Targets(L, "alias", id) <=> kind = "alias" /\ b = id)
      <4>1. <<b, i>> \in L[kind] /\ i \in Targets(L, "alias", id) => kind = "alias" /\ b = id
        BY <1>1, <1>2 DEF IsFit, IsDependent
      <4> QED BY <4>1 DEF Targets
    <3> HIDE DEF N, M
    <3> QED BY <3>1, <3>2, <3>3, <3>4, <3>5
  <2> HIDE DEF N, S
  <2> QED BY <1>6, <2>1, <2>2, SameLinks
<1>8. Drop(g, {id}) = h
  <2>1. DOMAIN Drop(g, {id}) = DOMAIN h /\ Drop(g, {id}) = [i \in DOMAIN h |-> Drop(g, {id})[i]]
    BY <1>4 DEF Drop, AllReset
  <2>2. ASSUME NEW i \in DOMAIN h PROVE Drop(g, {id})[i] = h[i]
    <3>0. i \in DOMAIN e \ A /\ i # id /\ i \in DOMAIN e \ (A \cup {id}) /\ i \in Ids
      BY <1>4 DEF IsFit
    <3>1. Drop(g, {id})[i] =
            IF i \in T THEN [f[i] EXCEPT !.type = "normal", !.password = f[id].password, !.base = NoId] ELSE f[i]
      BY <1>4, <3>0 DEF Drop, AllReset
    <3>2. CASE i \in T
      <4>1. f[i] = e[i] /\ i \in S /\ e[i].base = id
        BY <1>2, <1>4, <1>5, <3>0, <3>2 DEF IsDependent, Kinds
      <4>2. h[i] = ResetOf(e, i)
        BY <3>0, <4>1 DEF Part
      <4> QED BY <1>4, <3>1, <3>2, <4>1, <4>2 DEF ResetOf
    <3>3. CASE i \notin T
      <4>1. i \in S <=> i \in R
        BY <1>5, <3>0, <3>3
      <4>2. Bereft(e, L, (A \cup {id}) \cup S, i) = Bereft(e, L, A \cup R, i)
        <5>1. \A kind \in Kinds, j \in Ids : <<i, j>> \in L[kind] => j # id /\ j \notin Targets(L, "alias", id)
          <6>1. \A kind \in Kinds, j \in Ids : <<i, j>> \in L[kind] => j # id
            BY <3>0 DEF IsProper
          <6>2. \A kind \in Kinds, j \in Ids : <<i, j>> \in L[kind] => j \notin Targets(L, "alias", id)
            BY <1>1, <1>2, <3>0 DEF IsFit, IsDependent
          <6> QED BY <6>1, <6>2
        <5>2. \A kind \in Kinds : Targets(L, kind, i) \subseteq (A \cup {id}) \cup S <=> Targets(L, kind, i) \subseteq A \cup R
          BY <5>1 DEF Targets
        <5> QED BY <5>2 DEF Bereft
      <4> QED BY <3>0, <3>1, <3>3, <4>1, <4>2 DEF Part
    <3> QED BY <3>2, <3>3
  <2> HIDE DEF g, h
  <2> QED BY <1>4, <2>1, <2>2, SamePart
<1>9. Sto(d, f, M) /\ id \in DOMAIN f
  BY <1>4 DEF AtPart
<1>10. DeleteEntry(d, id, x) = RemoveExpiry(Erase(mid, id, x), id)
  <2>1. id \in DOMAIN d.entries
    BY <1>9, StoParts
  <2> HIDE DEF mid
  <2> QED BY <2>1 DEF DeleteEntry, DoDeleteEntry, IsDependent, Kinds, mid
<1> HIDE DEF f, M, T, N
<1>11. Sto(mid, g, N)
  BY <1>4, <1>9, ResetArrives DEF T, N
<1>12. id \in DOMAIN g /\ x.key = g[id].key
  <2>1. id \notin T
    BY <1>2, <1>5
  <2> QED BY <1>1, <1>4, <1>9, <2>1 DEF AllReset
<1> HIDE DEF g, mid
<1>13. Sto(DeleteEntry(d, id, x), Drop(g, {id}), N)
  BY <1>10, <1>11, <1>12, EraseArrives
<1> QED BY <1>3, <1>7, <1>8, <1>13 DEF AtPart, h

(* What holds of the sets that lack one element holds of the set. *)
LEMMA SubsetInduction ==
  ASSUME NEW S, IsFiniteSet(S), NEW T,
         \A s \in SUBSET S : (\A x \in s : s \ {x} \in T) => s \in T
  PROVE  S \in T
<1> DEFINE Done == {m \in Nat : \A s \in SUBSET S : Cardinality(s) = m => s \in T}
<1>1. \A s \in SUBSET S : IsFiniteSet(s) /\ Cardinality(s) \in Nat
  BY FS_Subset, FS_CardinalityType
<1>2. \A s \in SUBSET S : \A x \in s : s \ {x} \in SUBSET S /\ Cardinality(s \ {x}) = Cardinality(s) - 1
  BY <1>1, FS_RemoveElement
<1>3. 0 \in Done
  <2>1. \A s \in SUBSET S : Cardinality(s) = 0 => s = {}
    BY <1>1, FS_EmptySet
  <2>2. {} \in T
    OBVIOUS
  <2> QED BY <2>1, <2>2
<1>4. ASSUME NEW m \in Nat, m \in Done PROVE m + 1 \in Done
  <2>1. ASSUME NEW s \in SUBSET S, Cardinality(s) = m + 1 PROVE s \in T
    <3>1. ASSUME NEW x \in s PROVE s \ {x} \in T
      <4>1. s \ {x} \in SUBSET S /\ Cardinality(s \ {x}) = m
        BY <1>2, <2>1
      <4> QED BY <1>4, <4>1
    <3> QED BY <3>1
  <2> QED BY <2>1
<1>5. Nat \subseteq Done
  <2> HIDE DEF Done
  <2> QED BY <1>3, <1>4, SetInduction
<1> QED BY <1>1, <1>5

(* A base goes with its shortcuts. *)
LEMMA PartLosesShortcutBase ==
  ASSUME NEW e, NEW L, IsFit(e, L), NEW A, NEW R, IsStage(e, A, R), NEW F, IsFiniteSet(Ids),
         NEW d, AtPart(d, e, L, A, R, F), NEW id \in DOMAIN e \ (A \cup R), IsProper(e, L, id), id \notin F,
         NEW x, IsEntry(x), Norm(x) = e[id], x.type = "shortcutbase"
  PROVE  LET G == A \cup Targets(L, "shortcut", id) \cup {id}
         IN  /\ IsStage(e, G, R)
             /\ AtPart(DeleteEntry(d, id, x), e, L, G, R, F)
<1> DEFINE M == Remaining(L, A \cup R)
           T == LinkedTo(d, "shortcut", id)
           fold == Deleting(d, T)
           mid == DeleteDependents(d, T)
           B == A \cup T
           G == A \cup Targets(L, "shortcut", id) \cup {id}
           g == Part(e, L, B, R, F)
           h == Part(e, L, G, R, F)
           Went == {s \in SUBSET T : IsStage(e, A \cup s, R) /\ AtPart(fold[s], e, L, A \cup s, R, F)}
<1>1. /\ e[id].type = "shortcutbase" /\ e[id].key = x.key /\ ~IsDependent(e[id])
      /\ IsLinks(L) /\ id \in Ids /\ "shortcut" \in Kinds
  <2>1. e[id].type = "shortcutbase" /\ e[id].key = x.key
    BY NormIs
  <2> QED BY <2>1 DEF IsFit, IsDependent, Kinds
<1>2. /\ Targets(L, "shortcut", id) \subseteq DOMAIN e \ {id}
      /\ \A i \in Targets(L, "shortcut", id) : e[i].type = "shortcut" /\ e[i].base = id /\ IsDependent(e[i])
  BY <1>1 DEF IsProper, IsFit, Targets, IsDependent
<1>3. T = Targets(L, "shortcut", id) \ A
  <2>1. T = Targets(L, "shortcut", id) \ (A \cup R)
    <3>1. T = Targets(M, "shortcut", id)
      BY <1>1, LinkedIs DEF AtPart
    <3> QED BY <1>1, <3>1, RemainingTargets
  <2>2. \A i \in R : e[i].type = "alias"
    BY DEF IsStage
  <2> QED BY <1>2, <2>1, <2>2
<1>4. IsFiniteSet(T)
  <2>1. T \subseteq Ids
    BY <1>3 DEF Targets
  <2> QED BY <2>1, FS_Subset
<1>5. /\ fold[{}] = d /\ mid = fold[T]
      /\ \A s \in SUBSET T : s # {} => \E i \in s : fold[s] = DeleteDependent(fold[s \ {i}], i)
  BY <1>4, DeletingFolds
<1> HIDE DEF fold, T, mid
<1>6. ASSUME NEW s \in SUBSET T, \A i \in s : s \ {i} \in Went PROVE s \in Went
  <2>1. CASE s = {}
    <3>1. A \cup s = A
      BY <2>1
    <3> QED BY <1>5, <2>1, <3>1
  <2>2. CASE s # {}
    <3>1. PICK i \in s : fold[s] = DeleteDependent(fold[s \ {i}], i)
      BY <1>5, <2>2
    <3> DEFINE C == A \cup (s \ {i})
    <3>2. IsStage(e, C, R) /\ AtPart(fold[s \ {i}], e, L, C, R, F)
      BY <1>6
    <3>3. i \in DOMAIN e \ (C \cup R) /\ IsDependent(e[i]) /\ e[i].base \notin F /\ C \cup {i} = A \cup s
      <4>1. i \in Targets(L, "shortcut", id) /\ i \notin A
        BY <1>3
      <4>2. i \notin R
        BY <1>2, <4>1 DEF IsStage
      <4> QED BY <1>2, <4>1, <4>2
    <3> HIDE DEF C
    <3>4. /\ IsStage(e, C \cup {i}, R)
          /\ AtPart(DeleteDependent(fold[s \ {i}], i), e, L, C \cup {i}, R, F)
      BY <3>2, <3>3, PartLosesDependent
    <3> QED BY <3>1, <3>3, <3>4
  <2> QED BY <2>1, <2>2
<1>7. T \in Went
  <2> HIDE DEF Went
  <2> QED BY <1>4, <1>6, SubsetInduction
<1>8. IsStage(e, B, R) /\ AtPart(mid, e, L, B, R, F)
  BY <1>5, <1>7
<1>9. IsStage(e, G, R)
  <2>1. ASSUME NEW i \in DOMAIN e, IsDependent(e[i]), e[i].base = id PROVE i \in Targets(L, "shortcut", id)
    <3>1. e[i].type = "shortcut"
      <4>1. e[i].type \in Kinds /\ e[id].type = BaseType[e[i].type]
        BY <2>1, DependentIs
      <4> QED BY <1>1, <4>1 DEF BaseType, Kinds
    <3> QED BY <2>1, <3>1, DependentIs DEF Targets
  <2>2. G = B \cup {id}
    BY <1>3
  <2> HIDE DEF G
  <2>3. \A i \in R : e[i].type = "alias" /\ i # id
    BY <1>8 DEF IsStage
  <2> QED BY <1>8, <2>1, <2>2, <2>3, <1>3 DEF IsStage
<1>10. G = B \cup {id} /\ id \notin B
  BY <1>2, <1>3
<1>11. \A kind \in Kinds, b \in Ids : <<b, id>> \notin L[kind]
  BY DEF IsProper
<1>12. Remaining(L, G \cup R) = Remaining(L, B \cup R)
  <2>1. \A kind \in Kinds, b, i \in Ids : <<b, i>> \in L[kind] => (i \in G \cup R <=> i \in B \cup R)
    BY <1>10, <1>11
  <2> QED BY <1>1, <2>1, SameLeft
<1>13. /\ DOMAIN g = DOMAIN e \ B /\ g = [i \in DOMAIN e \ B |-> g[i]] /\ id \in DOMAIN g
       /\ g[id].key = e[id].key
       /\ DOMAIN h = DOMAIN e \ G /\ h = [i \in DOMAIN e \ G |-> h[i]]
  <2>1. IsPart(g, e, L, B, R, F) /\ IsPart(h, e, L, G, R, F)
    BY <1>8, <1>9, PartIs
  <2> HIDE DEF g, h, B, G
  <2> QED BY <1>10, <2>1 DEF IsPart
<1>14. Drop(g, {id}) = h
  <2>1. DOMAIN Drop(g, {id}) = DOMAIN h /\ Drop(g, {id}) = [i \in DOMAIN h |-> Drop(g, {id})[i]]
    BY <1>10, <1>13 DEF Drop
  <2>2. ASSUME NEW i \in DOMAIN h PROVE Drop(g, {id})[i] = h[i]
    <3>0. i \in DOMAIN e \ B /\ i # id /\ i \in DOMAIN e \ G /\ i \in Ids
      BY <1>10, <1>13 DEF IsFit
    <3>1. Bereft(e, L, G \cup R, i) = Bereft(e, L, B \cup R, i)
      <4>1. \A kind \in Kinds : id \notin Targets(L, kind, i)
        BY <1>11, <3>0 DEF Targets
      <4> QED BY <1>10, <4>1 DEF Bereft
    <3>2. Drop(g, {id})[i] = g[i]
      BY <1>13, <3>0 DEF Drop
    <3> QED BY <3>0, <3>1, <3>2 DEF Part
  <2> HIDE DEF g, h
  <2> QED BY <1>13, <2>1, <2>2, SamePart
<1>15. DeleteEntry(d, id, x) = RemoveExpiry(Erase(mid, id, x), id)
  <2>1. id \in DOMAIN d.entries
    <3>1. id \in DOMAIN Part(e, L, A, R, F)
      BY DEF Part
    <3> QED BY <3>1, StoParts DEF AtPart
  <2> QED BY <2>1 DEF DeleteEntry, DoDeleteEntry, IsDependent, Kinds, mid, T
<1> HIDE DEF g, h, B, G
<1>16. Sto(mid, g, Remaining(L, B \cup R))
  BY <1>8 DEF AtPart, g
<1>17. Sto(DeleteEntry(d, id, x), Drop(g, {id}), Remaining(L, B \cup R))
  BY <1>1, <1>13, <1>15, <1>16, EraseArrives
<1> QED BY <1>9, <1>12, <1>14, <1>17 DEF AtPart, h, G

-----------------------------------------------------------------------------
(* And back. *)

(* An entry that is no dependent is back, a base before its dependents.     *)
LEMMA PartRegainsBase ==
  ASSUME NEW e, NEW L, IsFit(e, L), NEW A, NEW R, IsStage(e, A, R), NEW F,
         NEW d, AtPart(d, e, L, A, R, F), NEW id \in A, IsProper(e, L, id),
         NEW x, IsEntry(x), Norm(x) = e[id], NEW H, x.type = "normal" => H = F, x.type # "normal" => H = F \cup {id}
  PROVE  /\ IsStage(e, A \ {id}, R)
         /\ AtPart(AddEntry(d, id, x), e, L, A \ {id}, R, H)
<1> DEFINE f == Part(e, L, A, R, F)
           h == Part(e, L, A \ {id}, R, H)
           M == Remaining(L, A \cup R)
<1>1. e[id].type = x.type /\ e[id].key = x.key /\ (IsDependent(x) <=> IsDependent(e[id]))
  BY NormIs
<1>2. /\ Remaining(L, (A \ {id}) \cup R) = M
      /\ ~IsDependent(e[id]) /\ id \in Ids
      /\ KeyFree(f, e[id])
      /\ IsStage(e, A \ {id}, R)
      /\ \A i \in DOMAIN e : Bereft(e, L, (A \ {id}) \cup R, i) = Bereft(e, L, A \cup R, i)
  <2>1. ~IsDependent(e[id]) /\ id \in DOMAIN e /\ id \in Ids /\ IsLinks(L)
    BY DEF IsProper, IsStage, IsFit
  <2>2. \A kind \in Kinds, b \in Ids : <<b, id>> \notin L[kind]
    BY DEF IsProper
  <2>3. Remaining(L, (A \ {id}) \cup R) = Remaining(L, A \cup R)
    <3>1. \A kind \in Kinds, b, i \in Ids : <<b, i>> \in L[kind] => (i \in (A \ {id}) \cup R <=> i \in A \cup R)
      BY <2>2
    <3> QED BY <2>1, <3>1, SameLeft
  <2>4. KeyFree(Part(e, L, A, R, F), e[id])
    <3>1. IsPart(Part(e, L, A, R, F), e, L, A, R, F)
      BY PartIs
    <3> QED BY <2>1, <3>1 DEF IsPart, KeyFree, IsFit
  <2>5. IsStage(e, A \ {id}, R)
    BY <2>1 DEF IsStage
  <2>6. ASSUME NEW i \in DOMAIN e PROVE Bereft(e, L, (A \ {id}) \cup R, i) = Bereft(e, L, A \cup R, i)
    <3>1. \A kind \in Kinds : id \notin Targets(L, kind, i)
      <4>1. i \in Ids
        BY DEF IsFit
      <4> QED BY <2>2, <4>1 DEF Targets
    <3> QED BY <3>1 DEF Bereft
  <2> QED BY <2>1, <2>3, <2>4, <2>5, <2>6
<1>3. /\ DOMAIN f = DOMAIN e \ A /\ f = [i \in DOMAIN e \ A |-> f[i]]
      /\ DOMAIN h = DOMAIN e \ (A \ {id}) /\ h = [i \in DOMAIN e \ (A \ {id}) |-> h[i]]
  BY DEF Part
<1>4. id \in DOMAIN e /\ id \notin R
  BY DEF IsStage
<1>5. Put(f, id, Norm(x)) = h
  <2> DEFINE g == Put(f, id, Norm(x))
  <2>1. DOMAIN g = DOMAIN h /\ g = [i \in DOMAIN h |-> g[i]]
    BY <1>3, <1>4 DEF Put
  <2>2. ASSUME NEW i \in DOMAIN h PROVE g[i] = h[i]
    <3>1. CASE i = id
      <4>1. g[i] = e[i]
        BY <3>1 DEF Put
      <4>2. h[i] = e[i]
        <5>1. CASE x.type # "normal"
          BY <1>3, <1>4, <3>1, <5>1 DEF Part
        <5>2. CASE x.type = "normal"
          <6>1. \A kind \in Kinds : BaseType[kind] # "normal"
            BY DEF BaseType, Kinds
          <6>2. ~Bereft(e, L, (A \ {id}) \cup R, i)
            BY <1>1, <3>1, <5>2, <6>1 DEF Bereft
          <6> QED BY <1>3, <1>4, <3>1, <6>2 DEF Part
        <5> QED BY <5>1, <5>2
      <4> QED BY <4>1, <4>2
    <3>2. CASE i # id
      <4>1. g[i] = f[i] /\ i \in DOMAIN e \ A /\ i \in DOMAIN e \ (A \ {id})
        BY <1>3, <3>2 DEF Put
      <4>2. i \in F <=> i \in H
        BY <3>2
      <4> QED BY <1>2, <4>1, <4>2 DEF Part
    <3> QED BY <3>1, <3>2
  <2> HIDE DEF g, h
  <2>3. g = h
    BY <1>3, <2>1, <2>2, SamePart
  <2> QED BY <2>3 DEF g
<1>6. Sto(d, f, M) /\ id \in Ids \ DOMAIN f
  BY <1>2, <1>3 DEF AtPart
<1>7. KeyFree(f, x) /\ ~IsDependent(x)
  BY <1>1, <1>2 DEF KeyFree
<1> HIDE DEF f, M, h
<1>8. Sto(AddEntry(d, id, x), Put(f, id, Norm(x)), M)
  BY <1>6, <1>7, AddNormalArrives
<1> QED BY <1>2, <1>5, <1>8 DEF AtPart, h

(* A dependent is back, and its base a base again. *)
LEMMA PartRegainsDependent ==
  ASSUME NEW e, NEW L, IsFit(e, L), NEW A, NEW R, IsStage(e, A, R), NEW F,
         NEW d, AtPart(d, e, L, A, R, F), NEW id \in A, IsDependent(e[id]), e[id].base \notin A
  PROVE  /\ IsStage(e, A \ {id}, R)
         /\ AtPart(AddEntry(d, id, e[id]), e, L, A \ {id}, R, F)
<1> DEFINE b == e[id].base
           kind == e[id].type
           x == e[id]
           G == (A \ {id}) \cup R
           f == Part(e, L, A, R, F)
           h == Part(e, L, A \ {id}, R, F)
           M == Remaining(L, A \cup R)
           g == Entered(f, id, x)
<1>0. id \in DOMAIN e /\ id \notin R
  BY DEF IsStage
<1>1. /\ kind \in Kinds /\ id \in Ids /\ b \in DOMAIN e /\ b \in Ids /\ <<b, id>> \in L[kind] /\ b # id
      /\ ~IsDependent(e[b]) /\ ~e[id].expires /\ e[b].type = BaseType[kind] /\ IsLinks(L)
      /\ Norm(e[id]) = e[id] /\ IsEntry(e[b]) /\ IsEntry(e[id])
  BY <1>0, DependentIs DEF IsFit
<1>2. b \notin R
  BY <1>1 DEF IsStage, IsDependent, Kinds
<1>3. IsStage(e, A \ {id}, R)
  BY DEF IsStage
<1>4. /\ DOMAIN f = DOMAIN e \ A /\ f = [i \in DOMAIN e \ A |-> f[i]]
      /\ f[b] = e[b] \/ f[b] = [e[b] EXCEPT !.type = "normal"]
      /\ f[b].type \in {"normal", e[b].type}
      /\ KeyFree(f, x)
      /\ DOMAIN h = DOMAIN e \ (A \ {id}) /\ h = [i \in DOMAIN e \ (A \ {id}) |-> h[i]]
  <2>1. IsPart(f, e, L, A, R, F) /\ IsPart(h, e, L, A \ {id}, R, F)
    BY <1>3, PartIs
  <2> HIDE DEF f, h
  <2>2. KeyFree(f, x)
    BY <1>0, <2>1 DEF IsPart, KeyFree, IsFit
  <2> QED BY <1>1, <1>2, <2>1, <2>2 DEF IsPart
<1>5. /\ Tied(M, kind, b, id) = Remaining(L, G)
      /\ \A i \in DOMAIN e \ {b} : Bereft(e, L, A \cup R, i) = Bereft(e, L, G, i)
      /\ ~Bereft(e, L, G, b)
  <2>1. id \notin G /\ A \cup R = G \cup {id}
    BY <1>0
  <2> HIDE DEF G
  <2>2. /\ Tied(Remaining(L, G \cup {id}), e[id].type, e[id].base, id) = Remaining(L, G)
        /\ \A i \in DOMAIN e \ {e[id].base} : Bereft(e, L, G \cup {id}, i) = Bereft(e, L, G, i)
        /\ ~Bereft(e, L, G, e[id].base)
    BY <1>0, <2>1, OneMoreGone
  <2> QED BY <2>1, <2>2
<1>6. <<b, id>> \notin M[kind]
  BY <1>1, RemainingIs
<1>7. g = h
  <2>1. DOMAIN g = DOMAIN h /\ g = [i \in DOMAIN h |-> g[i]]
    BY <1>0, <1>4 DEF Entered, Retyped, Put
  <2>2. ASSUME NEW i \in DOMAIN h PROVE g[i] = h[i]
    <3>1. CASE i = id
      <4>1. g[i] = e[i]
        BY <3>1 DEF Entered, Put
      <4>2. h[i] = e[i]
        <5>1. \A k \in Kinds : e[i].type # BaseType[k]
          BY <3>1 DEF IsDependent, Kinds, BaseType
        <5> QED BY <1>0, <1>4, <3>1, <5>1 DEF Part, Bereft
      <4> QED BY <4>1, <4>2
    <3>2. CASE i = b
      <4>1. g[i] = [f[b] EXCEPT !.type = e[b].type]
        <5>1. b \in DOMAIN f
          BY <1>1, <1>4
        <5> HIDE DEF f
        <5> QED BY <1>1, <3>2, <5>1 DEF Entered, Put, Retyped
      <4>2. [f[b] EXCEPT !.type = e[b].type] = e[b]
        BY <1>1, <1>4 DEF IsEntry
      <4>3. h[i] = e[b]
        BY <1>1, <1>2, <1>4, <1>5, <3>2 DEF Part
      <4> QED BY <4>1, <4>2, <4>3
    <3>3. CASE i # id /\ i # b
      <4>1. g[i] = f[i] /\ i \in DOMAIN e \ A /\ i \in DOMAIN e \ (A \ {id})
        BY <1>4, <3>3 DEF Entered, Put, Retyped
      <4> QED BY <1>5, <3>3, <4>1 DEF Part
    <3> QED BY <3>1, <3>2, <3>3
  <2> HIDE DEF g, h
  <2> QED BY <1>4, <2>1, <2>2, SamePart
<1>8. Sto(d, f, M) /\ id \in Ids \ DOMAIN f /\ b \in DOMAIN f
  BY <1>1, <1>4 DEF AtPart
<1> HIDE DEF f, M, h, G
<1>9. Sto(AddEntry(d, id, x), g, Tied(M, kind, b, id))
  BY <1>1, <1>4, <1>6, <1>8, AddDependentArrives
<1> QED BY <1>3, <1>5, <1>7, <1>9 DEF AtPart, h, G

(* An alias that was reset goes, to be put back as an alias. *)
LEMMA PartLosesReset ==
  ASSUME NEW e, NEW L, IsFit(e, L), NEW A, NEW R, IsStage(e, A, R), NEW F,
         NEW d, AtPart(d, e, L, A, R, F), NEW id \in R
  PROVE  /\ IsStage(e, A \cup {id}, R \ {id})
         /\ AtPart(DeleteEntry(d, id, e[id]), e, L, A \cup {id}, R \ {id}, F)
<1> DEFINE f == Part(e, L, A, R, F)
           h == Part(e, L, A \cup {id}, R \ {id}, F)
           M == Remaining(L, A \cup R)
<1>1. /\ id \in DOMAIN e /\ id \notin A /\ e[id].type \in Kinds /\ IsDependent(e[id])
      /\ A \cup R = (A \cup {id}) \cup (R \ {id})
  BY DEF IsStage, IsDependent, Kinds
<1>2. IsStage(e, A \cup {id}, R \ {id})
  <2>1. \A i \in DOMAIN e : IsDependent(e[i]) => e[i].base # id
    BY <1>1, DependentIs
  <2> QED BY <1>1, <2>1 DEF IsStage
<1>3. /\ DOMAIN f = DOMAIN e \ A /\ f = [i \in DOMAIN e \ A |-> f[i]]
      /\ f[id].key = e[id].key
      /\ DOMAIN h = DOMAIN e \ (A \cup {id}) /\ h = [i \in DOMAIN e \ (A \cup {id}) |-> h[i]]
  <2>1. IsPart(f, e, L, A, R, F) /\ IsPart(h, e, L, A \cup {id}, R \ {id}, F)
    BY <1>2, PartIs
  <2> HIDE DEF f, h
  <2> QED BY <1>1, <2>1 DEF IsPart
<1>4. Drop(f, {id}) = h
  <2>1. DOMAIN Drop(f, {id}) = DOMAIN h /\ Drop(f, {id}) = [i \in DOMAIN h |-> Drop(f, {id})[i]]
    BY <1>3 DEF Drop
  <2>2. ASSUME NEW i \in DOMAIN h PROVE Drop(f, {id})[i] = h[i]
    <3>0. i \in DOMAIN e \ A /\ i # id /\ i \in DOMAIN e \ (A \cup {id})
      BY <1>3
    <3>1. Drop(f, {id})[i] = f[i]
      BY <1>3, <3>0 DEF Drop
    <3>2. Bereft(e, L, (A \cup {id}) \cup (R \ {id}), i) = Bereft(e, L, A \cup R, i)
      BY <1>1
    <3> QED BY <3>0, <3>1, <3>2 DEF Part
  <2> HIDE DEF f, h
  <2> QED BY <1>3, <2>1, <2>2, SamePart
<1>5. <<e[id].base, id>> \notin M[e[id].type]
  BY <1>1, RemainingIs
<1>6. Sto(d, f, M) /\ id \in DOMAIN f
  BY <1>1, <1>3 DEF AtPart
<1> HIDE DEF f, M, h
<1>7. Sto(DeleteEntry(d, id, e[id]), Drop(f, {id}), M)
  BY <1>1, <1>3, <1>5, <1>6, DeleteArrives
<1>8. M = Remaining(L, (A \cup {id}) \cup (R \ {id}))
  BY <1>1 DEF M
<1> QED BY <1>2, <1>4, <1>7, <1>8 DEF AtPart, h

(* A base is back, and the aliases that were reset are aliases again. *)
LEMMA PartRegainsAliasBase ==
  ASSUME NEW e, NEW L, IsFit(e, L), NEW A, NEW R, IsStage(e, A, R), NEW F, IsFiniteSet(Ids),
         NEW d, AtPart(d, e, L, A, R, F), NEW id \in A, IsProper(e, L, id),
         NEW x, IsEntry(x), Norm(x) = e[id], x.type = "aliasbase",
         NEW T, T = Targets(L, "alias", id), NEW deps, \A i \in T : deps[i] = e[i]
  PROVE  /\ IsStage(e, A \ {id}, R \ T)
         /\ AtPart(PutBack(AddEntry(d, id, x), deps, T \cap DOMAIN d.entries), e, L, A \ {id}, R \ T, F \cup {id})
<1> DEFINE B == A \ {id}
           H == F \cup {id}
           S == T \ A
           start == AddEntry(d, id, x)
           fold == PuttingBack(start, deps, S)
           Came == {s \in SUBSET S : IsStage(e, B, R \ s) /\ AtPart(fold[s], e, L, B, R \ s, H)}
<1>1. /\ id \in DOMAIN e /\ id \in Ids /\ "alias" \in Kinds
      /\ T \subseteq DOMAIN e \ {id} /\ \A i \in T : e[i].type = "alias" /\ e[i].base = id /\ IsDependent(e[i])
  <2>1. id \in DOMAIN e /\ id \in Ids
    BY DEF IsStage, IsFit
  <2> QED BY <2>1 DEF IsProper, IsFit, Targets, IsDependent, Kinds
<1>2. S \subseteq R /\ R \ S = R \ T
  BY <1>1 DEF IsStage
<1>3. T \cap DOMAIN d.entries = S
  <2>1. DOMAIN Part(e, L, A, R, F) = DOMAIN e \ A
    BY DEF Part
  <2>2. DOMAIN d.entries = DOMAIN e \ A
    BY <2>1, StoParts DEF AtPart
  <2> QED BY <1>1, <2>2
<1>4. IsFiniteSet(S)
  <2>1. S \subseteq Ids
    BY DEF Targets
  <2> QED BY <2>1, FS_Subset
<1>5. /\ fold[{}] = start /\ PutBack(start, deps, S) = fold[S]
      /\ \A s \in SUBSET S : s # {} =>
            \E i \in s : fold[s] = AddEntry(DeleteEntry(fold[s \ {i}], i, deps[i]), i, deps[i])
  <2> HIDE DEF S, start
  <2> QED BY <1>4, PuttingBackFolds
<1>6. IsStage(e, B, R) /\ AtPart(start, e, L, B, R, H)
  BY PartRegainsBase
<1> HIDE DEF fold, start, H
<1>7. ASSUME NEW s \in SUBSET S, \A i \in s : s \ {i} \in Came PROVE s \in Came
  <2>1. CASE s = {}
    <3>1. R \ s = R
      BY <2>1
    <3> QED BY <1>5, <1>6, <2>1, <3>1
  <2>2. CASE s # {}
    <3>1. PICK i \in s : fold[s] = AddEntry(DeleteEntry(fold[s \ {i}], i, deps[i]), i, deps[i])
      BY <1>5, <2>2
    <3> DEFINE Q == R \ (s \ {i})
               mid == DeleteEntry(fold[s \ {i}], i, e[i])
    <3>2. IsStage(e, B, Q) /\ AtPart(fold[s \ {i}], e, L, B, Q, H)
      BY <1>7
    <3>3. /\ i \in Q /\ deps[i] = e[i] /\ IsDependent(e[i]) /\ e[i].base \notin B \cup {i}
          /\ Q \ {i} = R \ s /\ (B \cup {i}) \ {i} = B
      BY <1>1, <1>2
    <3> HIDE DEF B, Q
    <3>4. IsStage(e, B \cup {i}, Q \ {i}) /\ AtPart(mid, e, L, B \cup {i}, Q \ {i}, H)
      BY <3>2, <3>3, PartLosesReset
    <3> HIDE DEF mid
    <3> DEFINE C == B \cup {i}
               P == Q \ {i}
    <3>5. i \in C /\ e[i].base \notin C
      BY <3>3
    <3>6. IsStage(e, C, P) /\ AtPart(mid, e, L, C, P, H)
      BY <3>4
    <3> HIDE DEF C, P
    <3>7. IsStage(e, C \ {i}, P) /\ AtPart(AddEntry(mid, i, e[i]), e, L, C \ {i}, P, H)
      BY <3>3, <3>5, <3>6, PartRegainsDependent
    <3>8. C \ {i} = B /\ P = R \ s /\ fold[s] = AddEntry(mid, i, e[i])
      BY <3>1, <3>3 DEF C, P, mid
    <3> QED BY <3>7, <3>8
  <2> QED BY <2>1, <2>2
<1>8. S \in Came
  <2> HIDE DEF Came
  <2> QED BY <1>4, <1>7, SubsetInduction
<1>9. IsStage(e, B, R \ S) /\ AtPart(PutBack(start, deps, S), e, L, B, R \ S, H)
  BY <1>5, <1>8
<1> QED BY <1>2, <1>3, <1>9 DEF start, H

(* A base is back with its shortcuts. *)
LEMMA PartRegainsShortcutBase ==
  ASSUME NEW e, NEW L, IsFit(e, L), NEW A, NEW R, IsStage(e, A, R), NEW F, IsFiniteSet(Ids),
         NEW d, AtPart(d, e, L, A, R, F), NEW id \in A, IsProper(e, L, id),
         NEW x, IsEntry(x), Norm(x) = e[id], x.type = "shortcutbase",
         NEW deps, DOMAIN deps = Targets(L, "shortcut", id), \A i \in DOMAIN deps : deps[i] = e[i]
  PROVE  /\ IsStage(e, (A \ {id}) \ Targets(L, "shortcut", id), R)
         /\ AtPart(AddBack(AddEntry(d, id, x), deps), e, L, (A \ {id}) \ Targets(L, "shortcut", id), R, F \cup {id})
<1> DEFINE B == A \ {id}
           H == F \cup {id}
           T == DOMAIN deps
           start == AddEntry(d, id, x)
           fold == AddingBack(start, deps, T)
           Came == {s \in SUBSET T : IsStage(e, B \ s, R) /\ AtPart(fold[s], e, L, B \ s, R, H)}
<1>1. /\ id \in DOMAIN e /\ id \in Ids /\ "shortcut" \in Kinds
      /\ T \subseteq DOMAIN e \ {id} /\ \A i \in T : e[i].type = "shortcut" /\ e[i].base = id /\ IsDependent(e[i])
  <2>1. id \in DOMAIN e /\ id \in Ids
    BY DEF IsStage, IsFit
  <2> QED BY <2>1 DEF IsProper, IsFit, Targets, IsDependent, Kinds
<1>2. T \subseteq B
  BY <1>1 DEF IsStage
<1>4. IsFiniteSet(T)
  <2>1. T \subseteq Ids
    BY DEF Targets
  <2> QED BY <2>1, FS_Subset
<1>5. /\ fold[{}] = start /\ AddBack(start, deps) = fold[T]
      /\ \A s \in SUBSET T : s # {} => \E i \in s : fold[s] = AddEntry(fold[s \ {i}], i, deps[i])
  <2> HIDE DEF start
  <2> QED BY <1>4, AddingBackFolds
<1>6. IsStage(e, B, R) /\ AtPart(start, e, L, B, R, H)
  BY PartRegainsBase
<1> HIDE DEF fold, start, H
<1>7. ASSUME NEW s \in SUBSET T, \A i \in s : s \ {i} \in Came PROVE s \in Came
  <2>1. CASE s = {}
    <3>1. B \ s = B
      BY <2>1
    <3> QED BY <1>5, <1>6, <2>1, <3>1
  <2>2. CASE s # {}
    <3>1. PICK i \in s : fold[s] = AddEntry(fold[s \ {i}], i, deps[i])
      BY <1>5, <2>2
    <3> DEFINE C == B \ (s \ {i})
    <3>2. IsStage(e, C, R) /\ AtPart(fold[s \ {i}], e, L, C, R, H)
      BY <1>7
    <3>3. i \in C /\ deps[i] = e[i] /\ IsDependent(e[i]) /\ e[i].base \notin C /\ C \ {i} = B \ s
      BY <1>1, <1>2
    <3> HIDE DEF B, C
    <3>4. IsStage(e, C \ {i}, R) /\ AtPart(AddEntry(fold[s \ {i}], i, e[i]), e, L, C \ {i}, R, H)
      BY <3>2, <3>3, PartRegainsDependent
    <3> QED BY <3>1, <3>3, <3>4
  <2> QED BY <2>1, <2>2
<1>8. T \in Came
  <2> HIDE DEF Came
  <2> QED BY <1>4, <1>7, SubsetInduction
<1>9. IsStage(e, B \ T, R) /\ AtPart(AddBack(start, deps), e, L, B \ T, R, H)
  BY <1>5, <1>8
<1> QED BY <1>9 DEF start, H

-----------------------------------------------------------------------------
(* The command that deletes the entry id of e, executed and undone. *)

IsDelete(c, e, L, id) ==
    /\ "done" \in DOMAIN c /\ c.op = "delete" /\ c.id = id
    /\ IsEntry(c.entry) /\ Norm(c.entry) = e[id]
    /\ \A kind \in Kinds : e[id].type = BaseType[kind] =>
          DOMAIN c.deps = Targets(L, kind, id) /\ \A i \in DOMAIN c.deps : c.deps[i] = e[i]

WithShortcuts(e, L, id) == {id} \cup IF e[id].type = "shortcutbase" THEN Targets(L, "shortcut", id) ELSE {}

AliasesWith(e, L, id) == IF e[id].type = "aliasbase" THEN Targets(L, "alias", id) ELSE {}

ForcedWith(e, id) == IF e[id].type = "normal" \/ IsDependent(e[id]) THEN {} ELSE {id}

LEMMA DeleteRuns ==
  ASSUME NEW e, NEW L, IsFit(e, L), IsFiniteSet(Ids), NEW A, NEW R, IsStage(e, A, R),
         NEW id \in DOMAIN e \ (A \cup R), IsDependent(e[id]) \/ IsProper(e, L, id),
         NEW c, IsDelete(c, e, L, id), NEW d, AtPart(d, e, L, A, R, {})
  PROVE  LET B == A \cup WithShortcuts(e, L, id)
             S == R \cup (AliasesWith(e, L, id) \ A)
         IN  IsStage(e, B, S) /\ AtPart(Execute1(d, c), e, L, B, S, {}) /\ Executed1(d, c).done
<1> DEFINE x == c.entry
           B == A \cup WithShortcuts(e, L, id)
           S == R \cup (AliasesWith(e, L, id) \ A)
           r == DeleteEntry(d, id, x)
<1>1. Execute1(d, c) = r
  BY DEF Execute1, IsDelete
<1>2. Executed1(d, c).done
  <2>1. DOMAIN Part(e, L, A, R, {}) = DOMAIN e \ A
    BY DEF Part
  <2>2. c.id \in DOMAIN d.entries
    BY <2>1, StoParts DEF AtPart, IsDelete
  <2> QED BY <2>2 DEF Executed1, IsDelete
<1>3. IsEntry(x) /\ Norm(x) = e[id] /\ x.type = e[id].type /\ (IsDependent(x) <=> IsDependent(e[id]))
  <2>1. IsEntry(x) /\ Norm(x) = e[id]
    BY DEF IsDelete
  <2> QED BY <2>1, NormIs
<1>4. x.type \in Types
  BY <1>3 DEF IsEntry
<1>5. CASE IsDependent(e[id])
  <2>1. x = e[id] /\ WithShortcuts(e, L, id) = {id} /\ AliasesWith(e, L, id) = {}
    BY <1>3, <1>5, NormIs DEF IsDependent, Kinds, WithShortcuts, AliasesWith
  <2>2. B = A \cup {id} /\ S = R
    BY <2>1
  <2> HIDE DEF B, S
  <2>3. IsStage(e, B, S) /\ AtPart(r, e, L, B, S, {})
    BY <1>5, <2>1, <2>2, PartLosesDependent
  <2> QED BY <1>1, <1>2, <2>3 DEF B, S
<1>6. CASE ~IsDependent(e[id])
  <2>1. IsProper(e, L, id)
    BY <1>6
  <2>2. CASE x.type = "normal"
    <3>1. B = A \cup {id} /\ S = R
      BY <1>3, <2>2 DEF WithShortcuts, AliasesWith
    <3> HIDE DEF B, S, x
    <3>2. IsStage(e, B, S) /\ AtPart(r, e, L, B, S, {})
      BY <1>3, <2>1, <2>2, <3>1, PartLosesNormal
    <3> QED BY <1>1, <1>2, <3>2 DEF B, S
  <2>3. CASE x.type = "aliasbase"
    <3>1. B = A \cup {id} /\ S = R \cup (Targets(L, "alias", id) \ A)
      BY <1>3, <2>3 DEF WithShortcuts, AliasesWith
    <3> HIDE DEF B, S, x
    <3>2. IsStage(e, B, S) /\ AtPart(r, e, L, B, S, {})
      BY <1>3, <2>1, <2>3, <3>1, PartLosesAliasBase
    <3> QED BY <1>1, <1>2, <3>2 DEF B, S
  <2>4. CASE x.type = "shortcutbase"
    <3>1. B = A \cup Targets(L, "shortcut", id) \cup {id} /\ S = R
      BY <1>3, <2>4 DEF WithShortcuts, AliasesWith
    <3> HIDE DEF B, S, x
    <3>2. IsStage(e, B, S) /\ AtPart(r, e, L, B, S, {})
      BY <1>3, <2>1, <2>4, <3>1, PartLosesShortcutBase
    <3> QED BY <1>1, <1>2, <3>2 DEF B, S
  <2> QED BY <1>3, <1>4, <1>6, <2>2, <2>3, <2>4 DEF Types, IsDependent, Kinds
<1> QED BY <1>5, <1>6

LEMMA DeleteUnruns ==
  ASSUME NEW e, NEW L, IsFit(e, L), IsFiniteSet(Ids), NEW A, NEW R, IsStage(e, A, R), NEW F,
         NEW id \in DOMAIN e \ R,
         \/ IsDependent(e[id]) /\ (id \in A => e[id].base \notin A)
         \/ IsProper(e, L, id) /\ id \in A,
         NEW c, IsDelete(c, e, L, id), c.done, NEW d, AtPart(d, e, L, A, R, F)
  PROVE  LET B == A \ WithShortcuts(e, L, id)
             S == R \ AliasesWith(e, L, id)
         IN  IsStage(e, B, S) /\ AtPart(Undo1(d, c), e, L, B, S, F \cup ForcedWith(e, id))
<1> DEFINE x == c.entry
           B == A \ WithShortcuts(e, L, id)
           S == R \ AliasesWith(e, L, id)
           H == F \cup ForcedWith(e, id)
           r == UndoDelete(d, c)
           added == AddEntry(d, id, x)
<1>1. Undo1(d, c) = r /\ c.id = id
  BY DEF Undo1, IsDelete
<1>2. DOMAIN d.entries = DOMAIN e \ A
  <2>1. DOMAIN Part(e, L, A, R, F) = DOMAIN e \ A
    BY DEF Part
  <2> QED BY <2>1, StoParts DEF AtPart
<1>3. IsEntry(x) /\ Norm(x) = e[id] /\ x.type = e[id].type /\ (IsDependent(x) <=> IsDependent(e[id]))
  <2>1. IsEntry(x) /\ Norm(x) = e[id]
    BY DEF IsDelete
  <2> QED BY <2>1, NormIs
<1>4. x.type \in Types
  BY <1>3 DEF IsEntry
<1>5. CASE IsDependent(e[id])
  <2>1. x = e[id] /\ WithShortcuts(e, L, id) = {id} /\ AliasesWith(e, L, id) = {} /\ ForcedWith(e, id) = {}
    BY <1>3, <1>5, NormIs DEF IsDependent, Kinds, WithShortcuts, AliasesWith, ForcedWith
  <2>2. B = A \ {id} /\ S = R /\ H = F
    BY <2>1
  <2> HIDE DEF B, S, H
  <2>3. CASE id \notin A
    <3>1. r = d
      BY <1>1, <1>2, <1>3, <1>5, <2>3 DEF UndoDelete
    <3>2. B = A
      BY <2>2, <2>3
    <3> QED BY <1>1, <2>2, <3>1, <3>2 DEF B, S, H
  <2>4. CASE id \in A
    <3>1. r = AddEntry(d, id, e[id])
      BY <1>1, <1>2, <1>3, <1>5, <2>1, <2>4 DEF UndoDelete
    <3>2. e[id].base \notin A
      BY <1>5, <2>4 DEF IsProper
    <3>3. IsStage(e, B, S) /\ AtPart(r, e, L, B, S, H)
      BY <1>5, <2>2, <2>4, <3>1, <3>2, PartRegainsDependent
    <3> QED BY <1>1, <3>3 DEF B, S, H
  <2> QED BY <2>3, <2>4
<1>6. CASE ~IsDependent(e[id])
  <2>1. IsProper(e, L, id) /\ id \in A /\ ~IsDependent(c.entry)
    BY <1>3, <1>6
  <2>2. CASE x.type = "normal"
    <3>1. B = A \ {id} /\ S = R /\ H = F
      BY <1>3, <2>2 DEF WithShortcuts, AliasesWith, ForcedWith
    <3>2. r = added
      BY <1>1, <2>1, <2>2 DEF UndoDelete
    <3> HIDE DEF B, S, H, x
    <3>3. IsStage(e, B, S) /\ AtPart(added, e, L, B, S, H)
      BY <1>3, <2>1, <2>2, <3>1, PartRegainsBase
    <3> QED BY <1>1, <3>2, <3>3 DEF B, S, H
  <2>3. CASE x.type = "aliasbase"
    <3> DEFINE T == Targets(L, "alias", id)
               s == PutBack(added, c.deps, T \cap DOMAIN d.entries)
    <3>1. B = A \ {id} /\ S = R \ T /\ H = F \cup {id}
      BY <1>3, <1>6, <2>3 DEF WithShortcuts, AliasesWith, ForcedWith
    <3>2. DOMAIN c.deps = T /\ \A i \in T : c.deps[i] = e[i]
      BY <1>3, <2>3 DEF IsDelete, Kinds, BaseType
    <3>3. r = s
      BY <1>1, <2>1, <2>3, <3>2 DEF UndoDelete
    <3> HIDE DEF B, S, H, x
    <3>4. IsStage(e, B, S) /\ AtPart(s, e, L, B, S, H)
      BY <1>3, <2>1, <2>3, <3>1, <3>2, PartRegainsAliasBase
    <3> HIDE DEF s
    <3> QED BY <1>1, <3>3, <3>4 DEF B, S, H
  <2>4. CASE x.type = "shortcutbase"
    <3> DEFINE s == AddBack(added, c.deps)
    <3>1. B = (A \ {id}) \ Targets(L, "shortcut", id) /\ S = R /\ H = F \cup {id}
      BY <1>3, <1>6, <2>4 DEF WithShortcuts, AliasesWith, ForcedWith
    <3>2. DOMAIN c.deps = Targets(L, "shortcut", id) /\ \A i \in DOMAIN c.deps : c.deps[i] = e[i]
      BY <1>3, <2>4 DEF IsDelete, Kinds, BaseType
    <3>3. r = s
      BY <1>1, <2>1, <2>4 DEF UndoDelete
    <3> HIDE DEF B, S, H, x
    <3>4. IsStage(e, B, S) /\ AtPart(s, e, L, B, S, H)
      BY <1>3, <2>1, <2>4, <3>1, <3>2, PartRegainsShortcutBase
    <3> HIDE DEF s
    <3> QED BY <1>1, <3>3, <3>4 DEF B, S, H
  <2> QED BY <1>3, <1>4, <1>6, <2>2, <2>3, <2>4 DEF Types, IsDependent, Kinds
<1> QED BY <1>5, <1>6

-----------------------------------------------------------------------------
(* Lists of commands. *)

Links(p) == [kind \in Kinds |-> LinksOf(p, kind)]

(* The database has the entries p and all that goes with them. *)
At(d, p) == Sto(d, p, Links(p))

In(d, s) == Sto(d, s[1], s[2])

Stage(p) == <<p, Links(p)>>

(* Commands that differ in what an execution notes in them. *)
Alike(c, b) == DOMAIN c = DOMAIN b /\ \A f \in DOMAIN b \ {"done", "saved"} : c[f] = b[f]

AllAlike(list, other) ==
    /\ Len(list) = Len(other)
    /\ \A k \in 1 .. Len(other) : Alike(list[k], other[k])

Returns(list, p, q) == \A d : At(d, q) => At(UndoAll(list, d), p)

(* The list leads from p to q, and the undo back to p, the first time and   *)
(* every other.                                                             *)
Leads(list, p, q) ==
    \A l, d : AllAlike(l, list) /\ At(d, p) =>
        At(ExecuteAll(l, d).db, q) /\ Returns(ExecuteAll(l, d).did, p, q)

LEMMA ExecutedAlike ==
  ASSUME NEW d, NEW c, NEW b, Alike(c, b)
  PROVE  Alike(Executed1(d, c), b)
  BY DEF Alike, Executed1

LEMMA DidAlike ==
  ASSUME NEW list, NEW other, Len(other) \in Nat, AllAlike(list, other), NEW d
  PROVE  AllAlike(ExecuteAll(list, d).did, other)
<1>1. Len(list) \in Nat /\ Len(list) = Len(other) /\ \A k \in 1 .. Len(other) : Alike(list[k], other[k])
  BY DEF AllAlike
<1>2. /\ Len(ExecuteAll(list, d).did) = Len(list)
      /\ \A k \in 1 .. Len(list) : ExecuteAll(list, d).did[k] = Executed1(Ran(list, d)[k - 1], list[k])
  BY <1>1, ExecuteRuns
<1>3. ASSUME NEW k \in 1 .. Len(other) PROVE Alike(ExecuteAll(list, d).did[k], other[k])
  BY <1>1, <1>2, ExecutedAlike
<1> QED BY <1>1, <1>2, <1>3 DEF AllAlike

(* The command leads from s to s2, and its undo from t2 to t. *)
Does(command, s, s2, t, t2) ==
    \A c, d : Alike(c, command) /\ In(d, s) =>
        In(Execute1(d, c), s2) /\ \A b : In(b, t2) => In(Undo1(b, Executed1(d, c)), t)

LEMMA StagesLead ==
  ASSUME NEW list, NEW n \in Nat, Len(list) = n, NEW p, NEW q, NEW S, NEW T,
         S[0] = Stage(p), T[0] = Stage(p), S[n] = Stage(q), T[n] = Stage(q),
         \A k \in 1 .. n : Does(list[k], S[k - 1], S[k], T[k - 1], T[k])
  PROVE  Leads(list, p, q)
<1> SUFFICES ASSUME NEW l, NEW d, AllAlike(l, list), At(d, p)
             PROVE  At(ExecuteAll(l, d).db, q) /\ Returns(ExecuteAll(l, d).did, p, q)
  BY DEF Leads
<1> DEFINE run == Ran(l, d)
           did == ExecuteAll(l, d).did
<1>1. Len(l) = n /\ \A k \in 1 .. n : Alike(l[k], list[k])
  BY DEF AllAlike
<1>2. /\ run[0] = d /\ \A k \in 1 .. n : run[k] = Execute1(run[k - 1], l[k])
      /\ ExecuteAll(l, d).db = run[n] /\ Len(did) = n
      /\ \A k \in 1 .. n : did[k] = Executed1(run[k - 1], l[k])
  <2>1. Len(l) \in Nat
    BY <1>1
  <2>2. /\ Ran(l, d)[0] = d
        /\ \A k \in 1 .. Len(l) : Ran(l, d)[k] = Execute1(Ran(l, d)[k - 1], l[k])
        /\ ExecuteAll(l, d).db = Ran(l, d)[Len(l)]
        /\ Len(ExecuteAll(l, d).did) = Len(l)
        /\ \A k \in 1 .. Len(l) : ExecuteAll(l, d).did[k] = Executed1(Ran(l, d)[k - 1], l[k])
    BY <2>1, ExecuteRuns
  <2> QED BY <1>1, <2>2
<1>3. \A x, e : In(x, Stage(e)) <=> At(x, e)
  BY DEF In, At, Stage
<1>0. \A k \in 1 .. n : \A c, x : Alike(c, list[k]) /\ In(x, S[k - 1]) =>
         In(Execute1(x, c), S[k]) /\ \A b : In(b, T[k]) => In(Undo1(b, Executed1(x, c)), T[k - 1])
  BY DEF Does
<1> HIDE DEF run, did
<1> DEFINE Reached == {k \in Nat : k <= n => In(run[k], S[k])}
<1>4. Nat \subseteq Reached
  <2>1. 0 \in Reached
    BY <1>2, <1>3
  <2>2. ASSUME NEW k \in Nat, k \in Reached PROVE k + 1 \in Reached
    <3>1. CASE k + 1 <= n
      <4>1. k + 1 \in 1 .. n /\ (k + 1) - 1 = k
        BY <3>1
      <4>2. run[k + 1] = Execute1(run[k], l[k + 1]) /\ Alike(l[k + 1], list[k + 1])
        BY <1>1, <1>2, <4>1
      <4>3. In(run[k], S[k])
        BY <2>2, <3>1
      <4> QED BY <1>0, <4>1, <4>2, <4>3
    <3> QED BY <3>1
  <2> HIDE DEF Reached
  <2> QED BY <2>1, <2>2, SetInduction
<1>5. At(ExecuteAll(l, d).db, q)
  BY <1>2, <1>3, <1>4
<1>6. ASSUME NEW k \in 1 .. n, NEW b, In(b, T[k]) PROVE In(Undo1(b, did[k]), T[k - 1])
  <2>1. k - 1 \in Nat /\ k - 1 <= n
    OBVIOUS
  <2>2. In(run[k - 1], S[k - 1])
    BY <1>4, <2>1
  <2> QED BY <1>0, <1>1, <1>2, <1>6, <2>2
<1>7. ASSUME NEW z, At(z, q) PROVE At(UndoAll(did, z), p)
  <2> DEFINE back == Unran(did, z)
             Undone == {k \in Nat : k <= n => In(back[k], T[n - k])}
  <2>1. /\ back[0] = z /\ \A k \in 1 .. n : back[k] = Undo1(back[k - 1], Reverse(did)[k])
        /\ UndoAll(did, z) = back[n]
    BY <1>2, UndoRuns
  <2> HIDE DEF back
  <2>2. Nat \subseteq Undone
    <3>1. 0 \in Undone
      BY <1>3, <1>7, <2>1
    <3>2. ASSUME NEW k \in Nat, k \in Undone PROVE k + 1 \in Undone
      <4>1. CASE k + 1 <= n
        <5> DEFINE j == n - k
        <5>1. k + 1 \in 1 .. n /\ (k + 1) - 1 = k /\ j \in 1 .. n /\ (k + 1) + j = n + 1 /\ n - (k + 1) = j - 1
          BY <4>1
        <5>2. In(back[k], T[j])
          BY <3>2, <4>1
        <5>3. Reverse(did)[k + 1] = did[j]
          <6>1. Len(did) \in Nat /\ k + 1 \in 1 .. Len(did) /\ j \in 1 .. Len(did) /\ (k + 1) + j = Len(did) + 1
            BY <1>2, <5>1
          <6> DEFINE i == k + 1
          <6> HIDE DEF i, j
          <6>2. Reverse(did)[i] = did[j]
            BY <6>1, ReversedIs DEF i
          <6> QED BY <6>2 DEF i
        <5> HIDE DEF j
        <5>4. back[k + 1] = Undo1(back[k], did[j])
          BY <2>1, <5>1, <5>3
        <5>5. In(back[k + 1], T[j - 1])
          BY <1>6, <5>1, <5>2, <5>4
        <5> QED BY <5>1, <5>5
      <4> QED BY <4>1
    <3> HIDE DEF Undone
    <3> QED BY <3>1, <3>2, SetInduction
  <2>3. In(back[n], T[0])
    BY <2>2
  <2> QED BY <1>3, <2>1, <2>3
<1> QED BY <1>5, <1>7 DEF Returns, did

(* Each command, executed and undone. *)

LEMMA CutTied ==
  ASSUME NEW L, IsLinks(L), NEW kind \in Kinds, NEW base \in Ids, NEW id \in Ids
  PROVE  /\ <<base, id>> \notin L[kind] => Cut(Tied(L, kind, base, id), kind, base, id) = L
         /\ <<base, id>> \in L[kind] => Tied(Cut(L, kind, base, id), kind, base, id) = L
<1> DEFINE M == Tied(L, kind, base, id)
           N == Cut(L, kind, base, id)
<1>1. IsLinks(M) /\ IsLinks(N)
  BY CutLinks
<1> HIDE DEF M, N
<1>2. CASE <<base, id>> \notin L[kind]
  <2>1. IsLinks(Cut(M, kind, base, id))
    BY <1>1, CutLinks
  <2>2. ASSUME NEW k \in Kinds, NEW b \in Ids, NEW i \in Ids
        PROVE  <<b, i>> \in Cut(M, kind, base, id)[k] <=> <<b, i>> \in L[k]
    <3>1. <<b, i>> \in Cut(M, kind, base, id)[k] <=> <<b, i>> \in M[k] /\ ~(k = kind /\ b = base /\ i = id)
      <4>1. IsLinks(M)
        BY <1>1
      <4> QED BY <4>1, CutIs
    <3>2. <<b, i>> \in M[k] <=> <<b, i>> \in L[k] \/ (k = kind /\ b = base /\ i = id)
      BY CutIs DEF M
    <3> QED BY <1>2, <3>1, <3>2
  <2>3. Cut(M, kind, base, id) = L
    BY <2>1, <2>2, SameLinks
  <2> QED BY <1>2, <2>3 DEF M
<1>3. CASE <<base, id>> \in L[kind]
  <2>1. IsLinks(Tied(N, kind, base, id))
    BY <1>1, CutLinks
  <2>2. ASSUME NEW k \in Kinds, NEW b \in Ids, NEW i \in Ids
        PROVE  <<b, i>> \in Tied(N, kind, base, id)[k] <=> <<b, i>> \in L[k]
    <3>1. <<b, i>> \in Tied(N, kind, base, id)[k] <=> <<b, i>> \in N[k] \/ (k = kind /\ b = base /\ i = id)
      BY <1>1, CutIs
    <3>2. <<b, i>> \in N[k] <=> <<b, i>> \in L[k] /\ ~(k = kind /\ b = base /\ i = id)
      BY CutIs DEF N
    <3> QED BY <1>3, <3>1, <3>2
  <2>3. Tied(N, kind, base, id) = L
    BY <2>1, <2>2, SameLinks
  <2> QED BY <1>3, <2>3 DEF N
<1> QED BY <1>2, <1>3

LEMMA AddNormalDoes ==
  ASSUME NEW e, NEW L, NEW id \in Ids \ DOMAIN e, NEW x, IsEntry(x), x.type = "normal", KeyFree(e, x),
         e = [i \in DOMAIN e |-> e[i]]
  PROVE  Does(AddCommand(id, x), <<e, L>>, <<Put(e, id, Norm(x)), L>>, <<e, L>>, <<Put(e, id, Norm(x)), L>>)
<1> DEFINE f == Put(e, id, Norm(x))
<1> SUFFICES ASSUME NEW c, NEW d, Alike(c, AddCommand(id, x)), In(d, <<e, L>>)
             PROVE  In(Execute1(d, c), <<f, L>>) /\ \A b : In(b, <<f, L>>) => In(Undo1(b, Executed1(d, c)), <<e, L>>)
  BY DEF Does
<1>1. c.op = "add" /\ c.id = id /\ c.entry = x
  BY DEF Alike, AddCommand
<1>2. Execute1(d, c) = AddEntry(d, id, x) /\ Executed1(d, c) = c
  BY <1>1 DEF Execute1, Executed1
<1>3. ~IsDependent(x)
  BY DEF IsDependent, Kinds
<1>4. Sto(AddEntry(d, id, x), f, L)
  BY <1>3, AddNormalArrives DEF In
<1>5. ASSUME NEW b, In(b, <<f, L>>) PROVE In(Undo1(b, c), <<e, L>>)
  <2>1. Undo1(b, c) = DeleteEntry(b, id, x)
    BY <1>1, <1>3 DEF Undo1, UndoAdd
  <2>2. id \in DOMAIN f /\ x.key = f[id].key
    <3>1. f[id] = Norm(x) /\ DOMAIN f = DOMAIN e \cup {id}
      BY DEF Put
    <3> QED BY <3>1, NormIs
  <2>3. Sto(b, f, L)
    BY <1>5 DEF In
  <2>4. Drop(f, {id}) = e
    BY DEF Drop, Put
  <2> HIDE DEF f
  <2>5. Sto(DeleteEntry(b, id, x), Drop(f, {id}), L)
    BY <2>2, <2>3, DeleteArrives
  <2> QED BY <2>1, <2>4, <2>5 DEF In
<1> QED BY <1>2, <1>4, <1>5 DEF In

LEMMA EnteredIs ==
  ASSUME NEW e, NEW L, IsLinks(L), NEW id \in Ids \ DOMAIN e, NEW x, IsEntry(x), IsDependent(x),
         x.base \in DOMAIN e, e = [i \in DOMAIN e |-> e[i]], DOMAIN e \subseteq Ids,
         IsEntry(e[x.base]),
         e[x.base].type = IF Targets(L, x.type, x.base) = {} THEN "normal" ELSE BaseType[x.type],
         <<x.base, id>> \notin L[x.type]
  PROVE  LET f == Entered(e, id, x)
             M == Tied(L, x.type, x.base, id)
         IN  /\ Drop(Released(f, M, x.base, id, x.type), {id}) = e
             /\ Cut(M, x.type, x.base, id) = L
             /\ id \in DOMAIN f /\ f[id] = x /\ x.base \in DOMAIN f /\ x.base # id
             /\ f[x.base].type = BaseType[x.type] /\ <<x.base, id>> \in M[x.type]
<1> DEFINE kind == x.type
           base == x.base
           f == Entered(e, id, x)
           M == Tied(L, kind, base, id)
           g == Retyped(e, base, BaseType[kind])
<1>1. kind \in Kinds /\ base \in Ids /\ base # id
  BY DEF IsDependent
<1>2. Cut(M, kind, base, id) = L
  BY <1>1, CutTied
<1>3. <<base, id>> \in M[kind] /\ Targets(M, kind, base) \ {id} = Targets(L, kind, base)
  <2>1. M[kind] = L[kind] \cup {<<base, id>>}
    BY <1>1 DEF Tied, IsLinks
  <2>2. id \notin Targets(L, kind, base)
    BY DEF Targets
  <2> HIDE DEF M
  <2> QED BY <2>1, <2>2 DEF Targets
<1>4. DOMAIN f = DOMAIN e \cup {id} /\ f[id] = x
  BY DEF Entered, Put, Retyped
<1>5. \A i \in DOMAIN e : f[i] = IF i = base THEN [e[i] EXCEPT !.type = BaseType[kind]] ELSE e[i]
  BY DEF Entered, Put, Retyped
<1>6. f[base].type = BaseType[kind]
  BY <1>5 DEF IsEntry
<1>7. Drop(Released(f, M, base, id, kind), {id}) = e
  <2> DEFINE h == Drop(Released(f, M, base, id, kind), {id})
  <2>1. CASE Targets(L, kind, base) = {}
    <3>1. Released(f, M, base, id, kind) = Retyped(f, base, "normal")
      BY <1>3, <2>1 DEF Released
    <3>2. e[base].type = "normal"
      BY <2>1
    <3>3. f[base] = [e[base] EXCEPT !.type = BaseType[kind]]
      BY <1>5
    <3>4. e[base] = [[e[base] EXCEPT !.type = BaseType[kind]] EXCEPT !.type = "normal"]
      BY <3>2 DEF IsEntry
    <3> HIDE DEF f, M, kind, base
    <3>5. DOMAIN Retyped(f, base, "normal") = DOMAIN f
      BY DEF Retyped
    <3>6. \A i \in DOMAIN f : Retyped(f, base, "normal")[i] = IF i = base THEN [f[i] EXCEPT !.type = "normal"] ELSE f[i]
      BY DEF Retyped
    <3>7. DOMAIN h = DOMAIN e /\ h = [i \in DOMAIN e |-> h[i]]
      BY <1>4, <3>1, <3>5 DEF Drop
    <3>8. ASSUME NEW i \in DOMAIN e PROVE h[i] = e[i]
      <4>1. h[i] = IF i = base THEN [f[i] EXCEPT !.type = "normal"] ELSE f[i]
        BY <1>4, <3>1, <3>5, <3>6 DEF Drop
      <4> HIDE DEF h
      <4> QED BY <1>5, <3>3, <3>4, <4>1
    <3> HIDE DEF h
    <3>9. h = e
      BY <3>7, <3>8
    <3> QED BY <3>9 DEF h
  <2>2. CASE Targets(L, kind, base) # {}
    <3>1. Released(f, M, base, id, kind) = f
      BY <1>3, <2>2 DEF Released
    <3>2. e[base].type = BaseType[kind]
      BY <2>2
    <3>3. [e[base] EXCEPT !.type = BaseType[kind]] = e[base]
      BY <3>2 DEF IsEntry
    <3> HIDE DEF f, M, kind, base
    <3>4. Drop(f, {id}) = [i \in DOMAIN e |-> e[i]]
      BY <1>4, <1>5, <3>3 DEF Drop
    <3> QED BY <3>1, <3>4
  <2> QED BY <2>1, <2>2
<1> QED BY <1>1, <1>2, <1>3, <1>4, <1>6, <1>7

LEMMA AddDependentDoes ==
  ASSUME NEW e, NEW L, NEW id \in Ids \ DOMAIN e, NEW x, IsEntry(x), IsDependent(x), KeyFree(e, x),
         x.base \in DOMAIN e,
         e[x.base].type = IF Targets(L, x.type, x.base) = {} THEN "normal" ELSE BaseType[x.type],
         <<x.base, id>> \notin L[x.type]
  PROVE  LET s == <<Entered(e, id, x), Tied(L, x.type, x.base, id)>>
         IN  Does(AddCommand(id, x), <<e, L>>, s, <<e, L>>, s)
<1> DEFINE f == Entered(e, id, x)
           M == Tied(L, x.type, x.base, id)
<1> SUFFICES ASSUME NEW c, NEW d, Alike(c, AddCommand(id, x)), In(d, <<e, L>>)
             PROVE  In(Execute1(d, c), <<f, M>>) /\ \A b : In(b, <<f, M>>) => In(Undo1(b, Executed1(d, c)), <<e, L>>)
  BY DEF Does
<1>1. c.op = "add" /\ c.id = id /\ c.entry = x
  BY DEF Alike, AddCommand
<1>2. Execute1(d, c) = AddEntry(d, id, x) /\ Executed1(d, c) = c
  BY <1>1 DEF Execute1, Executed1
<1>3. Sto(d, e, L)
  BY DEF In
<1>4. Sto(AddEntry(d, id, x), f, M)
  <2>1. e[x.base].type \in {"normal", BaseType[x.type]}
    OBVIOUS
  <2> QED BY <1>3, <2>1, AddDependentArrives
<1>5. /\ IsLinks(L) /\ e = [i \in DOMAIN e |-> e[i]] /\ DOMAIN e \subseteq Ids /\ IsEntry(e[x.base])
  BY <1>3, StoParts
<1>6. /\ Drop(Released(f, M, x.base, id, x.type), {id}) = e
      /\ Cut(M, x.type, x.base, id) = L
      /\ id \in DOMAIN f /\ f[id] = x /\ x.base \in DOMAIN f /\ x.base # id
      /\ f[x.base].type = BaseType[x.type] /\ <<x.base, id>> \in M[x.type]
  BY <1>5, EnteredIs
<1> HIDE DEF f, M
<1>7. ASSUME NEW b, In(b, <<f, M>>) PROVE In(Undo1(b, c), <<e, L>>)
  <2>1. Undo1(b, c) = UndoAdd(b, id, x)
    BY <1>1 DEF Undo1
  <2>2. ~IsDependent(f[x.base]) /\ x.type \in Kinds
    BY <1>6 DEF IsDependent, BaseType, Kinds
  <2>3. Sto(b, f, M)
    BY <1>7 DEF In
  <2>4. Sto(UndoAdd(b, id, x), Drop(Released(f, M, x.base, id, x.type), {id}), Cut(M, x.type, x.base, id))
    BY <1>6, <2>2, <2>3, UndoAddDependentArrives
  <2> QED BY <1>6, <2>1, <2>4 DEF In
<1> QED BY <1>2, <1>4, <1>7 DEF In

(* The commands that make an entry a dependent, and no dependent. *)
LEMMA TieDoes ==
  ASSUME NEW e, NEW L, NEW g, NEW M, NEW base \in DOMAIN e, NEW id \in DOMAIN e, base # id,
         e[base].type \in {"normal", "aliasbase"}, <<base, id>> \notin L["alias"],
         base \in DOMAIN g, ~IsDependent(g[base]), <<base, id>> \in M["alias"]
  PROVE  Does(AddAliasCommand(base, id),
              <<e, L>>, <<Joined(e, base, id, "alias"), Tied(L, "alias", base, id)>>,
              <<Released(g, M, base, id, "alias"), Cut(M, "alias", base, id)>>, <<g, M>>)
<1> DEFINE s == <<Joined(e, base, id, "alias"), Tied(L, "alias", base, id)>>
           t == <<Released(g, M, base, id, "alias"), Cut(M, "alias", base, id)>>
<1> SUFFICES ASSUME NEW c, NEW d, Alike(c, AddAliasCommand(base, id)), In(d, <<e, L>>)
             PROVE  In(Execute1(d, c), s) /\ \A b : In(b, <<g, M>>) => In(Undo1(b, Executed1(d, c)), t)
  BY DEF Does
<1>1. c.op = "adddep" /\ c.id = id /\ c.base = base
  BY DEF Alike, AddAliasCommand
<1>2. Execute1(d, c) = AddDependent(d, base, id, "alias") /\ Executed1(d, c) = c
  BY <1>1 DEF Execute1, Executed1
<1>3. "alias" \in Kinds /\ BaseType["alias"] = "aliasbase" /\ Sto(d, e, L)
  BY DEF Kinds, BaseType, In
<1>4. Sto(AddDependent(d, base, id, "alias"), Joined(e, base, id, "alias"), Tied(L, "alias", base, id))
  BY <1>3, JoinArrives
<1>5. id \in Ids
  BY <1>3, StoParts
<1>6. ASSUME NEW b, In(b, <<g, M>>) PROVE In(Undo1(b, c), t)
  <2>1. Undo1(b, c) = RemoveDependent(b, base, id, "alias")
    BY <1>1 DEF Undo1
  <2>2. Sto(b, g, M)
    BY <1>6 DEF In
  <2>3. Sto(RemoveDependent(b, base, id, "alias"), Released(g, M, base, id, "alias"), Cut(M, "alias", base, id))
    BY <1>3, <1>5, <2>2, LeaveArrives
  <2> QED BY <2>1, <2>3 DEF In
<1> QED BY <1>2, <1>4, <1>6 DEF In

LEMMA UntieDoes ==
  ASSUME NEW e, NEW L, NEW g, NEW M, NEW base \in DOMAIN g, NEW id \in DOMAIN g, base # id,
         g[base].type \in {"normal", "aliasbase"}, <<base, id>> \notin M["alias"],
         base \in DOMAIN e, id \in Ids, ~IsDependent(e[base]), <<base, id>> \in L["alias"]
  PROVE  Does(RemoveAliasCommand(base, id),
              <<e, L>>, <<Released(e, L, base, id, "alias"), Cut(L, "alias", base, id)>>,
              <<Joined(g, base, id, "alias"), Tied(M, "alias", base, id)>>, <<g, M>>)
<1> DEFINE t == <<Joined(g, base, id, "alias"), Tied(M, "alias", base, id)>>
           s == <<Released(e, L, base, id, "alias"), Cut(L, "alias", base, id)>>
<1> SUFFICES ASSUME NEW c, NEW d, Alike(c, RemoveAliasCommand(base, id)), In(d, <<e, L>>)
             PROVE  In(Execute1(d, c), s) /\ \A b : In(b, <<g, M>>) => In(Undo1(b, Executed1(d, c)), t)
  BY DEF Does
<1>1. c.op = "remdep" /\ c.id = id /\ c.base = base
  BY DEF Alike, RemoveAliasCommand
<1>2. Execute1(d, c) = RemoveDependent(d, base, id, "alias") /\ Executed1(d, c) = c
  BY <1>1 DEF Execute1, Executed1
<1>3. "alias" \in Kinds /\ BaseType["alias"] = "aliasbase" /\ Sto(d, e, L)
  BY DEF Kinds, BaseType, In
<1>4. Sto(RemoveDependent(d, base, id, "alias"), Released(e, L, base, id, "alias"), Cut(L, "alias", base, id))
  BY <1>3, LeaveArrives
<1>6. ASSUME NEW b, In(b, <<g, M>>) PROVE In(Undo1(b, c), t)
  <2>1. Undo1(b, c) = AddDependent(b, base, id, "alias")
    BY <1>1 DEF Undo1
  <2>2. Sto(b, g, M)
    BY <1>6 DEF In
  <2>3. Sto(AddDependent(b, base, id, "alias"), Joined(g, base, id, "alias"), Tied(M, "alias", base, id))
    BY <1>3, <2>2, JoinArrives
  <2> QED BY <2>1, <2>3 DEF In
<1> QED BY <1>2, <1>4, <1>6 DEF In

LEMMA MoveDoes ==
  ASSUME NEW e, NEW L, NEW g, NEW from \in Ids, NEW to \in Ids, from # to,
         Targets(L, "alias", from) # {},
         \A i \in Targets(L, "alias", from) : <<to, i>> \notin L["alias"]
  PROVE  LET M == [L EXCEPT !["alias"] = Moved(@, from, to)]
         IN  Does(MoveCommand(from, to), <<e, L>>, <<e, M>>, <<g, L>>, <<g, M>>)
<1> DEFINE M == [L EXCEPT !["alias"] = Moved(@, from, to)]
<1> SUFFICES ASSUME NEW c, NEW d, Alike(c, MoveCommand(from, to)), In(d, <<e, L>>)
             PROVE  In(Execute1(d, c), <<e, M>>) /\ \A b : In(b, <<g, M>>) => In(Undo1(b, Executed1(d, c)), <<g, L>>)
  BY DEF Does
<1>1. c.op = "movedeps" /\ c.from = from /\ c.to = to /\ {"op", "done", "saved"} \subseteq DOMAIN c
  BY DEF Alike, MoveCommand
<1>2. Sto(d, e, L) /\ "alias" \in Kinds
  BY DEF In, Kinds
<1>3. Execute1(d, c) = MoveDependents(d, from, to)
  BY <1>1 DEF Execute1
<1>4. Sto(MoveDependents(d, from, to), e, M)
  BY <1>2, MoveArrives
<1> DEFINE x == Executed1(d, c)
<1>5. x.done /\ x.saved = SetToBag(L["alias"]) /\ x.op = "movedeps"
  <2>1. LinkedTo(d, "alias", from) # {}
    BY <1>2, LinkedIs
  <2>2. d.deps["alias"] = SetToBag(L["alias"])
    BY <1>2 DEF Sto, Db, Bag
  <2> QED BY <1>1, <2>1, <2>2 DEF Executed1
<1>6. L["alias"] \subseteq Ids \X Ids /\ [M EXCEPT !["alias"] = L["alias"]] = L
  BY <1>2 DEF Sto, IsLinks
<1> HIDE DEF M, x
<1>7. ASSUME NEW b, In(b, <<g, M>>) PROVE In(Undo1(b, x), <<g, L>>)
  <2>1. Undo1(b, x) = UndoMove(b, x)
    BY <1>5 DEF Undo1
  <2>2. Sto(b, g, M)
    BY <1>7 DEF In
  <2>3. Sto(UndoMove(b, x), g, [M EXCEPT !["alias"] = L["alias"]])
    BY <1>5, <1>6, <2>2, UnmoveArrives
  <2> QED BY <1>6, <2>1, <2>3 DEF In
<1> QED BY <1>3, <1>4, <1>7 DEF In, M, x

LEMMA EditDoes ==
  ASSUME NEW e, NEW L, NEW g, NEW M, NEW id \in DOMAIN e, NEW old, IsEntry(old), NEW x, IsEntry(x),
         NEW c0, c0.op = "edit", c0.id = id, c0.old = old, c0.new = x, DOMAIN c0 = {"op", "id", "old", "new"},
         old.key = e[id].key, old.expires = e[id].expires, old.key # x.key => KeyFree(Drop(e, {id}), x),
         id \in DOMAIN g, x.key = g[id].key, x.expires = g[id].expires,
         old.key # x.key => KeyFree(Drop(g, {id}), old)
  PROVE  Does(c0, <<e, L>>, <<Put(e, id, Norm(x)), L>>, <<Put(g, id, Norm(old)), M>>, <<g, M>>)
<1> DEFINE f == Put(e, id, Norm(x))
           h == Put(g, id, Norm(old))
<1> SUFFICES ASSUME NEW c, NEW d, Alike(c, c0), In(d, <<e, L>>)
             PROVE  In(Execute1(d, c), <<f, L>>) /\ \A b : In(b, <<g, M>>) => In(Undo1(b, Executed1(d, c)), <<h, M>>)
  BY DEF Does
<1>1. c.op = "edit" /\ c.id = id /\ c.old = old /\ c.new = x
  BY DEF Alike
<1>2. Execute1(d, c) = DoReplaceEntry(d, id, old, x) /\ Executed1(d, c) = c
  BY <1>1 DEF Execute1, Executed1
<1>3. Sto(DoReplaceEntry(d, id, old, x), f, L)
  BY ReplaceArrives DEF In
<1>4. ASSUME NEW b, In(b, <<g, M>>) PROVE In(Undo1(b, c), <<h, M>>)
  <2>1. Undo1(b, c) = DoReplaceEntry(b, id, x, old)
    BY <1>1 DEF Undo1
  <2>2. Sto(b, g, M)
    BY <1>4 DEF In
  <2>3. Sto(DoReplaceEntry(b, id, x, old), h, M)
    BY <2>2, ReplaceArrives
  <2> QED BY <2>1, <2>3 DEF In
<1> QED BY <1>2, <1>3, <1>4 DEF In

LEMMA DeleteDoes ==
  ASSUME NEW e, NEW L, IsFit(e, L), IsFiniteSet(Ids), NEW A, NEW R, IsStage(e, A, R),
         NEW id \in DOMAIN e \ (A \cup R), IsDependent(e[id]) \/ IsProper(e, L, id),
         NEW B, NEW S, IsStage(e, B, S), NEW F, id \notin S,
         \/ IsDependent(e[id]) /\ (id \in B => e[id].base \notin B)
         \/ IsProper(e, L, id) /\ id \in B,
         NEW c0, \A c : Alike(c, c0) => IsDelete(c, e, L, id)
  PROVE  LET A2 == A \cup WithShortcuts(e, L, id)
             R2 == R \cup (AliasesWith(e, L, id) \ A)
             B2 == B \ WithShortcuts(e, L, id)
             S2 == S \ AliasesWith(e, L, id)
             F2 == F \cup ForcedWith(e, id)
         IN  Does(c0, <<Part(e, L, A, R, {}), Remaining(L, A \cup R)>>,
                      <<Part(e, L, A2, R2, {}), Remaining(L, A2 \cup R2)>>,
                      <<Part(e, L, B2, S2, F2), Remaining(L, B2 \cup S2)>>,
                      <<Part(e, L, B, S, F), Remaining(L, B \cup S)>>)
<1> DEFINE A2 == A \cup WithShortcuts(e, L, id)
           R2 == R \cup (AliasesWith(e, L, id) \ A)
           B2 == B \ WithShortcuts(e, L, id)
           S2 == S \ AliasesWith(e, L, id)
           F2 == F \cup ForcedWith(e, id)
           s(X, Y, Z) == <<Part(e, L, X, Y, Z), Remaining(L, X \cup Y)>>
<1> SUFFICES ASSUME NEW c, NEW d, Alike(c, c0), In(d, s(A, R, {}))
             PROVE  /\ In(Execute1(d, c), s(A2, R2, {}))
                    /\ \A b : In(b, s(B, S, F)) => In(Undo1(b, Executed1(d, c)), s(B2, S2, F2))
  BY DEF Does
<1>1. IsDelete(c, e, L, id) /\ AtPart(d, e, L, A, R, {})
  BY DEF In, AtPart
<1>2. AtPart(Execute1(d, c), e, L, A2, R2, {}) /\ Executed1(d, c).done
  BY <1>1, DeleteRuns
<1> DEFINE x == Executed1(d, c)
<1>3. IsDelete(x, e, L, id)
  <2>1. x = [c EXCEPT !.done = @ \/ c.id \in DOMAIN d.entries]
    BY <1>1 DEF IsDelete, Executed1
  <2>2. /\ "done" \in DOMAIN x /\ x.op = c.op /\ x.id = c.id /\ x.entry = c.entry /\ x.deps = c.deps
    BY <1>1, <2>1 DEF IsDelete
  <2> HIDE DEF x
  <2> QED BY <1>1, <2>2 DEF IsDelete
<1> HIDE DEF x, A2, R2, B2, S2, F2
<1>4. ASSUME NEW b, In(b, s(B, S, F)) PROVE In(Undo1(b, x), s(B2, S2, F2))
  <2>1. AtPart(b, e, L, B, S, F)
    BY <1>4 DEF In, AtPart
  <2>2. AtPart(Undo1(b, x), e, L, B2, S2, F2)
    BY <1>2, <1>3, <2>1, DeleteUnruns DEF x, B2, S2, F2
  <2> QED BY <2>2 DEF In, AtPart
<1> QED BY <1>2, <1>4 DEF In, AtPart, x

LEMMA OneLeads ==
  ASSUME NEW p, NEW q, NEW c, Does(c, Stage(p), Stage(q), Stage(p), Stage(q))
  PROVE  Leads(<<c>>, p, q)
<1> DEFINE S == [k \in 0 .. 1 |-> IF k = 0 THEN Stage(p) ELSE Stage(q)]
           list == <<c>>
<1>1. S[0] = Stage(p) /\ S[1] = Stage(q) /\ list[1] = c /\ Len(list) = 1
  OBVIOUS
<1> HIDE DEF S, list
<1>2. ASSUME NEW k \in 1 .. 1 PROVE Does(list[k], S[k - 1], S[k], S[k - 1], S[k])
  <2>1. k = 1 /\ k - 1 = 0
    OBVIOUS
  <2> QED BY <1>1, <2>1
<1>3. Leads(list, p, q)
  BY <1>1, <1>2, StagesLead
<1> QED BY <1>3 DEF list

LEMMA TwoLead ==
  ASSUME NEW p, NEW q, NEW c1, NEW c2, NEW s, NEW t,
         Does(c1, Stage(p), s, Stage(p), t), Does(c2, s, Stage(q), t, Stage(q))
  PROVE  Leads(<<c1, c2>>, p, q)
<1> DEFINE S == [k \in 0 .. 2 |-> IF k = 0 THEN Stage(p) ELSE IF k = 1 THEN s ELSE Stage(q)]
           T == [k \in 0 .. 2 |-> IF k = 0 THEN Stage(p) ELSE IF k = 1 THEN t ELSE Stage(q)]
           list == <<c1, c2>>
<1>1. /\ S[0] = Stage(p) /\ S[1] = s /\ S[2] = Stage(q)
      /\ T[0] = Stage(p) /\ T[1] = t /\ T[2] = Stage(q)
      /\ list[1] = c1 /\ list[2] = c2 /\ Len(list) = 2
  OBVIOUS
<1> HIDE DEF S, T, list
<1>2. ASSUME NEW k \in 1 .. 2 PROVE Does(list[k], S[k - 1], S[k], T[k - 1], T[k])
  <2>1. (k = 1 /\ k - 1 = 0) \/ (k = 2 /\ k - 1 = 1)
    OBVIOUS
  <2> QED BY <1>1, <2>1
<1>3. Leads(list, p, q)
  BY <1>1, <1>2, StagesLead
<1> QED BY <1>3 DEF list

LEMMA ThreeLead ==
  ASSUME NEW p, NEW q, NEW c1, NEW c2, NEW c3, NEW s1, NEW t1, NEW s2, NEW t2,
         Does(c1, Stage(p), s1, Stage(p), t1), Does(c2, s1, s2, t1, t2),
         Does(c3, s2, Stage(q), t2, Stage(q))
  PROVE  Leads(<<c1, c2, c3>>, p, q)
<1> DEFINE S == [k \in 0 .. 3 |-> IF k = 0 THEN Stage(p) ELSE IF k = 1 THEN s1 ELSE IF k = 2 THEN s2 ELSE Stage(q)]
           T == [k \in 0 .. 3 |-> IF k = 0 THEN Stage(p) ELSE IF k = 1 THEN t1 ELSE IF k = 2 THEN t2 ELSE Stage(q)]
           list == <<c1, c2, c3>>
<1>1. /\ S[0] = Stage(p) /\ S[1] = s1 /\ S[2] = s2 /\ S[3] = Stage(q)
      /\ T[0] = Stage(p) /\ T[1] = t1 /\ T[2] = t2 /\ T[3] = Stage(q)
      /\ list[1] = c1 /\ list[2] = c2 /\ list[3] = c3 /\ Len(list) = 3
  OBVIOUS
<1> HIDE DEF S, T, list
<1>2. ASSUME NEW k \in 1 .. 3 PROVE Does(list[k], S[k - 1], S[k], T[k - 1], T[k])
  <2>1. (k = 1 /\ k - 1 = 0) \/ (k = 2 /\ k - 1 = 1) \/ (k = 3 /\ k - 1 = 2)
    OBVIOUS
  <2> QED BY <1>1, <2>1
<1>3. Leads(list, p, q)
  BY <1>1, <1>2, StagesLead
<1> QED BY <1>3 DEF list

-----------------------------------------------------------------------------
(* The entries before and after a list of commands. *)

IsPast(p) ==
    /\ p = [i \in DOMAIN p |-> p[i]] /\ DOMAIN p \subseteq Ids
    /\ \A i \in DOMAIN p : IsEntry(p[i]) /\ Norm(p[i]) = p[i] /\ DOMAIN p[i] = EntryFields
    /\ WellFormed(p)

LEMMA LinksIs ==
  ASSUME NEW p, NEW kind \in Kinds, NEW b, NEW i
  PROVE  <<b, i>> \in Links(p)[kind] <=> i \in DOMAIN p /\ p[i].type = kind /\ p[i].base = b
<1>1. Links(p)[kind] = {<<p[j].base, j>> : j \in {h \in DOMAIN p : p[h].type = kind}}
  BY DEF Links, LinksOf
<1> QED BY <1>1

LEMMA PastIs ==
  ASSUME NEW p, IsPast(p)
  PROVE  /\ p = [i \in DOMAIN p |-> p[i]] /\ DOMAIN p \subseteq Ids
         /\ \A i \in DOMAIN p : IsEntry(p[i]) /\ Norm(p[i]) = p[i] /\ DOMAIN p[i] = EntryFields
         /\ \A i \in DOMAIN p : IsDependent(p[i]) =>
               /\ ~p[i].expires /\ p[i].base \in DOMAIN p
               /\ p[p[i].base].type = BaseType[p[i].type] /\ ~IsDependent(p[p[i].base]) /\ p[i].base # i
         /\ \A i \in DOMAIN p, kind \in Kinds : p[i].type = BaseType[kind] =>
               \E j \in DOMAIN p : p[j].type = kind /\ p[j].base = i
         /\ \A i, j \in DOMAIN p : i # j => p[i].key # p[j].key \/ p[i].key = NoKey
  BY DEF IsPast, WellFormed, IsDependent, BaseType, Kinds

(* Well-formed entries, from the links. *)
LEMMA PastFrom ==
  ASSUME NEW q, q = [i \in DOMAIN q |-> q[i]], DOMAIN q \subseteq Ids,
         \A i \in DOMAIN q : IsEntry(q[i]) /\ Norm(q[i]) = q[i] /\ DOMAIN q[i] = EntryFields,
         NEW M, IsLinks(M),
         \A kind \in Kinds, b, i \in Ids : <<b, i>> \in M[kind] <=> i \in DOMAIN q /\ q[i].type = kind /\ q[i].base = b,
         \A kind \in Kinds, b, i \in Ids : <<b, i>> \in M[kind] => b \in DOMAIN q /\ q[b].type = BaseType[kind],
         \A kind \in Kinds, b \in DOMAIN q : q[b].type = BaseType[kind] => Targets(M, kind, b) # {},
         \A i, j \in DOMAIN q : i # j => q[i].key # q[j].key \/ q[i].key = NoKey
  PROVE  IsPast(q) /\ Links(q) = M
<1>1. WellFormed(q)
  <2>1. ASSUME NEW i \in DOMAIN q, IsDependent(q[i])
        PROVE  ~q[i].expires /\ q[i].base \in DOMAIN q /\ q[q[i].base].type = BaseType[q[i].type]
    <3>1. q[i].type \in Kinds /\ q[i].base \in Ids /\ i \in Ids /\ ~q[i].expires
      BY <2>1 DEF IsEntry, IsDependent
    <3>2. <<q[i].base, i>> \in M[q[i].type]
      BY <3>1
    <3> QED BY <3>1, <3>2
  <2>2. ASSUME NEW i \in DOMAIN q, NEW kind \in Kinds, q[i].type = BaseType[kind]
        PROVE  \E j \in DOMAIN q : q[j].type = kind /\ q[j].base = i
    <3>1. PICK j \in Ids : <<i, j>> \in M[kind]
      BY <2>2 DEF Targets
    <3> QED BY <3>1
  <2> QED BY <2>1, <2>2 DEF WellFormed
<1>2. IsPast(q)
  BY <1>1 DEF IsPast
<1>3. IsLinks(Links(q))
  <2>1. \A i \in DOMAIN q : i \in Ids /\ (q[i].type \in Kinds => q[i].base \in Ids)
    BY DEF IsEntry, IsDependent
  <2> QED BY <2>1 DEF IsLinks, Links, LinksOf
<1>4. ASSUME NEW kind \in Kinds, NEW b \in Ids, NEW i \in Ids
      PROVE  <<b, i>> \in Links(q)[kind] <=> <<b, i>> \in M[kind]
  <2>1. <<b, i>> \in Links(q)[kind] <=> i \in DOMAIN q /\ q[i].type = kind /\ q[i].base = b
    BY LinksIs
  <2> QED BY <2>1
<1> QED BY <1>2, <1>3, <1>4, SameLinks

LEMMA PastIsFit ==
  ASSUME NEW p, IsPast(p)
  PROVE  /\ IsFit(p, Links(p)) /\ IsLinks(Links(p))
         /\ \A i \in DOMAIN p : ~IsDependent(p[i]) => IsProper(p, Links(p), i)
         /\ \A kind \in Kinds, b \in DOMAIN p : p[b].type = BaseType[kind] => Targets(Links(p), kind, b) # {}
         /\ \A kind \in Kinds, b \in DOMAIN p : p[b].type # BaseType[kind] => Targets(Links(p), kind, b) = {}
<1> DEFINE L == Links(p)
<1>1. /\ p = [i \in DOMAIN p |-> p[i]] /\ DOMAIN p \subseteq Ids
      /\ \A i \in DOMAIN p : IsEntry(p[i]) /\ Norm(p[i]) = p[i] /\ DOMAIN p[i] = EntryFields
      /\ \A i \in DOMAIN p : IsDependent(p[i]) =>
            /\ ~p[i].expires /\ p[i].base \in DOMAIN p
            /\ p[p[i].base].type = BaseType[p[i].type] /\ ~IsDependent(p[p[i].base]) /\ p[i].base # i
      /\ \A i \in DOMAIN p, kind \in Kinds : p[i].type = BaseType[kind] =>
            \E j \in DOMAIN p : p[j].type = kind /\ p[j].base = i
      /\ \A i, j \in DOMAIN p : i # j => p[i].key # p[j].key \/ p[i].key = NoKey
  BY PastIs
<1>2. ASSUME NEW kind \in Kinds, NEW b \in Ids, NEW i \in Ids
      PROVE  <<b, i>> \in L[kind] <=> i \in DOMAIN p /\ p[i].type = kind /\ p[i].base = b
  BY LinksIs
<1>3. IsLinks(L)
  <2>1. \A i \in DOMAIN p : i \in Ids /\ (p[i].type \in Kinds => p[i].base \in Ids)
    BY <1>1 DEF IsEntry, IsDependent
  <2> QED BY <2>1 DEF IsLinks, Links, LinksOf
<1> HIDE DEF L
<1>4. \A kind \in Kinds, b \in DOMAIN p : p[b].type = BaseType[kind] => Targets(L, kind, b) # {}
  BY <1>1, <1>2 DEF Targets
<1>5. \A kind \in Kinds, b \in DOMAIN p : p[b].type # BaseType[kind] => Targets(L, kind, b) = {}
  BY <1>1, <1>2 DEF Targets, IsDependent
<1>6. ASSUME NEW i \in DOMAIN p, ~IsDependent(p[i]) PROVE IsProper(p, L, i)
  <2>1. i \in Ids
    BY <1>1
  <2> QED BY <1>2, <1>6, <2>1 DEF IsProper, Targets, IsDependent
<1>7. ASSUME NEW i \in DOMAIN p PROVE ~Bereft(p, L, {}, i)
  BY <1>4 DEF Bereft
<1>8. IsFit(p, L)
  <2>1. ASSUME NEW kind \in Kinds, NEW b \in Ids, NEW i \in Ids, <<b, i>> \in L[kind]
        PROVE  /\ b \in DOMAIN p /\ i \in DOMAIN p /\ p[b].type = BaseType[kind]
               /\ IsDependent(p[i]) => kind = p[i].type /\ b = p[i].base
    BY <1>1, <1>2, <2>1 DEF IsDependent
  <2>2. ASSUME NEW i \in DOMAIN p, IsDependent(p[i]) PROVE <<p[i].base, i>> \in L[p[i].type]
    BY <1>1, <1>2, <2>2 DEF IsDependent
  <2> QED BY <1>1, <1>3, <1>7, <2>1, <2>2 DEF IsFit
<1> QED BY <1>3, <1>4, <1>5, <1>6, <1>8 DEF L
-----------------------------------------------------------------------------
(* The front ends' operations. *)

LEMMA NormalPast ==
  ASSUME NEW p, IsPast(p), NEW id \in Ids \ DOMAIN p, NEW x, IsEntry(x), DOMAIN x = EntryFields,
         x.type = "normal", KeyFree(p, x)
  PROVE  LET q == Put(p, id, Norm(x))
         IN  IsPast(q) /\ Links(q) = Links(p)
<1> DEFINE q == Put(p, id, Norm(x))
           L == Links(p)
<1>1. IsFit(p, L) /\ IsLinks(L)
  BY PastIsFit
<1>2. /\ p = [i \in DOMAIN p |-> p[i]] /\ DOMAIN p \subseteq Ids
      /\ \A i \in DOMAIN p : IsEntry(p[i]) /\ Norm(p[i]) = p[i] /\ DOMAIN p[i] = EntryFields
      /\ \A i, j \in DOMAIN p : i # j => p[i].key # p[j].key \/ p[i].key = NoKey
  BY PastIs
<1>3. /\ DOMAIN q = DOMAIN p \cup {id} /\ q = [i \in DOMAIN q |-> q[i]] /\ q[id] = Norm(x)
      /\ \A i \in DOMAIN p : q[i] = p[i]
  BY DEF Put
<1>4. /\ IsEntry(Norm(x)) /\ Norm(Norm(x)) = Norm(x) /\ DOMAIN Norm(x) = EntryFields
      /\ Norm(x).type = "normal" /\ Norm(x).key = x.key
  <2>1. /\ IsEntry(Norm(x)) /\ DOMAIN Norm(x) = DOMAIN x /\ Norm(x).type = x.type /\ Norm(x).key = x.key
    BY NormIs
  <2>2. Norm(Norm(x)) = Norm(x)
    BY DEF Norm, IsDependent, IsEntry
  <2> QED BY <2>1, <2>2
<1> HIDE DEF q
<1>5. \A i \in DOMAIN q : IsEntry(q[i]) /\ Norm(q[i]) = q[i] /\ DOMAIN q[i] = EntryFields
  BY <1>2, <1>3, <1>4
<1>6. \A i, j \in DOMAIN q : i # j => q[i].key # q[j].key \/ q[i].key = NoKey
  BY <1>2, <1>3, <1>4 DEF KeyFree
<1>7. ASSUME NEW kind \in Kinds, NEW b \in Ids, NEW i \in Ids
      PROVE  /\ <<b, i>> \in L[kind] <=> i \in DOMAIN q /\ q[i].type = kind /\ q[i].base = b
             /\ <<b, i>> \in L[kind] => b \in DOMAIN q /\ q[b].type = BaseType[kind]
  <2>1. <<b, i>> \in L[kind] <=> i \in DOMAIN p /\ p[i].type = kind /\ p[i].base = b
    BY LinksIs
  <2>2. <<b, i>> \in L[kind] => b \in DOMAIN p /\ p[b].type = BaseType[kind]
    BY <1>1 DEF IsFit
  <2> QED BY <1>3, <1>4, <2>1, <2>2 DEF Kinds
<1>8. \A kind \in Kinds, b \in DOMAIN q : q[b].type = BaseType[kind] => Targets(L, kind, b) # {}
  <2>1. \A kind \in Kinds, b \in DOMAIN p : p[b].type = BaseType[kind] => Targets(L, kind, b) # {}
    BY PastIsFit
  <2> QED BY <1>3, <1>4, <2>1 DEF Kinds, BaseType
<1> HIDE DEF L
<1>9. DOMAIN q \subseteq Ids
  BY <1>2, <1>3
<1>10. IsPast(q) /\ Links(q) = L
  BY <1>1, <1>3, <1>5, <1>6, <1>7, <1>8, <1>9, PastFrom
<1> QED BY <1>10 DEF q, L

LEMMA AddNormalLeads ==
  ASSUME NEW p, IsPast(p), NEW id \in Ids \ DOMAIN p, NEW x, IsEntry(x), DOMAIN x = EntryFields,
         x.type = "normal", KeyFree(p, x)
  PROVE  LET q == Put(p, id, Norm(x))
         IN  IsPast(q) /\ Leads(<<AddCommand(id, x)>>, p, q)
<1> DEFINE q == Put(p, id, Norm(x))
           L == Links(p)
<1>1. IsPast(q) /\ Links(q) = L /\ p = [i \in DOMAIN p |-> p[i]]
  BY NormalPast, PastIs
<1>2. Does(AddCommand(id, x), <<p, L>>, <<q, L>>, <<p, L>>, <<q, L>>)
  BY <1>1, AddNormalDoes
<1> HIDE DEF q, L
<1>3. Does(AddCommand(id, x), Stage(p), Stage(q), Stage(p), Stage(q))
  BY <1>1, <1>2 DEF Stage, L
<1>4. Leads(<<AddCommand(id, x)>>, p, q)
  BY <1>3, OneLeads
<1> QED BY <1>1, <1>4 DEF q

LEMMA EnteredPast ==
  ASSUME NEW p, IsPast(p), NEW id \in Ids \ DOMAIN p, NEW x, IsEntry(x), DOMAIN x = EntryFields,
         IsDependent(x), KeyFree(p, x), x.base \in DOMAIN p, p[x.base].type \in {"normal", BaseType[x.type]}
  PROVE  LET q == Entered(p, id, x)
         IN  /\ IsPast(q) /\ Links(q) = Tied(Links(p), x.type, x.base, id)
             /\ <<x.base, id>> \notin Links(p)[x.type]
             /\ p[x.base].type = IF Targets(Links(p), x.type, x.base) = {} THEN "normal" ELSE BaseType[x.type]
<1> DEFINE q == Entered(p, id, x)
           L == Links(p)
           M == Tied(L, x.type, x.base, id)
<1>1. IsFit(p, L) /\ IsLinks(L)
  BY PastIsFit
<1>2. /\ p = [i \in DOMAIN p |-> p[i]] /\ DOMAIN p \subseteq Ids
      /\ \A i \in DOMAIN p : IsEntry(p[i]) /\ Norm(p[i]) = p[i] /\ DOMAIN p[i] = EntryFields
      /\ \A i, j \in DOMAIN p : i # j => p[i].key # p[j].key \/ p[i].key = NoKey
  BY PastIs
<1>3. x.type \in Kinds /\ x.base \in Ids /\ x.base # id /\ Norm(x) = x /\ BaseType[x.type] \in Types \ Kinds
  BY DEF IsDependent, IsEntry, Norm, BaseType, Kinds, Types
<1>4. /\ DOMAIN q = DOMAIN p \cup {id} /\ q = [i \in DOMAIN q |-> q[i]] /\ q[id] = x
      /\ q[x.base] = [p[x.base] EXCEPT !.type = BaseType[x.type]]
      /\ \A i \in DOMAIN p \ {x.base} : q[i] = p[i]
  BY DEF Entered, Retyped, Put
<1> HIDE DEF q, L, M
<1>5. ~IsDependent(p[x.base])
  BY <1>3 DEF IsDependent, BaseType, Kinds
<1>6. /\ IsEntry(q[x.base]) /\ Norm(q[x.base]) = q[x.base] /\ DOMAIN q[x.base] = EntryFields
      /\ q[x.base].type = BaseType[x.type] /\ q[x.base].key = p[x.base].key
  <2>1. IsEntry(p[x.base]) /\ Norm(p[x.base]) = p[x.base] /\ DOMAIN p[x.base] = EntryFields
    BY <1>2
  <2> QED BY <1>3, <1>4, <1>5, <2>1, RetypeIs
<1>7. \A i \in DOMAIN q : IsEntry(q[i]) /\ Norm(q[i]) = q[i] /\ DOMAIN q[i] = EntryFields
  BY <1>2, <1>3, <1>4, <1>6
<1>8. \A i, j \in DOMAIN q : i # j => q[i].key # q[j].key \/ q[i].key = NoKey
  <2>1. \A i \in DOMAIN p : q[i].key = p[i].key
    BY <1>4, <1>6
  <2> QED BY <1>2, <1>4, <2>1 DEF KeyFree
<1>9. ASSUME NEW kind \in Kinds, NEW b \in Ids, NEW i \in Ids
      PROVE  /\ <<b, i>> \in M[kind] <=> <<b, i>> \in L[kind] \/ (kind = x.type /\ b = x.base /\ i = id)
             /\ <<b, i>> \in L[kind] <=> i \in DOMAIN p /\ p[i].type = kind /\ p[i].base = b
             /\ <<b, i>> \in L[kind] => b \in DOMAIN p /\ p[b].type = BaseType[kind]
  <2>1. <<b, i>> \in L[kind] <=> i \in DOMAIN p /\ p[i].type = kind /\ p[i].base = b
    BY LinksIs DEF L
  <2>2. <<b, i>> \in L[kind] => b \in DOMAIN p /\ p[b].type = BaseType[kind]
    BY <1>1 DEF IsFit
  <2>3. <<b, i>> \in M[kind] <=> <<b, i>> \in L[kind] \/ (kind = x.type /\ b = x.base /\ i = id)
    BY <1>1, <1>3, CutIs DEF M
  <2> QED BY <2>1, <2>2, <2>3
<1>10. ASSUME NEW kind \in Kinds, NEW b \in Ids, NEW i \in Ids
       PROVE  /\ <<b, i>> \in M[kind] <=> i \in DOMAIN q /\ q[i].type = kind /\ q[i].base = b
              /\ <<b, i>> \in M[kind] => b \in DOMAIN q /\ q[b].type = BaseType[kind]
  <2>1. /\ <<b, i>> \in M[kind] <=> <<b, i>> \in L[kind] \/ (kind = x.type /\ b = x.base /\ i = id)
        /\ <<b, i>> \in L[kind] <=> i \in DOMAIN p /\ p[i].type = kind /\ p[i].base = b
        /\ <<b, i>> \in L[kind] => b \in DOMAIN p /\ p[b].type = BaseType[kind]
    BY <1>9
  <2>2. <<b, i>> \in M[kind] <=> i \in DOMAIN q /\ q[i].type = kind /\ q[i].base = b
    <3>1. CASE i = id
      BY <1>4, <2>1, <3>1
    <3>2. CASE i = x.base
      <4>1. p[i].type # kind
        BY <1>5, <3>2 DEF IsDependent
      <4>2. q[i].type # kind
        BY <1>3, <1>6, <3>2
      <4> QED BY <1>3, <2>1, <3>2, <4>1, <4>2
    <3>3. CASE i # id /\ i # x.base
      BY <1>4, <2>1, <3>3
    <3> QED BY <3>1, <3>2, <3>3
  <2>3. <<b, i>> \in M[kind] => b \in DOMAIN q /\ q[b].type = BaseType[kind]
    <3>1. CASE b = x.base
      <4>1. <<b, i>> \in L[kind] => p[x.base].type = BaseType[kind]
        BY <2>1, <3>1
      <4>2. <<b, i>> \in L[kind] => kind = x.type
        BY <1>3, <4>1 DEF BaseType, Kinds
      <4> QED BY <1>4, <1>6, <2>1, <3>1, <4>2
    <3>2. CASE b # x.base
      BY <1>4, <2>1, <3>2
    <3> QED BY <3>1, <3>2
  <2> QED BY <2>2, <2>3
<1>11. ASSUME NEW kind \in Kinds, NEW b \in DOMAIN q, q[b].type = BaseType[kind] PROVE Targets(M, kind, b) # {}
  <2>0. b \in Ids
    BY <1>2, <1>4
  <2>1. CASE b = x.base
    <3>1. kind = x.type
      BY <1>3, <1>6, <1>11, <2>1 DEF BaseType, Kinds
    <3>2. <<b, id>> \in M[kind]
      BY <1>3, <1>9, <2>0, <2>1, <3>1
    <3> QED BY <3>2 DEF Targets
  <2>2. CASE b = id
    BY <1>3, <1>4, <1>11, <2>2 DEF BaseType, Kinds
  <2>3. CASE b # id /\ b # x.base
    <3>1. b \in DOMAIN p /\ p[b].type = BaseType[kind]
      BY <1>4, <1>11, <2>3
    <3>2. Targets(L, kind, b) # {}
      BY <3>1, PastIsFit DEF L
    <3>3. PICK i \in Ids : <<b, i>> \in L[kind]
      BY <3>2 DEF Targets
    <3>4. <<b, i>> \in M[kind]
      BY <1>9, <2>0, <3>3
    <3> QED BY <3>4 DEF Targets
  <2> QED BY <2>1, <2>2, <2>3
<1>12. DOMAIN q \subseteq Ids /\ IsLinks(M)
  BY <1>1, <1>2, <1>3, <1>4, CutLinks DEF M
<1>13. IsPast(q) /\ Links(q) = M
  BY <1>4, <1>7, <1>8, <1>10, <1>11, <1>12, PastFrom
<1>14. <<x.base, id>> \notin L[x.type]
  BY <1>3, <1>9
<1>15. p[x.base].type = IF Targets(L, x.type, x.base) = {} THEN "normal" ELSE BaseType[x.type]
  <2>1. p[x.base].type = BaseType[x.type] => Targets(L, x.type, x.base) # {}
    BY <1>3, PastIsFit DEF L
  <2>2. p[x.base].type # BaseType[x.type] => Targets(L, x.type, x.base) = {}
    BY <1>3, PastIsFit DEF L
  <2> QED BY <2>1, <2>2
<1> QED BY <1>13, <1>14, <1>15 DEF q, L, M

EntersWell(p, id, x, q) ==
    /\ IsPast(q) /\ Links(q) = Tied(Links(p), x.type, x.base, id)
    /\ <<x.base, id>> \notin Links(p)[x.type]
    /\ p[x.base].type = IF Targets(Links(p), x.type, x.base) = {} THEN "normal" ELSE BaseType[x.type]

LEMMA DependentEnters ==
  ASSUME NEW p, IsPast(p), NEW id \in Ids \ DOMAIN p, NEW x, IsEntry(x), DOMAIN x = EntryFields,
         IsDependent(x), KeyFree(p, x), x.base \in DOMAIN p, p[x.base].type \in {"normal", BaseType[x.type]}
  PROVE  EntersWell(p, id, x, Entered(p, id, x))
<1> QED BY EnteredPast DEF EntersWell

LEMMA AddDependentLeads ==
  ASSUME NEW p, IsPast(p), NEW id \in Ids \ DOMAIN p, NEW x, IsEntry(x), DOMAIN x = EntryFields,
         IsDependent(x), KeyFree(p, x), x.base \in DOMAIN p, p[x.base].type \in {"normal", BaseType[x.type]}
  PROVE  LET q == Entered(p, id, x)
         IN  IsPast(q) /\ Leads(<<AddCommand(id, x)>>, p, q)
<1> DEFINE q == Entered(p, id, x)
           L == Links(p)
           M == Tied(L, x.type, x.base, id)
<1>1. /\ IsPast(q) /\ Links(q) = M /\ <<x.base, id>> \notin L[x.type]
      /\ p[x.base].type = IF Targets(L, x.type, x.base) = {} THEN "normal" ELSE BaseType[x.type]
  BY EnteredPast
<1>2. Does(AddCommand(id, x), <<p, L>>, <<q, M>>, <<p, L>>, <<q, M>>)
  <2> HIDE DEF L
  <2> QED BY <1>1, AddDependentDoes
<1> HIDE DEF q, L, M
<1>3. Does(AddCommand(id, x), Stage(p), Stage(q), Stage(p), Stage(q))
  BY <1>1, <1>2 DEF Stage, L
<1>4. Leads(<<AddCommand(id, x)>>, p, q)
  BY <1>3, OneLeads
<1> QED BY <1>1, <1>4 DEF q
(* The edit command, from the entry that it found. *)
Edit(id, old, x) == [op |-> "edit", id |-> id, old |-> old, new |-> x]

LEMMA EditIs ==
  ASSUME NEW id, NEW old, NEW x
  PROVE  LET c == Edit(id, old, x)
         IN  c.op = "edit" /\ c.id = id /\ c.old = old /\ c.new = x /\ DOMAIN c = {"op", "id", "old", "new"}
  BY DEF Edit

(* An entry stays what it is, with another password, key or date. *)
LEMMA EditStep ==
  ASSUME NEW p, IsPast(p), NEW id \in DOMAIN p, NEW old, IsEntry(old), Norm(old) = p[id],
         NEW x, IsEntry(x), DOMAIN x = EntryFields, x.type = old.type, x.base = old.base,
         old.key # x.key => KeyFree(Drop(p, {id}), x)
  PROVE  LET q == Put(p, id, Norm(x))
         IN  IsPast(q) /\ Does(Edit(id, old, x), Stage(p), Stage(q), Stage(p), Stage(q))
<1> DEFINE q == Put(p, id, Norm(x))
           L == Links(p)
<1>1. IsFit(p, L) /\ IsLinks(L)
  BY PastIsFit
<1>2. /\ p = [i \in DOMAIN p |-> p[i]] /\ DOMAIN p \subseteq Ids
      /\ \A i \in DOMAIN p : IsEntry(p[i]) /\ Norm(p[i]) = p[i] /\ DOMAIN p[i] = EntryFields
      /\ \A i, j \in DOMAIN p : i # j => p[i].key # p[j].key \/ p[i].key = NoKey
  BY PastIs
<1>3. /\ DOMAIN q = DOMAIN p /\ q = [i \in DOMAIN q |-> q[i]] /\ q[id] = Norm(x)
      /\ \A i \in DOMAIN p \ {id} : q[i] = p[i]
  BY DEF Put
<1>4. /\ IsEntry(Norm(x)) /\ Norm(Norm(x)) = Norm(x) /\ DOMAIN Norm(x) = EntryFields
      /\ Norm(x).type = p[id].type /\ Norm(x).key = x.key /\ Norm(x).base = p[id].base
      /\ old.key = p[id].key /\ old.expires = p[id].expires /\ Norm(x).expires = x.expires
  <2>1. /\ IsEntry(Norm(x)) /\ DOMAIN Norm(x) = DOMAIN x /\ Norm(x).type = x.type /\ Norm(x).key = x.key
        /\ Norm(x).expires = x.expires
        /\ Norm(old).type = old.type /\ Norm(old).key = old.key /\ Norm(old).expires = old.expires
    BY NormIs
  <2>2. Norm(Norm(x)) = Norm(x)
    BY DEF Norm, IsDependent, IsEntry
  <2>3. Norm(x).base = Norm(old).base
    BY DEF Norm, IsDependent, IsEntry
  <2> QED BY <2>1, <2>2, <2>3
<1> HIDE DEF q
<1>5. \A i \in DOMAIN q : IsEntry(q[i]) /\ Norm(q[i]) = q[i] /\ DOMAIN q[i] = EntryFields
  BY <1>2, <1>3, <1>4
<1>6. ASSUME NEW i \in DOMAIN q, NEW j \in DOMAIN q, i # j PROVE q[i].key # q[j].key \/ q[i].key = NoKey
  <2>1. \A k \in DOMAIN p \ {id} : x.key = p[k].key => x.key = NoKey
    <3>1. CASE old.key = x.key
      BY <1>2, <1>4, <3>1
    <3>2. CASE old.key # x.key
      BY <3>2 DEF KeyFree, Drop
    <3> QED BY <3>1, <3>2
  <2> QED BY <1>2, <1>3, <1>4, <1>6, <2>1
<1>7. ASSUME NEW kind \in Kinds, NEW b \in Ids, NEW i \in Ids
      PROVE  /\ <<b, i>> \in L[kind] <=> i \in DOMAIN q /\ q[i].type = kind /\ q[i].base = b
             /\ <<b, i>> \in L[kind] => b \in DOMAIN q /\ q[b].type = BaseType[kind]
  <2>1. <<b, i>> \in L[kind] <=> i \in DOMAIN p /\ p[i].type = kind /\ p[i].base = b
    BY LinksIs
  <2>2. <<b, i>> \in L[kind] => b \in DOMAIN p /\ p[b].type = BaseType[kind]
    BY <1>1 DEF IsFit
  <2>3. \A j \in DOMAIN p : q[j].type = p[j].type /\ q[j].base = p[j].base
    BY <1>3, <1>4
  <2> QED BY <1>3, <2>1, <2>2, <2>3
<1>8. ASSUME NEW kind \in Kinds, NEW b \in DOMAIN q, q[b].type = BaseType[kind] PROVE Targets(L, kind, b) # {}
  <2>1. b \in DOMAIN p /\ p[b].type = BaseType[kind]
    BY <1>3, <1>4, <1>8
  <2> QED BY <2>1, PastIsFit
<1> HIDE DEF L
<1>9. DOMAIN q \subseteq Ids /\ q = [i \in DOMAIN q |-> q[i]] /\ IsLinks(L)
  BY <1>1, <1>2, <1>3
<1>10. IsPast(q) /\ Links(q) = L
  <2>1. \A i, j \in DOMAIN q : i # j => q[i].key # q[j].key \/ q[i].key = NoKey
    BY <1>6
  <2>2. \A kind \in Kinds, b \in DOMAIN q : q[b].type = BaseType[kind] => Targets(L, kind, b) # {}
    BY <1>8
  <2> QED BY <1>5, <1>7, <1>9, <2>1, <2>2, PastFrom
<1>11. Put(q, id, Norm(old)) = p
  BY <1>2 DEF Put, q
<1>12. Drop(q, {id}) = Drop(p, {id})
  BY <1>2 DEF Drop, Put, q
<1>13. /\ old.key # x.key => KeyFree(Drop(p, {id}), x)
       /\ old.key # x.key => KeyFree(Drop(q, {id}), old)
  <2>1. KeyFree(Drop(p, {id}), old)
    BY <1>2, <1>4 DEF KeyFree, Drop
  <2> QED BY <1>12, <2>1
<1>14. Does(Edit(id, old, x), <<p, L>>, <<Put(p, id, Norm(x)), L>>, <<Put(q, id, Norm(old)), L>>, <<q, L>>)
  <2>1. x.key = q[id].key /\ x.expires = q[id].expires /\ id \in DOMAIN q
    BY <1>3, <1>4
  <2>2. old.key = p[id].key /\ old.expires = p[id].expires
    BY <1>4
  <2> QED BY <1>13, <2>1, <2>2, EditIs, EditDoes
<1>15. Does(Edit(id, old, x), Stage(p), Stage(q), Stage(p), Stage(q))
  BY <1>10, <1>11, <1>14 DEF Stage, L, q
<1> QED BY <1>10, <1>15 DEF q

LEMMA EditLeads ==
  ASSUME NEW p, IsPast(p), NEW id \in DOMAIN p, NEW old, IsEntry(old), Norm(old) = p[id],
         NEW x, IsEntry(x), DOMAIN x = EntryFields, x.type = old.type, x.base = old.base,
         old.key # x.key => KeyFree(Drop(p, {id}), x)
  PROVE  LET q == Put(p, id, Norm(x))
         IN  IsPast(q) /\ Leads(<<Edit(id, old, x)>>, p, q)
<1> DEFINE q == Put(p, id, Norm(x))
<1>1. IsPast(q) /\ Does(Edit(id, old, x), Stage(p), Stage(q), Stage(p), Stage(q))
  BY EditStep
<1> HIDE DEF q
<1>2. Leads(<<Edit(id, old, x)>>, p, q)
  BY <1>1, OneLeads
<1> QED BY <1>1, <1>2 DEF q

LEMMA NormTwice ==
  ASSUME NEW x, IsEntry(x)
  PROVE  Norm(Norm(x)) = Norm(x)
  BY DEF Norm, IsDependent, IsEntry

(* What a group of entries leaves behind is well formed. *)
LEMMA PartPast ==
  ASSUME NEW p, IsPast(p), NEW A, NEW R, IsStage(p, A, R)
  PROVE  LET q == Part(p, Links(p), A, R, {})
         IN  IsPast(q) /\ Links(q) = Remaining(Links(p), A \cup R)
<1> DEFINE L == Links(p)
           G == A \cup R
           q == Part(p, L, A, R, {})
           M == Remaining(L, G)
<1>1. IsFit(p, L) /\ IsLinks(L)
  BY PastIsFit
<1>2. /\ DOMAIN p \subseteq Ids
      /\ \A i \in DOMAIN p : IsEntry(p[i]) /\ Norm(p[i]) = p[i] /\ DOMAIN p[i] = EntryFields
      /\ \A i \in DOMAIN p : IsDependent(p[i]) => p[i].base \in DOMAIN p /\ ~IsDependent(p[p[i].base])
      /\ \A i, j \in DOMAIN p : i # j => p[i].key # p[j].key \/ p[i].key = NoKey
  BY PastIs
<1>3. IsPart(q, p, L, A, R, {})
  BY <1>1, PartIs
<1>4. ASSUME NEW kind \in Kinds, NEW b \in Ids, NEW i \in Ids
      PROVE  /\ <<b, i>> \in M[kind] <=> <<b, i>> \in L[kind] /\ i \notin G
             /\ <<b, i>> \in L[kind] <=> i \in DOMAIN p /\ p[i].type = kind /\ p[i].base = b
             /\ <<b, i>> \in L[kind] => b \in DOMAIN p /\ p[b].type = BaseType[kind]
  <2>1. <<b, i>> \in M[kind] <=> <<b, i>> \in L[kind] /\ i \notin G
    BY RemainingIs
  <2>2. <<b, i>> \in L[kind] <=> i \in DOMAIN p /\ p[i].type = kind /\ p[i].base = b
    BY LinksIs
  <2>3. <<b, i>> \in L[kind] => b \in DOMAIN p /\ p[b].type = BaseType[kind]
    BY <1>1 DEF IsFit
  <2> QED BY <2>1, <2>2, <2>3
<1>5. IsLinks(M)
  BY <1>1, RemainingLinks
<1>6. /\ A \subseteq DOMAIN p /\ R \subseteq DOMAIN p \ A
      /\ \A i \in R : p[i].type = "alias"
      /\ \A i \in DOMAIN p \ G : IsDependent(p[i]) => p[i].base \notin A
  BY DEF IsStage
<1> HIDE DEF q, L, M
<1>7. DOMAIN q = DOMAIN p \ A /\ q = [i \in DOMAIN q |-> q[i]] /\ DOMAIN q \subseteq Ids
  BY <1>2, <1>3 DEF IsPart
<1>8. ASSUME NEW i \in R
      PROVE  /\ IsEntry(q[i]) /\ Norm(q[i]) = q[i] /\ DOMAIN q[i] = EntryFields /\ q[i].type = "normal"
             /\ q[i].key = p[i].key
  <2>1. i \in DOMAIN p \ A /\ IsDependent(p[i])
    BY <1>6 DEF IsDependent, Kinds
  <2>2. q[i] = ResetOf(p, i) /\ q[i].key = p[i].key
    BY <1>3, <2>1 DEF IsPart
  <2> DEFINE x == p[i]
             password == p[p[i].base].password
             y == [x EXCEPT !.type = "normal", !.password = password]
  <2>3. IsEntry(x) /\ Norm(x) = x /\ DOMAIN x = EntryFields
    BY <1>2, <2>1
  <2>4. password \in Passwords
    <3>1. IsEntry(p[p[i].base]) /\ ~IsDependent(p[p[i].base])
      BY <1>2, <2>1
    <3> QED BY <3>1 DEF IsEntry
  <2>5. q[i] = [x EXCEPT !.type = "normal", !.password = password, !.base = NoId]
    BY <2>2 DEF ResetOf
  <2> HIDE DEF x, password
  <2>6. IsEntry(y) /\ Norm(y) = [Norm(x) EXCEPT !.type = "normal", !.password = password, !.base = NoId]
    BY <2>3, <2>4, ResetIs
  <2>7. y.type = "normal" /\ DOMAIN y = EntryFields
    BY <2>3 DEF IsEntry
  <2> HIDE DEF y
  <2>8. q[i] = Norm(y)
    BY <2>3, <2>5, <2>6
  <2>9. IsEntry(Norm(y)) /\ DOMAIN Norm(y) = DOMAIN y /\ Norm(y).type = y.type /\ Norm(Norm(y)) = Norm(y)
    BY <2>6, NormIs, NormTwice
  <2> QED BY <2>2, <2>7, <2>8, <2>9
<1>9. ASSUME NEW i \in DOMAIN q, i \notin R
      PROVE  /\ IsEntry(q[i]) /\ Norm(q[i]) = q[i] /\ DOMAIN q[i] = EntryFields /\ q[i].key = p[i].key
             /\ IsDependent(p[i]) => q[i] = p[i]
             /\ ~IsDependent(p[i]) => ~IsDependent(q[i]) /\ q[i].type \in {"normal", p[i].type}
             /\ ~Bereft(p, L, G, i) => q[i] = p[i]
             /\ Bereft(p, L, G, i) => q[i].type = "normal"
  <2>1. /\ IsDependent(p[i]) => q[i] = p[i]
        /\ ~IsDependent(p[i]) => ~IsDependent(q[i]) /\ q[i].type \in {"normal", p[i].type}
        /\ q[i].key = p[i].key
        /\ q[i] = p[i] \/ q[i] = [p[i] EXCEPT !.type = "normal"]
        /\ ~Bereft(p, L, G, i) => q[i] = p[i]
        /\ Bereft(p, L, G, i) => q[i] = [p[i] EXCEPT !.type = "normal"]
    BY <1>3, <1>7, <1>9 DEF IsPart
  <2>2. IsEntry(p[i]) /\ Norm(p[i]) = p[i] /\ DOMAIN p[i] = EntryFields
    BY <1>2, <1>7
  <2>3. Bereft(p, L, G, i) => q[i].type = "normal"
    BY <2>1, <2>2 DEF IsEntry
  <2>4. CASE q[i] = p[i]
    BY <2>1, <2>2, <2>3, <2>4
  <2>5. CASE q[i] = [p[i] EXCEPT !.type = "normal"] /\ ~IsDependent(p[i])
    <3>1. IsEntry(q[i]) /\ Norm(q[i]) = [Norm(p[i]) EXCEPT !.type = "normal"]
      BY <2>2, <2>5, RetypeIs DEF Types, Kinds
    <3> QED BY <2>1, <2>2, <2>3, <2>5, <3>1
  <2> QED BY <2>1, <2>4, <2>5
<1>10. ASSUME NEW i \in DOMAIN q
       PROVE  IsEntry(q[i]) /\ Norm(q[i]) = q[i] /\ DOMAIN q[i] = EntryFields /\ q[i].key = p[i].key
  BY <1>8, <1>9
<1>11. \A i, j \in DOMAIN q : i # j => q[i].key # q[j].key \/ q[i].key = NoKey
  BY <1>2, <1>7, <1>10
<1>12. ASSUME NEW kind \in Kinds, NEW b \in Ids, NEW i \in Ids
       PROVE  <<b, i>> \in M[kind] <=> i \in DOMAIN q /\ q[i].type = kind /\ q[i].base = b
  <2>1. <<b, i>> \in M[kind] <=> i \in DOMAIN p \ G /\ p[i].type = kind /\ p[i].base = b
    BY <1>4
  <2>2. CASE i \in R
    BY <1>8, <2>1, <2>2 DEF Kinds
  <2>3. CASE i \in DOMAIN q /\ i \notin R /\ IsDependent(p[i])
    BY <1>7, <1>9, <2>1, <2>3
  <2>4. CASE i \in DOMAIN q /\ i \notin R /\ ~IsDependent(p[i])
    BY <1>7, <1>9, <2>1, <2>4 DEF IsDependent
  <2>5. CASE i \notin DOMAIN q
    BY <1>7, <2>1, <2>5
  <2> QED BY <2>2, <2>3, <2>4, <2>5
<1>13. ASSUME NEW kind \in Kinds, NEW b \in Ids, NEW i \in Ids, <<b, i>> \in M[kind]
       PROVE  b \in DOMAIN q /\ q[b].type = BaseType[kind]
  <2>1. /\ i \in DOMAIN p \ G /\ p[i].type = kind /\ p[i].base = b /\ <<b, i>> \in L[kind]
        /\ b \in DOMAIN p /\ p[b].type = BaseType[kind]
    BY <1>4, <1>13
  <2>2. b \notin A /\ b \notin R
    BY <1>6, <2>1 DEF IsDependent, BaseType, Kinds
  <2>3. ~Bereft(p, L, G, b)
    <3>1. \A k \in Kinds : p[b].type = BaseType[k] => k = kind
      BY <2>1 DEF BaseType, Kinds
    <3>2. i \in Targets(L, kind, b) /\ i \notin G
      BY <2>1 DEF Targets
    <3> QED BY <3>1, <3>2 DEF Bereft
  <2> QED BY <1>7, <1>9, <2>1, <2>2, <2>3
<1>14. ASSUME NEW kind \in Kinds, NEW b \in DOMAIN q, q[b].type = BaseType[kind] PROVE Targets(M, kind, b) # {}
  <2>1. BaseType[kind] # "normal" /\ BaseType[kind] \notin Kinds
    BY DEF BaseType, Kinds
  <2>2. b \notin R
    BY <1>8, <1>14, <2>1
  <2>3. ~Bereft(p, L, G, b) /\ p[b].type = BaseType[kind]
    BY <1>9, <1>14, <2>1, <2>2
  <2>4. PICK i \in Ids : <<b, i>> \in L[kind] /\ i \notin G
    BY <2>3 DEF Bereft, Targets
  <2>5. <<b, i>> \in M[kind]
    BY <1>4, <1>7, <2>4
  <2> QED BY <2>5 DEF Targets
<1>15. IsPast(q) /\ Links(q) = M
  BY <1>5, <1>7, <1>10, <1>11, <1>12, <1>13, <1>14, PastFrom
<1> QED BY <1>15 DEF q, L, M
=============================================================================
