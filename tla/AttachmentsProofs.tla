------------------------- MODULE AttachmentsProofs -------------------------
(***************************************************************************)
(* Theorems about the attachments of a database: with counts that cannot   *)
(* overflow, and a user who does nothing of RiskyKinds, every reference    *)
(* leads to an attachment, none is removed while an entry needs it, and    *)
(* every undo and redo shows what was there, whatever the number of        *)
(* entries, attachments and commands.                                      *)
(*                                                                         *)
(* The invariant (Explains) gives each position of the undo chain what was *)
(* there, and says of each list of commands from which position to which   *)
(* it leads (Leads).  Executing, or undoing, a list that leads from one    *)
(* position to another brings a database from one to the other             *)
(* (ExecuteArrives, UndoReturns).                                          *)
(***************************************************************************)
EXTENDS Attachments, NumberInduction, FiniteSetTheorems, SequenceTheorems, TLAPS

-----------------------------------------------------------------------------
(* A database at a position of the undo chain. *)

(* What a position of the chain has: the entries, and the title of every   *)
(* attachment, listed or not.                                              *)
IsPast(p) ==
    /\ p = [entries |-> p.entries, titles |-> p.titles]
    /\ p.entries \in [DOMAIN p.entries -> Entries] /\ DOMAIN p.entries \subseteq Ids
    /\ p.titles \in [Atts -> Titles \cup {NoTitle}]

AttsOf(entries) == {entries[i].att : i \in DOMAIN entries} \ {NoAtt}

(* What the user sees there. *)
Shown(p) ==
    [i \in DOMAIN p.entries |->
        [text  |-> p.entries[i].text, att |-> p.entries[i].att,
         title |-> IF p.entries[i].att = NoAtt THEN NoTitle ELSE p.titles[p.entries[i].att]]]

(* The database d is at p: its entries are those of p, each attachment     *)
(* that they refer to is listed, all that are listed have their title, and *)
(* a count that is not too low, nor above top.                             *)
IsList(atts) == atts \in [DOMAIN atts -> Attachment] /\ DOMAIN atts \subseteq Atts

Counted(att, p, top) ==
    /\ att.title = p.titles[att.uuid]
    /\ Cardinality(RefsTo(p.entries, att.uuid)) <= att.refs
    /\ att.refs <= top

At(d, p, top) ==
    /\ d = [entries |-> p.entries, atts |-> d.atts]
    /\ IsList(d.atts)
    /\ AttsOf(p.entries) \subseteq DOMAIN d.atts
    /\ \A a \in DOMAIN d.atts : d.atts[a].uuid = a /\ Counted(d.atts[a], p, top)

-----------------------------------------------------------------------------
(* What a list of commands leads from, and to. *)

Without(entries, ids) == [i \in DOMAIN entries \ ids |-> entries[i]]

(* The attachment of a new one, in position p. *)
IsNewAtt(att, p) ==
    /\ att \in Attachment /\ att.refs = 0
    /\ att.title = p.titles[att.uuid]
    /\ att.uuid \notin AttsOf(p.entries)

IsDelete(c) ==
    c = [op |-> "delete", id |-> c.id, entry |-> c.entry, saved |-> c.saved, done |-> c.done]

IsDetach(c) == c = [op |-> "deleteatt", id |-> c.id, entry |-> c.entry, saved |-> c.saved]

AddsEntry(c, p, q) ==
    /\ c.op = "add"
    /\ c.id \in Ids \ DOMAIN p.entries
    /\ c.entry \in Entries
    /\ \/ /\ c.att = Empty
          /\ c.entry.att \in AttsOf(p.entries) \cup {NoAtt}
          /\ q.entries = With(p.entries, c.id, c.entry)
       \/ /\ IsNewAtt(c.att, p) /\ c.entry.att = NoAtt
          /\ q.entries = With(p.entries, c.id, [c.entry EXCEPT !.att = c.att.uuid])

Adds(list, p, q) == Len(list) = 1 /\ AddsEntry(list[1], p, q) /\ q.titles = p.titles

Attaches(list, p, q) ==
    /\ Len(list) = 2
    /\ IsDelete(list[1]) /\ list[1].id = list[2].id /\ list[1].entry = list[2].entry
    /\ list[1].saved = Empty
    /\ list[1].id \in DOMAIN p.entries
    /\ p.entries[list[1].id] = list[1].entry /\ list[1].entry.att = NoAtt
    /\ list[2].op = "add" /\ IsNewAtt(list[2].att, p)
    /\ q.entries = With(p.entries, list[1].id, [list[1].entry EXCEPT !.att = list[2].att.uuid])
    /\ q.titles = p.titles

(* The attachment an earlier execution of the j-th deletion removed.       *)
IsCopy(saved, a, p, top) ==
    /\ saved \in Attachment /\ saved.uuid = a /\ saved.title = p.titles[a]
    /\ 1 <= saved.refs /\ saved.refs <= top

(* The position after the first n deletions of a list.                     *)
IdsOf(list, n) == {list[k].id : k \in 1 .. n}

Left(list, n, p) == [entries |-> Without(p.entries, IdsOf(list, n)), titles |-> p.titles]

(* A copy is kept by the deletion after which nothing refers to it.        *)
DeletesNth(list, j, p) ==
    /\ IsDelete(list[j])
    /\ list[j].id \in DOMAIN p.entries
    /\ list[j].entry = p.entries[list[j].id]
    /\ \A k \in 1 .. Len(list) : k # j => list[k].id # list[j].id
    /\ \/ list[j].saved = Empty
       \/ /\ IsCopy(list[j].saved, list[j].entry.att, p, 1)
          /\ list[j].entry.att \notin AttsOf(Left(list, j, p).entries)

Deletes(list, p, q) ==
    /\ Len(list) \in 1 .. Cardinality(Ids)
    /\ \A j \in 1 .. Len(list) : DeletesNth(list, j, p)
    /\ q = Left(list, Len(list), p)

EditsTo(c, p, q) ==
    /\ c.op = "edit" /\ c.id \in DOMAIN p.entries
    /\ c.old = p.entries[c.id] /\ c.new \in Entries
    /\ q.entries = With(p.entries, c.id, c.new)

Edits(list, p, q) ==
    /\ Len(list) = 1 /\ EditsTo(list[1], p, q) /\ list[1].new.att = list[1].old.att
    /\ q.titles = p.titles

Detaches(list, p, q, top) ==
    /\ Len(list) = 2
    /\ IsDetach(list[1]) /\ list[1].id = list[2].id /\ list[1].id \notin Bases
    /\ EditsTo(list[2], p, q) /\ list[1].entry = list[2].old
    /\ list[1].entry.att # NoAtt /\ list[2].new.att = NoAtt
    /\ RefsTo(p.entries, list[1].entry.att) = {list[1].id}
    /\ list[1].saved = Empty \/ IsCopy(list[1].saved, list[1].entry.att, p, top)
    /\ q.titles = p.titles

Retitles(list, p, q, top) ==
    /\ Len(list) = 2
    /\ list[1].op = "editatt"
    /\ list[1].old \in Attachment /\ list[1].new \in Attachment
    /\ list[1].old.uuid \in AttsOf(p.entries)
    /\ list[1].old.uuid = list[1].new.uuid
    /\ Counted(list[1].old, p, top) /\ Counted(list[1].new, q, top)
    /\ EditsTo(list[2], p, q) /\ list[2].new.att = list[2].old.att
    /\ q.titles = [p.titles EXCEPT ![list[1].old.uuid] = list[1].new.title]

Leads(list, p, q, top) ==
    \/ Adds(list, p, q) \/ Attaches(list, p, q) \/ Deletes(list, p, q)
    \/ Edits(list, p, q) \/ Detaches(list, p, q, top) \/ Retitles(list, p, q, top)

(* The commands that a list holds were executed. *)
Done(list) ==
    \A j \in 1 .. Len(list) :
        /\ list[j].op = "delete" => list[j].done
        /\ list[j].op = "deleteatt" => list[j].saved # Empty

(* The attachments the undo of a list puts back. *)
Saves(list) ==
    {list[j].saved.uuid :
        j \in {k \in 1 .. Len(list) : list[k].op \in {"delete", "deleteatt"}
                                       /\ list[k].saved # Empty}}

-----------------------------------------------------------------------------
(* The inductive invariant. *)

Base == MaxRefs + Cardinality(Ids)

(* Attachments an earlier position needs are listed, or kept by a command  *)
(* that is to be undone before.                                            *)
Kept(past) ==
    \A k \in 1 .. next : \A a \in AttsOf(past[k].entries) :
        a \in DOMAIN db.atts \/ \E m \in k .. next - 1 : a \in Saves(commands[m])

IsListOf(s, n) == s = [k \in 1 .. n |-> s[k]]

Explains(past) ==
    /\ next \in 1 .. Len(commands) + 1 /\ Len(commands) <= MaxCommands /\ Len(commands) \in Nat
    /\ IsListOf(commands, Len(commands)) /\ IsListOf(history, Len(commands) + 1)
    /\ \A k \in 1 .. Len(commands) + 1 : IsPast(past[k]) /\ history[k] = Shown(past[k])
    /\ \A k \in 1 .. Len(commands) :
          Leads(commands[k], past[k], past[k + 1], Base + k) /\ Done(commands[k])
    /\ At(db, past[next], Base + next)
    /\ Kept(past)

-----------------------------------------------------------------------------
(* The recursive functions of ExecuteAll and UndoAll. *)

LEMMA LenIs ==
  ASSUME NEW n \in Nat, NEW f, f = [k \in 1 .. n |-> f[k]]
  PROVE  Len(f) = n
  OBVIOUS

(* The databases that the execution of a list goes through. *)
Ran(list, d) ==
    CHOOSE f : f = [k \in 0 .. Len(list) |-> IF k = 0 THEN d ELSE Execute1(f[k - 1], list[k])]

LEMMA ExecuteRuns ==
  ASSUME NEW d, NEW list, Len(list) \in Nat
  PROVE  /\ Ran(list, d)[0] = d
         /\ \A k \in 1 .. Len(list) : Ran(list, d)[k] = Execute1(Ran(list, d)[k - 1], list[k])
         /\ ExecuteAll(list, d).db = Ran(list, d)[Len(list)]
         /\ Len(ExecuteAll(list, d).did) = Len(list)
         /\ \A k \in 1 .. Len(list) :
               ExecuteAll(list, d).did[k] = Executed1(Ran(list, d)[k - 1], list[k])
<1> DEFINE n == Len(list)
           IsRun(f, m) == /\ f = [k \in 0 .. m |-> f[k]] /\ f[0] = d
                          /\ \A k \in 1 .. m : f[k] = Execute1(f[k - 1], list[k])
           S == {m \in Nat : \E f : IsRun(f, m)}
           Body(f) == [k \in 0 .. n |-> IF k = 0 THEN d ELSE Execute1(f[k - 1], list[k])]
           after == Ran(list, d)
<1>1. 0 \in S
  <2>1. IsRun([k \in 0..0 |-> d], 0)
    OBVIOUS
  <2> QED BY <2>1
<1>2. ASSUME NEW m \in Nat, m \in S PROVE m + 1 \in S
  <2>1. PICK f : IsRun(f, m)
    BY <1>2
  <2> DEFINE g == [k \in 0 .. m + 1 |-> IF k = m + 1 THEN Execute1(f[m], list[m + 1]) ELSE f[k]]
  <2>2. IsRun(g, m + 1)
    <3>1. g = [k \in 0 .. m + 1 |-> g[k]]
      OBVIOUS
    <3>2. g[0] = d
      BY <2>1
    <3>3. ASSUME NEW k \in 1 .. m + 1 PROVE g[k] = Execute1(g[k - 1], list[k])
      <4>1. CASE k = m + 1
        <5>1. g[k] = Execute1(f[m], list[k]) /\ k - 1 = m /\ m \in 0 .. m + 1 /\ m # m + 1
          BY <4>1
        <5>2. g[m] = f[m]
          BY <5>1
        <5> HIDE DEF g
        <5> QED BY <5>1, <5>2
      <4>2. CASE k \in 1 .. m
        <5>1. g[k] = f[k] /\ g[k - 1] = f[k - 1]
          BY <4>2
        <5> HIDE DEF g
        <5> QED BY <2>1, <4>2, <5>1
      <4> QED BY <4>1, <4>2
    <3> HIDE DEF g
    <3> QED BY <3>1, <3>2, <3>3
  <2> HIDE DEF g, IsRun
  <2> QED BY <2>2
<1>3. PICK f : IsRun(f, n)
  <2> HIDE DEF IsRun
  <2>1. Nat \subseteq S
    <3> HIDE DEF S
    <3> QED BY <1>1, <1>2, SetInduction
  <2> QED BY <2>1
<1>4. f = Body(f)
  BY <1>3
<1>5. after = Body(after)
  <2>1. after = CHOOSE g : g = Body(g)
    BY DEF Ran
  <2> HIDE DEF Body, after
  <2> QED BY <1>4, <2>1
<1>6. after[0] = d /\ \A k \in 1 .. n : after[k] = Execute1(after[k - 1], list[k])
  <2> HIDE DEF after
  <2> QED BY <1>5
<1>7. ExecuteAll(list, d) = [db |-> after[n], did |-> [k \in 1 .. n |-> Executed1(after[k - 1], list[k])]]
  BY Zenon DEF ExecuteAll, Ran
<1> DEFINE did == [k \in 1 .. n |-> Executed1(after[k - 1], list[k])]
<1>8. did = [k \in 1 .. n |-> did[k]] /\ \A k \in 1 .. n : did[k] = Executed1(after[k - 1], list[k])
  OBVIOUS
<1>9. ExecuteAll(list, d).db = after[n] /\ ExecuteAll(list, d).did = did
  BY <1>7
<1> HIDE DEF after, did
<1>10. Len(did) = n
  BY <1>8, LenIs
<1> QED BY <1>6, <1>8, <1>9, <1>10 DEF after

(* The databases that the undo of a list goes through. *)
Unran(list, d) ==
    CHOOSE f : f = [k \in 0 .. Len(list) |-> IF k = 0 THEN d ELSE Undo1(f[k - 1], Reverse(list)[k])]

LEMMA ReversedIs ==
  ASSUME NEW list, Len(list) \in Nat, NEW k \in 1 .. Len(list), NEW j \in 1 .. Len(list),
         k + j = Len(list) + 1
  PROVE  Reverse(list)[k] = list[j]
<1>1. Reverse(list)[k] = list[(Len(list) - k) + 1]
  BY DEF Reverse
<1>2. (Len(list) - k) + 1 = j
  OBVIOUS
<1> QED BY <1>1, <1>2

LEMMA UndoRuns ==
  ASSUME NEW d, NEW list, Len(list) \in Nat
  PROVE  /\ Unran(list, d)[0] = d
         /\ \A k \in 1 .. Len(list) : Unran(list, d)[k] = Undo1(Unran(list, d)[k - 1], Reverse(list)[k])
         /\ UndoAll(list, d) = Unran(list, d)[Len(list)]
<1> DEFINE n == Len(list)
           IsRun(f, m) == /\ f = [k \in 0 .. m |-> f[k]] /\ f[0] = d
                          /\ \A k \in 1 .. m : f[k] = Undo1(f[k - 1], Reverse(list)[k])
           S == {m \in Nat : \E f : IsRun(f, m)}
           Body(f) == [k \in 0 .. n |-> IF k = 0 THEN d ELSE Undo1(f[k - 1], Reverse(list)[k])]
           back == Unran(list, d)
<1>1. 0 \in S
  <2>1. IsRun([k \in 0..0 |-> d], 0)
    OBVIOUS
  <2> QED BY <2>1
<1>2. ASSUME NEW m \in Nat, m \in S PROVE m + 1 \in S
  <2>1. PICK f : IsRun(f, m)
    BY <1>2
  <2> DEFINE g == [k \in 0 .. m + 1 |-> IF k = m + 1 THEN Undo1(f[m], Reverse(list)[m + 1]) ELSE f[k]]
  <2>2. IsRun(g, m + 1)
    <3>1. g = [k \in 0 .. m + 1 |-> g[k]]
      OBVIOUS
    <3>2. g[0] = d
      BY <2>1
    <3>3. ASSUME NEW k \in 1 .. m + 1 PROVE g[k] = Undo1(g[k - 1], Reverse(list)[k])
      <4>1. CASE k = m + 1
        <5>1. g[k] = Undo1(f[m], Reverse(list)[k]) /\ k - 1 = m /\ m \in 0 .. m + 1 /\ m # m + 1
          BY <4>1
        <5>2. g[m] = f[m]
          BY <5>1
        <5> HIDE DEF g
        <5> QED BY <5>1, <5>2
      <4>2. CASE k \in 1 .. m
        <5>1. g[k] = f[k] /\ g[k - 1] = f[k - 1]
          BY <4>2
        <5> HIDE DEF g
        <5> QED BY <2>1, <4>2, <5>1
      <4> QED BY <4>1, <4>2
    <3> HIDE DEF g
    <3> QED BY <3>1, <3>2, <3>3
  <2> HIDE DEF g, IsRun
  <2> QED BY <2>2
<1>3. PICK f : IsRun(f, n)
  <2> HIDE DEF IsRun
  <2>1. Nat \subseteq S
    <3> HIDE DEF S
    <3> QED BY <1>1, <1>2, SetInduction
  <2> QED BY <2>1
<1>4. f = Body(f)
  BY <1>3
<1>5. back = Body(back)
  <2>1. back = CHOOSE g : g = Body(g)
    BY DEF Unran
  <2> HIDE DEF Body, back
  <2> QED BY <1>4, <2>1
<1>6. back[0] = d /\ \A k \in 1 .. n : back[k] = Undo1(back[k - 1], Reverse(list)[k])
  <2> HIDE DEF back
  <2> QED BY <1>5
<1>7. UndoAll(list, d) = back[n]
  BY Zenon DEF UndoAll, Unran
<1> HIDE DEF back
<1> QED BY <1>6, <1>7 DEF back

-----------------------------------------------------------------------------
(* The references to an attachment are counted right. *)

LEMMA RefsFinite ==
  ASSUME IsFiniteSet(Ids), NEW entries, DOMAIN entries \subseteq Ids, NEW a
  PROVE  /\ IsFiniteSet(RefsTo(entries, a))
         /\ Cardinality(RefsTo(entries, a)) \in Nat
         /\ Cardinality(RefsTo(entries, a)) <= Cardinality(Ids)
         /\ Cardinality(Ids) \in Nat
<1>1. RefsTo(entries, a) \in SUBSET Ids
  BY DEF RefsTo
<1> QED BY <1>1, FS_Subset, FS_CardinalityType

LEMMA RefsAdded ==
  ASSUME IsFiniteSet(Ids), NEW entries, DOMAIN entries \subseteq Ids,
         NEW id \in Ids \ DOMAIN entries, NEW entry, NEW a
  PROVE  Cardinality(RefsTo(With(entries, id, entry), a)) =
            Cardinality(RefsTo(entries, a)) + (IF entry.att = a THEN 1 ELSE 0)
<1>1. RefsTo(With(entries, id, entry), a) =
        IF entry.att = a THEN RefsTo(entries, a) \cup {id} ELSE RefsTo(entries, a)
  BY DEF RefsTo, With
<1>2. id \notin RefsTo(entries, a)
  BY DEF RefsTo
<1>3. IsFiniteSet(RefsTo(entries, a)) /\ Cardinality(RefsTo(entries, a)) \in Nat
  BY RefsFinite
<1>4. Cardinality(RefsTo(entries, a) \cup {id}) = Cardinality(RefsTo(entries, a)) + 1
  BY <1>2, <1>3, FS_AddElement
<1> QED BY <1>1, <1>3, <1>4

LEMMA RefsDropped ==
  ASSUME IsFiniteSet(Ids), NEW entries, DOMAIN entries \subseteq Ids,
         NEW id \in DOMAIN entries, NEW a
  PROVE  /\ Cardinality(RefsTo(Without(entries, {id}), a)) =
              Cardinality(RefsTo(entries, a)) - (IF entries[id].att = a THEN 1 ELSE 0)
         /\ entries[id].att = a => Cardinality(RefsTo(entries, a)) >= 1
<1>1. RefsTo(Without(entries, {id}), a) = RefsTo(entries, a) \ {id}
  BY DEF RefsTo, Without
<1>2. id \in RefsTo(entries, a) <=> entries[id].att = a
  BY DEF RefsTo
<1>3. IsFiniteSet(RefsTo(entries, a)) /\ Cardinality(RefsTo(entries, a)) \in Nat
  BY RefsFinite
<1>4. entries[id].att = a => Cardinality(RefsTo(entries, a)) # 0
  BY <1>2, <1>3, FS_EmptySet
<1>5. Cardinality(RefsTo(entries, a) \ {id}) =
        IF id \in RefsTo(entries, a) THEN Cardinality(RefsTo(entries, a)) - 1
                                     ELSE Cardinality(RefsTo(entries, a))
  BY <1>3, FS_RemoveElement
<1> QED BY <1>1, <1>2, <1>3, <1>4, <1>5

(* Only the references of the entries that refer to a count. *)
LEMMA RefsKept ==
  ASSUME NEW entries, NEW id \in DOMAIN entries, NEW new, new.att = entries[id].att, NEW a
  PROVE  RefsTo(With(entries, id, new), a) = RefsTo(entries, a)
  BY DEF RefsTo, With

-----------------------------------------------------------------------------
(* PWScore's list. *)

LEMMA ListedIs ==
  ASSUME NEW d, NEW a, NEW att, d = [entries |-> d.entries, atts |-> d.atts]
  PROVE  Listed(d, a, att) = [entries |-> d.entries, atts |-> With(d.atts, a, att)]
  BY DEF Listed

LEMMA RemoveAttIs ==
  ASSUME NEW d, NEW a, d = [entries |-> d.entries, atts |-> d.atts]
  PROVE  RemoveAtt(d, a) =
            [entries |-> d.entries, atts |-> [x \in DOMAIN d.atts \ {a} |-> d.atts[x]]]
  BY DEF RemoveAtt, Restrict

-----------------------------------------------------------------------------
(* Entries added, deleted and edited in a database at a position. *)

(* Counts change with the references. *)
LEMMA AtParts ==
  ASSUME NEW d, NEW p, NEW top \in Nat, IsPast(p), At(d, p, top)
  PROVE  /\ d = [entries |-> d.entries, atts |-> d.atts]
         /\ d.entries = p.entries /\ DOMAIN p.entries \subseteq Ids
         /\ NoAtt \notin DOMAIN d.atts /\ NoAtt \notin Atts
         /\ \A a \in DOMAIN d.atts :
              /\ a \in Atts
              /\ d.atts[a] \in Attachment /\ HasContent(d.atts[a])
              /\ d.atts[a].uuid = a /\ d.atts[a].refs \in Nat
         /\ \A i \in DOMAIN p.entries : p.entries[i].att \in DOMAIN d.atts \cup {NoAtt}
<1>1. NoAtt \notin Atts /\ NoTitle \notin Titles /\ UIntMax \in Nat
  BY AttachmentsAssumption
<1> QED BY <1>1 DEF At, IsList, IsPast, AttsOf, Attachment, HasContent

LEMMA AddAt ==
  ASSUME IsFiniteSet(Ids), NEW top \in Nat, top < UIntMax,
         NEW d, NEW p, NEW q, IsPast(p), At(d, p, top),
         NEW id \in Ids \ DOMAIN p.entries, NEW entry \in Entries, NEW att,
         \/ att = Empty /\ entry.att \in DOMAIN d.atts \cup {NoAtt}
         \/ att \in Attachment /\ att.title = p.titles[att.uuid] /\ att.refs <= top,
         q = [entries |-> With(p.entries, id,
                [entry EXCEPT !.att = IF HasContent(att) THEN att.uuid ELSE @]),
              titles |-> p.titles]
  PROVE  /\ At(DoAddEntry(d, id, entry, att), q, top + 1)
         /\ DOMAIN d.atts \subseteq DOMAIN DoAddEntry(d, id, entry, att).atts
<1> DEFINE full == [entry EXCEPT !.att = IF HasContent(att) THEN att.uuid ELSE @]
           a == full.att
           r == DoAddEntry(d, id, entry, att)
           added == [d EXCEPT !.entries = With(@, id, full)]
           listed == IF HasContent(att) /\ ~HasAtt(added, att.uuid)
                     THEN PutAtt(added, att) ELSE added
           known == IF a \in DOMAIN d.atts THEN d.atts ELSE With(d.atts, a, att)
<1>0. /\ NoAtt \notin Atts /\ NoTitle \notin Titles /\ UIntMax \in Nat
      /\ ~HasContent(Empty)
  BY AttachmentsAssumption DEF HasContent, Empty
<1>1. /\ d = [entries |-> p.entries, atts |-> d.atts] /\ DOMAIN p.entries \subseteq Ids
      /\ IsList(d.atts) /\ NoAtt \notin DOMAIN d.atts
      /\ \A x \in DOMAIN d.atts : d.atts[x].uuid = x /\ Counted(d.atts[x], p, top)
  BY AtParts DEF At
<1>2. att \in Attachment => HasContent(att) /\ a = att.uuid /\ a \in Atts /\ a # NoAtt
  BY <1>0 DEF Attachment, Entries, HasContent
<1>3. att = Empty => ~HasContent(att) /\ a = entry.att /\ a \in DOMAIN d.atts \cup {NoAtt}
  BY <1>0, <1>2 DEF Entries
<1>4. added = [entries |-> q.entries, atts |-> d.atts]
  BY <1>1
<1>5. a # NoAtt => listed = [entries |-> q.entries, atts |-> known]
  <2>1. CASE att \in Attachment
    <3>1. HasAtt(added, att.uuid) <=> a \in DOMAIN d.atts
      BY <1>2, <1>4, <2>1 DEF HasAtt
    <3>2. PutAtt(added, att) = [entries |-> q.entries, atts |-> With(d.atts, a, att)]
      <4> HIDE DEF added, a
      <4> QED BY <1>2, <1>4, <2>1, ListedIs DEF PutAtt
    <3> QED BY <1>2, <1>4, <2>1, <3>1, <3>2
  <2>2. CASE att = Empty
    BY <1>3, <1>4, <2>2
  <2> QED BY <2>1, <2>2
<1>6. a = NoAtt => listed = [entries |-> q.entries, atts |-> d.atts]
  BY <1>2, <1>3, <1>4
<1>7. q.entries = With(p.entries, id, full) /\ q.titles = p.titles /\ q.entries[id] = full
  BY DEF With
<1>8. \A x : Cardinality(RefsTo(q.entries, x)) =
               Cardinality(RefsTo(p.entries, x)) + (IF a = x THEN 1 ELSE 0)
  <2> HIDE DEF full
  <2> QED BY <1>1, <1>7, RefsAdded
<1>13. \A x : Cardinality(RefsTo(p.entries, x)) \in Nat
  BY <1>1, RefsFinite
<1>9. AttsOf(q.entries) \subseteq AttsOf(p.entries) \cup {a}
  BY DEF AttsOf, With
<1>10. r = IF RefFound(listed, listed.entries[id])
           THEN IncRefcount(listed, listed.entries[id].att) ELSE listed
  BY DEF DoAddEntry
<1>11. CASE a = NoAtt
  <2>1. r = [entries |-> q.entries, atts |-> d.atts]
    <3> HIDE DEF full, listed, r
    <3>1. listed.entries[id].att = NoAtt /\ listed = [entries |-> q.entries, atts |-> d.atts]
      BY <1>6, <1>7, <1>11
    <3> QED BY <1>10, <3>1 DEF RefFound
  <2>2. ASSUME NEW x \in DOMAIN d.atts PROVE Counted(d.atts[x], q, top + 1)
    <3>1. d.atts[x].uuid = x /\ x # NoAtt /\ d.atts[x].refs \in Nat
      BY <1>1 DEF IsList, Attachment
    <3> QED BY <1>1, <1>8, <1>13, <1>11, <3>1 DEF Counted
  <2> HIDE DEF a, r
  <2>3. AttsOf(q.entries) \subseteq DOMAIN d.atts
    BY <1>9, <1>11 DEF At, AttsOf
  <2>4. At(r, q, top + 1) /\ DOMAIN d.atts \subseteq DOMAIN r.atts
    BY <1>1, <2>1, <2>2, <2>3 DEF At
  <2> QED BY <2>4 DEF r
<1>12. CASE a # NoAtt
  <2> DEFINE inc == [known[a] EXCEPT !.refs = (@ + 1) % (UIntMax + 1)]
  <2>1. a \in DOMAIN known
    BY DEF With
  <2>2. r = [entries |-> q.entries, atts |-> With(known, a, inc)]
    <3> HIDE DEF a, known, listed, r, full
    <3>1. RefFound(listed, listed.entries[id])
      BY <1>5, <1>7, <1>12, <2>1 DEF RefFound, HasAtt, a
    <3>2. listed.entries[id].att = a
      BY <1>5, <1>7, <1>12 DEF a
    <3>3. r = IncRefcount(listed, a)
      BY <1>10, <3>1, <3>2
    <3>4. GetAtt(listed, a) = known[a]
      BY <1>5, <1>12, <2>1 DEF GetAtt, HasAtt
    <3>5. r = Listed(listed, a, inc)
      BY <3>3, <3>4 DEF IncRefcount
    <3> QED BY <1>5, <1>12, <3>5, ListedIs
  <2>3. /\ known[a] \in Attachment /\ known[a].uuid = a /\ known[a].title = p.titles[a]
        /\ Cardinality(RefsTo(p.entries, a)) <= known[a].refs /\ known[a].refs <= top
    <3>1. CASE a \in DOMAIN d.atts
      BY <1>1, <3>1 DEF IsList, Counted
    <3>2. CASE a \notin DOMAIN d.atts
      <4>1. att \in Attachment
        BY <1>3, <1>12, <3>2
      <4>2. known[a] = att
        BY <3>2 DEF With
      <4>3. Cardinality(RefsTo(p.entries, a)) = 0
        <5>1. RefsTo(p.entries, a) = {}
          BY <1>12, <3>2 DEF At, AttsOf, RefsTo
        <5> QED BY <5>1, FS_EmptySet
      <4> QED BY <1>0, <1>2, <4>1, <4>2, <4>3 DEF Attachment
    <3> QED BY <3>1, <3>2
  <2>4. inc = [known[a] EXCEPT !.refs = @ + 1]
    BY <1>0, <2>3 DEF Attachment
  <2> HIDE DEF a, r, inc, known
  <2>5. inc \in Attachment /\ inc.uuid = a /\ inc.title = p.titles[a] /\ inc.refs = known[a].refs + 1
    BY <1>0, <2>3, <2>4 DEF Attachment
  <2>6. /\ DOMAIN known = DOMAIN d.atts \cup {a}
        /\ \A x \in DOMAIN d.atts : known[x] = d.atts[x]
    BY DEF known, With
  <2>7. Counted(inc, q, top + 1)
    BY <1>0, <1>8, <1>13, <2>3, <2>5 DEF Counted, Attachment
  <2>8. ASSUME NEW x \in DOMAIN d.atts, x # a PROVE Counted(d.atts[x], q, top + 1)
    <3>1. d.atts[x].uuid = x /\ d.atts[x].refs \in Nat
      BY <1>1 DEF IsList, Attachment
    <3> QED BY <1>1, <1>8, <1>13, <2>8, <3>1 DEF Counted
  <2>9. IsList(With(known, a, inc))
    BY <1>1, <2>3, <2>5, <2>6 DEF IsList, With, Attachment
  <2>10. AttsOf(q.entries) \subseteq DOMAIN With(known, a, inc)
    BY <1>9, <2>6 DEF At, With
  <2>11. \A x \in DOMAIN With(known, a, inc) :
            With(known, a, inc)[x].uuid = x /\ Counted(With(known, a, inc)[x], q, top + 1)
    BY <1>1, <2>5, <2>6, <2>7, <2>8 DEF With
  <2>12. DOMAIN d.atts \subseteq DOMAIN With(known, a, inc)
    BY <2>6 DEF With
  <2>13. At(r, q, top + 1) /\ DOMAIN d.atts \subseteq DOMAIN r.atts
    BY <2>2, <2>9, <2>10, <2>11, <2>12 DEF At
  <2> QED BY <2>13 DEF r
<1> QED BY <1>11, <1>12

(* A deletion takes the attachment with it when its count is one. *)
LastRef(d, entry) == entry.att # NoAtt /\ d.atts[entry.att].refs = 1

Deleted(r, d, entry, q, top) ==
    /\ At(r, q, top)
    /\ DOMAIN r.atts = IF LastRef(d, entry) THEN DOMAIN d.atts \ {entry.att} ELSE DOMAIN d.atts
    /\ LastRef(d, entry) => entry.att \notin AttsOf(q.entries)

LEMMA DeleteAt ==
  ASSUME IsFiniteSet(Ids), NEW top \in Nat,
         NEW d, NEW p, NEW q, IsPast(p), At(d, p, top),
         NEW id \in DOMAIN p.entries, NEW entry, entry.att = NoAtt \/ entry = p.entries[id],
         q.entries = Without(p.entries, {id}), q.titles = p.titles
  PROVE  Deleted(DoDeleteEntry(d, id, entry), d, entry, q, top)
<1> DEFINE a == entry.att
           r == DoDeleteEntry(d, id, entry)
           erased == [d EXCEPT !.entries = Restrict(@, DOMAIN @ \ {id})]
           less == [d.atts[a] EXCEPT !.refs = IF @ = 0 THEN UIntMax ELSE @ - 1]
<1>1. /\ d = [entries |-> p.entries, atts |-> d.atts] /\ DOMAIN p.entries \subseteq Ids
      /\ IsList(d.atts) /\ NoAtt \notin DOMAIN d.atts
      /\ AttsOf(p.entries) \subseteq DOMAIN d.atts
      /\ \A x \in DOMAIN d.atts : d.atts[x].uuid = x /\ Counted(d.atts[x], p, top)
      /\ a \in DOMAIN d.atts \cup {NoAtt}
  BY AtParts DEF At
<1>2. erased = [entries |-> q.entries, atts |-> d.atts]
  BY <1>1 DEF Restrict, Without
<1>3. \A x : /\ Cardinality(RefsTo(q.entries, x)) =
                   Cardinality(RefsTo(p.entries, x)) - (IF p.entries[id].att = x THEN 1 ELSE 0)
             /\ p.entries[id].att = x => Cardinality(RefsTo(p.entries, x)) >= 1
  BY <1>1, RefsDropped
<1>4. \A x : Cardinality(RefsTo(p.entries, x)) \in Nat /\ Cardinality(RefsTo(q.entries, x)) \in Nat
  <2>1. DOMAIN q.entries \subseteq Ids
    BY <1>1 DEF Without
  <2> QED BY <1>1, <2>1, RefsFinite
<1>5. AttsOf(q.entries) \subseteq AttsOf(p.entries) /\ q.titles = p.titles
  BY DEF AttsOf, Without
<1>6. ASSUME NEW x \in DOMAIN d.atts PROVE Counted(d.atts[x], q, top) /\ d.atts[x].refs \in Nat
  <2>1. d.atts[x].uuid = x /\ d.atts[x].refs \in Nat
    BY <1>1 DEF IsList, Attachment
  <2>2. Cardinality(RefsTo(q.entries, x)) <= Cardinality(RefsTo(p.entries, x))
    <3>1. \/ Cardinality(RefsTo(q.entries, x)) = Cardinality(RefsTo(p.entries, x)) - 1
          \/ Cardinality(RefsTo(q.entries, x)) = Cardinality(RefsTo(p.entries, x)) - 0
      BY <1>3, Zenon
    <3>2. Cardinality(RefsTo(q.entries, x)) \in Nat /\ Cardinality(RefsTo(p.entries, x)) \in Nat
      BY <1>4, Zenon
    <3> QED BY <3>1, <3>2
  <2>3. /\ Cardinality(RefsTo(p.entries, x)) \in Nat /\ Cardinality(RefsTo(q.entries, x)) \in Nat
        /\ Counted(d.atts[x], p, top)
    BY <1>1, <1>4
  <2> HIDE DEF a
  <2> QED BY <1>5, <2>1, <2>2, <2>3 DEF Counted
<1>7. r = IF a = NoAtt THEN erased
          ELSE IF GetAtt(d, a).refs = 1 THEN RemoveAtt(erased, a) ELSE DecRefcount(erased, a)
  BY <1>1 DEF DoDeleteEntry
<1> HIDE DEF r, erased, less
<1>8. CASE a = NoAtt
  <2>1. r = [entries |-> q.entries, atts |-> d.atts]
    BY <1>2, <1>7, <1>8
  <2>2. AttsOf(q.entries) \subseteq DOMAIN d.atts
    BY <1>1, <1>5
  <2>3. At(r, q, top) /\ DOMAIN r.atts = DOMAIN d.atts
    BY <1>1, <1>6, <2>1, <2>2 DEF At
  <2> QED BY <1>8, <2>3 DEF r, LastRef, Deleted
<1>9. CASE a # NoAtt /\ ~LastRef(d, entry)
  <2>1. /\ a \in DOMAIN d.atts /\ d.atts[a].refs # 1
        /\ GetAtt(d, a) = d.atts[a] /\ GetAtt(erased, a) = d.atts[a]
    BY <1>1, <1>2, <1>9 DEF GetAtt, HasAtt, LastRef
  <2>2. r = Listed(erased, a, less)
    BY <1>7, <1>9, <2>1 DEF DecRefcount, less
  <2>3. r = [entries |-> q.entries, atts |-> With(d.atts, a, less)]
    BY <1>2, <2>2, ListedIs
  <2>4. /\ d.atts[a] \in Attachment /\ d.atts[a].uuid = a /\ d.atts[a].refs \in Nat
        /\ d.atts[a].title = p.titles[a]
        /\ Cardinality(RefsTo(p.entries, a)) <= d.atts[a].refs /\ d.atts[a].refs <= top
        /\ p.entries[id].att = a
    BY <1>1, <1>9, <2>1 DEF IsList, Attachment, Counted
  <2>5. d.atts[a].refs >= 1
    BY <1>3, <1>4, <2>4
  <2>6. less = [d.atts[a] EXCEPT !.refs = @ - 1]
    BY <2>4, <2>5 DEF less
  <2> HIDE DEF a
  <2>7. less \in Attachment /\ less.uuid = a /\ less.title = p.titles[a] /\ less.refs = d.atts[a].refs - 1
    <3>1. UIntMax \in Nat
      BY AttachmentsAssumption
    <3> QED BY <2>4, <2>5, <2>6, <3>1 DEF Attachment
  <2>8. Counted(less, q, top)
    <3>1. Cardinality(RefsTo(q.entries, a)) = Cardinality(RefsTo(p.entries, a)) - 1
      BY <1>3, <2>4
    <3>2. Cardinality(RefsTo(q.entries, a)) \in Nat /\ Cardinality(RefsTo(p.entries, a)) \in Nat
      BY <1>4
    <3> QED BY <1>5, <2>4, <2>5, <2>7, <3>1, <3>2 DEF Counted
  <2>9. IsList(With(d.atts, a, less)) /\ DOMAIN With(d.atts, a, less) = DOMAIN d.atts
    BY <1>1, <2>1, <2>7 DEF IsList, With
  <2>10. \A x \in DOMAIN d.atts :
            With(d.atts, a, less)[x].uuid = x /\ Counted(With(d.atts, a, less)[x], q, top)
    BY <1>1, <1>6, <2>7, <2>8 DEF With
  <2>11. At(r, q, top) /\ DOMAIN r.atts = DOMAIN d.atts
    BY <1>1, <1>5, <2>3, <2>9, <2>10 DEF At
  <2> QED BY <1>9, <2>11 DEF r, Deleted
<1>10. CASE LastRef(d, entry)
  <2> DEFINE rest == [x \in DOMAIN d.atts \ {a} |-> d.atts[x]]
  <2>1. a \in DOMAIN d.atts /\ d.atts[a].refs = 1 /\ GetAtt(d, a) = d.atts[a] /\ p.entries[id].att = a
        /\ a # NoAtt
    BY <1>1, <1>10 DEF GetAtt, HasAtt, LastRef
  <2>2. r = [entries |-> q.entries, atts |-> rest]
    <3> HIDE DEF a
    <3>1. r = RemoveAtt(erased, a)
      BY <1>7, <2>1
    <3>2. /\ erased = [entries |-> erased.entries, atts |-> erased.atts]
          /\ erased.entries = q.entries /\ erased.atts = d.atts
      BY <1>2
    <3>3. RemoveAtt(erased, a) = [entries |-> erased.entries,
                                  atts |-> [x \in DOMAIN erased.atts \ {a} |-> erased.atts[x]]]
      BY <3>2, RemoveAttIs, Zenon
    <3> QED BY <3>1, <3>2, <3>3
  <2>3. Cardinality(RefsTo(p.entries, a)) <= 1
    BY <1>1, <2>1 DEF Counted
  <2>4. Cardinality(RefsTo(q.entries, a)) = 0
    <3>1. Cardinality(RefsTo(q.entries, a)) = Cardinality(RefsTo(p.entries, a)) - 1
      BY <1>3, <2>1
    <3>2. Cardinality(RefsTo(q.entries, a)) \in Nat /\ Cardinality(RefsTo(p.entries, a)) \in Nat
      BY <1>4
    <3> QED BY <2>3, <3>1, <3>2
  <2>5. RefsTo(q.entries, a) = {}
    <3>1. IsFiniteSet(RefsTo(q.entries, a))
      BY <1>1, RefsFinite DEF Without
    <3> QED BY <2>4, <3>1, FS_EmptySet
  <2>6. \A i \in DOMAIN q.entries : q.entries[i].att # a
    BY <2>5 DEF RefsTo
  <2> HIDE DEF a
  <2>7. AttsOf(q.entries) \subseteq DOMAIN rest
    <3>1. a \notin AttsOf(q.entries)
      BY <2>6 DEF AttsOf
    <3> QED BY <1>1, <1>5, <3>1
  <2>8. IsList(rest)
    BY <1>1 DEF IsList
  <2>9. At(r, q, top) /\ DOMAIN r.atts = DOMAIN d.atts \ {a}
    BY <1>1, <1>6, <2>2, <2>7, <2>8 DEF At
  <2>10. a \notin AttsOf(q.entries)
    BY <2>6 DEF AttsOf
  <2> QED BY <1>10, <2>9, <2>10 DEF r, a, Deleted
<1> QED BY <1>8, <1>9, <1>10 DEF Deleted

(* A higher bound on the counts is a bound. *)
LEMMA TopGrows ==
  ASSUME IsFiniteSet(Ids), NEW top \in Nat, NEW more \in Nat, top <= more,
         NEW d, NEW p, IsPast(p), At(d, p, top)
  PROVE  At(d, p, more)
<1>1. \A a \in DOMAIN d.atts : d.atts[a].refs \in Nat
  BY AtParts
<1>2. ASSUME NEW a \in DOMAIN d.atts PROVE Counted(d.atts[a], p, more)
  BY <1>1 DEF At, Counted
<1> QED BY <1>2 DEF At

LEMMA EditAt ==
  ASSUME NEW top \in Nat, NEW d, NEW p, NEW q, IsPast(p), At(d, p, top),
         NEW id \in DOMAIN p.entries, NEW new, new.att = p.entries[id].att,
         q = [entries |-> With(p.entries, id, new), titles |-> p.titles]
  PROVE  /\ At(DoReplaceEntry(d, id, new), q, top)
         /\ DOMAIN DoReplaceEntry(d, id, new).atts = DOMAIN d.atts
<1> DEFINE r == DoReplaceEntry(d, id, new)
<1>1. d = [entries |-> p.entries, atts |-> d.atts]
  BY DEF At
<1>2. r = [entries |-> q.entries, atts |-> d.atts]
  BY <1>1 DEF DoReplaceEntry
<1> HIDE DEF r
<1>3. \A a : RefsTo(q.entries, a) = RefsTo(p.entries, a)
  BY RefsKept
<1>4. AttsOf(q.entries) = AttsOf(p.entries)
  BY DEF AttsOf, With
<1>5. q.titles = p.titles
  OBVIOUS
<1>6. ASSUME NEW a \in DOMAIN d.atts PROVE Counted(d.atts[a], q, top)
  <2>1. Counted(d.atts[a], p, top)
    BY DEF At
  <2> QED BY <1>3, <1>5, <2>1 DEF Counted
<1>7. At(r, q, top) /\ DOMAIN r.atts = DOMAIN d.atts
  BY <1>2, <1>4, <1>6 DEF At
<1> QED BY <1>7 DEF r

(* The title of an attachment changes with its count. *)
LEMMA RetitleAt ==
  ASSUME NEW top \in Nat, NEW d, NEW p, NEW q, IsPast(p), At(d, p, top),
         NEW a \in DOMAIN d.atts, NEW att \in Attachment, att.uuid = a,
         q = [entries |-> p.entries, titles |-> [p.titles EXCEPT ![a] = att.title]],
         Counted(att, q, top)
  PROVE  At(Listed(d, a, att), q, top) /\ DOMAIN Listed(d, a, att).atts = DOMAIN d.atts
<1> DEFINE r == Listed(d, a, att)
           atts == With(d.atts, a, att)
<1>1. d = [entries |-> p.entries, atts |-> d.atts] /\ IsList(d.atts)
  BY DEF At
<1>2. r = [entries |-> q.entries, atts |-> atts]
  BY <1>1 DEF Listed
<1>3. /\ DOMAIN atts = DOMAIN d.atts /\ atts[a] = att
      /\ \A x \in DOMAIN d.atts \ {a} : atts[x] = d.atts[x]
      /\ atts = [x \in DOMAIN atts |-> atts[x]]
  BY DEF With
<1> HIDE DEF r, atts
<1>4. ASSUME NEW x \in DOMAIN d.atts, x # a PROVE d.atts[x].uuid = x /\ Counted(d.atts[x], q, top)
  <2>1. d.atts[x].uuid = x /\ Counted(d.atts[x], p, top)
    BY DEF At
  <2>2. q.titles[x] = p.titles[x] /\ q.entries = p.entries
    BY <1>1, <1>4 DEF IsPast, IsList
  <2> QED BY <2>1, <2>2 DEF Counted
<1>5. IsList(atts)
  BY <1>1, <1>3 DEF IsList
<1>6. At(r, q, top) /\ DOMAIN r.atts = DOMAIN d.atts
  BY <1>2, <1>3, <1>4, <1>5 DEF At
<1> QED BY <1>6 DEF r

(* An attachment removed together with the only reference to it.           *)
LEMMA DetachAt ==
  ASSUME IsFiniteSet(Ids), NEW top \in Nat, NEW d, NEW p, NEW q, IsPast(p), At(d, p, top),
         NEW id \in DOMAIN p.entries, NEW a, a # NoAtt, RefsTo(p.entries, a) = {id},
         NEW new, new.att = NoAtt,
         q = [entries |-> With(p.entries, id, new), titles |-> p.titles]
  PROVE  /\ At(DoReplaceEntry(RemoveAtt(d, a), id, new), q, top)
         /\ DOMAIN DoReplaceEntry(RemoveAtt(d, a), id, new).atts = DOMAIN d.atts \ {a}
<1> DEFINE r == DoReplaceEntry(RemoveAtt(d, a), id, new)
           atts == [x \in DOMAIN d.atts \ {a} |-> d.atts[x]]
<1>1. d = [entries |-> p.entries, atts |-> d.atts] /\ IsList(d.atts)
  BY DEF At
<1>2. r = [entries |-> q.entries, atts |-> atts]
  <2>1. RemoveAtt(d, a) = [entries |-> p.entries, atts |-> atts]
    <3>1. d = [entries |-> d.entries, atts |-> d.atts] /\ d.entries = p.entries
      BY <1>1
    <3>2. RemoveAtt(d, a) = [entries |-> d.entries, atts |-> atts]
      BY <3>1, RemoveAttIs, Zenon
    <3> QED BY <3>1, <3>2
  <2> HIDE DEF atts
  <2> QED BY <2>1 DEF DoReplaceEntry
<1>3. p.entries[id].att = a
  BY DEF RefsTo
<1>4. ASSUME NEW x, x # a, x # NoAtt PROVE RefsTo(q.entries, x) = RefsTo(p.entries, x)
  <2>1. q.entries = With(p.entries, id, new)
    OBVIOUS
  <2> QED BY <1>3, <1>4, <2>1 DEF RefsTo, With
<1>5. AttsOf(q.entries) \subseteq AttsOf(p.entries) \ {a}
  <2>1. q.entries = With(p.entries, id, new)
    OBVIOUS
  <2>2. \A i \in DOMAIN p.entries : i # id => p.entries[i].att # a
    BY DEF RefsTo
  <2> QED BY <2>1, <2>2 DEF AttsOf, With
<1>6. q.titles = p.titles
  OBVIOUS
<1>7. ASSUME NEW x \in DOMAIN atts
      PROVE  atts[x] \in Attachment /\ x \in Atts /\ atts[x].uuid = x /\ Counted(atts[x], q, top)
  <2>1. atts[x] = d.atts[x] /\ x \in DOMAIN d.atts /\ x # a
    BY <1>7
  <2>2. x # NoAtt
    BY <2>1, AtParts
  <2>3. d.atts[x].uuid = x /\ Counted(d.atts[x], p, top) /\ d.atts[x] \in Attachment /\ x \in Atts
    BY <1>1, <2>1 DEF At, IsList
  <2>4. RefsTo(q.entries, x) = RefsTo(p.entries, x)
    BY <1>4, <2>1, <2>2
  <2> HIDE DEF atts
  <2> QED BY <1>6, <2>1, <2>3, <2>4 DEF Counted
<1>8. AttsOf(q.entries) \subseteq DOMAIN atts /\ DOMAIN atts = DOMAIN d.atts \ {a}
  BY <1>5 DEF At
<1>9. atts = [x \in DOMAIN atts |-> atts[x]]
  OBVIOUS
<1> HIDE DEF atts, r
<1>10. IsList(atts)
  BY <1>7, <1>9 DEF IsList
<1>11. At(r, q, top) /\ DOMAIN r.atts = DOMAIN d.atts \ {a}
  BY <1>2, <1>7, <1>8, <1>10 DEF At
<1> QED BY <1>11 DEF r

(* ... and put back with it. *)
Regained(r, d, p, a, top) == At(r, p, top) /\ DOMAIN r.atts = DOMAIN d.atts \cup {a}

LEMMA ReattachAt ==
  ASSUME IsFiniteSet(Ids), NEW top \in Nat, top < UIntMax,
         NEW d, NEW p, NEW q, IsPast(p), IsPast(q), At(d, q, top),
         NEW id \in DOMAIN p.entries, NEW new, new.att = NoAtt,
         NEW a, a # NoAtt, RefsTo(p.entries, a) = {id},
         q = [entries |-> With(p.entries, id, new), titles |-> p.titles],
         NEW copy, NEW more \in Nat, IsCopy(copy, a, p, more), top < more,
         NEW old, old = p.entries[id]
  PROVE  Regained(DoAddAttachment(DoReplaceEntry(d, id, old), copy), d, p, a, more)
<1> DEFINE mid == DoReplaceEntry(d, id, old)
           r == DoAddAttachment(mid, copy)
           inc == [d.atts[a] EXCEPT !.refs = (@ + 1) % (UIntMax + 1)]
           att == IF a \in DOMAIN d.atts THEN inc ELSE copy
           atts == With(d.atts, a, att)
<1>0. NoAtt \notin Atts /\ UIntMax \in Nat
  BY AttachmentsAssumption
<1>1. /\ d = [entries |-> q.entries, atts |-> d.atts] /\ IsList(d.atts)
      /\ q.entries = With(p.entries, id, new) /\ q.titles = p.titles
      /\ AttsOf(q.entries) \subseteq DOMAIN d.atts
      /\ \A x \in DOMAIN d.atts : d.atts[x].uuid = x /\ Counted(d.atts[x], q, top)
      /\ p.entries = [i \in DOMAIN p.entries |-> p.entries[i]]
      /\ p.entries[id].att = a
  BY DEF At, IsPast, RefsTo
<1>2. mid = [entries |-> p.entries, atts |-> d.atts]
  <2>1. With(q.entries, id, p.entries[id]) = p.entries
    BY <1>1 DEF With
  <2>2. mid = [d EXCEPT !.entries = With(d.entries, id, p.entries[id])] /\ d.entries = q.entries
    BY <1>1 DEF DoReplaceEntry
  <2> QED BY <1>1, <2>1, <2>2
<1>3. copy.uuid = a /\ copy \in Attachment /\ a \in Atts
  BY DEF IsCopy, Attachment
<1> HIDE DEF mid, inc
<1>4. r = [entries |-> p.entries, atts |-> atts]
  <2>1. CASE a \in DOMAIN d.atts
    <3>1. HasAtt(mid, a) /\ GetAtt(mid, a) = d.atts[a]
      BY <1>2, <2>1 DEF HasAtt, GetAtt
    <3>2. r = IncRefcount(mid, a)
      BY <1>3, <3>1 DEF DoAddAttachment
    <3>3. r = Listed(mid, a, inc)
      BY <3>1, <3>2 DEF IncRefcount, inc
    <3>4. att = inc
      BY <2>1
    <3> HIDE DEF r, att
    <3> QED BY <1>2, <3>3, <3>4, ListedIs
  <2>2. CASE a \notin DOMAIN d.atts
    <3>1. ~HasAtt(mid, a)
      BY <1>2, <2>2 DEF HasAtt
    <3>2. r = Listed(mid, a, copy)
      BY <1>3, <3>1 DEF DoAddAttachment, PutAtt
    <3>3. att = copy
      BY <2>2
    <3> HIDE DEF r, att
    <3> QED BY <1>2, <3>2, <3>3, ListedIs
  <2> QED BY <2>1, <2>2
<1>5. Cardinality(RefsTo(p.entries, a)) = 1
  BY FS_Singleton
<1>6. /\ att \in Attachment /\ att.uuid = a /\ att.title = p.titles[a]
      /\ 1 <= att.refs /\ att.refs <= more
  <2>1. CASE a \in DOMAIN d.atts
    <3>1. d.atts[a] \in Attachment /\ d.atts[a].uuid = a /\ Counted(d.atts[a], q, top)
      BY <1>1, <2>1 DEF IsList
    <3>2. d.atts[a].refs \in Nat /\ d.atts[a].refs <= top /\ d.atts[a].title = p.titles[a]
      BY <1>1, <3>1 DEF Attachment, Counted
    <3>3. inc = [d.atts[a] EXCEPT !.refs = @ + 1]
      BY <1>0, <3>2 DEF inc
    <3>4. inc \in Attachment /\ inc.uuid = a /\ inc.title = p.titles[a] /\ inc.refs = d.atts[a].refs + 1
      BY <1>0, <3>1, <3>2, <3>3 DEF Attachment
    <3> QED BY <2>1, <3>2, <3>4
  <2>2. CASE a \notin DOMAIN d.atts
    BY <1>3, <2>2 DEF IsCopy
  <2> QED BY <2>1, <2>2
<1>7. Counted(att, p, more)
  BY <1>5, <1>6 DEF Counted
<1>8. ASSUME NEW x \in DOMAIN d.atts, x # a
      PROVE  Counted(d.atts[x], p, more)
  <2>1. x # NoAtt /\ d.atts[x].uuid = x /\ d.atts[x].refs \in Nat
    BY AtParts
  <2>2. RefsTo(q.entries, x) = RefsTo(p.entries, x)
    BY <1>1, <1>8, <2>1 DEF RefsTo, With
  <2>3. Counted(d.atts[x], q, top)
    BY <1>1
  <2> QED BY <1>1, <2>1, <2>2, <2>3 DEF Counted
<1> HIDE DEF att, r
<1>9. IsList(atts) /\ DOMAIN atts = DOMAIN d.atts \cup {a}
  BY <1>1, <1>3, <1>6 DEF IsList, With
<1>10. AttsOf(p.entries) \subseteq DOMAIN atts
  <2>1. AttsOf(p.entries) \subseteq AttsOf(q.entries) \cup {a}
    BY <1>1 DEF AttsOf, With
  <2> QED BY <1>1, <1>9, <2>1
<1>11. \A x \in DOMAIN atts : atts[x].uuid = x /\ Counted(atts[x], p, more)
  BY <1>1, <1>6, <1>7, <1>8 DEF With
<1> HIDE DEF atts
<1>12. Regained(r, d, p, a, more)
  BY <1>4, <1>9, <1>10, <1>11 DEF At, Regained
<1> QED BY <1>12 DEF r, mid

-----------------------------------------------------------------------------
(* A list executed at the position it leads from brings the database to    *)
(* the one it leads to, and is left leading there: one lemma per form.      *)

(* What the execution of a list has to achieve.                            *)
Arrives(r, d, p, q, top) ==
    /\ At(r.db, q, top + 1)
    /\ Leads(r.did, p, q, top) /\ Done(r.did)
    /\ DOMAIN d.atts \subseteq DOMAIN r.db.atts \cup Saves(r.did)

LEMMA ExecuteOne ==
  ASSUME NEW d, NEW list, Len(list) = 1
  PROVE  LET r == ExecuteAll(list, d)
         IN  /\ r.db = Execute1(d, list[1])
             /\ Len(r.did) = 1 /\ r.did[1] = Executed1(d, list[1])
<1> QED BY ExecuteRuns

LEMMA ExecuteTwo ==
  ASSUME NEW d, NEW list, Len(list) = 2
  PROVE  LET r   == ExecuteAll(list, d)
             mid == Execute1(d, list[1])
         IN  /\ r.db = Execute1(mid, list[2])
             /\ Len(r.did) = 2
             /\ r.did[1] = Executed1(d, list[1]) /\ r.did[2] = Executed1(mid, list[2])
<1>1. /\ Ran(list, d)[1] = Execute1(d, list[1])
      /\ Ran(list, d)[2] = Execute1(Ran(list, d)[1], list[2])
  BY ExecuteRuns
<1> QED BY <1>1, ExecuteRuns

LEMMA UndoOne ==
  ASSUME NEW d, NEW list, Len(list) = 1
  PROVE  UndoAll(list, d) = Undo1(d, list[1])
<1> DEFINE f == Unran(list, d)
<1>1. Len(list) \in Nat /\ 1 \in 1 .. Len(list) /\ 1 + 1 = Len(list) + 1
  OBVIOUS
<1>2. Reverse(list)[1] = list[1]
  BY <1>1, ReversedIs, Zenon
<1>3. f[0] = d /\ UndoAll(list, d) = f[Len(list)]
  BY <1>1, UndoRuns
<1>4. f[1] = Undo1(f[1 - 1], Reverse(list)[1])
  BY <1>1, UndoRuns
<1> HIDE DEF f
<1> QED BY <1>2, <1>3, <1>4

LEMMA UndoTwo ==
  ASSUME NEW d, NEW list, Len(list) = 2
  PROVE  UndoAll(list, d) = Undo1(Undo1(d, list[2]), list[1])
<1> DEFINE f == Unran(list, d)
<1>1. /\ Len(list) \in Nat /\ 1 \in 1 .. Len(list) /\ 2 \in 1 .. Len(list)
      /\ 1 + 2 = Len(list) + 1 /\ 2 + 1 = Len(list) + 1
  OBVIOUS
<1>2. Reverse(list)[1] = list[2] /\ Reverse(list)[2] = list[1]
  BY <1>1, ReversedIs, Zenon
<1>3. f[0] = d /\ UndoAll(list, d) = f[Len(list)]
  BY <1>1, UndoRuns
<1>4. f[1] = Undo1(f[1 - 1], Reverse(list)[1]) /\ f[2] = Undo1(f[2 - 1], Reverse(list)[2])
  BY <1>1, UndoRuns
<1> HIDE DEF f
<1> QED BY <1>2, <1>3, <1>4

(* A deletion executed. *)
LEMMA ExecutedDelete ==
  ASSUME NEW d, NEW c, IsDelete(c)
  PROVE  Executed1(d, c) =
            [op |-> "delete", id |-> c.id, entry |-> c.entry,
             saved |-> IF OnlyRef(d, c) THEN d.atts[c.entry.att] ELSE c.saved,
             done  |-> c.done \/ c.id \in DOMAIN d.entries]
<1> DEFINE new == IF OnlyRef(d, c) THEN d.atts[c.entry.att] ELSE c.saved
           done == c.done \/ c.id \in DOMAIN d.entries
<1>1. c.op = "delete" /\ DOMAIN c = {"op", "id", "entry", "saved", "done"}
  BY DEF IsDelete
<1>2. Executed1(d, c) = [c EXCEPT !.done = done, !.saved = new]
  BY <1>1 DEF Executed1
<1> HIDE DEF new, done
<1> DEFINE doing == [c EXCEPT !.done = done]
<1>3. doing = [op |-> "delete", id |-> c.id, entry |-> c.entry, saved |-> c.saved, done |-> done]
  BY DEF IsDelete
<1>4. [doing EXCEPT !.saved = new] = [c EXCEPT !.done = done, !.saved = new]
  BY <1>1
<1> HIDE DEF doing
<1>5. [doing EXCEPT !.saved = new] =
        [op |-> "delete", id |-> c.id, entry |-> c.entry, saved |-> new, done |-> done]
  BY <1>3
<1> QED BY <1>2, <1>4, <1>5 DEF new, done

LEMMA AddArrives ==
  ASSUME IsFiniteSet(Ids), NEW top \in Nat, top < UIntMax,
         NEW d, NEW p, NEW q, IsPast(p), IsPast(q), At(d, p, top),
         NEW list, Adds(list, p, q)
  PROVE  Arrives(ExecuteAll(list, d), d, p, q, top)
<1> DEFINE c == list[1]
           r == ExecuteAll(list, d)
           full == [c.entry EXCEPT !.att = IF HasContent(c.att) THEN c.att.uuid ELSE @]
<1>0. NoAtt \notin Atts /\ NoTitle \notin Titles /\ ~HasContent(Empty)
  BY AttachmentsAssumption DEF HasContent, Empty
<1>1. Len(list) = 1 /\ c.op = "add" /\ c.id \in Ids \ DOMAIN p.entries /\ c.entry \in Entries
  BY DEF Adds, AddsEntry
<1>2. r.db = Execute1(d, c) /\ Len(r.did) = 1 /\ r.did[1] = Executed1(d, c)
  BY <1>1, ExecuteOne
<1>3. r.db = DoAddEntry(d, c.id, c.entry, c.att) /\ r.did[1] = c
  BY <1>1, <1>2 DEF Execute1, Executed1
<1>4. \/ c.att = Empty /\ c.entry.att \in DOMAIN d.atts \cup {NoAtt}
      \/ c.att \in Attachment /\ c.att.title = p.titles[c.att.uuid] /\ c.att.refs <= top
  <2>1. AttsOf(p.entries) \subseteq DOMAIN d.atts
    BY DEF At
  <2> QED BY <2>1 DEF Adds, AddsEntry, IsNewAtt
<1>5. q.entries = With(p.entries, c.id, full)
  <2>1. CASE c.att = Empty
    <3>1. full = c.entry
      BY <1>0, <1>1, <2>1 DEF Entries
    <3> HIDE DEF full
    <3> QED BY <1>0, <2>1, <3>1 DEF Adds, AddsEntry, IsNewAtt, Attachment, Empty
  <2>2. CASE c.att # Empty
    <3>1. c.att \in Attachment
      BY <2>2 DEF Adds, AddsEntry, IsNewAtt
    <3>2. HasContent(c.att)
      BY <1>0, <3>1 DEF HasContent, Attachment
    <3>3. full = [c.entry EXCEPT !.att = c.att.uuid]
      BY <3>2
    <3> HIDE DEF full
    <3> QED BY <2>2, <3>3 DEF Adds, AddsEntry
  <2> QED BY <2>1, <2>2
<1>6. q = [entries |-> With(p.entries, c.id, full), titles |-> p.titles]
  <2> HIDE DEF full
  <2> QED BY <1>5 DEF IsPast, Adds
<1>7. At(r.db, q, top + 1) /\ DOMAIN d.atts \subseteq DOMAIN r.db.atts
  <2> HIDE DEF c, r
  <2> QED BY <1>1, <1>3, <1>4, <1>6, AddAt
<1>8. Adds(r.did, p, q)
  <2> HIDE DEF r, full
  <2> QED BY <1>2, <1>3 DEF Adds
<1>9. Done(r.did)
  <2> HIDE DEF r
  <2> QED BY <1>1, <1>2, <1>3 DEF Done
<1> HIDE DEF r
<1>10. Arrives(r, d, p, q, top)
  BY <1>7, <1>8, <1>9 DEF Arrives, Leads
<1> QED BY <1>10 DEF r

LEMMA EditArrives ==
  ASSUME IsFiniteSet(Ids), NEW top \in Nat,
         NEW d, NEW p, NEW q, IsPast(p), IsPast(q), At(d, p, top),
         NEW list, Edits(list, p, q)
  PROVE  Arrives(ExecuteAll(list, d), d, p, q, top)
<1> DEFINE c == list[1]
           r == ExecuteAll(list, d)
<1>1. /\ Len(list) = 1 /\ c.op = "edit" /\ c.id \in DOMAIN p.entries
      /\ c.new.att = p.entries[c.id].att
      /\ q = [entries |-> With(p.entries, c.id, c.new), titles |-> p.titles]
  BY DEF Edits, EditsTo, IsPast
<1>2. r.db = Execute1(d, c) /\ Len(r.did) = 1 /\ r.did[1] = Executed1(d, c)
  BY <1>1, ExecuteOne
<1>3. r.db = DoReplaceEntry(d, c.id, c.new) /\ r.did[1] = c
  BY <1>1, <1>2 DEF Execute1, Executed1
<1> HIDE DEF r
<1>4. At(r.db, q, top) /\ DOMAIN r.db.atts = DOMAIN d.atts
  <2> HIDE DEF c
  <2> QED BY <1>1, <1>3, EditAt
<1>5. At(r.db, q, top + 1)
  BY <1>4, TopGrows
<1>6. Edits(r.did, p, q)
  BY <1>2, <1>3 DEF Edits
<1>7. Done(r.did)
  BY <1>1, <1>2, <1>3 DEF Done
<1>8. Arrives(r, d, p, q, top)
  BY <1>4, <1>5, <1>6, <1>7 DEF Arrives, Leads
<1> QED BY <1>8 DEF r

(* A position without some of its entries is one. *)
LEMMA WithoutIsPast ==
  ASSUME NEW p, IsPast(p), NEW ids
  PROVE  /\ IsPast([entries |-> Without(p.entries, ids), titles |-> p.titles])
         /\ DOMAIN Without(p.entries, ids) = DOMAIN p.entries \ ids
         /\ \A i \in DOMAIN p.entries \ ids : Without(p.entries, ids)[i] = p.entries[i]
  BY DEF IsPast, Without

LEMMA AttachArrives ==
  ASSUME IsFiniteSet(Ids), NEW top \in Nat, top < UIntMax,
         NEW d, NEW p, NEW q, IsPast(p), IsPast(q), At(d, p, top),
         NEW list, Attaches(list, p, q)
  PROVE  Arrives(ExecuteAll(list, d), d, p, q, top)
<1> DEFINE c == list[1]
           id == c.id
           att == list[2].att
           r == ExecuteAll(list, d)
           gone == [entries |-> Without(p.entries, {id}), titles |-> p.titles]
           mid == Execute1(d, c)
           full == [c.entry EXCEPT !.att = IF HasContent(att) THEN att.uuid ELSE @]
<1>0. NoAtt \notin Atts /\ NoTitle \notin Titles /\ ~HasContent(Empty)
  BY AttachmentsAssumption DEF HasContent, Empty
<1>1. /\ Len(list) = 2 /\ c.op = "delete" /\ list[2].op = "add"
      /\ list[2].id = id /\ list[2].entry = c.entry /\ c.saved = Empty
      /\ id \in DOMAIN p.entries /\ p.entries[id] = c.entry /\ c.entry.att = NoAtt
      /\ IsNewAtt(att, p) /\ q.titles = p.titles
      /\ q.entries = With(p.entries, id, [c.entry EXCEPT !.att = att.uuid])
  BY DEF Attaches, IsDelete
<1>2. /\ r.db = Execute1(mid, list[2])
      /\ Len(r.did) = 2
      /\ r.did[1] = Executed1(d, c) /\ r.did[2] = Executed1(mid, list[2])
  BY <1>1, ExecuteTwo
<1>3. mid = DoDeleteEntry(d, id, c.entry)
  BY <1>1 DEF Execute1
<1>4. At(mid, gone, top) /\ DOMAIN mid.atts = DOMAIN d.atts
  <2>1. ~LastRef(d, c.entry)
    BY <1>1 DEF LastRef
  <2>2. c.entry.att = NoAtt /\ id \in DOMAIN p.entries
    BY <1>1
  <2>3. gone.entries = Without(p.entries, {id}) /\ gone.titles = p.titles
    OBVIOUS
  <2> HIDE DEF gone, mid, id, c
  <2>4. Deleted(mid, d, c.entry, gone, top)
    BY <1>3, <2>2, <2>3, DeleteAt
  <2> QED BY <2>1, <2>4 DEF Deleted
<1>5. att \in Attachment /\ HasContent(att) /\ att.title = gone.titles[att.uuid] /\ att.refs <= top
  BY <1>0, <1>1 DEF IsNewAtt, Attachment, HasContent
<1>6. full = [c.entry EXCEPT !.att = att.uuid]
  BY <1>5
<1>7. IsPast(gone) /\ id \in Ids \ DOMAIN gone.entries /\ c.entry \in Entries
  <2>1. IsPast(gone) /\ DOMAIN gone.entries = DOMAIN p.entries \ {id}
    BY WithoutIsPast
  <2> QED BY <1>1, <2>1 DEF IsPast
<1> HIDE DEF full
<1>8. q = [entries |-> With(gone.entries, id, full), titles |-> gone.titles]
  <2>1. With(gone.entries, id, full) = With(p.entries, id, full)
    BY <1>1 DEF With, Without
  <2> HIDE DEF id, att, c
  <2> QED BY <1>1, <1>6, <2>1 DEF IsPast
<1>9. r.db = DoAddEntry(mid, id, c.entry, att) /\ r.did[2] = list[2]
  BY <1>1, <1>2 DEF Execute1, Executed1
<1>10. At(r.db, q, top + 1) /\ DOMAIN mid.atts \subseteq DOMAIN r.db.atts
  <2>1. q = [entries |-> With(gone.entries, id,
                [c.entry EXCEPT !.att = IF HasContent(att) THEN att.uuid ELSE @]),
             titles |-> gone.titles]
    BY <1>8 DEF full
  <2> HIDE DEF id, att, c, r, mid, gone
  <2> QED BY <1>4, <1>5, <1>7, <1>9, <2>1, AddAt
<1>11. r.did[1] = [op |-> "delete", id |-> id, entry |-> c.entry, saved |-> Empty, done |-> TRUE]
  <2>1. ~OnlyRef(d, c)
    BY <1>1 DEF OnlyRef, RefFound
  <2>2. id \in DOMAIN d.entries
    BY <1>1 DEF At
  <2>3. IsDelete(c)
    BY DEF Attaches
  <2> HIDE DEF c
  <2> QED BY <1>1, <1>2, <2>1, <2>2, <2>3, ExecutedDelete
<1>12. /\ IsDelete(r.did[1]) /\ r.did[1].id = id /\ r.did[1].entry = c.entry
       /\ r.did[1].saved = Empty /\ r.did[1].done /\ r.did[1].op = "delete"
  BY <1>11 DEF IsDelete
<1> HIDE DEF r, mid, gone
<1>13. Attaches(r.did, p, q)
  BY <1>1, <1>2, <1>9, <1>12 DEF Attaches
<1>14. Done(r.did)
  BY <1>1, <1>2, <1>9, <1>12 DEF Done
<1>15. Arrives(r, d, p, q, top)
  BY <1>4, <1>10, <1>13, <1>14 DEF Arrives, Leads
<1> QED BY <1>15 DEF r

LEMMA DetachArrives ==
  ASSUME IsFiniteSet(Ids), NEW top \in Nat,
         NEW d, NEW p, NEW q, IsPast(p), IsPast(q), At(d, p, top),
         NEW list, Detaches(list, p, q, top)
  PROVE  Arrives(ExecuteAll(list, d), d, p, q, top)
<1> DEFINE c == list[1]
           id == c.id
           a == c.entry.att
           r == ExecuteAll(list, d)
           mid == Execute1(d, c)
<1>1. /\ Len(list) = 2 /\ c.op = "deleteatt" /\ list[2].op = "edit"
      /\ list[2].id = id /\ id \in DOMAIN p.entries /\ c.entry = p.entries[id]
      /\ id \notin Bases /\ a # NoAtt /\ RefsTo(p.entries, a) = {id}
      /\ list[2].new.att = NoAtt
      /\ q = [entries |-> With(p.entries, id, list[2].new), titles |-> p.titles]
  BY DEF Detaches, EditsTo, IsPast, IsDetach
<1>2. /\ r.db = Execute1(mid, list[2])
      /\ Len(r.did) = 2
      /\ r.did[1] = Executed1(d, c) /\ r.did[2] = Executed1(mid, list[2])
  BY <1>1, ExecuteTwo
<1>3. a \in DOMAIN d.atts /\ d.atts[a].uuid = a /\ d.atts[a] \in Attachment
  BY <1>1, AtParts
<1>4. Found(d, c)
  BY <1>1, <1>3 DEF Found, RefFound, HasAtt
<1>5. mid = RemoveAtt(d, a)
  BY <1>1, <1>3, <1>4 DEF Execute1, DoDeleteAttachment
<1>6. r.db = DoReplaceEntry(RemoveAtt(d, a), id, list[2].new) /\ r.did[2] = list[2]
  BY <1>1, <1>2, <1>5 DEF Execute1, Executed1
<1>7. At(r.db, q, top) /\ DOMAIN r.db.atts = DOMAIN d.atts \ {a}
  <2> HIDE DEF id, c, a, r, mid
  <2> QED BY <1>1, <1>6, DetachAt
<1>8. IsCopy(d.atts[a], a, p, top)
  <2>1. Counted(d.atts[a], p, top)
    BY <1>3 DEF At
  <2>2. Cardinality(RefsTo(p.entries, a)) = 1
    BY <1>1, FS_Singleton
  <2>3. d.atts[a].refs \in Nat
    BY <1>3 DEF Attachment
  <2> QED BY <1>3, <2>1, <2>2, <2>3 DEF IsCopy, Counted
<1>9. r.did[1] = [op |-> "deleteatt", id |-> id, entry |-> c.entry, saved |-> d.atts[a]]
  <2>1. c = [op |-> "deleteatt", id |-> id, entry |-> c.entry, saved |-> c.saved]
    BY DEF Detaches, IsDetach
  <2>2. r.did[1] = [c EXCEPT !.saved = d.atts[a]]
    BY <1>1, <1>2, <1>4 DEF Executed1
  <2> QED BY <2>1, <2>2
<1>10. /\ IsDetach(r.did[1]) /\ r.did[1].id = id /\ r.did[1].entry = c.entry
       /\ r.did[1].saved = d.atts[a] /\ r.did[1].op = "deleteatt"
  BY <1>9 DEF IsDetach
<1> HIDE DEF r, mid
<1>11. Detaches(r.did, p, q, top)
  BY <1>1, <1>2, <1>6, <1>8, <1>10 DEF Detaches, EditsTo
<1>12. d.atts[a] # Empty
  <2>1. Empty \notin Attachment
    BY AttachmentsAssumption DEF Empty, Attachment
  <2> QED BY <1>3, <2>1
<1>13. Done(r.did)
  BY <1>1, <1>2, <1>6, <1>10, <1>12 DEF Done
<1>14. a \in Saves(r.did)
  BY <1>2, <1>3, <1>10, <1>12 DEF Saves
<1>15. DOMAIN d.atts \subseteq DOMAIN r.db.atts \cup Saves(r.did)
  BY <1>7, <1>14
<1>16. At(r.db, q, top + 1)
  BY <1>7, TopGrows
<1>17. Arrives(r, d, p, q, top)
  BY <1>11, <1>13, <1>15, <1>16 DEF Arrives, Leads
<1> QED BY <1>17 DEF r

LEMMA RetitleArrives ==
  ASSUME IsFiniteSet(Ids), NEW top \in Nat,
         NEW d, NEW p, NEW q, IsPast(p), IsPast(q), At(d, p, top),
         NEW list, Retitles(list, p, q, top)
  PROVE  Arrives(ExecuteAll(list, d), d, p, q, top)
<1> DEFINE c == list[1]
           id == list[2].id
           a == c.old.uuid
           r == ExecuteAll(list, d)
           mid == Execute1(d, c)
           half == [entries |-> p.entries, titles |-> [p.titles EXCEPT ![a] = c.new.title]]
<1>1. /\ Len(list) = 2 /\ c.op = "editatt" /\ list[2].op = "edit"
      /\ c.old \in Attachment /\ c.new \in Attachment /\ c.new.uuid = a
      /\ a \in AttsOf(p.entries) /\ Counted(c.new, q, top)
      /\ id \in DOMAIN p.entries
      /\ list[2].new.att = p.entries[id].att
      /\ q.entries = With(p.entries, id, list[2].new)
      /\ q.titles = [p.titles EXCEPT ![a] = c.new.title]
  BY DEF Retitles, EditsTo
<1>2. /\ r.db = Execute1(mid, list[2])
      /\ Len(r.did) = 2
      /\ r.did[1] = Executed1(d, c) /\ r.did[2] = Executed1(mid, list[2])
  BY <1>1, ExecuteTwo
<1>3. /\ mid = Listed(d, a, c.new) /\ r.db = DoReplaceEntry(mid, id, list[2].new)
      /\ r.did[1] = c /\ r.did[2] = list[2]
  BY <1>1, <1>2 DEF Execute1, Executed1, DoReplaceAttachment
<1>4. IsPast(half)
  BY <1>1 DEF IsPast, Attachment
<1>5. Counted(c.new, half, top)
  <2>1. \A x : RefsTo(q.entries, x) = RefsTo(p.entries, x)
    BY <1>1, RefsKept
  <2> QED BY <1>1, <2>1 DEF Counted
<1>6. a \in DOMAIN d.atts
  BY <1>1 DEF At
<1>7. At(mid, half, top) /\ DOMAIN mid.atts = DOMAIN d.atts
  <2>1. half = [entries |-> p.entries, titles |-> [p.titles EXCEPT ![a] = c.new.title]]
    OBVIOUS
  <2>2. c.new \in Attachment /\ c.new.uuid = a
    BY <1>1
  <2> HIDE DEF half, mid, a, c
  <2> QED BY <1>3, <1>5, <1>6, <2>1, <2>2, RetitleAt
<1>8. q = [entries |-> With(half.entries, id, list[2].new), titles |-> half.titles]
  BY <1>1 DEF IsPast
<1>9. id \in DOMAIN half.entries /\ list[2].new.att = half.entries[id].att
  BY <1>1
<1> HIDE DEF half, mid, r
<1>10. At(r.db, q, top) /\ DOMAIN r.db.atts = DOMAIN mid.atts
  <2> HIDE DEF id
  <2> QED BY <1>3, <1>4, <1>7, <1>8, <1>9, EditAt
<1>11. At(r.db, q, top + 1)
  BY <1>10, TopGrows
<1>12. Retitles(r.did, p, q, top)
  BY <1>2, <1>3 DEF Retitles
<1>13. Done(r.did)
  BY <1>1, <1>2, <1>3 DEF Done
<1>14. Arrives(r, d, p, q, top)
  BY <1>7, <1>10, <1>11, <1>12, <1>13 DEF Arrives, Leads
<1> QED BY <1>14 DEF r

Drops(o, q, id, entry) ==
    /\ IsPast(o) /\ IsPast(q)
    /\ id \in DOMAIN o.entries /\ entry = o.entries[id]
    /\ q.entries = Without(o.entries, {id}) /\ q.titles = o.titles

(* One more deletion leaves one entry less. *)
LEMMA LeftIs ==
  ASSUME NEW p, IsPast(p), NEW list, Len(list) \in Nat,
         \A k \in 1 .. Len(list) : DeletesNth(list, k, p), NEW j \in 1 .. Len(list)
  PROVE  Drops(Left(list, j - 1, p), Left(list, j, p), list[j].id, list[j].entry)
<1> DEFINE id == list[j].id
           ids == IdsOf(list, j - 1)
<1>1. /\ id \in DOMAIN p.entries /\ list[j].entry = p.entries[id]
      /\ \A k \in 1 .. Len(list) : k # j => list[k].id # id
  BY DEF DeletesNth
<1>2. id \notin ids
  BY <1>1 DEF IdsOf
<1>3. IdsOf(list, j) = ids \cup {id}
  <2>1. \A k : k \in 1 .. j <=> k \in 1 .. j - 1 \/ k = j
    OBVIOUS
  <2> QED BY <2>1, Zenon DEF IdsOf
<1> HIDE DEF ids, id
<1>4. /\ IsPast(Left(list, j - 1, p)) /\ IsPast(Left(list, j, p))
      /\ Left(list, j, p).titles = p.titles /\ Left(list, j - 1, p).titles = p.titles
  BY WithoutIsPast DEF Left
<1>5. Left(list, j - 1, p).entries = Without(p.entries, ids)
  BY DEF Left, ids
<1>6. id \in DOMAIN Without(p.entries, ids) /\ Without(p.entries, ids)[id] = list[j].entry
  BY <1>1, <1>2 DEF Without
<1>7. Without(p.entries, ids \cup {id}) = Without(Without(p.entries, ids), {id})
  BY DEF Without
<1>8. Left(list, j, p).entries = Without(Left(list, j - 1, p).entries, {id})
  BY <1>3, <1>5, <1>7 DEF Left
<1> QED BY <1>4, <1>5, <1>6, <1>8 DEF id, Drops

LEMMA LeftNone ==
  ASSUME NEW p, IsPast(p), NEW list
  PROVE  Left(list, 0, p) = p
<1>1. IdsOf(list, 0) = {}
  BY DEF IdsOf
<1>2. Without(p.entries, {}) = p.entries
  BY DEF Without, IsPast
<1> QED BY <1>1, <1>2 DEF Left, IsPast

(* What the execution of a deletion achieves. *)
DeletesOne(x, r, before, c, q, p, top) ==
    /\ At(r, q, top)
    /\ IsDelete(x) /\ x.id = c.id /\ x.entry = c.entry /\ x.done
    /\ \/ x.saved = Empty
       \/ IsCopy(x.saved, c.entry.att, p, 1) /\ c.entry.att \notin AttsOf(q.entries)
    /\ \/ DOMAIN before.atts \subseteq DOMAIN r.atts
       \/ x.saved # Empty /\ DOMAIN before.atts \subseteq DOMAIN r.atts \cup {x.saved.uuid}

LEMMA DeleteStep ==
  ASSUME IsFiniteSet(Ids), NEW top \in Nat, NEW p, IsPast(p), NEW list, Len(list) \in Nat,
         \A k \in 1 .. Len(list) : DeletesNth(list, k, p), NEW j \in 1 .. Len(list),
         NEW before, At(before, Left(list, j - 1, p), top)
  PROVE  DeletesOne(Executed1(before, list[j]), Execute1(before, list[j]), before, list[j],
                    Left(list, j, p), p, top)
<1> DEFINE c == list[j]
           id == c.id
           entry == c.entry
           a == entry.att
           o == Left(list, j - 1, p)
           q == Left(list, j, p)
           r == Execute1(before, c)
           x == Executed1(before, c)
<1>1. /\ IsPast(o) /\ IsPast(q) /\ id \in DOMAIN o.entries /\ entry = o.entries[id]
      /\ q.entries = Without(o.entries, {id}) /\ q.titles = p.titles /\ o.titles = p.titles
  <2>1. Drops(o, q, id, entry)
    BY LeftIs
  <2>2. o.titles = p.titles
    BY DEF Left
  <2> HIDE DEF o, q, id, entry
  <2> QED BY <2>1, <2>2 DEF Drops
<1>2. /\ IsDelete(c)
      /\ \/ c.saved = Empty
         \/ IsCopy(c.saved, a, p, 1) /\ a \notin AttsOf(q.entries)
  BY DEF DeletesNth
<1>3. c.op = "delete"
  BY <1>2 DEF IsDelete
<1>4. r = DoDeleteEntry(before, id, entry)
  BY <1>3 DEF Execute1
<1> DEFINE new == IF OnlyRef(before, c) THEN before.atts[a] ELSE c.saved
<1>5. x = [op |-> "delete", id |-> id, entry |-> entry, saved |-> new,
           done |-> c.done \/ id \in DOMAIN before.entries]
  BY <1>2, ExecutedDelete
<1>6. At(before, o, top)
  OBVIOUS
<1>7. /\ before.entries = o.entries
      /\ \A y \in DOMAIN before.atts :
            /\ before.atts[y] \in Attachment /\ before.atts[y].uuid = y
            /\ before.atts[y].title = p.titles[y] /\ y # NoAtt
      /\ a = NoAtt \/ a \in DOMAIN before.atts
  <2> HIDE DEF o, id, entry
  <2>1. \A y \in DOMAIN before.atts :
            /\ before.atts[y] \in Attachment /\ before.atts[y].uuid = y /\ y # NoAtt
    BY <1>1, <1>6, AtParts
  <2>2. before.entries = o.entries /\ \A y \in DOMAIN before.atts : Counted(before.atts[y], o, top)
    BY <1>6 DEF At
  <2>3. \A y \in DOMAIN before.atts : before.atts[y].title = p.titles[y]
    BY <1>1, <2>1, <2>2 DEF Counted
  <2>4. AttsOf(o.entries) \subseteq DOMAIN before.atts
    BY <1>6 DEF At
  <2>5. a = NoAtt \/ a \in AttsOf(o.entries)
    BY <1>1 DEF AttsOf
  <2> QED BY <2>1, <2>2, <2>3, <2>4, <2>5
<1>8. OnlyRef(before, c) <=> LastRef(before, entry)
  BY <1>1, <1>7 DEF OnlyRef, LastRef, RefFound, HasAtt
<1> HIDE DEF o, q, r, x, new, id
<1>9. Deleted(r, before, entry, q, top)
  <2> HIDE DEF entry
  <2>1. q.titles = o.titles
    BY <1>1
  <2> QED BY <1>1, <1>4, <1>6, <2>1, DeleteAt
<1>10. /\ IsDelete(x) /\ x.id = id /\ x.entry = entry /\ x.saved = new
       /\ x.done
  <2>1. id \in DOMAIN before.entries
    BY <1>1, <1>7
  <2> HIDE DEF entry, c
  <2> QED BY <1>5, <2>1 DEF IsDelete
<1>11. CASE LastRef(before, entry)
  <2>1. new = before.atts[a] /\ a # NoAtt /\ a \in DOMAIN before.atts /\ before.atts[a].refs = 1
    BY <1>7, <1>8, <1>11 DEF new, LastRef
  <2> HIDE DEF a
  <2>2. IsCopy(new, a, p, 1) /\ new # Empty /\ new.uuid = a
    <3>1. Empty \notin Attachment
      BY AttachmentsAssumption DEF Empty, Attachment
    <3> QED BY <1>7, <2>1, <3>1 DEF IsCopy
  <2>3. At(r, q, top) /\ DOMAIN r.atts = DOMAIN before.atts \ {a} /\ a \notin AttsOf(q.entries)
    BY <1>9, <1>11 DEF Deleted, a
  <2>4. DeletesOne(x, r, before, c, q, p, top)
    BY <1>10, <2>2, <2>3 DEF DeletesOne, id, a
  <2> QED BY <2>4 DEF x, r, q
<1>12. CASE ~LastRef(before, entry)
  <2>1. new = c.saved
    BY <1>8, <1>12 DEF new
  <2>2. At(r, q, top) /\ DOMAIN r.atts = DOMAIN before.atts
    BY <1>9, <1>12 DEF Deleted
  <2>3. DeletesOne(x, r, before, c, q, p, top)
    BY <1>2, <1>10, <2>1, <2>2 DEF DeletesOne, id
  <2> QED BY <2>3 DEF x, r, q
<1> QED BY <1>11, <1>12

(* A group is deleted one entry after the other. *)
LEMMA DeletesArrive ==
  ASSUME IsFiniteSet(Ids), NEW top \in Nat,
         NEW d, NEW p, NEW q, IsPast(p), IsPast(q), At(d, p, top),
         NEW list, Deletes(list, p, q)
  PROVE  Arrives(ExecuteAll(list, d), d, p, q, top)
<1> DEFINE n == Len(list)
           f == Ran(list, d)
           r == ExecuteAll(list, d)
           did == r.did
           Reaches(k) == At(f[k], Left(list, k, p), top)
           One(k) == DeletesOne(did[k], f[k], f[k - 1], list[k], Left(list, k, p), p, top)
<1>1. n \in Nat /\ n \in 1 .. Cardinality(Ids) /\ q = Left(list, n, p)
  BY FS_CardinalityType DEF Deletes
<1>2. \A k \in 1 .. n : DeletesNth(list, k, p)
  BY DEF Deletes
<1>3. /\ f[0] = d /\ r.db = f[n] /\ Len(did) = n
      /\ \A k \in 1 .. n : f[k] = Execute1(f[k - 1], list[k]) /\ did[k] = Executed1(f[k - 1], list[k])
  BY <1>1, ExecuteRuns
<1> HIDE DEF f, r, did
<1>4. ASSUME NEW k \in 1 .. n, Reaches(k - 1) PROVE One(k)
  <2>1. f[k] = Execute1(f[k - 1], list[k]) /\ did[k] = Executed1(f[k - 1], list[k])
    BY <1>3
  <2>2. At(f[k - 1], Left(list, k - 1, p), top)
    BY <1>4
  <2> QED BY <1>1, <1>2, <2>1, <2>2, DeleteStep
<1>5. \A k \in 0 .. n : Reaches(k)
  <2> DEFINE S == {k \in Nat : k <= n => Reaches(k)}
  <2>1. 0 \in S
    <3>1. Reaches(0)
      BY <1>3, LeftNone
    <3> HIDE DEF Reaches
    <3> QED BY <3>1
  <2>2. ASSUME NEW k \in Nat, k \in S PROVE k + 1 \in S
    <3>1. CASE k + 1 <= n
      <4>1. Reaches((k + 1) - 1) /\ k + 1 \in 1 .. n
        BY <1>1, <2>2, <3>1
      <4>2. One(k + 1)
        <5> HIDE DEF Reaches, One
        <5> QED BY <1>4, <4>1
      <4>3. Reaches(k + 1)
        BY <4>2 DEF DeletesOne
      <4> QED BY <4>3
    <3>2. CASE ~(k + 1 <= n)
      <4> HIDE DEF Reaches
      <4> QED BY <3>2
    <3> QED BY <3>1, <3>2
  <2>3. Nat \subseteq S
    <3> HIDE DEF S
    <3> QED BY <2>1, <2>2, SetInduction
  <2> HIDE DEF Reaches
  <2> QED BY <1>1, <2>3
<1>6. ASSUME NEW k \in 1 .. n PROVE One(k)
  <2>1. Reaches(k - 1)
    <3> HIDE DEF Reaches
    <3> QED BY <1>1, <1>5
  <2> HIDE DEF Reaches, One
  <2> QED BY <1>4, <2>1
<1>7. ASSUME NEW k \in 1 .. n PROVE DOMAIN f[k - 1].atts \subseteq DOMAIN f[k].atts \cup Saves(did)
  <2>1. One(k)
    BY <1>6
  <2>2. CASE DOMAIN f[k - 1].atts \subseteq DOMAIN f[k].atts
    BY <2>2
  <2>3. CASE did[k].saved # Empty /\ DOMAIN f[k - 1].atts \subseteq DOMAIN f[k].atts \cup {did[k].saved.uuid}
    <3>1. did[k].op = "delete"
      BY <2>1 DEF DeletesOne, IsDelete
    <3>2. did[k].saved.uuid \in Saves(did)
      BY <1>3, <2>3, <3>1 DEF Saves
    <3> QED BY <2>3, <3>2
  <2> QED BY <2>1, <2>2, <2>3 DEF DeletesOne
<1>8. DOMAIN d.atts \subseteq DOMAIN f[n].atts \cup Saves(did)
  <2> DEFINE Keeps(k) == DOMAIN d.atts \subseteq DOMAIN f[k].atts \cup Saves(did)
             S == {k \in Nat : k <= n => Keeps(k)}
  <2>1. 0 \in S
    BY <1>3
  <2>2. ASSUME NEW k \in Nat, k \in S PROVE k + 1 \in S
    <3>1. CASE k + 1 <= n
      <4>1. Keeps(k) /\ k + 1 \in 1 .. n /\ (k + 1) - 1 = k
        BY <1>1, <2>2, <3>1
      <4>2. DOMAIN f[k].atts \subseteq DOMAIN f[k + 1].atts \cup Saves(did)
        BY <1>7, <4>1
      <4>3. Keeps(k + 1)
        BY <4>1, <4>2
      <4> QED BY <4>3
    <3>2. CASE ~(k + 1 <= n)
      <4> HIDE DEF Keeps
      <4> QED BY <3>2
    <3> QED BY <3>1, <3>2
  <2>3. Nat \subseteq S
    <3> HIDE DEF S
    <3> QED BY <2>1, <2>2, SetInduction
  <2> HIDE DEF Keeps
  <2>4. Keeps(n)
    BY <1>1, <2>3
  <2> QED BY <2>4 DEF Keeps
<1>9. \A k \in 1 .. n : did[k].id = list[k].id /\ did[k].entry = list[k].entry
  BY <1>6 DEF DeletesOne
<1>10. \A k \in 0 .. n : Left(did, k, p) = Left(list, k, p)
  <2>1. \A k \in 0 .. n : IdsOf(did, k) = IdsOf(list, k)
    <3> TAKE k \in 0 .. n
    <3>1. \A j \in 1 .. k : j \in 1 .. n
      BY <1>1
    <3> QED BY <1>9, <3>1 DEF IdsOf
  <2> QED BY <2>1 DEF Left
<1>11. ASSUME NEW k \in 1 .. n PROVE DeletesNth(did, k, p)
  <2>1. DeletesNth(list, k, p) /\ Left(did, k, p) = Left(list, k, p)
    BY <1>1, <1>2, <1>10
  <2>2. /\ IsDelete(did[k]) /\ did[k].id = list[k].id /\ did[k].entry = list[k].entry
        /\ \/ did[k].saved = Empty
           \/ /\ IsCopy(did[k].saved, list[k].entry.att, p, 1)
              /\ list[k].entry.att \notin AttsOf(Left(list, k, p).entries)
    BY <1>6 DEF DeletesOne
  <2>3. \A j \in 1 .. Len(did) : j # k => did[j].id # did[k].id
    BY <1>3, <1>9, <2>1 DEF DeletesNth
  <2>4. did[k].id \in DOMAIN p.entries /\ did[k].entry = p.entries[did[k].id]
    BY <2>1, <2>2 DEF DeletesNth
  <2> QED BY <2>1, <2>2, <2>3, <2>4 DEF DeletesNth
<1>12. Deletes(did, p, q)
  <2>1. q = Left(did, n, p)
    BY <1>1, <1>10
  <2> QED BY <1>1, <1>3, <1>11, <2>1 DEF Deletes
<1>13. Done(did)
  <2>1. \A k \in 1 .. n : did[k].op = "delete" /\ did[k].done
    <3> TAKE k \in 1 .. n
    <3>1. IsDelete(did[k]) /\ did[k].done
      BY <1>6 DEF DeletesOne
    <3> QED BY <3>1 DEF IsDelete
  <2> QED BY <1>3, <2>1 DEF Done
<1>14. At(r.db, q, top + 1)
  <2>1. At(f[n], Left(list, n, p), top)
    BY <1>1, <1>5
  <2>2. At(f[n], q, top)
    BY <1>1, <2>1
  <2>3. top + 1 \in Nat /\ top <= top + 1
    OBVIOUS
  <2> HIDE DEF n, Reaches, One
  <2>4. At(f[n], q, top + 1)
    BY <2>2, <2>3, TopGrows
  <2> QED BY <1>3, <2>4
<1>15. Arrives(r, d, p, q, top)
  BY <1>3, <1>8, <1>12, <1>13, <1>14 DEF Arrives, Leads, did
<1> QED BY <1>15 DEF r

(* Every list. *)
LEMMA ExecuteArrives ==
  ASSUME IsFiniteSet(Ids), NEW top \in Nat, top < UIntMax,
         NEW d, NEW p, NEW q, IsPast(p), IsPast(q), At(d, p, top),
         NEW list, Leads(list, p, q, top)
  PROVE  Arrives(ExecuteAll(list, d), d, p, q, top)
<1>1. CASE Adds(list, p, q)
  BY <1>1, AddArrives
<1>2. CASE Attaches(list, p, q)
  BY <1>2, AttachArrives
<1>3. CASE Deletes(list, p, q)
  BY <1>3, DeletesArrive
<1>4. CASE Edits(list, p, q)
  BY <1>4, EditArrives
<1>5. CASE Detaches(list, p, q, top)
  BY <1>5, DetachArrives
<1>6. CASE Retitles(list, p, q, top)
  BY <1>6, RetitleArrives
<1> QED BY <1>1, <1>2, <1>3, <1>4, <1>5, <1>6 DEF Leads

-----------------------------------------------------------------------------
(* A list undone at the position it leads to brings the database back to   *)
(* the one it leads from, if the attachments needed there are listed or    *)
(* kept by the list; one lemma per form.                                   *)

Returns(r, d, p, top) == At(r, p, top) /\ DOMAIN d.atts \subseteq DOMAIN r.atts

LEMMA WithoutNew ==
  ASSUME NEW f, f = [i \in DOMAIN f |-> f[i]], NEW x, x \notin DOMAIN f, NEW y
  PROVE  /\ x \in DOMAIN With(f, x, y) /\ With(f, x, y)[x] = y
         /\ Without(With(f, x, y), {x}) = f
  BY DEF With, Without

LEMMA WithOld ==
  ASSUME NEW f, f = [i \in DOMAIN f |-> f[i]], NEW x \in DOMAIN f, NEW y
  PROVE  With(With(f, x, y), x, f[x]) = f
  BY DEF With

LEMMA WithoutOld ==
  ASSUME NEW f, f = [i \in DOMAIN f |-> f[i]], NEW x \in DOMAIN f
  PROVE  With(Without(f, {x}), x, f[x]) = f
  BY DEF With, Without

LEMMA AddReturns ==
  ASSUME IsFiniteSet(Ids), NEW low \in Nat,
         NEW d, NEW p, NEW q, IsPast(p), IsPast(q), At(d, q, low),
         NEW list, Adds(list, p, q)
  PROVE  Returns(UndoAll(list, d), d, p, low)
<1> DEFINE c == list[1]
           id == c.id
           entry == c.entry
           r == UndoAll(list, d)
<1>1. Len(list) = 1 /\ AddsEntry(c, p, q) /\ q.titles = p.titles
  BY DEF Adds
<1> HIDE DEF c
<1>2. /\ c.op = "add" /\ id \notin DOMAIN p.entries
      /\ entry.att = NoAtt \/ entry.att \in AttsOf(p.entries)
      /\ \/ q.entries = With(p.entries, id, entry)
         \/ entry.att = NoAtt /\ q.entries = With(p.entries, id, [entry EXCEPT !.att = c.att.uuid])
  BY <1>1 DEF AddsEntry
<1>3. r = DoDeleteEntry(d, id, entry)
  <2>1. r = Undo1(d, c)
    BY <1>1, UndoOne DEF c
  <2> QED BY <1>2, <2>1 DEF Undo1
<1> HIDE DEF id, entry, r
<1>4. id \in DOMAIN q.entries /\ p.entries = Without(q.entries, {id})
  <2>1. ASSUME NEW e, q.entries = With(p.entries, id, e)
        PROVE  id \in DOMAIN q.entries /\ p.entries = Without(q.entries, {id})
    <3>1. p.entries = [i \in DOMAIN p.entries |-> p.entries[i]]
      BY DEF IsPast
    <3> QED BY <1>2, <2>1, <3>1, WithoutNew
  <2> QED BY <1>2, <2>1
<1>5. entry.att = NoAtt \/ entry = q.entries[id]
  BY <1>2 DEF With
<1>6. Deleted(r, d, entry, p, low)
  BY <1>1, <1>3, <1>4, <1>5, DeleteAt
<1>7. ~LastRef(d, entry)
  BY <1>2, <1>6 DEF Deleted, LastRef
<1>8. Returns(r, d, p, low)
  BY <1>6, <1>7 DEF Deleted, Returns
<1> QED BY <1>8 DEF r

LEMMA EditReturns ==
  ASSUME NEW low \in Nat,
         NEW d, NEW p, NEW q, IsPast(p), IsPast(q), At(d, q, low),
         NEW list, Edits(list, p, q)
  PROVE  Returns(UndoAll(list, d), d, p, low)
<1> DEFINE c == list[1]
           id == c.id
           r == UndoAll(list, d)
<1>1. /\ Len(list) = 1 /\ c.op = "edit" /\ id \in DOMAIN p.entries /\ c.old = p.entries[id]
      /\ q.entries = With(p.entries, id, c.new) /\ q.titles = p.titles /\ c.old.att = c.new.att
  BY DEF Edits, EditsTo
<1>2. r = DoReplaceEntry(d, id, c.old)
  <2>1. r = Undo1(d, c)
    BY <1>1, UndoOne
  <2> QED BY <1>1, <2>1 DEF Undo1
<1> HIDE DEF c, id, r
<1>3. p = [entries |-> With(q.entries, id, c.old), titles |-> q.titles]
  <2>1. With(q.entries, id, c.old) = p.entries
    BY <1>1 DEF With, IsPast
  <2> QED BY <1>1, <2>1 DEF IsPast
<1>4. id \in DOMAIN q.entries /\ c.old.att = q.entries[id].att
  BY <1>1 DEF With
<1>5. At(r, p, low) /\ DOMAIN r.atts = DOMAIN d.atts
  BY <1>2, <1>3, <1>4, EditAt
<1> QED BY <1>5 DEF r, Returns

LEMMA AttachReturns ==
  ASSUME IsFiniteSet(Ids), NEW low \in Nat, low < UIntMax,
         NEW d, NEW p, NEW q, IsPast(p), IsPast(q), At(d, q, low),
         NEW list, Attaches(list, p, q), Done(list)
  PROVE  Returns(UndoAll(list, d), d, p, low + 1)
<1> DEFINE c == list[1]
           id == c.id
           entry == c.entry
           r == UndoAll(list, d)
           gone == [entries |-> Without(p.entries, {id}), titles |-> p.titles]
           mid == Undo1(d, list[2])
           full == [entry EXCEPT !.att = IF HasContent(Empty) THEN Empty.uuid ELSE @]
<1>1. /\ Len(list) = 2 /\ c.op = "delete" /\ c.done /\ list[2].op = "add"
      /\ list[2].id = id /\ list[2].entry = entry /\ c.saved = Empty
      /\ id \in DOMAIN p.entries /\ p.entries[id] = entry /\ entry.att = NoAtt
      /\ q.titles = p.titles
      /\ q.entries = With(p.entries, id, [entry EXCEPT !.att = list[2].att.uuid])
  <2>1. c.op = "delete" => c.done
    BY DEF Done, Attaches
  <2> QED BY <2>1 DEF Attaches, IsDelete
<1>2. r = Undo1(mid, c)
  BY <1>1, UndoTwo
<1>3. mid = DoDeleteEntry(d, id, entry) /\ r = DoAddEntry(mid, id, entry, Empty)
  BY <1>1, <1>2 DEF Undo1
<1>4. entry \in Entries /\ id \in Ids
  BY <1>1 DEF IsPast
<1>5. full = entry
  <2>1. ~HasContent(Empty)
    BY DEF HasContent, Empty
  <2>2. full = [entry EXCEPT !.att = @]
    BY <2>1
  <2> HIDE DEF full, entry
  <2> QED BY <1>4, <2>2 DEF Entries
<1>6. gone.entries = Without(q.entries, {id}) /\ gone.titles = q.titles /\ id \in DOMAIN q.entries
  BY <1>1 DEF With, Without
<1>7. IsPast(gone) /\ id \notin DOMAIN gone.entries /\ gone.titles = p.titles
  BY WithoutIsPast DEF Without
<1>8. p.entries = With(gone.entries, id, entry)
  BY <1>1 DEF With, Without, IsPast
<1> HIDE DEF c, id, entry, r, gone, mid
<1>9. Deleted(mid, d, entry, gone, low)
  BY <1>1, <1>3, <1>6, DeleteAt
<1>10. At(mid, gone, low) /\ DOMAIN mid.atts = DOMAIN d.atts
  BY <1>1, <1>9 DEF Deleted, LastRef
<1>11. p = [entries |-> With(gone.entries, id, full), titles |-> gone.titles]
  <2> HIDE DEF full
  <2> QED BY <1>5, <1>7, <1>8 DEF IsPast
<1>12. At(r, p, low + 1) /\ DOMAIN mid.atts \subseteq DOMAIN r.atts
  <2>1. p = [entries |-> With(gone.entries, id,
                [entry EXCEPT !.att = IF HasContent(Empty) THEN Empty.uuid ELSE @]),
             titles |-> gone.titles]
    BY <1>11 DEF full
  <2>2. id \in Ids \ DOMAIN gone.entries
    BY <1>4, <1>7
  <2>3. Empty = Empty /\ entry.att \in DOMAIN mid.atts \cup {NoAtt}
    BY <1>1
  <2> HIDE DEF full
  <2> QED BY <1>3, <1>4, <1>7, <1>10, <2>1, <2>2, <2>3, AddAt
<1>13. Returns(r, d, p, low + 1)
  BY <1>10, <1>12 DEF Returns
<1> QED BY <1>13 DEF r

LEMMA DetachReturns ==
  ASSUME IsFiniteSet(Ids), NEW low \in Nat, low < UIntMax, NEW top \in Nat, low < top,
         NEW d, NEW p, NEW q, IsPast(p), IsPast(q), At(d, q, low),
         NEW list, Detaches(list, p, q, top), Done(list)
  PROVE  Returns(UndoAll(list, d), d, p, top)
<1> DEFINE c == list[1]
           id == c.id
           a == c.entry.att
           r == UndoAll(list, d)
           mid == Undo1(d, list[2])
<1>1. /\ Len(list) = 2 /\ c.op = "deleteatt" /\ list[2].op = "edit"
      /\ list[2].id = id /\ id \in DOMAIN p.entries /\ list[2].old = p.entries[id]
      /\ a # NoAtt /\ RefsTo(p.entries, a) = {id} /\ list[2].new.att = NoAtt
      /\ q.entries = With(p.entries, id, list[2].new) /\ q.titles = p.titles
      /\ c.saved = Empty \/ IsCopy(c.saved, a, p, top)
  BY DEF Detaches, EditsTo, IsDetach
<1>2. IsCopy(c.saved, a, p, top)
  <2>1. c.saved # Empty
    BY <1>1 DEF Done
  <2> QED BY <1>1, <2>1
<1>3. r = Undo1(mid, c)
  BY <1>1, UndoTwo
<1>4. mid = DoReplaceEntry(d, id, list[2].old)
  BY <1>1 DEF Undo1
<1>5. r = DoAddAttachment(DoReplaceEntry(d, id, list[2].old), c.saved)
  BY <1>1, <1>3, <1>4 DEF Undo1
<1>6. q = [entries |-> With(p.entries, id, list[2].new), titles |-> p.titles]
  BY <1>1 DEF IsPast
<1> DEFINE new == list[2].new
           copy == c.saved
           old == list[2].old
<1>7. Regained(DoAddAttachment(DoReplaceEntry(d, id, old), copy), d, p, a, top)
  <2>1. /\ id \in DOMAIN p.entries /\ new.att = NoAtt /\ a # NoAtt
        /\ RefsTo(p.entries, a) = {id} /\ IsCopy(copy, a, p, top) /\ old = p.entries[id]
        /\ q = [entries |-> With(p.entries, id, new), titles |-> p.titles]
    BY <1>1, <1>2, <1>6
  <2> HIDE DEF id, c, a, r, mid, new, copy, old
  <2> QED BY <2>1, ReattachAt
<1>8. Returns(r, d, p, top)
  BY <1>5, <1>7 DEF Returns, Regained
<1> QED BY <1>8 DEF r

LEMMA RetitleReturns ==
  ASSUME IsFiniteSet(Ids), NEW low \in Nat, NEW top \in Nat, low <= top,
         NEW d, NEW p, NEW q, IsPast(p), IsPast(q), At(d, q, low),
         NEW list, Retitles(list, p, q, top)
  PROVE  Returns(UndoAll(list, d), d, p, top)
<1> DEFINE c == list[1]
           id == list[2].id
           a == c.old.uuid
           r == UndoAll(list, d)
           mid == Undo1(d, list[2])
           half == [entries |-> p.entries, titles |-> q.titles]
<1>1. /\ Len(list) = 2 /\ c.op = "editatt" /\ list[2].op = "edit"
      /\ c.old \in Attachment /\ c.new \in Attachment /\ c.new.uuid = a
      /\ a \in AttsOf(p.entries) /\ Counted(c.old, p, top)
      /\ id \in DOMAIN p.entries /\ list[2].old = p.entries[id]
      /\ list[2].new.att = p.entries[id].att
      /\ q.entries = With(p.entries, id, list[2].new)
      /\ q.titles = [p.titles EXCEPT ![a] = c.new.title]
  BY DEF Retitles, EditsTo
<1>2. r = Undo1(mid, c)
  BY <1>1, UndoTwo
<1>3. mid = DoReplaceEntry(d, id, p.entries[id]) /\ r = Listed(mid, a, c.old)
  BY <1>1, <1>2 DEF Undo1, DoReplaceAttachment
<1>4. half = [entries |-> With(q.entries, id, p.entries[id]), titles |-> q.titles]
  <2>1. p.entries = [i \in DOMAIN p.entries |-> p.entries[i]]
    BY DEF IsPast
  <2>2. With(q.entries, id, p.entries[id]) = p.entries
    BY <1>1, <2>1, WithOld
  <2> QED BY <2>2
<1>5. id \in DOMAIN q.entries /\ p.entries[id].att = q.entries[id].att
  BY <1>1 DEF With
<1>6. IsPast(half) /\ half.entries = p.entries /\ half.titles = q.titles
  BY DEF IsPast
<1> HIDE DEF half, mid, r, id
<1>7. At(mid, half, low) /\ DOMAIN mid.atts = DOMAIN d.atts
  BY <1>3, <1>4, <1>5, EditAt
<1>8. At(mid, half, top)
  BY <1>6, <1>7, TopGrows
<1>9. a \in DOMAIN mid.atts
  BY <1>1, <1>6, <1>7 DEF At
<1>10. p = [entries |-> half.entries, titles |-> [half.titles EXCEPT ![a] = c.old.title]]
  <2>1. c.old.title = p.titles[a] /\ p.titles = [x \in Atts |-> p.titles[x]]
    BY <1>1 DEF Counted, IsPast
  <2>2. p.titles = [q.titles EXCEPT ![a] = c.old.title]
    BY <1>1, <2>1
  <2> HIDE DEF a, c
  <2> QED BY <1>6, <2>2 DEF IsPast
<1>11. At(r, p, top) /\ DOMAIN r.atts = DOMAIN mid.atts
  <2>1. c.old \in Attachment /\ c.old.uuid = a
    BY <1>1
  <2> HIDE DEF a, c
  <2> QED BY <1>1, <1>3, <1>6, <1>8, <1>9, <1>10, <2>1, RetitleAt DEF c
<1>12. Returns(r, d, p, top)
  BY <1>7, <1>11 DEF Returns
<1> QED BY <1>12 DEF r

(* What is deleted later is still there. *)
LEMMA LeftHolds ==
  ASSUME NEW p, IsPast(p), NEW list, Len(list) \in Nat,
         \A k \in 1 .. Len(list) : DeletesNth(list, k, p),
         NEW m \in 0 .. Len(list), NEW k \in 1 .. Len(list), m < k
  PROVE  list[k].entry.att = NoAtt \/ list[k].entry.att \in AttsOf(Left(list, m, p).entries)
<1> DEFINE id == list[k].id
           left == Left(list, m, p).entries
<1>1. /\ id \in DOMAIN p.entries /\ list[k].entry = p.entries[id]
      /\ \A j \in 1 .. Len(list) : j # k => list[j].id # id
  BY DEF DeletesNth
<1>2. id \notin IdsOf(list, m)
  BY <1>1 DEF IdsOf
<1>3. left = Without(p.entries, IdsOf(list, m))
  BY DEF Left
<1> HIDE DEF id, left
<1>4. id \in DOMAIN left /\ left[id] = list[k].entry
  BY <1>1, <1>2, <1>3 DEF Without
<1> QED BY <1>4 DEF AttsOf, left

(* An entry whose deletion kept no copy of its attachment finds it when    *)
(* that is undone.                                                         *)
LEMMA CopyIsElsewhere ==
  ASSUME NEW p, IsPast(p), NEW list, Len(list) \in Nat,
         \A k \in 1 .. Len(list) : DeletesNth(list, k, p), NEW j \in 1 .. Len(list),
         NEW there, AttsOf(p.entries) \subseteq there \cup Saves(list),
         list[j].saved = Empty, list[j].entry.att # NoAtt
  PROVE  list[j].entry.att \in there \cup AttsOf(Left(list, j, p).entries)
<1> DEFINE a == list[j].entry.att
<1>1. a \in AttsOf(p.entries)
  BY DEF DeletesNth, AttsOf
<1>2. CASE a \in Saves(list)
  <2>1. PICK m \in 1 .. Len(list) : list[m].saved # Empty /\ list[m].saved.uuid = a
    BY <1>2 DEF Saves
  <2>2. list[m].entry.att = a /\ a \notin AttsOf(Left(list, m, p).entries)
    BY <2>1 DEF DeletesNth, IsCopy
  <2>3. ~(m < j)
    BY <2>2, LeftHolds
  <2>4. j < m
    BY <2>1, <2>3
  <2> QED BY <2>2, <2>4, LeftHolds
<1> HIDE DEF a
<1>3. a \in there \/ a \in Saves(list)
  BY <1>1
<1> QED BY <1>2, <1>3 DEF a

(* What the undo of a deletion achieves. *)
LEMMA UndeleteStep ==
  ASSUME IsFiniteSet(Ids), NEW top \in Nat, 1 <= top, top < UIntMax,
         NEW p, IsPast(p), NEW list, Len(list) \in Nat,
         \A k \in 1 .. Len(list) : DeletesNth(list, k, p), NEW j \in 1 .. Len(list), list[j].done,
         NEW before, At(before, Left(list, j, p), top),
         \/ list[j].saved # Empty
         \/ list[j].entry.att = NoAtt
         \/ list[j].entry.att \in DOMAIN before.atts
  PROVE  Returns(Undo1(before, list[j]), before, Left(list, j - 1, p), top + 1)
<1> DEFINE c == list[j]
           id == c.id
           entry == c.entry
           saved == c.saved
           o == Left(list, j - 1, p)
           q == Left(list, j, p)
           r == Undo1(before, c)
<1>1. /\ IsPast(o) /\ IsPast(q) /\ id \in DOMAIN o.entries /\ entry = o.entries[id]
      /\ q.entries = Without(o.entries, {id}) /\ q.titles = p.titles /\ o.titles = p.titles
  <2>1. Drops(o, q, id, entry)
    BY LeftIs
  <2>2. o.titles = p.titles
    BY DEF Left
  <2> HIDE DEF o, q, id, entry
  <2> QED BY <2>1, <2>2 DEF Drops
<1>2. IsDelete(c) /\ (saved = Empty \/ IsCopy(saved, entry.att, p, 1))
  BY DEF DeletesNth
<1>3. r = DoAddEntry(before, id, entry, saved)
  BY <1>2 DEF Undo1, IsDelete
<1>4. At(before, q, top)
  OBVIOUS
<1>5. \/ saved # Empty
      \/ entry.att \in DOMAIN before.atts \cup {NoAtt}
  OBVIOUS
<1> HIDE DEF o, q, id, entry, saved, r, c
<1>6. id \in Ids \ DOMAIN q.entries /\ entry \in Entries
  BY <1>1 DEF IsPast, Without
<1>7. \/ saved = Empty /\ entry.att \in DOMAIN before.atts \cup {NoAtt}
      \/ saved \in Attachment /\ saved.title = q.titles[saved.uuid] /\ saved.refs <= top
  <2>1. CASE saved = Empty
    BY <1>5, <2>1
  <2>2. CASE IsCopy(saved, entry.att, p, 1)
    <3>1. saved \in Attachment /\ saved.uuid = entry.att /\ saved.title = p.titles[entry.att]
          /\ saved.refs \in Nat /\ saved.refs <= 1
      BY <2>2 DEF IsCopy, Attachment
    <3> QED BY <1>1, <3>1
  <2> QED BY <1>2, <2>1, <2>2
<1>8. [entry EXCEPT !.att = IF HasContent(saved) THEN saved.uuid ELSE @] = entry
  <2>1. CASE saved = Empty
    <3>1. ~HasContent(saved)
      BY <2>1 DEF HasContent, Empty
    <3> QED BY <1>6, <3>1 DEF Entries
  <2>2. CASE saved # Empty
    <3>1. saved.uuid = entry.att
      BY <1>2, <2>2 DEF IsCopy
    <3> QED BY <1>6, <3>1 DEF Entries
  <2> QED BY <2>1, <2>2
<1>9. o = [entries |-> With(q.entries, id,
             [entry EXCEPT !.att = IF HasContent(saved) THEN saved.uuid ELSE @]),
           titles |-> q.titles]
  <2>1. o.entries = [i \in DOMAIN o.entries |-> o.entries[i]]
    BY <1>1 DEF IsPast
  <2>2. With(q.entries, id, entry) = o.entries
    BY <1>1, <2>1, WithoutOld
  <2> QED BY <1>1, <1>8, <2>2 DEF IsPast
<1>10. At(r, o, top + 1) /\ DOMAIN before.atts \subseteq DOMAIN r.atts
  BY <1>1, <1>3, <1>4, <1>6, <1>7, <1>9, AddAt
<1>11. Returns(r, before, o, top + 1)
  BY <1>10 DEF Returns
<1> QED BY <1>11 DEF r, c, o

LEMMA DeletesReturn ==
  ASSUME IsFiniteSet(Ids), NEW low \in Nat, low + Cardinality(Ids) < UIntMax,
         NEW d, NEW p, NEW q, IsPast(p), IsPast(q), At(d, q, low),
         NEW list, Deletes(list, p, q), Done(list),
         AttsOf(p.entries) \subseteq DOMAIN d.atts \cup Saves(list)
  PROVE  Returns(UndoAll(list, d), d, p, low + Cardinality(Ids) + 1)
<1> DEFINE n == Len(list)
           f == Unran(list, d)
           r == UndoAll(list, d)
           top(i) == low + 1 + i
           Reaches(i) == At(f[i], Left(list, n - i, p), top(i)) /\ DOMAIN d.atts \subseteq DOMAIN f[i].atts
<1>0. Cardinality(Ids) \in Nat /\ UIntMax \in Nat
  BY FS_CardinalityType, AttachmentsAssumption
<1>1. n \in Nat /\ n \in 1 .. Cardinality(Ids) /\ q = Left(list, n, p)
  BY <1>0 DEF Deletes
<1>2. \A k \in 1 .. n : DeletesNth(list, k, p)
  BY DEF Deletes
<1>3. f[0] = d /\ r = f[n] /\ \A k \in 1 .. n : f[k] = Undo1(f[k - 1], Reverse(list)[k])
  BY <1>1, UndoRuns
<1> HIDE DEF f, r
<1>4. Reaches(0)
  <2>1. At(d, q, low + 1)
    BY TopGrows
  <2>2. top(0) = low + 1 /\ n - 0 = n
    BY <1>1
  <2> QED BY <1>1, <1>3, <2>1, <2>2
<1>5. ASSUME NEW i \in Nat, i + 1 <= n, Reaches(i) PROVE Reaches(i + 1)
  <2> DEFINE j == n - i
  <2>1. /\ j \in 1 .. n /\ i + 1 \in 1 .. n /\ (i + 1) + j = n + 1 /\ (i + 1) - 1 = i
        /\ n - (i + 1) = j - 1 /\ top(i + 1) = top(i) + 1 /\ top(i) \in Nat /\ 1 <= top(i)
        /\ top(i) < UIntMax
    <3> DEFINE card == Cardinality(Ids)
    <3>1. n \in Nat /\ card \in Nat /\ UIntMax \in Nat /\ 1 <= n /\ n <= card /\ i + 1 <= n
      BY <1>0, <1>1, <1>5
    <3>2. low + card < UIntMax
      OBVIOUS
    <3> HIDE DEF n, card, Reaches
    <3>3. /\ j \in 1 .. n /\ i + 1 \in 1 .. n /\ (i + 1) + j = n + 1 /\ (i + 1) - 1 = i
          /\ n - (i + 1) = j - 1
      BY <3>1
    <3>4. top(i + 1) = top(i) + 1 /\ top(i) \in Nat /\ 1 <= top(i)
      BY <3>1
    <3>5. top(i) < UIntMax
      BY <3>1, <3>2
    <3> QED BY <3>3, <3>4, <3>5
  <2>2. At(f[i], Left(list, j, p), top(i)) /\ DOMAIN d.atts \subseteq DOMAIN f[i].atts
    BY <1>5
  <2> HIDE DEF j, top, n
  <2>3. Reverse(list)[i + 1] = list[j]
    BY <1>1, <2>1, ReversedIs DEF n
  <2>4. f[i + 1] = Undo1(f[i], list[j])
    BY <1>3, <2>1, <2>3
  <2>5. list[j].done
    <3>1. IsDelete(list[j])
      BY <1>2, <2>1 DEF DeletesNth
    <3>2. list[j].op = "delete"
      BY <3>1 DEF IsDelete
    <3> QED BY <2>1, <3>2 DEF Done, n
  <2>6. \/ list[j].saved # Empty
        \/ list[j].entry.att = NoAtt
        \/ list[j].entry.att \in DOMAIN f[i].atts
    <3>1. AttsOf(Left(list, j, p).entries) \subseteq DOMAIN f[i].atts
      BY <2>2 DEF At
    <3>2. AttsOf(p.entries) \subseteq DOMAIN f[i].atts \cup Saves(list)
      BY <2>2
    <3>3. \/ list[j].saved # Empty
          \/ list[j].entry.att = NoAtt
          \/ list[j].entry.att \in DOMAIN f[i].atts \cup AttsOf(Left(list, j, p).entries)
      BY <1>1, <1>2, <2>1, <3>2, CopyIsElsewhere DEF n
    <3> QED BY <3>1, <3>3
  <2>7. Returns(Undo1(f[i], list[j]), f[i], Left(list, j - 1, p), top(i) + 1)
    BY <1>1, <1>2, <2>1, <2>2, <2>5, <2>6, UndeleteStep DEF n
  <2>8. At(f[i + 1], Left(list, j - 1, p), top(i) + 1) /\ DOMAIN f[i].atts \subseteq DOMAIN f[i + 1].atts
    BY <2>4, <2>7 DEF Returns
  <2> QED BY <2>1, <2>2, <2>8
<1>6. Reaches(n)
  <2> DEFINE S == {i \in Nat : i <= n => Reaches(i)}
  <2>1. 0 \in S
    <3> HIDE DEF Reaches
    <3> QED BY <1>4
  <2>2. ASSUME NEW i \in Nat, i \in S PROVE i + 1 \in S
    <3> HIDE DEF Reaches
    <3>1. i + 1 <= n => Reaches(i + 1)
      BY <1>1, <1>5, <2>2
    <3> QED BY <3>1
  <2>3. Nat \subseteq S
    <3> HIDE DEF S
    <3> QED BY <2>1, <2>2, SetInduction
  <2> HIDE DEF Reaches
  <2> QED BY <1>1, <2>3
<1>7. At(r, p, top(n)) /\ DOMAIN d.atts \subseteq DOMAIN r.atts
  <2>1. n - n = 0
    BY <1>1
  <2> QED BY <1>3, <1>6, <2>1, LeftNone
<1>8. At(r, p, low + Cardinality(Ids) + 1)
  <2>1. top(n) \in Nat /\ top(n) <= low + Cardinality(Ids) + 1 /\ low + Cardinality(Ids) + 1 \in Nat
    BY <1>0, <1>1
  <2> HIDE DEF top
  <2> QED BY <1>7, <2>1, TopGrows
<1>9. Returns(r, d, p, low + Cardinality(Ids) + 1)
  BY <1>7, <1>8 DEF Returns
<1> QED BY <1>9 DEF r

LEMMA UndoReturns ==
  ASSUME IsFiniteSet(Ids), NEW low \in Nat, NEW top \in Nat,
         low + Cardinality(Ids) + 1 <= top, top <= UIntMax,
         NEW d, NEW p, NEW q, IsPast(p), IsPast(q), At(d, q, low),
         NEW list, Leads(list, p, q, top), Done(list),
         AttsOf(p.entries) \subseteq DOMAIN d.atts \cup Saves(list)
  PROVE  Returns(UndoAll(list, d), d, p, top)
<1>0. /\ Cardinality(Ids) \in Nat /\ UIntMax \in Nat /\ low < UIntMax /\ low < top /\ low <= top
      /\ low + 1 <= top /\ low + Cardinality(Ids) < UIntMax
  BY FS_CardinalityType, AttachmentsAssumption
<1>1. ASSUME NEW less \in Nat, less <= top, Returns(UndoAll(list, d), d, p, less)
      PROVE  Returns(UndoAll(list, d), d, p, top)
  BY <1>1, TopGrows DEF Returns
<1>2. CASE Adds(list, p, q)
  BY <1>0, <1>1, <1>2, AddReturns
<1>3. CASE Attaches(list, p, q)
  BY <1>0, <1>1, <1>3, AttachReturns
<1>4. CASE Deletes(list, p, q)
  BY <1>0, <1>1, <1>4, DeletesReturn
<1>5. CASE Edits(list, p, q)
  BY <1>0, <1>1, <1>5, EditReturns
<1>6. CASE Detaches(list, p, q, top)
  BY <1>0, <1>6, DetachReturns
<1>7. CASE Retitles(list, p, q, top)
  BY <1>0, <1>7, RetitleReturns
<1> QED BY <1>2, <1>3, <1>4, <1>5, <1>6, <1>7 DEF Leads

-----------------------------------------------------------------------------
(* Steps.  The counts stay below the greatest unsigned int, and the user   *)
(* does nothing of RiskyKinds.                                             *)

Careful == Risky = {} /\ IsFiniteSet(Ids) /\ Base + MaxCommands + 1 <= UIntMax

LEMMA Numbers ==
  ASSUME Careful
  PROVE  /\ Cardinality(Ids) \in Nat /\ Base \in Nat /\ UIntMax \in Nat
         /\ MaxCommands \in Nat /\ MaxRefs \in Nat /\ Base = MaxRefs + Cardinality(Ids)
         /\ Base + MaxCommands + 1 <= UIntMax /\ IsFiniteSet(Ids) /\ Risky = {}
  BY AttachmentsAssumption, FS_CardinalityType DEF Careful, Base

(* What the user sees of a database at a position. *)
LEMMA ViewIs ==
  ASSUME NEW top \in Nat, NEW d, NEW p, IsPast(p), At(d, p, top)
  PROVE  View(d) = Shown(p)
<1> DEFINE Seen(i) == [text  |-> p.entries[i].text, att |-> p.entries[i].att,
                       title |-> GetAtt(d, p.entries[i].att).title]
           Was(i) == [text  |-> p.entries[i].text, att |-> p.entries[i].att,
                      title |-> IF p.entries[i].att = NoAtt THEN NoTitle
                                                            ELSE p.titles[p.entries[i].att]]
<1>1. ASSUME NEW i \in DOMAIN p.entries PROVE Seen(i) = Was(i)
  <2> DEFINE a == p.entries[i].att
  <2>1. a = NoAtt \/ a \in AttsOf(p.entries)
    BY DEF AttsOf
  <2> HIDE DEF a
  <2>2. CASE a = NoAtt
    <3>1. GetAtt(d, a) = Empty
      BY <2>2, AtParts DEF GetAtt, HasAtt
    <3>2. GetAtt(d, a).title = NoTitle
      BY <3>1 DEF Empty
    <3> QED BY <2>2, <3>2 DEF a
  <2>3. CASE a \in AttsOf(p.entries)
    <3>1. a \in DOMAIN d.atts /\ a # NoAtt
      BY <2>3 DEF At, AttsOf
    <3>2. GetAtt(d, a) = d.atts[a] /\ d.atts[a].title = p.titles[a]
      BY <3>1 DEF At, Counted, GetAtt, HasAtt
    <3>3. GetAtt(d, a).title = p.titles[a]
      BY <3>2
    <3> QED BY <3>1, <3>3 DEF a
  <2> QED BY <2>1, <2>2, <2>3
<1>2. View(d) = [i \in DOMAIN p.entries |-> Seen(i)]
  <2>1. d.entries = p.entries
    BY DEF At
  <2> QED BY <2>1 DEF View
<1>3. Shown(p) = [i \in DOMAIN p.entries |-> Was(i)]
  BY DEF Shown
<1> HIDE DEF Seen, Was
<1> QED BY <1>1, <1>2, <1>3

LEMMA AtBounded ==
  ASSUME NEW top \in Nat, NEW p, At(db, p, top), CountsInBound
  PROVE  At(db, p, MaxRefs)
  BY DEF At, Counted, CountsInBound

(* What a list keeps was needed where it leads from. *)
LEMMA SavesUsed ==
  ASSUME NEW list, NEW p, NEW q, NEW top, Leads(list, p, q, top)
  PROVE  Saves(list) \subseteq AttsOf(p.entries)
<1> SUFFICES ASSUME NEW j \in 1 .. Len(list), list[j].op \in {"delete", "deleteatt"},
                    list[j].saved # Empty
             PROVE  list[j].saved.uuid \in AttsOf(p.entries)
  BY DEF Saves
<1>0. NoAtt \notin Atts
  BY AttachmentsAssumption
<1>1. CASE Adds(list, p, q)
  BY <1>1 DEF Adds, AddsEntry
<1>2. CASE Attaches(list, p, q)
  BY <1>2 DEF Attaches
<1>3. CASE Deletes(list, p, q)
  <2>1. DeletesNth(list, j, p)
    BY <1>3 DEF Deletes
  <2> QED BY <1>0, <2>1 DEF DeletesNth, IsCopy, Attachment, AttsOf
<1>4. CASE Edits(list, p, q)
  BY <1>4 DEF Edits, EditsTo
<1>5. CASE Detaches(list, p, q, top)
  <2>1. j = 1 /\ list[1].saved.uuid = list[1].entry.att
    BY <1>5 DEF Detaches, EditsTo, IsCopy
  <2>2. list[1].entry.att # NoAtt /\ list[2].id \in DOMAIN p.entries /\ list[1].entry = p.entries[list[2].id]
    BY <1>5 DEF Detaches, EditsTo
  <2> QED BY <2>1, <2>2 DEF AttsOf
<1>6. CASE Retitles(list, p, q, top)
  BY <1>6 DEF Retitles, EditsTo
<1> QED BY <1>1, <1>2, <1>3, <1>4, <1>5, <1>6 DEF Leads

(* A list cut off and continued. *)
LEMMA AppendIs ==
  ASSUME NEW n \in Nat, NEW s, IsListOf(s, n), NEW m \in 0 .. n, NEW e
  PROVE  /\ IsListOf(Append(SubSeq(s, 1, m), e), m + 1)
         /\ Len(Append(SubSeq(s, 1, m), e)) = m + 1
         /\ Append(SubSeq(s, 1, m), e)[m + 1] = e
         /\ \A k \in 1 .. m : Append(SubSeq(s, 1, m), e)[k] = s[k]
<1> DEFINE S == {s[k] : k \in 1 .. n} \cup {e}
           t == SubSeq(s, 1, m)
           u == Append(t, e)
<1>1. s \in Seq(S) /\ Len(s) = n
  <2>1. s \in [1 .. n -> S]
    BY DEF IsListOf
  <2> HIDE DEF S
  <2> QED BY <2>1
<1> HIDE DEF S
<1>2. t \in Seq(S) /\ Len(t) = m /\ \A k \in 1 .. m : t[k] = s[k]
  BY <1>1
<1>3. e \in S
  BY DEF S
<1> HIDE DEF t
<1>4. u \in Seq(S) /\ Len(u) = m + 1 /\ u[m + 1] = e /\ \A k \in 1 .. m : u[k] = t[k]
  BY <1>2, <1>3
<1>5. u = [k \in 1 .. m + 1 |-> u[k]]
  <2>1. u \in [1 .. Len(u) -> S]
    BY <1>4, LenProperties
  <2> HIDE DEF u
  <2> QED BY <1>4, <2>1
<1> QED BY <1>2, <1>4, <1>5 DEF t, IsListOf

(* Where the user is. *)
LEMMA HereIs ==
  ASSUME Careful, NEW past, Explains(past)
  PROVE  /\ next \in Nat /\ next >= 1 /\ Len(commands) \in Nat /\ next <= Len(commands) + 1
         /\ Len(commands) <= MaxCommands
         /\ Base + next \in Nat
         /\ IsPast(past[next]) /\ At(db, past[next], Base + next)
         /\ history[next] = Shown(past[next])
  BY Numbers DEF Explains

(* A list executed that leads from where the user is to a position q.      *)
LEMMA NewPosition ==
  ASSUME Careful, NEW past, Explains(past), NEW list, NEW q, IsPast(q),
         Leads(list, past[next], q, Base + next), Execute(list)
  PROVE  \E more : Explains(more)'
<1> DEFINE p == past[next]
           top == Base + next
           r == ExecuteAll(list, db)
<1>1. /\ next \in Nat /\ next >= 1 /\ Len(commands) \in Nat /\ next <= Len(commands) + 1
      /\ top \in Nat /\ IsPast(p) /\ At(db, p, top)
  BY HereIs
<1>2. next <= MaxCommands /\ top < UIntMax /\ Base \in Nat /\ MaxCommands \in Nat
  BY <1>1, Numbers DEF Execute
<1>3. Arrives(r, db, p, q, top)
  BY <1>1, <1>2, ExecuteArrives DEF Careful
<1>4. /\ db' = r.db /\ next' = next + 1
      /\ commands' = Append(SubSeq(commands, 1, next - 1), r.did)
      /\ history' = Append(SubSeq(history, 1, next), View(r.db))
  BY DEF Execute
<1> HIDE DEF r
<1>5. /\ IsListOf(commands', next) /\ Len(commands') = next /\ commands'[next] = r.did
      /\ \A k \in 1 .. next - 1 : commands'[k] = commands[k]
  <2>1. IsListOf(commands, Len(commands))
    BY DEF Explains
  <2>2. next - 1 \in 0 .. Len(commands) /\ (next - 1) + 1 = next
    BY <1>1
  <2> QED BY <1>1, <1>4, <2>1, <2>2, AppendIs
<1>6. /\ IsListOf(history', next + 1) /\ history'[next + 1] = View(r.db)
      /\ \A k \in 1 .. next : history'[k] = history[k]
  <2>1. IsListOf(history, Len(commands) + 1)
    BY DEF Explains
  <2>2. next \in 0 .. Len(commands) + 1 /\ Len(commands) + 1 \in Nat
    BY <1>1
  <2> QED BY <1>4, <2>1, <2>2, AppendIs
<1>7. At(r.db, q, top + 1) /\ top + 1 \in Nat /\ top + 1 = Base + (next + 1)
  BY <1>1, <1>2, <1>3 DEF Arrives
<1>8. View(r.db) = Shown(q)
  <2> HIDE DEF top
  <2> QED BY <1>7, ViewIs
<1>9. PICK more : more[next + 1] = q /\ \A k \in 1 .. next : more[k] = past[k]
  <2> DEFINE longer == [k \in 1 .. next + 1 |-> IF k = next + 1 THEN q ELSE past[k]]
  <2>1. longer[next + 1] = q /\ \A k \in 1 .. next : longer[k] = past[k]
    BY <1>1
  <2> HIDE DEF longer
  <2> QED BY <2>1
<1>10. next' \in 1 .. Len(commands') + 1 /\ Len(commands') <= MaxCommands /\ Len(commands') \in Nat
  BY <1>1, <1>2, <1>4, <1>5
<1>11. IsListOf(commands', Len(commands')) /\ IsListOf(history', Len(commands') + 1)
  BY <1>5, <1>6
<1>12. ASSUME NEW k \in 1 .. Len(commands') + 1 PROVE IsPast(more[k]) /\ history'[k] = Shown(more[k])
  <2>1. CASE k = next + 1
    BY <1>6, <1>8, <1>9, <2>1
  <2>2. CASE k \in 1 .. next
    <3>1. more[k] = past[k] /\ history'[k] = history[k] /\ k \in 1 .. Len(commands) + 1
      BY <1>1, <1>6, <1>9, <2>2
    <3>2. IsPast(past[k]) /\ history[k] = Shown(past[k])
      BY <3>1 DEF Explains
    <3> QED BY <3>1, <3>2
  <2> QED BY <1>1, <1>5, <2>1, <2>2
<1>13. ASSUME NEW k \in 1 .. Len(commands')
       PROVE  Leads(commands'[k], more[k], more[k + 1], Base + k) /\ Done(commands'[k])
  <2>1. CASE k = next
    BY <1>1, <1>3, <1>5, <1>9, <2>1 DEF Arrives
  <2>2. CASE k \in 1 .. next - 1
    <3>1. /\ more[k] = past[k] /\ more[k + 1] = past[k + 1] /\ commands'[k] = commands[k]
          /\ k \in 1 .. Len(commands)
      BY <1>1, <1>5, <1>9, <2>2
    <3>2. Leads(commands[k], past[k], past[k + 1], Base + k) /\ Done(commands[k])
      BY <3>1 DEF Explains
    <3> QED BY <3>1, <3>2
  <2> QED BY <1>1, <1>5, <2>1, <2>2
<1>14. At(db', more[next'], Base + next')
  BY <1>4, <1>7, <1>9
<1>15. ASSUME NEW k \in 1 .. next', NEW a \in AttsOf(more[k].entries)
       PROVE  a \in DOMAIN db'.atts \/ \E m \in k .. next' - 1 : a \in Saves(commands'[m])
  <2>1. CASE k = next + 1
    BY <1>4, <1>14, <1>15, <2>1 DEF At
  <2>2. CASE k \in 1 .. next
    <3>1. a \in AttsOf(past[k].entries)
      BY <1>9, <1>15, <2>2
    <3>2. a \in DOMAIN db.atts \/ \E m \in k .. next - 1 : a \in Saves(commands[m])
      BY <2>2, <3>1 DEF Explains, Kept
    <3>3. CASE a \in DOMAIN db.atts
      <4>1. a \in DOMAIN db'.atts \/ a \in Saves(commands'[next])
        BY <1>3, <1>4, <1>5, <3>3 DEF Arrives
      <4>2. next \in k .. next' - 1
        BY <1>1, <1>4, <2>2
      <4> QED BY <4>1, <4>2
    <3>4. CASE \E m \in k .. next - 1 : a \in Saves(commands[m])
      <4>1. PICK m \in k .. next - 1 : a \in Saves(commands[m])
        BY <3>4
      <4>2. m \in k .. next' - 1 /\ commands'[m] = commands[m]
        BY <1>1, <1>4, <1>5, <2>2
      <4> QED BY <4>1, <4>2
    <3> QED BY <3>2, <3>3, <3>4
  <2> QED BY <1>1, <1>4, <2>1, <2>2
<1>16. Kept(more)'
  BY <1>15 DEF Kept
<1>17. Explains(more)'
  BY <1>10, <1>11, <1>12, <1>13, <1>14, <1>16 DEF Explains
<1> QED BY <1>17

LEMMA UndoKeeps ==
  ASSUME Careful, NEW past, Explains(past), Undo
  PROVE  Explains(past)'
<1> DEFINE j == next - 1
           c == commands[j]
           p == past[j]
           q == past[next]
           low == MaxRefs
           top == Base + j
           r == UndoAll(c, db)
<1>1. /\ next \in Nat /\ next > 1 /\ Len(commands) \in Nat /\ next <= Len(commands) + 1
      /\ j \in 1 .. Len(commands) /\ j + 1 = next
      /\ IsPast(q) /\ At(db, q, Base + next)
  BY HereIs DEF Undo
<1>2. /\ MaxRefs \in Nat /\ top \in Nat /\ MaxRefs + Cardinality(Ids) + 1 <= top /\ top <= UIntMax
      /\ Base + next \in Nat /\ IsFiniteSet(Ids)
  BY <1>1, HereIs, Numbers
<1>3. db' = r /\ next' = j /\ commands' = commands /\ history' = history
  BY DEF Undo
<1>4. At(db, q, MaxRefs)
  <2> HIDE DEF q
  <2> QED BY <1>1, <1>2, AtBounded DEF Undo
<1>5. IsPast(p) /\ Leads(c, p, q, top) /\ Done(c)
  BY <1>1 DEF Explains
<1>6. AttsOf(p.entries) \subseteq DOMAIN db.atts \cup Saves(c)
  <2> SUFFICES ASSUME NEW a \in AttsOf(p.entries) PROVE a \in DOMAIN db.atts \cup Saves(c)
    OBVIOUS
  <2>1. j \in 1 .. next
    BY <1>1
  <2>2. a \in DOMAIN db.atts \/ \E m \in j .. next - 1 : a \in Saves(commands[m])
    BY <2>1 DEF Explains, Kept
  <2>3. ASSUME NEW m \in j .. next - 1 PROVE m = j
    BY <1>1
  <2> QED BY <2>2, <2>3
<1> HIDE DEF c, p, q, r
<1>7. Returns(r, db, p, top)
  BY <1>1, <1>2, <1>4, <1>5, <1>6, UndoReturns DEF r
<1>8. At(r, p, top) /\ DOMAIN db.atts \subseteq DOMAIN r.atts
  BY <1>7 DEF Returns
<1>9. ASSUME NEW k \in 1 .. next', NEW a \in AttsOf(past[k].entries)
      PROVE  a \in DOMAIN db'.atts \/ \E m \in k .. next' - 1 : a \in Saves(commands'[m])
  <2>1. k \in 1 .. next
    BY <1>1, <1>3
  <2>2. a \in DOMAIN db.atts \/ \E m \in k .. next - 1 : a \in Saves(commands[m])
    BY <2>1, <1>9 DEF Explains, Kept
  <2>3. CASE a \in DOMAIN db.atts
    BY <1>3, <1>8, <2>3
  <2>4. ASSUME NEW m \in k .. next - 1, a \in Saves(commands[m])
        PROVE  a \in DOMAIN db'.atts \/ \E i \in k .. next' - 1 : a \in Saves(commands'[i])
    <3>1. CASE m = j
      <4>1. a \in AttsOf(p.entries)
        BY <1>5, <2>4, <3>1, SavesUsed DEF c
      <4> QED BY <1>3, <1>8, <4>1 DEF At
    <3>2. CASE m # j
      BY <1>1, <1>3, <2>4, <3>2
    <3> QED BY <3>1, <3>2
  <2> QED BY <2>2, <2>3, <2>4
<1>10. Kept(past)'
  BY <1>9 DEF Kept
<1>11. At(db', past[next'], Base + next')
  BY <1>3, <1>8 DEF p
<1> QED BY <1>1, <1>3, <1>10, <1>11 DEF Explains

LEMMA RedoKeeps ==
  ASSUME Careful, NEW past, Explains(past), Redo
  PROVE  Explains(past)'
<1> DEFINE c == commands[next]
           p == past[next]
           q == past[next + 1]
           top == Base + next
           r == ExecuteAll(c, db)
<1>1. /\ next \in Nat /\ next >= 1 /\ Len(commands) \in Nat /\ next <= Len(commands)
      /\ Len(commands) <= MaxCommands
      /\ next \in 1 .. Len(commands) /\ next + 1 \in 1 .. Len(commands) + 1
      /\ IsPast(p) /\ At(db, p, top)
  BY HereIs DEF Redo
<1>2. top \in Nat /\ top < UIntMax /\ IsFiniteSet(Ids) /\ top + 1 = Base + (next + 1)
  BY <1>1, Numbers
<1>3. /\ db' = r.db /\ next' = next + 1 /\ history' = history
      /\ commands' = [commands EXCEPT ![next] = r.did]
  BY DEF Redo
<1>4. IsPast(q) /\ Leads(c, p, q, top)
  BY <1>1 DEF Explains
<1>5. commands = [k \in 1 .. Len(commands) |-> commands[k]]
  BY DEF Explains, IsListOf
<1> DEFINE n == Len(commands)
<1>6. /\ commands' = [k \in 1 .. n |-> commands'[k]] /\ commands'[next] = r.did
      /\ \A k \in 1 .. n : k # next => commands'[k] = commands[k]
  <2> HIDE DEF r, n
  <2>1. commands = [k \in 1 .. n |-> commands[k]]
    BY <1>5 DEF n
  <2> QED BY <1>1, <1>3, <2>1 DEF n
<1>7. Len(commands') = n
  <2> HIDE DEF n
  <2> QED BY <1>1, <1>6, LenIs DEF n
<1> HIDE DEF c, p, q, r, n
<1>8. Arrives(r, db, p, q, top)
  BY <1>1, <1>2, <1>4, ExecuteArrives DEF r
<1>9. /\ At(r.db, q, top + 1) /\ Leads(r.did, p, q, top) /\ Done(r.did)
      /\ DOMAIN db.atts \subseteq DOMAIN r.db.atts \cup Saves(r.did)
  BY <1>8 DEF Arrives
<1>10. At(db', past[next'], Base + next')
  BY <1>2, <1>3, <1>9 DEF q
<1>11. ASSUME NEW k \in 1 .. next', NEW a \in AttsOf(past[k].entries)
       PROVE  a \in DOMAIN db'.atts \/ \E m \in k .. next' - 1 : a \in Saves(commands'[m])
  <2>1. CASE k = next + 1
    BY <1>3, <1>10, <1>11, <2>1 DEF At
  <2>2. CASE k \in 1 .. next
    <3>1. a \in DOMAIN db.atts \/ \E m \in k .. next - 1 : a \in Saves(commands[m])
      BY <1>11, <2>2 DEF Explains, Kept
    <3>2. CASE a \in DOMAIN db.atts
      <4>1. a \in DOMAIN db'.atts \/ a \in Saves(commands'[next])
        BY <1>3, <1>6, <1>9, <3>2
      <4>2. next \in k .. next' - 1
        BY <1>1, <1>3, <2>2
      <4> QED BY <4>1, <4>2
    <3>3. ASSUME NEW m \in k .. next - 1, a \in Saves(commands[m])
          PROVE  \E i \in k .. next' - 1 : a \in Saves(commands'[i])
      <4>1. m \in k .. next' - 1 /\ m \in 1 .. n /\ m # next
        BY <1>1, <1>3, <2>2 DEF n
      <4>2. commands'[m] = commands[m]
        BY <1>6, <4>1
      <4> QED BY <3>3, <4>1, <4>2
    <3> QED BY <3>1, <3>2, <3>3
  <2> QED BY <1>1, <1>3, <2>1, <2>2
<1>12. Kept(past)'
  BY <1>11 DEF Kept
<1>13. ASSUME NEW k \in 1 .. n
       PROVE  Leads(commands'[k], past[k], past[k + 1], Base + k) /\ Done(commands'[k])
  <2>1. CASE k = next
    BY <1>6, <1>9, <2>1 DEF p, q
  <2>2. CASE k # next
    BY <1>6, <2>2 DEF Explains, n
  <2> QED BY <2>1, <2>2
<1>14. IsListOf(commands', n) /\ IsListOf(history', n + 1)
  BY <1>3, <1>6 DEF Explains, IsListOf, n
<1>15. \A k \in 1 .. n + 1 : IsPast(past[k]) /\ history'[k] = Shown(past[k])
  BY <1>3 DEF Explains, n
<1>16. next' \in 1 .. n + 1 /\ n <= MaxCommands /\ n \in Nat
  BY <1>1, <1>3 DEF n
<1> QED BY <1>7, <1>10, <1>12, <1>13, <1>14, <1>15, <1>16 DEF Explains

(* Locking and unlocking counts the references anew. *)
LEMMA LockKeeps ==
  ASSUME Careful, NEW past, Explains(past), LockAndUnlock
  PROVE  Explains(past)'
<1> DEFINE p == past[next]
           top == Base + next
           Anew(a) == [db.atts[a] EXCEPT !.refs = Cardinality(RefsTo(p.entries, a))]
<1>1. /\ next \in Nat /\ next >= 1 /\ Len(commands) \in Nat /\ next <= Len(commands) + 1
      /\ Len(commands) <= MaxCommands /\ top \in Nat /\ IsPast(p) /\ At(db, p, top)
  BY HereIs
<1>2. Cardinality(Ids) <= top /\ top <= UIntMax /\ UIntMax \in Nat /\ IsFiniteSet(Ids)
  BY <1>1, Numbers
<1> HIDE DEF p
<1>3. /\ db = [entries |-> p.entries, atts |-> db.atts] /\ DOMAIN p.entries \subseteq Ids
      /\ \A a \in DOMAIN db.atts : HasContent(db.atts[a])
      /\ \A a \in DOMAIN db.atts : db.atts[a] \in Attachment
  BY <1>1, AtParts
<1>4. /\ IsList(db.atts) /\ AttsOf(p.entries) \subseteq DOMAIN db.atts
      /\ \A a \in DOMAIN db.atts : db.atts[a].uuid = a /\ Counted(db.atts[a], p, top)
  BY <1>1 DEF At
<1>5. db'.atts = [a \in DOMAIN db.atts |-> Anew(a)] /\ db' = [entries |-> p.entries, atts |-> db'.atts]
  <2> DEFINE read == {a \in DOMAIN db.atts : HasContent(db.atts[a])}
             kept == Restrict(db.atts, read)
  <2>1. kept = db.atts
    <3>1. read = DOMAIN db.atts
      BY <1>3
    <3> HIDE DEF read
    <3> QED BY <1>4, <3>1 DEF Restrict, IsList
  <2>2. db' = [db EXCEPT !.atts = ParseDependants(db.entries, kept)]
    <3>1. db' = [db EXCEPT !.atts = ParseDependants(db.entries, Restrict(@, read))]
      BY DEF LockAndUnlock
    <3> HIDE DEF read
    <3> QED BY <1>3, <3>1
  <2>3. db' = [entries |-> p.entries, atts |-> ParseDependants(p.entries, db.atts)]
    <3> HIDE DEF kept
    <3> QED BY <1>3, <2>1, <2>2
  <2>4. ParseDependants(p.entries, db.atts) = [a \in DOMAIN db.atts |-> Anew(a)]
    BY DEF ParseDependants
  <2> HIDE DEF Anew
  <2> QED BY <2>3, <2>4
<1>6. ASSUME NEW a \in DOMAIN db.atts
      PROVE  Anew(a) \in Attachment /\ Anew(a).uuid = a /\ Counted(Anew(a), p, top)
  <2>1. /\ Cardinality(RefsTo(p.entries, a)) \in Nat
        /\ Cardinality(RefsTo(p.entries, a)) <= Cardinality(Ids) /\ Cardinality(Ids) \in Nat
    BY <1>2, <1>3, RefsFinite
  <2>2. db.atts[a] \in Attachment /\ db.atts[a].uuid = a /\ db.atts[a].title = p.titles[a]
    BY <1>3, <1>4 DEF Counted
  <2> DEFINE count == Cardinality(RefsTo(p.entries, a))
  <2>3. count \in 0 .. UIntMax /\ count <= top
    BY <1>1, <1>2, <2>1
  <2> HIDE DEF count
  <2>4. /\ Anew(a) = [db.atts[a] EXCEPT !.refs = count]
    BY DEF count
  <2> HIDE DEF Anew
  <2>5. /\ Anew(a) \in Attachment /\ Anew(a).uuid = a /\ Anew(a).title = p.titles[a]
        /\ Anew(a).refs = count
    BY <2>2, <2>3, <2>4 DEF Attachment
  <2> QED BY <2>3, <2>5 DEF Counted, count
<1> HIDE DEF Anew
<1>7. /\ DOMAIN db'.atts = DOMAIN db.atts
      /\ \A a \in DOMAIN db.atts : db'.atts[a] = Anew(a)
      /\ db'.atts = [a \in DOMAIN db'.atts |-> db'.atts[a]]
  BY <1>5
<1>8. At(db', p, top)
  <2>1. IsList(db'.atts)
    BY <1>4, <1>6, <1>7 DEF IsList
  <2> QED BY <1>4, <1>5, <1>6, <1>7, <2>1 DEF At
<1>9. commands' = commands /\ next' = next /\ history' = history
  BY DEF LockAndUnlock
<1>10. Kept(past)'
  BY <1>7, <1>9 DEF Explains, Kept
<1> QED BY <1>8, <1>9, <1>10 DEF Explains, p

-----------------------------------------------------------------------------
(* An attachment that no position refers to may have any title in them.    *)

(* The position m is p, but for the title of the attachment a. *)
Named(m, p, a, title) ==
    /\ IsPast(p) /\ IsPast(m)
    /\ a \in Atts
    /\ m.entries = p.entries
    /\ m.titles = [p.titles EXCEPT ![a] = title]

LEMMA NamedIs ==
  ASSUME NEW p, IsPast(p), NEW a \in Atts, NEW title \in Titles
  PROVE  Named([entries |-> p.entries, titles |-> [p.titles EXCEPT ![a] = title]], p, a, title)
  BY DEF Named, IsPast

LEMMA NamedTitles ==
  ASSUME NEW p, NEW m, NEW a, NEW title, Named(m, p, a, title)
  PROVE  m.titles[a] = title /\ \A x \in Atts : x # a => m.titles[x] = p.titles[x]
<1>1. p.titles \in [Atts -> Titles \cup {NoTitle}]
  BY DEF Named, IsPast
<1> QED BY <1>1 DEF Named

LEMMA NamedCopy ==
  ASSUME NEW p, NEW m, NEW a, NEW title, Named(m, p, a, title), a \notin AttsOf(p.entries),
         NEW saved, NEW x, NEW top, IsCopy(saved, x, p, top), x \in AttsOf(p.entries)
  PROVE  IsCopy(saved, x, m, top)
<1>1. x # a /\ x \in Atts
  BY DEF IsCopy, Attachment
<1>2. m.titles[x] = p.titles[x]
  BY <1>1, NamedTitles
<1> QED BY <1>2 DEF IsCopy

LEMMA NamedCounted ==
  ASSUME NEW p, NEW m, NEW a, NEW title, Named(m, p, a, title),
         NEW att \in Attachment, att.uuid # a, NEW top, Counted(att, p, top)
  PROVE  Counted(att, m, top)
<1>1. att.uuid \in Atts
  BY DEF Attachment
<1>2. m.titles[att.uuid] = p.titles[att.uuid] /\ m.entries = p.entries
  BY <1>1, NamedTitles DEF Named
<1> QED BY <1>2 DEF Counted

LEMMA NamedShown ==
  ASSUME NEW p, NEW m, NEW a, NEW title, Named(m, p, a, title), a \notin AttsOf(p.entries)
  PROVE  Shown(m) = Shown(p)
<1> DEFINE Was(x, i) == [text  |-> x.entries[i].text, att |-> x.entries[i].att,
                         title |-> IF x.entries[i].att = NoAtt THEN NoTitle
                                                               ELSE x.titles[x.entries[i].att]]
<1>1. m.entries = p.entries /\ IsPast(p)
  BY DEF Named
<1>2. ASSUME NEW i \in DOMAIN p.entries PROVE Was(m, i) = Was(p, i)
  <2> DEFINE b == p.entries[i].att
  <2>1. b = NoAtt \/ (b # a /\ b \in Atts)
    <3>1. p.entries[i] \in Entries
      BY <1>1 DEF IsPast
    <3>2. b \in Atts \cup {NoAtt}
      BY <3>1 DEF Entries
    <3>3. b = NoAtt \/ b \in AttsOf(p.entries)
      BY DEF AttsOf
    <3> HIDE DEF b
    <3> QED BY <3>2, <3>3
  <2> HIDE DEF b
  <2>2. b = NoAtt \/ m.titles[b] = p.titles[b]
    BY <2>1, NamedTitles
  <2> QED BY <1>1, <2>2 DEF b
<1>3. Shown(p) = [i \in DOMAIN p.entries |-> Was(p, i)] /\ Shown(m) = [i \in DOMAIN m.entries |-> Was(m, i)]
  BY DEF Shown
<1> HIDE DEF Was
<1> QED BY <1>1, <1>2, <1>3

LEMMA NamedAt ==
  ASSUME NEW p, NEW m, NEW a, NEW title, Named(m, p, a, title),
         NEW d, NEW top, At(d, p, top), a \notin DOMAIN d.atts
  PROVE  At(d, m, top)
<1>1. m.entries = p.entries
  BY DEF Named
<1>2. ASSUME NEW x \in DOMAIN d.atts PROVE Counted(d.atts[x], m, top)
  <2>1. d.atts[x] \in Attachment /\ d.atts[x].uuid = x /\ Counted(d.atts[x], p, top)
    BY DEF At, IsList
  <2> QED BY <2>1, NamedCounted
<1> QED BY <1>1, <1>2 DEF At

LEMMA NamedNew ==
  ASSUME NEW p, NEW m, NEW a, NEW title, Named(m, p, a, title),
         NEW att, IsNewAtt(att, p), att.uuid # a
  PROVE  IsNewAtt(att, m)
<1>1. att.uuid \in Atts
  BY DEF IsNewAtt, Attachment
<1>2. m.titles[att.uuid] = p.titles[att.uuid] /\ m.entries = p.entries
  BY <1>1, NamedTitles DEF Named
<1> QED BY <1>2 DEF IsNewAtt

LEMMA NamedLeads ==
  ASSUME NEW p, NEW m, NEW q, NEW n, NEW a, NEW title,
         Named(m, p, a, title), Named(n, q, a, title),
         a \notin AttsOf(p.entries), a \notin AttsOf(q.entries),
         NEW list, NEW top, Leads(list, p, q, top)
  PROVE  Leads(list, m, n, top)
<1>0. NoAtt \notin Atts
  BY AttachmentsAssumption
<1>1. /\ m.entries = p.entries /\ n.entries = q.entries
      /\ m.titles = [p.titles EXCEPT ![a] = title] /\ n.titles = [q.titles EXCEPT ![a] = title]
      /\ IsPast(m) /\ IsPast(n) /\ IsPast(p) /\ a \in Atts
  BY DEF Named
<1>2. q.titles = p.titles => n.titles = m.titles
  BY <1>1
<1>3. ASSUME NEW att, IsNewAtt(att, p), att.uuid # a PROVE IsNewAtt(att, m)
  BY <1>3, NamedNew
<1>4. ASSUME NEW saved, NEW x, NEW most, IsCopy(saved, x, p, most), x \in AttsOf(p.entries)
      PROVE  IsCopy(saved, x, m, most)
  BY <1>4, NamedCopy
<1>5. CASE Adds(list, p, q)
  <2>1. AddsEntry(list[1], p, q)
    BY <1>5 DEF Adds
  <2>2. ASSUME IsNewAtt(list[1].att, p),
               q.entries = With(p.entries, list[1].id, [list[1].entry EXCEPT !.att = list[1].att.uuid])
        PROVE  IsNewAtt(list[1].att, m)
    <3>1. list[1].att.uuid \in Atts
      BY <2>2 DEF IsNewAtt, Attachment
    <3>2. q.entries[list[1].id].att = list[1].att.uuid /\ list[1].id \in DOMAIN q.entries
      BY <2>1, <2>2 DEF With, AddsEntry, Entries
    <3>3. list[1].att.uuid # a
      BY <1>0, <3>1, <3>2 DEF AttsOf
    <3> QED BY <1>3, <2>2, <3>3
  <2>3. AddsEntry(list[1], m, n)
    BY <1>1, <2>1, <2>2 DEF AddsEntry
  <2>4. Adds(list, m, n)
    BY <1>2, <1>5, <2>3 DEF Adds
  <2> QED BY <2>4 DEF Leads
<1>6. CASE Attaches(list, p, q)
  <2>1. /\ IsNewAtt(list[2].att, p) /\ list[1].id \in DOMAIN p.entries /\ list[1].entry \in Entries
        /\ q.entries = With(p.entries, list[1].id, [list[1].entry EXCEPT !.att = list[2].att.uuid])
    <3>1. p.entries[list[1].id] \in Entries \/ list[1].id \notin DOMAIN p.entries
      BY <1>1 DEF IsPast
    <3> QED BY <1>6, <3>1 DEF Attaches
  <2>2. list[2].att.uuid \in Atts
    BY <2>1 DEF IsNewAtt, Attachment
  <2>3. q.entries[list[1].id].att = list[2].att.uuid /\ list[1].id \in DOMAIN q.entries
    BY <2>1 DEF With, Entries
  <2>4. list[2].att.uuid # a
    BY <1>0, <2>2, <2>3 DEF AttsOf
  <2>5. Attaches(list, m, n)
    BY <1>1, <1>2, <1>3, <1>6, <2>1, <2>4 DEF Attaches
  <2> QED BY <2>5 DEF Leads
<1>7. CASE Deletes(list, p, q)
  <2>1. \A k : Left(list, k, p).titles = p.titles /\ Left(list, k, m).titles = m.titles
    BY DEF Left
  <2>2. \A k : Left(list, k, m).entries = Left(list, k, p).entries
    BY <1>1 DEF Left
  <2>3. ASSUME NEW j \in 1 .. Len(list) PROVE DeletesNth(list, j, m)
    <3>1. DeletesNth(list, j, p)
      BY <1>7 DEF Deletes
    <3>2. ASSUME IsCopy(list[j].saved, list[j].entry.att, p, 1)
          PROVE  IsCopy(list[j].saved, list[j].entry.att, m, 1)
      <4>1. list[j].entry.att \in Atts
        BY <3>2 DEF IsCopy, Attachment
      <4>2. list[j].entry.att \in AttsOf(p.entries)
        BY <1>0, <3>1, <4>1 DEF DeletesNth, AttsOf
      <4> QED BY <1>4, <3>2, <4>2
    <3> QED BY <1>1, <2>2, <3>1, <3>2 DEF DeletesNth
  <2>4. n = Left(list, Len(list), m)
    <3>1. q = Left(list, Len(list), p)
      BY <1>7 DEF Deletes
    <3>2. n = [entries |-> q.entries, titles |-> n.titles]
      BY <1>1 DEF IsPast
    <3>3. n.titles = m.titles
      BY <1>2, <2>1, <3>1
    <3> QED BY <1>1, <3>1, <3>2, <3>3 DEF Left
  <2>5. Deletes(list, m, n)
    BY <1>7, <2>3, <2>4 DEF Deletes
  <2> QED BY <2>5 DEF Leads
<1>8. CASE Edits(list, p, q)
  <2>1. Edits(list, m, n)
    BY <1>1, <1>2, <1>8 DEF Edits, EditsTo
  <2> QED BY <2>1 DEF Leads
<1>9. CASE Detaches(list, p, q, top)
  <2>1. /\ list[1].entry.att # NoAtt /\ list[2].id \in DOMAIN p.entries
        /\ list[1].entry = p.entries[list[2].id]
    BY <1>9 DEF Detaches, EditsTo
  <2>2. list[1].entry.att \in AttsOf(p.entries)
    BY <2>1 DEF AttsOf
  <2>3. Detaches(list, m, n, top)
    BY <1>1, <1>2, <1>4, <1>9, <2>2 DEF Detaches, EditsTo
  <2> QED BY <2>3 DEF Leads
<1>10. CASE Retitles(list, p, q, top)
  <2> DEFINE x == list[1].old.uuid
  <2>1. /\ list[1].old \in Attachment /\ list[1].new \in Attachment /\ list[1].new.uuid = x
        /\ x \in AttsOf(p.entries) /\ Counted(list[1].old, p, top) /\ Counted(list[1].new, q, top)
        /\ q.titles = [p.titles EXCEPT ![x] = list[1].new.title]
    BY <1>10 DEF Retitles
  <2>2. x # a /\ x \in Atts
    BY <2>1 DEF Attachment
  <2>3. Counted(list[1].old, m, top) /\ Counted(list[1].new, n, top)
    BY <2>1, <2>2, NamedCounted
  <2>4. n.titles = [m.titles EXCEPT ![x] = list[1].new.title]
    <3> HIDE DEF x
    <3>1. p.titles = [y \in Atts |-> p.titles[y]]
      BY <1>1 DEF IsPast
    <3> QED BY <1>1, <2>1, <2>2, <3>1
  <2>5. Retitles(list, m, n, top)
    BY <1>1, <1>10, <2>3, <2>4 DEF Retitles, EditsTo
  <2> QED BY <2>5 DEF Leads
<1> QED BY <1>5, <1>6, <1>7, <1>8, <1>9, <1>10 DEF Leads

LEMMA ShownAtts ==
  ASSUME NEW p
  PROVE  /\ DOMAIN Shown(p) = DOMAIN p.entries
         /\ \A i \in DOMAIN p.entries : Shown(p)[i].att = p.entries[i].att
  BY DEF Shown

(* A fresh attachment is in no position, nor a fresh entry. *)
LEMMA FreshIs ==
  ASSUME Careful, NEW past, Explains(past)
  PROVE  /\ \A id \in FreshIds : id \in Ids /\ id \notin DOMAIN past[next].entries
         /\ \A a \in FreshAtts :
              /\ a \in Atts /\ a \notin DOMAIN db.atts
              /\ \A k \in 1 .. Len(commands) + 1 : a \notin AttsOf(past[k].entries)
<1> DEFINE n == Len(commands) + 1
<1>1. n \in Nat /\ next \in 1 .. n
  BY HereIs
<1>2. Len(history) = n
  <2>1. IsListOf(history, n)
    BY DEF Explains
  <2> HIDE DEF n
  <2> QED BY <1>1, <2>1, LenIs DEF IsListOf
<1> HIDE DEF n
<1>3. \A k \in 1 .. n : history[k] = Shown(past[k])
  BY DEF Explains, n
<1>4. ASSUME NEW id \in FreshIds PROVE id \in Ids /\ id \notin DOMAIN past[next].entries
  <2>1. id \in Ids /\ id \notin DOMAIN history[next]
    BY <1>1, <1>2 DEF FreshIds
  <2>2. DOMAIN history[next] = DOMAIN past[next].entries
    BY <1>1, <1>3, ShownAtts
  <2> QED BY <2>1, <2>2
<1>5. ASSUME NEW a \in FreshAtts, NEW k \in 1 .. n PROVE a \notin AttsOf(past[k].entries)
  <2> DEFINE h == history[k]
             p == past[k]
  <2>1. a \notin {h[i].att : i \in DOMAIN h}
    BY <1>2 DEF FreshAtts
  <2>2. h = Shown(p)
    BY <1>3
  <2> HIDE DEF h, p
  <2>3. \A i \in DOMAIN p.entries : a # p.entries[i].att
    BY <2>1, <2>2, ShownAtts
  <2>4. a \notin AttsOf(p.entries)
    BY <2>3 DEF AttsOf
  <2> QED BY <2>4 DEF p
<1>6. \A a \in FreshAtts : a \in Atts /\ a \notin DOMAIN db.atts
  BY DEF FreshAtts
<1> QED BY <1>4, <1>5, <1>6 DEF n

LEMMA Renamed ==
  ASSUME Careful, NEW past, Explains(past), NEW a \in FreshAtts, NEW title \in Titles
  PROVE  \E more : Explains(more) /\ Named(more[next], past[next], a, title)
<1> DEFINE n == Len(commands) + 1
           m(k) == [entries |-> past[k].entries, titles |-> [past[k].titles EXCEPT ![a] = title]]
<1>1. n \in Nat /\ next \in 1 .. n
  BY HereIs
<1> HIDE DEF n
<1>2. /\ a \in Atts /\ a \notin DOMAIN db.atts
      /\ \A k \in 1 .. n : a \notin AttsOf(past[k].entries)
  BY FreshIs DEF n
<1>3. \A k \in 1 .. n : Named(m(k), past[k], a, title)
  <2> TAKE k \in 1 .. n
  <2>1. IsPast(past[k])
    BY DEF Explains, n
  <2> QED BY <1>2, <2>1, NamedIs
<1> HIDE DEF m
<1>4. PICK more : \A k \in 1 .. n : Named(more[k], past[k], a, title)
  <2> DEFINE all == [k \in 1 .. n |-> m(k)]
  <2>1. \A k \in 1 .. n : all[k] = m(k)
    OBVIOUS
  <2> HIDE DEF all
  <2>2. \A k \in 1 .. n : Named(all[k], past[k], a, title)
    BY <1>3, <2>1
  <2> QED BY <2>2
<1>5. \A k \in 1 .. n : IsPast(more[k]) /\ history[k] = Shown(more[k])
  <2> TAKE k \in 1 .. n
  <2>1. history[k] = Shown(past[k])
    BY DEF Explains, n
  <2>2. Shown(more[k]) = Shown(past[k])
    BY <1>2, <1>4, NamedShown
  <2>3. IsPast(more[k])
    BY <1>4 DEF Named
  <2> QED BY <2>1, <2>2, <2>3
<1>6. \A k \in 1 .. Len(commands) :
         Leads(commands[k], more[k], more[k + 1], Base + k) /\ Done(commands[k])
  <2> TAKE k \in 1 .. Len(commands)
  <2>1. k \in 1 .. n /\ k + 1 \in 1 .. n
    BY <1>1 DEF n
  <2>2. Leads(commands[k], past[k], past[k + 1], Base + k) /\ Done(commands[k])
    BY DEF Explains
  <2>3. Named(more[k], past[k], a, title) /\ Named(more[k + 1], past[k + 1], a, title)
    BY <1>4, <2>1
  <2>4. a \notin AttsOf(past[k].entries) /\ a \notin AttsOf(past[k + 1].entries)
    BY <1>2, <2>1
  <2> QED BY <2>2, <2>3, <2>4, NamedLeads
<1>7. At(db, more[next], Base + next)
  <2>1. At(db, past[next], Base + next) /\ Named(more[next], past[next], a, title)
    BY <1>1, <1>4, HereIs
  <2> QED BY <1>2, <2>1, NamedAt
<1>8. Kept(more)
  <2> SUFFICES ASSUME NEW k \in 1 .. next, NEW b \in AttsOf(more[k].entries)
               PROVE  b \in DOMAIN db.atts \/ \E i \in k .. next - 1 : b \in Saves(commands[i])
    BY DEF Kept
  <2>1. k \in 1 .. n
    BY <1>1
  <2>2. more[k].entries = past[k].entries
    BY <1>4, <2>1 DEF Named
  <2> QED BY <2>2 DEF Explains, Kept
<1>9. Explains(more)
  BY <1>5, <1>6, <1>7, <1>8 DEF Explains, n
<1> QED BY <1>1, <1>4, <1>9

-----------------------------------------------------------------------------
(* The operations of the front end: each executes a list that leads to a   *)
(* new position.                                                           *)

LEMMA WithIsPast ==
  ASSUME NEW p, IsPast(p), NEW id \in Ids, NEW entry \in Entries,
         NEW titles \in [Atts -> Titles \cup {NoTitle}]
  PROVE  IsPast([entries |-> With(p.entries, id, entry), titles |-> titles])
  BY DEF IsPast, With

LEMMA NewAtt ==
  ASSUME Careful, NEW past, Explains(past), NEW att \in NewAttachments
  PROVE  \E more : /\ Explains(more) /\ IsNewAtt(att, more[next])
                   /\ more[next].entries = past[next].entries
<1>1. /\ att.uuid \in FreshAtts /\ att.title \in Titles /\ att.refs = 0
      /\ att.uuid \in Atts => att \in Attachment
  BY Numbers DEF NewAttachments, Attachment
<1>2. PICK more : Explains(more) /\ Named(more[next], past[next], att.uuid, att.title)
  BY <1>1, Renamed
<1>3. att.uuid \in Atts /\ att.uuid \notin AttsOf(more[next].entries)
  <2>1. next \in 1 .. Len(commands) + 1
    BY HereIs
  <2> QED BY <1>1, <1>2, <2>1, FreshIs
<1>4. more[next].titles[att.uuid] = att.title /\ more[next].entries = past[next].entries
  <2> DEFINE m == more[next]
             p == past[next]
             a == att.uuid
             title == att.title
  <2>1. Named(m, p, a, title)
    BY <1>2
  <2> HIDE DEF m, p, a, title
  <2>2. m.titles[a] = title
    BY <2>1, NamedTitles
  <2>3. m.entries = p.entries
    BY <2>1 DEF Named
  <2> QED BY <2>2, <2>3 DEF m, p, a, title
<1>5. IsNewAtt(att, more[next])
  BY <1>1, <1>3, <1>4 DEF IsNewAtt
<1> QED BY <1>2, <1>4, <1>5

LEMMA Added ==
  ASSUME Careful, NEW past, Explains(past), NEW list, Len(list) = 1, Execute(list),
         list[1].op = "add", list[1].id \in Ids \ DOMAIN past[next].entries,
         list[1].entry \in Entries,
         \/ list[1].att = Empty /\ list[1].entry.att \in AttsOf(past[next].entries) \cup {NoAtt}
         \/ IsNewAtt(list[1].att, past[next]) /\ list[1].entry.att = NoAtt
  PROVE  \E more : Explains(more)'
<1> DEFINE p == past[next]
           c == list[1]
           full == IF c.att = Empty THEN c.entry ELSE [c.entry EXCEPT !.att = c.att.uuid]
           q == [entries |-> With(p.entries, c.id, full), titles |-> p.titles]
<1>1. IsPast(p)
  BY HereIs
<1>2. Empty \notin Attachment
  BY AttachmentsAssumption DEF Empty, Attachment
<1>3. full \in Entries /\ p.titles \in [Atts -> Titles \cup {NoTitle}]
  <2>1. c.att # Empty => c.att.uuid \in Atts
    BY DEF IsNewAtt, Attachment
  <2> QED BY <1>1, <2>1 DEF Entries, IsPast
<1>4. q.entries = With(p.entries, c.id, full) /\ q.titles = p.titles
  OBVIOUS
<1>5. IsPast(q)
  <2> HIDE DEF p, c, full
  <2> QED BY <1>1, <1>3, WithIsPast DEF p, c
<1>6. \/ c.att = Empty /\ c.entry.att \in AttsOf(p.entries) \cup {NoAtt} /\ full = c.entry
      \/ IsNewAtt(c.att, p) /\ c.entry.att = NoAtt /\ full = [c.entry EXCEPT !.att = c.att.uuid]
  BY <1>2 DEF IsNewAtt
<1>7. c.op = "add" /\ c.id \in Ids \ DOMAIN p.entries /\ c.entry \in Entries
  OBVIOUS
<1> HIDE DEF p, c, full, q
<1>8. AddsEntry(c, p, q)
  BY <1>4, <1>6, <1>7 DEF AddsEntry
<1>9. Leads(list, p, q, Base + next)
  BY <1>4, <1>8 DEF Leads, Adds, c
<1> QED BY <1>5, <1>9, NewPosition DEF p

LEMMA AddEntryKeeps ==
  ASSUME Careful, NEW past, Explains(past), AddEntry
  PROVE  \E more : Explains(more)'
<1>1. PICK id \in FreshIds, text \in Texts, att \in NewAttachments \cup {Empty} :
            Execute(<<AddCommand(id, [text |-> text, att |-> NoAtt], att)>>)
  BY DEF AddEntry
<1> DEFINE entry == [text |-> text, att |-> NoAtt]
           c == AddCommand(id, entry, att)
           list == <<c>>
<1>2. c.op = "add" /\ c.id = id /\ c.entry = entry /\ c.att = att
  BY DEF AddCommand
<1>3. entry \in Entries /\ entry.att = NoAtt
  BY DEF Entries
<1>4. Len(list) = 1 /\ list[1] = c /\ Execute(list)
  BY <1>1
<1>5. id \in Ids \ DOMAIN past[next].entries
  BY FreshIs
<1> HIDE DEF c, entry, list
<1>6. CASE att = Empty
  BY <1>2, <1>3, <1>4, <1>5, <1>6, Added
<1>7. CASE att \in NewAttachments
  <2>1. PICK more : /\ Explains(more) /\ IsNewAtt(att, more[next])
                    /\ more[next].entries = past[next].entries
    BY <1>7, NewAtt
  <2> QED BY <1>2, <1>3, <1>4, <1>5, <2>1, Added
<1> QED BY <1>6, <1>7

(* The entries the user sees are those of the position. *)
LEMMA HereEntries ==
  ASSUME Careful, NEW past, Explains(past)
  PROVE  /\ db.entries = past[next].entries
         /\ DOMAIN past[next].entries \subseteq Ids
         /\ \A i \in DOMAIN past[next].entries : past[next].entries[i] \in Entries
<1> DEFINE p == past[next]
<1>1. IsPast(p) /\ At(db, p, Base + next)
  BY HereIs
<1> HIDE DEF p
<1>2. db.entries = p.entries /\ DOMAIN p.entries \subseteq Ids /\ \A i \in DOMAIN p.entries : p.entries[i] \in Entries
  BY <1>1 DEF At, IsPast
<1> QED BY <1>2 DEF p

LEMMA DuplicateKeeps ==
  ASSUME Careful, NEW past, Explains(past), Duplicate
  PROVE  \E more : Explains(more)'
<1> DEFINE p == past[next]
<1>1. PICK id \in FreshIds, of \in DOMAIN db.entries :
            Execute(<<AddCommand(id, db.entries[of], Empty)>>)
  BY DEF Duplicate, Used, Entry
<1> DEFINE entry == db.entries[of]
           c == AddCommand(id, entry, Empty)
           list == <<c>>
<1>2. c.op = "add" /\ c.id = id /\ c.entry = entry /\ c.att = Empty
  BY DEF AddCommand
<1>3. Len(list) = 1 /\ list[1] = c /\ Execute(list)
  BY <1>1
<1>4. id \in Ids \ DOMAIN p.entries
  BY FreshIs
<1>5. of \in DOMAIN p.entries /\ entry = p.entries[of] /\ entry \in Entries
  BY <1>1, HereEntries
<1> HIDE DEF c, entry, list, p
<1>6. entry.att \in AttsOf(p.entries) \cup {NoAtt}
  BY <1>5 DEF AttsOf
<1> QED BY <1>2, <1>3, <1>4, <1>5, <1>6, Added DEF p

(* An edit that leads to a position. *)
LEMMA EditIs ==
  ASSUME Careful, NEW past, Explains(past), NEW id \in Used, NEW new \in Entries
  PROVE  /\ \A q : q.entries = With(past[next].entries, id, new)
                     => EditsTo(EditCommand(id, new), past[next], q)
         /\ EditCommand(id, new).id = id /\ EditCommand(id, new).op = "edit"
         /\ EditCommand(id, new).old = past[next].entries[id]
         /\ EditCommand(id, new).new = new
         /\ id \in Ids /\ id \in DOMAIN past[next].entries
<1>1. db.entries = past[next].entries /\ DOMAIN past[next].entries \subseteq Ids
  BY HereEntries
<1>2. EditCommand(id, new) = [op |-> "edit", id |-> id, old |-> past[next].entries[id], new |-> new]
  BY <1>1 DEF EditCommand
<1>3. id \in DOMAIN past[next].entries
  BY <1>1 DEF Used
<1> QED BY <1>1, <1>2, <1>3 DEF EditsTo

LEMMA EditTextKeeps ==
  ASSUME Careful, NEW past, Explains(past), EditText
  PROVE  \E more : Explains(more)'
<1>1. PICK id \in Used, text \in Texts :
            Execute(<<EditCommand(id, [Entry(id) EXCEPT !.text = text])>>)
  BY DEF EditText
<1> DEFINE p == past[next]
           old == db.entries[id]
           new == [old EXCEPT !.text = text]
           c == EditCommand(id, new)
           list == <<c>>
           q == [entries |-> With(p.entries, id, new), titles |-> p.titles]
<1>2. IsPast(p) /\ db.entries = p.entries /\ id \in DOMAIN p.entries /\ old \in Entries
  BY HereIs, HereEntries DEF Used
<1>3. new \in Entries /\ new.att = old.att
  <2> HIDE DEF old
  <2> QED BY <1>2 DEF Entries
<1>4. Len(list) = 1 /\ list[1] = c /\ Execute(list)
  BY <1>1 DEF Entry
<1>5. q.entries = With(p.entries, id, new) /\ q.titles = p.titles
  OBVIOUS
<1>6. old = p.entries[id]
  BY <1>2
<1> HIDE DEF list, c, q, new, old
<1>7. EditsTo(c, p, q) /\ c.old = old /\ c.new = new /\ id \in Ids
  BY <1>3, <1>5, <1>6, EditIs DEF c
<1>8. IsPast(q)
  <2>1. p.titles \in [Atts -> Titles \cup {NoTitle}]
    BY <1>2 DEF IsPast
  <2> HIDE DEF p
  <2> QED BY <1>2, <1>3, <1>7, <2>1, WithIsPast DEF q
<1> HIDE DEF p
<1>9. Leads(list, p, q, Base + next)
  BY <1>3, <1>4, <1>5, <1>7 DEF Leads, Edits
<1> QED BY <1>4, <1>8, <1>9, NewPosition DEF p

(* A group deleted. *)
LEMMA DeleteKeeps ==
  ASSUME Careful, NEW past, Explains(past), Delete
  PROVE  \E more : Explains(more)'
<1>0. PICK group \in SUBSET Used : \E order \in SetToSeqs(group) :
            /\ group # {}
            /\ Execute([k \in DOMAIN order |-> DeleteCommand(order[k], Entry(order[k]))])
  BY DEF Delete
<1>1. PICK order \in SetToSeqs(group) :
            /\ group # {}
            /\ Execute([k \in DOMAIN order |-> DeleteCommand(order[k], Entry(order[k]))])
  BY <1>0
<1> DEFINE p == past[next]
           n == Cardinality(group)
           list == [k \in 1 .. n |-> DeleteCommand(order[k], db.entries[order[k]])]
           q == Left(list, n, p)
<1>2. IsPast(p) /\ db.entries = p.entries /\ DOMAIN p.entries \subseteq Ids /\ group \subseteq DOMAIN p.entries
  BY HereIs, HereEntries DEF Used
<1>3. /\ order \in [1 .. n -> group] /\ DOMAIN order = 1 .. n
      /\ \A i, j \in 1 .. n : i # j => order[i] # order[j]
  BY DEF SetToSeqs
<1>4. IsFiniteSet(group) /\ n \in 1 .. Cardinality(Ids) /\ n \in Nat
  <2>1. IsFiniteSet(group) /\ n <= Cardinality(Ids) /\ n \in Nat /\ Cardinality(Ids) \in Nat
    BY <1>2, Numbers, FS_Subset, FS_CardinalityType
  <2>2. n # 0
    BY <1>1, <2>1, FS_EmptySet
  <2> QED BY <2>1, <2>2
<1>5. Execute(list)
  BY <1>1, <1>3 DEF Entry
<1> HIDE DEF n
<1>6. Len(list) = n /\ Len(list) \in Nat
  BY <1>4
<1>7. \A k \in 1 .. n : list[k] = DeleteCommand(order[k], p.entries[order[k]])
  BY <1>2
<1> HIDE DEF list, p
<1>8. ASSUME NEW k \in 1 .. n
      PROVE  /\ IsDelete(list[k]) /\ list[k].id = order[k] /\ list[k].saved = Empty
             /\ list[k].entry = p.entries[order[k]] /\ order[k] \in DOMAIN p.entries
  <2>1. list[k] = [op |-> "delete", id |-> order[k], entry |-> p.entries[order[k]],
                   saved |-> Empty, done |-> FALSE]
    BY <1>7 DEF DeleteCommand
  <2>2. order[k] \in DOMAIN p.entries
    BY <1>2, <1>3
  <2> DEFINE id == order[k]
             entry == p.entries[order[k]]
  <2> HIDE DEF id, entry
  <2>3. list[k] = [op |-> "delete", id |-> id, entry |-> entry, saved |-> Empty, done |-> FALSE]
    BY <2>1 DEF id, entry
  <2>4. IsDelete(list[k]) /\ list[k].id = id /\ list[k].saved = Empty /\ list[k].entry = entry
    BY <2>3 DEF IsDelete
  <2> QED BY <2>2, <2>4 DEF id, entry
<1>9. ASSUME NEW k \in 1 .. n PROVE DeletesNth(list, k, p)
  <2>1. \A j \in 1 .. n : j # k => list[j].id # list[k].id
    BY <1>3, <1>8
  <2> QED BY <1>6, <1>8, <2>1 DEF DeletesNth
<1> HIDE DEF q
<1>10. Deletes(list, p, q)
  BY <1>4, <1>6, <1>9 DEF Deletes, q
<1>11. IsPast(q)
  BY <1>2, WithoutIsPast DEF q, Left
<1>12. Leads(list, p, q, Base + next)
  BY <1>10 DEF Leads
<1> QED BY <1>5, <1>11, <1>12, NewPosition DEF p

LEMMA AttachKeeps ==
  ASSUME Careful, NEW past, Explains(past), Attach
  PROVE  \E more : Explains(more)'
<1>0. Risky = {}
  BY Numbers
<1>1. PICK id \in Used \ Bases, text \in Texts, att \in NewAttachments :
         LET edited == [Entry(id) EXCEPT !.text = text]
         IN  /\ text = Entry(id).text
             /\ Entry(id).att = NoAtt
             /\ Execute(<<DeleteCommand(id, edited),
                          AddCommand(id, edited, IF edited.att = NoAtt THEN att ELSE Empty)>>)
  BY <1>0 DEF Attach
<1>2. PICK more : /\ Explains(more) /\ IsNewAtt(att, more[next])
                  /\ more[next].entries = past[next].entries
  BY NewAtt
<1> DEFINE p == more[next]
           entry == db.entries[id]
           c1 == DeleteCommand(id, entry)
           c2 == AddCommand(id, entry, att)
           list == <<c1, c2>>
           full == [entry EXCEPT !.att = att.uuid]
           q == [entries |-> With(p.entries, id, full), titles |-> p.titles]
<1>3. /\ IsPast(p) /\ db.entries = p.entries /\ DOMAIN p.entries \subseteq Ids
      /\ id \in DOMAIN p.entries /\ entry \in Entries /\ entry = p.entries[id]
  BY <1>2, HereIs, HereEntries DEF Used
<1>4. [entry EXCEPT !.text = text] = entry /\ entry.att = NoAtt
  <2>1. text = entry.text /\ entry.att = NoAtt
    BY <1>1 DEF Entry
  <2> HIDE DEF entry
  <2> QED BY <1>3, <2>1 DEF Entries
<1>5. Execute(list)
  BY <1>1, <1>4 DEF Entry
<1>6. Len(list) = 2 /\ list[1] = c1 /\ list[2] = c2
  OBVIOUS
<1>7. IsNewAtt(att, p)
  BY <1>2
<1> HIDE DEF list, p, entry
<1>8. /\ IsDelete(c1) /\ c1.id = id /\ c1.entry = entry /\ c1.saved = Empty
      /\ c2.op = "add" /\ c2.id = id /\ c2.entry = entry /\ c2.att = att
  BY DEF DeleteCommand, AddCommand, IsDelete
<1> HIDE DEF c1, c2
<1>9. full \in Entries /\ p.titles \in [Atts -> Titles \cup {NoTitle}] /\ id \in Ids
  <2>1. att.uuid \in Atts
    BY <1>7 DEF IsNewAtt, Attachment
  <2> QED BY <1>3, <2>1 DEF Entries, IsPast
<1>10. q.entries = With(p.entries, id, full) /\ q.titles = p.titles
  OBVIOUS
<1>11. IsPast(q)
  <2> HIDE DEF full
  <2> QED BY <1>3, <1>9, WithIsPast
<1> HIDE DEF q
<1>12. Attaches(list, p, q)
  <2>1. q.entries = With(p.entries, id, [entry EXCEPT !.att = att.uuid])
    BY <1>10
  <2> HIDE DEF full
  <2> QED BY <1>3, <1>4, <1>6, <1>7, <1>8, <1>10, <2>1 DEF Attaches
<1>13. Leads(list, p, q, Base + next)
  BY <1>12 DEF Leads
<1> QED BY <1>2, <1>5, <1>11, <1>13, NewPosition DEF p

LEMMA RemoveAttachmentKeeps ==
  ASSUME Careful, NEW past, Explains(past), RemoveAttachment
  PROVE  \E more : Explains(more)'
<1>0. Risky = {}
  BY Numbers
<1>1. PICK id \in Used, text \in Texts :
        /\ RefFound(db, Entry(id))
        /\ id \notin Bases
        /\ RefsTo(db.entries, Entry(id).att) = {id}
        /\ Execute(<<DeleteAttachmentCommand(id), EditCommand(id, Detached(Entry(id), text))>>)
  BY <1>0 DEF RemoveAttachment
<1> DEFINE p == past[next]
           entry == db.entries[id]
           new == Detached(entry, text)
           c1 == DeleteAttachmentCommand(id)
           c2 == EditCommand(id, new)
           list == <<c1, c2>>
           q == [entries |-> With(p.entries, id, new), titles |-> p.titles]
<1>2. /\ IsPast(p) /\ db.entries = p.entries /\ DOMAIN p.entries \subseteq Ids
      /\ id \in DOMAIN p.entries /\ entry \in Entries /\ entry = p.entries[id]
  BY HereIs, HereEntries DEF Used
<1>3. entry.att # NoAtt /\ RefsTo(p.entries, entry.att) = {id} /\ id \notin Bases
  BY <1>1, <1>2 DEF Entry, RefFound
<1>4. Execute(list) /\ Len(list) = 2 /\ list[1] = c1 /\ list[2] = c2
  BY <1>1 DEF Entry
<1>5. new \in Entries /\ new.att = NoAtt
  <2> HIDE DEF entry
  <2> DEFINE half == [entry EXCEPT !.text = text]
  <2>1. DOMAIN entry = {"text", "att"}
    BY <1>2 DEF Entries
  <2>2. new = [half EXCEPT !.att = NoAtt]
    BY <2>1 DEF Detached
  <2>3. half \in Entries
    BY <1>2 DEF Entries
  <2> HIDE DEF new, half
  <2> QED BY <2>2, <2>3 DEF Entries
<1>6. IsDetach(c1) /\ c1.id = id /\ c1.entry = entry /\ c1.saved = Empty
  BY DEF DeleteAttachmentCommand, IsDetach
<1>7. q.entries = With(p.entries, id, new) /\ q.titles = p.titles
  OBVIOUS
<1> HIDE DEF list, c1, c2, q, new, entry
<1>8. EditsTo(c2, p, q) /\ c2.id = id /\ c2.old = p.entries[id] /\ c2.new = new /\ id \in Ids
  BY <1>5, <1>7, EditIs DEF c2
<1>9. IsPast(q)
  <2>1. p.titles \in [Atts -> Titles \cup {NoTitle}]
    BY <1>2 DEF IsPast
  <2> HIDE DEF p
  <2> QED BY <1>2, <1>5, <1>8, <2>1, WithIsPast DEF q
<1> HIDE DEF p
<1>10. Detaches(list, p, q, Base + next)
  BY <1>2, <1>3, <1>4, <1>5, <1>6, <1>7, <1>8 DEF Detaches
<1>11. Leads(list, p, q, Base + next)
  BY <1>10 DEF Leads
<1> QED BY <1>4, <1>9, <1>11, NewPosition DEF p

LEMMA RetitleKeeps ==
  ASSUME Careful, NEW past, Explains(past), Retitle
  PROVE  \E more : Explains(more)'
<1>1. PICK id \in Used, text \in Texts, title \in Titles :
        LET att == db.atts[Entry(id).att]
        IN  /\ RefFound(db, Entry(id))
            /\ Execute(<<EditAttachmentCommand(att, [att EXCEPT !.title = title]),
                         EditCommand(id, [Entry(id) EXCEPT !.text = text])>>)
  BY DEF Retitle
<1> DEFINE p == past[next]
           top == Base + next
           entry == db.entries[id]
           a == entry.att
           att == db.atts[a]
           other == [att EXCEPT !.title = title]
           new == [entry EXCEPT !.text = text]
           c1 == EditAttachmentCommand(att, other)
           c2 == EditCommand(id, new)
           list == <<c1, c2>>
           q == [entries |-> With(p.entries, id, new), titles |-> [p.titles EXCEPT ![a] = title]]
<1>2. /\ IsPast(p) /\ db.entries = p.entries /\ DOMAIN p.entries \subseteq Ids
      /\ id \in DOMAIN p.entries /\ entry \in Entries /\ entry = p.entries[id]
      /\ At(db, p, top)
  BY HereIs, HereEntries DEF Used
<1>3. a # NoAtt /\ a \in DOMAIN db.atts
  BY <1>1 DEF Entry, RefFound, HasAtt
<1>4. Execute(list) /\ Len(list) = 2 /\ list[1] = c1 /\ list[2] = c2
  BY <1>1 DEF Entry
<1>5. new \in Entries /\ new.att = p.entries[id].att
  <2>1. \A e \in Entries : [e EXCEPT !.text = text] \in Entries /\ [e EXCEPT !.text = text].att = e.att
    BY DEF Entries
  <2> HIDE DEF entry
  <2> QED BY <1>2, <2>1
<1>6. /\ q.entries = With(p.entries, id, new) /\ q.titles = [p.titles EXCEPT ![a] = title]
      /\ c1.op = "editatt" /\ c1.old = att /\ c1.new = other
  BY DEF EditAttachmentCommand
<1> HIDE DEF list, c1, c2, q, new
<1>7. a \in AttsOf(p.entries)
  BY <1>2, <1>3 DEF AttsOf
<1>8. att \in Attachment /\ att.uuid = a /\ Counted(att, p, top)
  <2> HIDE DEF a, p, top
  <2> QED BY <1>2, <1>3 DEF At, IsList
<1> HIDE DEF a, att, entry, top
<1>9. other \in Attachment /\ other.uuid = a /\ other.title = title /\ other.refs = att.refs /\ a \in Atts
  BY <1>8 DEF Attachment
<1> HIDE DEF other
<1>10. EditsTo(c2, p, q) /\ c2.old = p.entries[id] /\ c2.new = new /\ id \in Ids
  BY <1>5, <1>6, EditIs DEF c2
<1> HIDE DEF p
<1>11. Counted(other, q, top)
  <2>1. RefsTo(q.entries, a) = RefsTo(p.entries, a)
    BY <1>2, <1>5, <1>6, RefsKept
  <2>2. q.titles[a] = title
    BY <1>2, <1>6, <1>9 DEF IsPast
  <2> QED BY <1>8, <1>9, <2>1, <2>2 DEF Counted
<1>12. IsPast(q)
  <2>1. [p.titles EXCEPT ![a] = title] \in [Atts -> Titles \cup {NoTitle}]
    BY <1>2, <1>9 DEF IsPast
  <2> QED BY <1>2, <1>5, <1>10, <2>1, WithIsPast DEF q
<1>13. Retitles(list, p, q, top)
  BY <1>4, <1>5, <1>6, <1>7, <1>8, <1>9, <1>10, <1>11 DEF Retitles
<1>14. Leads(list, p, q, Base + next)
  BY <1>13 DEF Leads, top
<1> QED BY <1>4, <1>12, <1>14, NewPosition DEF p

-----------------------------------------------------------------------------
(* The theorems.                                                           *)

(* A file whose references lead somewhere is at the only position there is. *)
LEMMA InitExplained ==
  ASSUME Careful, Init
  PROVE  \E past : Explains(past)
<1>0. /\ NoAtt \notin Atts /\ NoTitle \notin Titles /\ UIntMax \in Nat /\ MaxCommands \in Nat
      /\ Base \in Nat /\ Cardinality(Ids) <= Base + 1 /\ Cardinality(Ids) <= UIntMax
      /\ Cardinality(Ids) \in Nat /\ IsFiniteSet(Ids)
  BY AttachmentsAssumption, Numbers
<1>1. PICK ids \in SUBSET Ids, uuids \in SUBSET Atts : \E atts \in [uuids -> Titles] :
        \E entries \in [ids -> [text : Texts, att : uuids \cup {NoAtt}]] :
            db = [entries |-> entries,
                  atts    |-> ParseDependants(entries,
                                [a \in uuids |-> [uuid |-> a, title |-> atts[a], refs |-> 0]])]
  BY DEF Init
<1>2. PICK atts \in [uuids -> Titles] : \E entries \in [ids -> [text : Texts, att : uuids \cup {NoAtt}]] :
            db = [entries |-> entries,
                  atts    |-> ParseDependants(entries,
                                [a \in uuids |-> [uuid |-> a, title |-> atts[a], refs |-> 0]])]
  BY <1>1
<1>3. PICK entries \in [ids -> [text : Texts, att : uuids \cup {NoAtt}]] :
            db = [entries |-> entries,
                  atts    |-> ParseDependants(entries,
                                [a \in uuids |-> [uuid |-> a, title |-> atts[a], refs |-> 0]])]
  BY <1>2
<1> DEFINE titles == [a \in Atts |-> IF a \in uuids THEN atts[a] ELSE NoTitle]
           p == [entries |-> entries, titles |-> titles]
           Counting(a) == [uuid |-> a, title |-> atts[a], refs |-> Cardinality(RefsTo(entries, a))]
<1>4. commands = <<>> /\ next = 1 /\ history = <<View(db)>>
  BY DEF Init
<1>5. /\ DOMAIN entries \subseteq Ids /\ entries = [i \in DOMAIN entries |-> entries[i]]
      /\ \A i \in DOMAIN entries : entries[i] \in Entries /\ entries[i].att \in uuids \cup {NoAtt}
  BY DEF Entries
<1>6. titles \in [Atts -> Titles \cup {NoTitle}] /\ \A a \in uuids : titles[a] = atts[a]
  OBVIOUS
<1> HIDE DEF titles
<1>7. IsPast(p)
  <2>1. entries \in [DOMAIN entries -> Entries]
    BY <1>5
  <2> QED BY <1>5, <1>6, <2>1 DEF IsPast
<1>8. db = [entries |-> entries, atts |-> [a \in uuids |-> Counting(a)]]
  <2> DEFINE blank == [a \in uuids |-> [uuid |-> a, title |-> atts[a], refs |-> 0]]
             Counts(a) == [blank[a] EXCEPT !.refs = Cardinality(RefsTo(entries, a))]
  <2>1. db = [entries |-> entries, atts |-> ParseDependants(entries, blank)]
    BY <1>3
  <2>2. ParseDependants(entries, blank) = [a \in DOMAIN blank |-> Counts(a)]
    BY DEF ParseDependants
  <2>3. DOMAIN blank = uuids /\ \A a \in uuids : Counts(a) = Counting(a)
    OBVIOUS
  <2> HIDE DEF blank, Counts, Counting
  <2>4. ParseDependants(entries, blank) = [a \in uuids |-> Counting(a)]
    BY <2>2, <2>3
  <2> QED BY <2>1, <2>4
<1>9. \A a \in uuids : /\ Cardinality(RefsTo(entries, a)) \in Nat
                       /\ Cardinality(RefsTo(entries, a)) <= Cardinality(Ids)
  BY <1>0, <1>5, RefsFinite
<1>10. ASSUME NEW a \in uuids
       PROVE  Counting(a) \in Attachment /\ Counting(a).uuid = a /\ Counted(Counting(a), p, Base + 1)
  <2> DEFINE count == Cardinality(RefsTo(entries, a))
  <2>1. count \in Nat /\ count <= Cardinality(Ids)
    BY <1>9
  <2>2. Counting(a).refs = count /\ Counting(a).title = atts[a] /\ Counting(a).uuid = a
        /\ atts[a] \in Titles /\ a \in Atts
    OBVIOUS
  <2>3. p.titles[a] = atts[a] /\ Cardinality(RefsTo(p.entries, a)) = count
    BY <1>6
  <2>4. Counting(a) \in Attachment
    <3>1. count \in 0 .. UIntMax
      BY <1>0, <2>1
    <3>2. Counting(a) = [uuid |-> a, title |-> atts[a], refs |-> count]
      OBVIOUS
    <3> HIDE DEF count, Counting
    <3> QED BY <2>2, <3>1, <3>2 DEF Attachment
  <2> HIDE DEF count, Counting, p
  <2> QED BY <1>0, <2>1, <2>2, <2>3, <2>4 DEF Counted
<1> HIDE DEF Counting
<1>11. At(db, p, Base + 1)
  <2> DEFINE list == [a \in uuids |-> Counting(a)]
  <2>1. DOMAIN list = uuids /\ \A a \in uuids : list[a] = Counting(a)
    OBVIOUS
  <2>2. list = [a \in DOMAIN list |-> list[a]]
    OBVIOUS
  <2>3. db.atts = list /\ db = [entries |-> p.entries, atts |-> db.atts]
    BY <1>8
  <2> HIDE DEF list
  <2>4. AttsOf(p.entries) \subseteq uuids
    BY <1>5 DEF AttsOf
  <2>5. IsList(list)
    BY <1>10, <2>1, <2>2 DEF IsList
  <2> QED BY <1>10, <2>1, <2>3, <2>4, <2>5 DEF At
<1> HIDE DEF p
<1>12. View(db) = Shown(p)
  BY <1>0, <1>7, <1>11, ViewIs
<1> DEFINE past == [k \in 1 .. 1 |-> p]
<1>13. past[1] = p
  OBVIOUS
<1> HIDE DEF past
<1>14. Len(commands) = 0 /\ IsListOf(commands, 0) /\ IsListOf(history, 1) /\ history[1] = Shown(p)
  BY <1>4, <1>12 DEF IsListOf
<1>15. Kept(past)
  <2> SUFFICES ASSUME NEW k \in 1 .. next, NEW a \in AttsOf(past[k].entries)
               PROVE  a \in DOMAIN db.atts
    BY DEF Kept
  <2>1. k = 1
    BY <1>4
  <2> QED BY <1>11, <1>13, <2>1 DEF At
<1>16. Explains(past)
  BY <1>0, <1>4, <1>7, <1>11, <1>13, <1>14, <1>15 DEF Explains
<1> QED BY <1>16

Explained == \E past : Explains(past)

LEMMA NextExplained ==
  ASSUME Careful
  PROVE  Explained /\ [Next]_vars => Explained'
<1> SUFFICES ASSUME Explained, [Next]_vars PROVE Explained'
  OBVIOUS
<1>1. PICK past : Explains(past)
  BY DEF Explained
<1>2. CASE AddEntry
  BY <1>1, <1>2, AddEntryKeeps DEF Explained
<1>3. CASE Duplicate
  BY <1>1, <1>3, DuplicateKeeps DEF Explained
<1>4. CASE Delete
  BY <1>1, <1>4, DeleteKeeps DEF Explained
<1>5. CASE EditText
  BY <1>1, <1>5, EditTextKeeps DEF Explained
<1>6. CASE Attach
  BY <1>1, <1>6, AttachKeeps DEF Explained
<1>7. CASE RemoveAttachment
  BY <1>1, <1>7, RemoveAttachmentKeeps DEF Explained
<1>8. CASE Retitle
  BY <1>1, <1>8, RetitleKeeps DEF Explained
<1>9. CASE Undo
  BY <1>1, <1>9, UndoKeeps DEF Explained
<1>10. CASE Redo
  BY <1>1, <1>10, RedoKeeps DEF Explained
<1>11. CASE LockAndUnlock
  BY <1>1, <1>11, LockKeeps DEF Explained
<1>12. CASE UNCHANGED vars
  <2>1. Explains(past)'
    BY <1>1, <1>12 DEF vars, Explains, Kept
  <2> QED BY <2>1 DEF Explained
<1> QED BY <1>2, <1>3, <1>4, <1>5, <1>6, <1>7, <1>8, <1>9, <1>10, <1>11, <1>12 DEF Next

THEOREM PastsExplain ==
  ASSUME Careful
  PROVE  Spec => []Explained
<1>1. Init => Explained
  BY InitExplained DEF Explained
<1>2. Explained /\ [Next]_vars => Explained'
  BY NextExplained
<1> QED BY <1>1, <1>2, PTL DEF Spec

(* What the invariant says of a state. *)
LEMMA ExplainedParts ==
  ASSUME Careful, Explained
  PROVE  TypeOK /\ RefsResolve /\ NeverFreedEarly /\ AttachmentsRestored
<1>1. PICK past : Explains(past)
  BY DEF Explained
<1> DEFINE p == past[next]
           top == Base + next
<1>2. /\ IsPast(p) /\ At(db, p, top) /\ top \in Nat /\ history[next] = Shown(p)
      /\ next \in Nat /\ next >= 1 /\ next <= Len(commands) + 1
      /\ Len(commands) \in Nat /\ Len(commands) <= MaxCommands
  BY <1>1, HereIs
<1>3. Len(history) = Len(commands) + 1
  <2>1. IsListOf(history, Len(commands) + 1)
    BY <1>1 DEF Explains
  <2> QED BY <1>2, <2>1, LenIs DEF IsListOf
<1> HIDE DEF p, top
<1>4. /\ db.entries = p.entries /\ DOMAIN p.entries \subseteq Ids
      /\ \A i \in DOMAIN p.entries : p.entries[i] \in Entries
      /\ NoAtt \notin DOMAIN db.atts
      /\ \A a \in DOMAIN db.atts : /\ a \in Atts /\ db.atts[a] \in Attachment
                                   /\ HasContent(db.atts[a]) /\ db.atts[a].uuid = a
      /\ \A i \in DOMAIN p.entries : p.entries[i].att \in DOMAIN db.atts \cup {NoAtt}
      /\ \A a \in DOMAIN db.atts : Counted(db.atts[a], p, top)
  BY <1>2, AtParts DEF At, IsPast
<1>5. TypeOK
  BY <1>2, <1>3, <1>4 DEF TypeOK
<1>6. RefsResolve
  BY <1>4 DEF RefsResolve, RefFound, HasAtt
<1>7. NeverFreedEarly
  <2> SUFFICES ASSUME NEW a \in DOMAIN db.atts
               PROVE  db.atts[a].refs >= Cardinality(RefsTo(db.entries, a))
    BY DEF NeverFreedEarly
  <2>1. Cardinality(RefsTo(p.entries, a)) <= db.atts[a].refs
    BY <1>4 DEF Counted
  <2>2. Cardinality(RefsTo(p.entries, a)) \in Nat /\ db.atts[a].refs \in Nat
    BY <1>4, Numbers, RefsFinite DEF Attachment
  <2> QED BY <1>4, <2>1, <2>2
<1>8. AttachmentsRestored
  BY <1>2, ViewIs DEF AttachmentsRestored
<1> QED BY <1>5, <1>6, <1>7, <1>8

(* The lists hold entries and attachments, each under its uuid.            *)
THEOREM AttachmentsTyped ==
  ASSUME Careful
  PROVE  Spec => []TypeOK
<1>1. Spec => []Explained
  BY PastsExplain
<1>2. Explained => TypeOK
  BY ExplainedParts
<1> QED BY <1>1, <1>2, PTL

(* Every reference of an entry leads to an attachment with content, through *)
(* every deletion, undo, redo, locking and unlocking.                       *)
THEOREM ReferencesResolve ==
  ASSUME Careful
  PROVE  Spec => []RefsResolve
<1>1. Spec => []Explained
  BY PastsExplain
<1>2. Explained => RefsResolve
  BY ExplainedParts
<1> QED BY <1>1, <1>2, PTL

(* No attachment is counted lower than the entries that refer to it.       *)
THEOREM NoneFreedEarly ==
  ASSUME Careful
  PROVE  Spec => []NeverFreedEarly
<1>1. Spec => []Explained
  BY PastsExplain
<1>2. Explained => NeverFreedEarly
  BY ExplainedParts
<1> QED BY <1>1, <1>2, PTL

(* Wherever undos and redos lead, every entry shows the text and the       *)
(* attachment it had when the user was there first.                        *)
THEOREM UndoRestoresAttachments ==
  ASSUME Careful
  PROVE  Spec => []AttachmentsRestored
<1>1. Spec => []Explained
  BY PastsExplain
<1>2. Explained => AttachmentsRestored
  BY ExplainedParts
<1> QED BY <1>1, <1>2, PTL
=============================================================================
