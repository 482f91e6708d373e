-------------------------- MODULE EntryStoreProofs --------------------------
(***************************************************************************)
(* The entries, links, shortcut keys and expiry dates agree, and undo is   *)
(* exact, for any number of entries and commands and any operations of the *)
(* Windows front end.                                                      *)
(*                                                                         *)
(* First the lists of commands that the front ends build: where each leads *)
(* and that its undo leads back.  Then the inductive invariant StoreInv:   *)
(* every list in the chain leads from the entries that the history has     *)
(* before it to those after it.                                            *)
(***************************************************************************)
EXTENDS EntryStoreSteps

(* The fields that EntryStore gives an entry.                               *)
StoreFields == {"type", "base", "password", "key", "expires"}

(* The entries X are deleted, and Y are still to be brought back.           *)
Sharing(p, kind, X) == {i \in DOMAIN p : p[i].type = kind /\ p[i].base \in X}

Leaving(p, X, Y) == (X \cup Sharing(p, "shortcut", X)) \ Sharing(p, "shortcut", Y)

Resetting(p, X) == Sharing(p, "alias", X) \ X

BasesOf(p, Y) == {i \in Y : p[i].type # "normal" /\ ~IsDependent(p[i])}

Halfway(p, X, Y) ==
    <<Part(p, Links(p), Leaving(p, X, Y), Resetting(p, X), BasesOf(p, Y)),
      Remaining(Links(p), Leaving(p, X, Y) \cup Resetting(p, X))>>

LEMMA LeavingIsStage ==
  ASSUME NEW p, IsPast(p), NEW X, X \subseteq DOMAIN p, NEW Y, Y \subseteq DOMAIN p, X \cap Y = {}
  PROVE  IsStage(p, Leaving(p, X, Y), Resetting(p, X))
<1> DEFINE A == Leaving(p, X, Y)
           R == Resetting(p, X)
<1>1. \A i \in DOMAIN p : IsDependent(p[i]) => p[i].base \in DOMAIN p /\ ~IsDependent(p[p[i].base])
  BY PastIs
<1>2. A \subseteq DOMAIN p /\ R \subseteq DOMAIN p \ A /\ \A i \in R : p[i].type = "alias"
  BY DEF Leaving, Resetting, Sharing
<1>3. ASSUME NEW i \in DOMAIN p \ (A \cup R), IsDependent(p[i]), p[i].base \in A PROVE FALSE
  <2>1. p[i].base \in X
    <3>1. ~IsDependent(p[p[i].base])
      BY <1>1, <1>3
    <3> QED BY <1>3, <3>1 DEF Leaving, Sharing, IsDependent, Kinds
  <2>2. CASE p[i].type = "shortcut"
    BY <1>3, <2>1, <2>2 DEF Leaving, Sharing
  <2>3. CASE p[i].type = "alias"
    BY <1>3, <2>1, <2>3 DEF Leaving, Resetting, Sharing
  <2> QED BY <1>3, <2>2, <2>3 DEF IsDependent, Kinds
<1> QED BY <1>2, <1>3 DEF IsStage

(* One more entry goes, or comes back. *)
LeavesOneMore(p, L, X, Y, id, X2, Y2) ==
    /\ id \notin Leaving(p, X, {}) \cup Resetting(p, X) /\ id \notin Resetting(p, X2)
    /\ Leaving(p, X2, {}) = Leaving(p, X, {}) \cup WithShortcuts(p, L, id)
    /\ Resetting(p, X2) = Resetting(p, X) \cup (AliasesWith(p, L, id) \ Leaving(p, X, {}))
    /\ Leaving(p, X, Y2) = Leaving(p, X2, Y) \ WithShortcuts(p, L, id)
    /\ Resetting(p, X) = Resetting(p, X2) \ AliasesWith(p, L, id)
    /\ BasesOf(p, Y2) = BasesOf(p, Y) \cup ForcedWith(p, id)

LEMMA OneMoreLeaves ==
  ASSUME NEW p, IsPast(p), NEW X, X \subseteq DOMAIN p, NEW Y, NEW id \in DOMAIN p \ X, IsDependent(p[id]) => p[id].base \notin X,
         NEW X2, X2 = X \cup {id}, NEW Y2, Y2 = Y \cup {id}, NEW L, L = Links(p)
  PROVE  LeavesOneMore(p, L, X, Y, id, X2, Y2)
<1>1. /\ \A i \in DOMAIN p : IsDependent(p[i]) => p[i].base \in DOMAIN p /\ p[p[i].base].type = BaseType[p[i].type] /\ p[i].base # i
      /\ DOMAIN p \subseteq Ids
  BY PastIs
<1>2. Targets(L, "shortcut", id) = Sharing(p, "shortcut", {id}) /\ Targets(L, "alias", id) = Sharing(p, "alias", {id})
  <2>1. ASSUME NEW kind \in Kinds, NEW i \in Ids
        PROVE  i \in Targets(L, kind, id) <=> i \in Sharing(p, kind, {id})
    <3>1. <<id, i>> \in L[kind] <=> i \in DOMAIN p /\ p[i].type = kind /\ p[i].base = id
      BY LinksIs
    <3> QED BY <3>1 DEF Targets, Sharing
  <2>2. \A kind \in Kinds : Targets(L, kind, id) \subseteq Ids /\ Sharing(p, kind, {id}) \subseteq Ids
    BY <1>1 DEF Targets, Sharing
  <2> QED BY <2>1, <2>2 DEF Kinds
<1>3. WithShortcuts(p, L, id) = {id} \cup Sharing(p, "shortcut", {id})
  <2>1. p[id].type # "shortcutbase" => Sharing(p, "shortcut", {id}) = {}
    BY <1>1 DEF Sharing, IsDependent, Kinds, BaseType
  <2> QED BY <1>2, <2>1 DEF WithShortcuts
<1>4. AliasesWith(p, L, id) = Sharing(p, "alias", {id})
  <2>1. p[id].type # "aliasbase" => Sharing(p, "alias", {id}) = {}
    BY <1>1 DEF Sharing, IsDependent, Kinds, BaseType
  <2> QED BY <1>2, <2>1 DEF AliasesWith
<1>5. \A kind \in Kinds : /\ Sharing(p, kind, X2) = Sharing(p, kind, X) \cup Sharing(p, kind, {id})
                          /\ Sharing(p, kind, Y2) = Sharing(p, kind, Y) \cup Sharing(p, kind, {id})
                          /\ id \notin Sharing(p, kind, {id}) /\ id \notin Sharing(p, kind, X)
                          /\ Sharing(p, kind, {}) = {}
                          /\ Sharing(p, kind, X) \cap Sharing(p, kind, {id}) = {}
  BY <1>1 DEF Sharing, IsDependent
<1>6. "shortcut" \in Kinds /\ "alias" \in Kinds
  BY DEF Kinds
<1>7. Sharing(p, "alias", {id}) \cap Sharing(p, "shortcut", X) = {}
  BY DEF Sharing
<1>8. id \notin Leaving(p, X, {}) \cup Resetting(p, X) /\ id \notin Resetting(p, X2)
  BY <1>5, <1>6 DEF Leaving, Resetting
<1>9. Leaving(p, X2, {}) = Leaving(p, X, {}) \cup WithShortcuts(p, L, id)
  BY <1>3, <1>5, <1>6 DEF Leaving
<1>10. Resetting(p, X2) = Resetting(p, X) \cup (AliasesWith(p, L, id) \ Leaving(p, X, {}))
  <2>1. /\ Sharing(p, "alias", X2) = Sharing(p, "alias", X) \cup Sharing(p, "alias", {id})
        /\ id \notin Sharing(p, "alias", X) /\ id \notin Sharing(p, "alias", {id})
        /\ Sharing(p, "alias", X) \cap Sharing(p, "alias", {id}) = {}
        /\ Sharing(p, "shortcut", {}) = {}
    BY <1>5, <1>6
  <2> QED BY <1>4, <1>7, <2>1 DEF Leaving, Resetting
<1>11. Leaving(p, X, Y2) = Leaving(p, X2, Y) \ WithShortcuts(p, L, id)
  BY <1>3, <1>5, <1>6 DEF Leaving
<1>12. Resetting(p, X) = Resetting(p, X2) \ AliasesWith(p, L, id)
  <2>1. /\ Sharing(p, "alias", X2) = Sharing(p, "alias", X) \cup Sharing(p, "alias", {id})
        /\ id \notin Sharing(p, "alias", X)
        /\ Sharing(p, "alias", X) \cap Sharing(p, "alias", {id}) = {}
    BY <1>5, <1>6
  <2> QED BY <1>4, <2>1 DEF Resetting
<1>13. BasesOf(p, Y2) = BasesOf(p, Y) \cup ForcedWith(p, id)
  BY DEF BasesOf, ForcedWith
<1> QED BY <1>8, <1>9, <1>10, <1>11, <1>12, <1>13 DEF LeavesOneMore

LEMMA NoneGone ==
  ASSUME NEW p, IsPast(p)
  PROVE  /\ \A Y : Halfway(p, {}, Y) = Stage(p)
         /\ \A F : <<Part(p, Links(p), {}, {}, F), Remaining(Links(p), {})>> = Stage(p)
<1> DEFINE L == Links(p)
<1>1. IsFit(p, L) /\ IsLinks(L)
  BY PastIsFit
<1>2. p = [i \in DOMAIN p |-> p[i]]
  BY PastIs
<1>3. \A i \in DOMAIN p : ~Bereft(p, L, {}, i)
  BY <1>1 DEF IsFit
<1>4. ASSUME NEW F PROVE Part(p, L, {}, {}, F) = p
  <2>1. DOMAIN Part(p, L, {}, {}, F) = DOMAIN p
    BY DEF Part
  <2>2. \A i \in DOMAIN p : Part(p, L, {}, {}, F)[i] = p[i]
    BY <1>3 DEF Part
  <2> QED BY <1>2, <2>1, <2>2 DEF Part
<1>5. Remaining(L, {}) = L
  BY <1>1 DEF Remaining, IsLinks
<1>6. \A Y : Leaving(p, {}, Y) = {} /\ Resetting(p, {}) = {}
  BY DEF Leaving, Resetting, Sharing
<1> HIDE DEF L
<1> QED BY <1>4, <1>5, <1>6 DEF Halfway, Stage, L

LEMMA DeleteAlike ==
  ASSUME NEW e, NEW L, NEW id, NEW c0, IsDelete(c0, e, L, id), {"op", "id", "entry", "deps"} \subseteq DOMAIN c0,
         NEW c, Alike(c, c0)
  PROVE  IsDelete(c, e, L, id)
<1>1. c.op = c0.op /\ c.id = c0.id /\ c.entry = c0.entry /\ c.deps = c0.deps /\ DOMAIN c = DOMAIN c0
  BY DEF Alike
<1> QED BY <1>1 DEF IsDelete

(* A group goes, bases after the dependents of the group. *)
Gone(p, X) == Part(p, Links(p), Leaving(p, X, {}), Resetting(p, X), {})

DeletionList(p, n, order, list) ==
    /\ n \in Nat /\ \A k \in 1 .. n : order[k] \in DOMAIN p
    /\ \A j, k \in 1 .. n : j < k => order[j] # order[k]
    /\ \A j, k \in 1 .. n : j < k /\ IsDependent(p[order[k]]) => p[order[k]].base # order[j]
    /\ Len(list) = n
    /\ \A k \in 1 .. n : IsDelete(list[k], p, Links(p), order[k]) /\ {"op", "id", "entry", "deps"} \subseteq DOMAIN list[k]

Deletes(list, p, X) ==
    /\ X \subseteq DOMAIN p /\ IsStage(p, Leaving(p, X, {}), Resetting(p, X))
    /\ IsPast(Gone(p, X)) /\ Leads(list, p, Gone(p, X))

LEMMA DeletionLeads ==
  ASSUME NEW p, IsPast(p), IsFiniteSet(Ids), NEW n, NEW order, NEW list, DeletionList(p, n, order, list)
  PROVE  Deletes(list, p, {order[k] : k \in 1 .. n})
<1> SUFFICES ASSUME n \in Nat, \A k \in 1 .. n : order[k] \in DOMAIN p,
                    \A j, k \in 1 .. n : j < k => order[j] # order[k],
                    \A j, k \in 1 .. n : j < k /\ IsDependent(p[order[k]]) => p[order[k]].base # order[j],
                    Len(list) = n,
                    \A k \in 1 .. n : IsDelete(list[k], p, Links(p), order[k]) /\ {"op", "id", "entry", "deps"} \subseteq DOMAIN list[k]
             PROVE  Deletes(list, p, {order[k] : k \in 1 .. n})
  BY DEF DeletionList
<1> DEFINE L == Links(p)
           X(k) == {order[j] : j \in 1 .. k}
           Y(k) == {order[j] : j \in k + 1 .. n}
           S == [k \in 0 .. n |-> Halfway(p, X(k), {})]
           T == [k \in 0 .. n |-> Halfway(p, X(k), Y(k))]
           A == Leaving(p, X(n), {})
           R == Resetting(p, X(n))
           q == Part(p, L, A, R, {})
<1>1. /\ \A k \in 0 .. n : X(k) \subseteq DOMAIN p /\ Y(k) \subseteq DOMAIN p /\ X(k) \cap Y(k) = {}
      /\ X(0) = {} /\ Y(n) = {}
  OBVIOUS
<1>2. IsStage(p, A, R)
  BY <1>1, LeavingIsStage
<1>3. IsPast(q) /\ Links(q) = Remaining(L, A \cup R)
  BY <1>2, PartPast
<1>4. BasesOf(p, {}) = {}
  BY DEF BasesOf
<1>5. S[0] = Stage(p) /\ T[0] = Stage(p) /\ S[n] = Stage(q) /\ T[n] = Stage(q)
  <2>0. 0 \in 0 .. n /\ n \in 0 .. n
    OBVIOUS
  <2>4. /\ S[0] = Halfway(p, X(0), {}) /\ T[0] = Halfway(p, X(0), Y(0))
        /\ S[n] = Halfway(p, X(n), {}) /\ T[n] = Halfway(p, X(n), Y(n))
    BY <2>0
  <2>5. X(0) = {} /\ Y(n) = {}
    BY <1>1
  <2> HIDE DEF X, Y, S, T
  <2>1. S[0] = Halfway(p, {}, {}) /\ T[0] = Halfway(p, {}, Y(0))
    BY <2>4, <2>5
  <2>2. S[n] = Halfway(p, X(n), {}) /\ T[n] = Halfway(p, X(n), {})
    BY <2>4, <2>5
  <2>3. Halfway(p, X(n), {}) = Stage(q)
    BY <1>3, <1>4 DEF Halfway, Stage
  <2>6. Halfway(p, X(n), {}) = Stage(q) /\ Halfway(p, {}, {}) = Stage(p) /\ Halfway(p, {}, Y(0)) = Stage(p)
    BY <2>3, NoneGone
  <2> HIDE DEF q
  <2> QED BY <2>1, <2>2, <2>6
<1>6. ASSUME NEW k \in 1 .. n PROVE Does(list[k], S[k - 1], S[k], T[k - 1], T[k])
  <2> DEFINE id == order[k]
             V == X(k - 1)
             W == Y(k)
  <2>0. k - 1 \in 0 .. n /\ k \in 0 .. n
    OBVIOUS
  <2>1. X(k) = V \cup {id} /\ Y(k - 1) = W \cup {id} /\ V \subseteq DOMAIN p /\ W \subseteq DOMAIN p
    <3>1. \A j \in Int : j \in 1 .. k <=> j \in 1 .. k - 1 \/ j = k
      OBVIOUS
    <3>2. \A j \in Int : j \in (k - 1) + 1 .. n <=> j \in k + 1 .. n \/ j = k
      OBVIOUS
    <3> QED BY <1>1, <2>0, <3>1, <3>2
  <2>2. id \in DOMAIN p \ V /\ (IsDependent(p[id]) => p[id].base \notin V)
    <3>1. \A j \in 1 .. k - 1 : j \in 1 .. n /\ j < k
      OBVIOUS
    <3> QED BY <3>1
  <2>3. S[k - 1] = Halfway(p, V, {}) /\ S[k] = Halfway(p, V \cup {id}, {})
        /\ T[k - 1] = Halfway(p, V, W \cup {id}) /\ T[k] = Halfway(p, V \cup {id}, W)
    BY <2>0, <2>1
  <2>4. (V \cup {id}) \cap W = {} /\ V \cup {id} \subseteq DOMAIN p
    BY <1>1, <2>0, <2>1
  <2>5. IsDelete(list[k], p, L, id) /\ {"op", "id", "entry", "deps"} \subseteq DOMAIN list[k]
    OBVIOUS
  <2> DEFINE c0 == list[k]
  <2> HIDE DEF S, T, X, Y, V, W, id, L, c0
  <2>6. IsFit(p, L) /\ (~IsDependent(p[id]) => IsProper(p, L, id))
    BY <2>2, PastIsFit DEF L
  <2>7. \A c : Alike(c, c0) => IsDelete(c, p, L, id)
    BY <2>5, DeleteAlike DEF c0
  <2> DEFINE A1 == Leaving(p, V, {})
             R1 == Resetting(p, V)
             B1 == Leaving(p, V \cup {id}, W)
             S1 == Resetting(p, V \cup {id})
             F1 == BasesOf(p, W)
  <2>8. IsStage(p, A1, R1) /\ IsStage(p, B1, S1)
    BY <2>1, <2>4, LeavingIsStage
  <2>9. /\ id \notin A1 \cup R1 /\ id \notin S1
        /\ Leaving(p, V \cup {id}, {}) = A1 \cup WithShortcuts(p, L, id)
        /\ S1 = R1 \cup (AliasesWith(p, L, id) \ A1)
        /\ Leaving(p, V, W \cup {id}) = B1 \ WithShortcuts(p, L, id)
        /\ R1 = S1 \ AliasesWith(p, L, id)
        /\ BasesOf(p, W \cup {id}) = F1 \cup ForcedWith(p, id)
    <3>1. V \subseteq DOMAIN p /\ id \in DOMAIN p \ V /\ (IsDependent(p[id]) => p[id].base \notin V)
      BY <2>1, <2>2
    <3> DEFINE K == Links(p)
               V2 == V \cup {id}
               W2 == W \cup {id}
    <3>3. V2 = V \cup {id} /\ W2 = W \cup {id} /\ K = Links(p)
      OBVIOUS
    <3> HIDE DEF V2, W2, K
    <3>2. LeavesOneMore(p, K, V, W, id, V2, W2)
      BY <3>1, <3>3, OneMoreLeaves
    <3> QED BY <3>2 DEF LeavesOneMore, L, V2, W2, K
  <2>10. \/ IsDependent(p[id]) /\ (id \in B1 => p[id].base \notin B1)
         \/ IsProper(p, L, id) /\ id \in B1
    <3>1. CASE IsDependent(p[id])
      <4>1. ~IsDependent(p[p[id].base]) /\ p[id].base # id
        BY <2>2, <3>1, PastIs
      <4>2. p[id].base \notin V \cup {id}
        BY <2>2, <3>1, <4>1
      <4> QED BY <3>1, <4>1, <4>2 DEF Leaving, Sharing, IsDependent, Kinds
    <3>2. CASE ~IsDependent(p[id])
      <4>1. id \in B1
        BY <3>2 DEF Leaving, Sharing, IsDependent, Kinds
      <4> QED BY <2>6, <3>2, <4>1
    <3> QED BY <3>1, <3>2
  <2>11. /\ S[k - 1] = <<Part(p, L, A1, R1, {}), Remaining(L, A1 \cup R1)>>
         /\ S[k] = <<Part(p, L, A1 \cup WithShortcuts(p, L, id), S1, {}), Remaining(L, (A1 \cup WithShortcuts(p, L, id)) \cup S1)>>
         /\ T[k - 1] = <<Part(p, L, B1 \ WithShortcuts(p, L, id), R1, F1 \cup ForcedWith(p, id)), Remaining(L, (B1 \ WithShortcuts(p, L, id)) \cup R1)>>
         /\ T[k] = <<Part(p, L, B1, S1, F1), Remaining(L, B1 \cup S1)>>
    BY <1>4, <2>3, <2>9 DEF Halfway, L
  <2> HIDE DEF A1, R1, B1, S1, F1
  <2>12. id \in DOMAIN p \ (A1 \cup R1) /\ id \notin S1
    BY <2>2, <2>9
  <2>13. IsDependent(p[id]) \/ IsProper(p, L, id)
    BY <2>6
  <2> DEFINE A2 == A1 \cup WithShortcuts(p, L, id)
             R2 == R1 \cup (AliasesWith(p, L, id) \ A1)
             B2 == B1 \ WithShortcuts(p, L, id)
             S2 == S1 \ AliasesWith(p, L, id)
             F2 == F1 \cup ForcedWith(p, id)
  <2>14. Does(c0, <<Part(p, L, A1, R1, {}), Remaining(L, A1 \cup R1)>>,
                  <<Part(p, L, A2, R2, {}), Remaining(L, A2 \cup R2)>>,
                  <<Part(p, L, B2, S2, F2), Remaining(L, B2 \cup S2)>>,
                  <<Part(p, L, B1, S1, F1), Remaining(L, B1 \cup S1)>>)
    BY <2>6, <2>7, <2>8, <2>10, <2>12, <2>13, DeleteDoes
  <2>15. R2 = S1 /\ S2 = R1
    BY <2>9
  <2> HIDE DEF R2, S2
  <2> QED BY <2>11, <2>14, <2>15 DEF c0
<1>7. Leads(list, p, q)
  <2> HIDE DEF S, T, q
  <2> QED BY <1>5, <1>6, StagesLead
<1>8. X(n) = {order[k] : k \in 1 .. n} /\ X(n) \subseteq DOMAIN p
  BY <1>1
<1>9. q = Gone(p, X(n))
  BY DEF Gone
<1> HIDE DEF q
<1>10. Deletes(list, p, X(n))
  BY <1>2, <1>3, <1>7, <1>8, <1>9 DEF Deletes
<1> QED BY <1>8, <1>10

LEMMA PutIn ==
  ASSUME NEW e, e = [i \in DOMAIN e |-> e[i]], NEW id \in DOMAIN e, NEW x
  PROVE  Put(Put(e, id, x), id, e[id]) = e
  BY DEF Put

LEMMA JoinedIs ==
  ASSUME NEW e, e = [i \in DOMAIN e |-> e[i]], NEW base \in DOMAIN e, NEW id \in DOMAIN e, base # id, NEW kind \in Kinds
  PROVE  LET f == Joined(e, base, id, kind)
         IN  /\ DOMAIN f = DOMAIN e /\ f = [i \in DOMAIN e |-> f[i]]
             /\ f[base] = [e[base] EXCEPT !.type = BaseType[kind]]
             /\ f[id] = IF IsDependent(e[id]) THEN [e[id] EXCEPT !.base = base] ELSE e[id]
             /\ \A i \in DOMAIN e \ {base, id} : f[i] = e[i]
             /\ Put(f, id, e[id]) = Retyped(e, base, BaseType[kind])
  BY DEF Joined, Put, Retyped

(* A base that became one loses its only dependent again. *)
LEMMA ReleasedRetyped ==
  ASSUME NEW e, NEW L, IsLinks(L), NEW kind \in Kinds, NEW base \in DOMAIN e, NEW id \in Ids, base \in Ids,
         e = [i \in DOMAIN e |-> e[i]], IsEntry(e[base]), <<base, id>> \notin L[kind],
         e[base].type = IF Targets(L, kind, base) = {} THEN "normal" ELSE BaseType[kind]
  PROVE  Released(Retyped(e, base, BaseType[kind]), Tied(L, kind, base, id), base, id, kind) = e
<1> DEFINE f == Retyped(e, base, BaseType[kind])
           M == Tied(L, kind, base, id)
<1>1. Targets(M, kind, base) \ {id} = Targets(L, kind, base)
  <2>1. M[kind] = L[kind] \cup {<<base, id>>}
    BY DEF Tied, IsLinks
  <2> HIDE DEF M
  <2> QED BY <2>1 DEF Targets
<1>2. /\ DOMAIN f = DOMAIN e /\ f = [i \in DOMAIN e |-> f[i]]
      /\ f[base] = [e[base] EXCEPT !.type = BaseType[kind]]
      /\ \A i \in DOMAIN e \ {base} : f[i] = e[i]
  BY DEF Retyped
<1> HIDE DEF M, f
<1>3. CASE Targets(L, kind, base) = {}
  <2>1. Released(f, M, base, id, kind) = Retyped(f, base, "normal")
    BY <1>1, <1>3 DEF Released
  <2>2. [f[base] EXCEPT !.type = "normal"] = e[base]
    BY <1>2, <1>3 DEF IsEntry
  <2>3. \A i \in DOMAIN e : Retyped(f, base, "normal")[i] = e[i]
    BY <1>2, <2>2 DEF Retyped
  <2>4. Retyped(f, base, "normal") = [i \in DOMAIN e |-> Retyped(f, base, "normal")[i]]
    BY <1>2 DEF Retyped
  <2> QED BY <2>1, <2>3, <2>4 DEF M, f
<1>4. CASE Targets(L, kind, base) # {}
  <2>1. Released(f, M, base, id, kind) = f
    BY <1>1, <1>4 DEF Released
  <2>2. f[base] = e[base]
    BY <1>2, <1>4 DEF IsEntry
  <2> QED BY <1>2, <2>1, <2>2 DEF M, f
<1> QED BY <1>3, <1>4

(* The dependent that left a base joins it again. *)
LEMMA JoinedReleased ==
  ASSUME NEW e, NEW L, NEW kind \in Kinds, NEW base \in DOMAIN e, NEW id \in DOMAIN e, base # id,
         e = [i \in DOMAIN e |-> e[i]], IsEntry(e[base]), IsEntry(e[id]), e[base].type = BaseType[kind], e[id].base = base
  PROVE  Joined(Released(e, L, base, id, kind), base, id, kind) = e
<1> DEFINE f == Released(e, L, base, id, kind)
<1>1. /\ DOMAIN f = DOMAIN e /\ f = [i \in DOMAIN e |-> f[i]]
      /\ f[base] = e[base] \/ f[base] = [e[base] EXCEPT !.type = "normal"]
      /\ \A i \in DOMAIN e \ {base} : f[i] = e[i]
  BY DEF Released, Retyped
<1> HIDE DEF f
<1>2. [f[base] EXCEPT !.type = BaseType[kind]] = e[base]
  BY <1>1 DEF IsEntry
<1>3. f[id] = e[id] /\ [e[id] EXCEPT !.base = base] = e[id]
  BY <1>1 DEF IsEntry
<1>4. \A i \in DOMAIN e : Joined(f, base, id, kind)[i] = e[i]
  BY <1>1, <1>2, <1>3 DEF Joined
<1>5. Joined(f, base, id, kind) = [i \in DOMAIN e |-> Joined(f, base, id, kind)[i]]
  BY <1>1 DEF Joined
<1> QED BY <1>4, <1>5 DEF f

LEMMA JoinedEntered ==
  ASSUME NEW e, NEW base \in DOMAIN e, NEW id \in DOMAIN e, base # id, NEW x, x.base = base, x.type \in Kinds
  PROVE  Put(Joined(e, base, id, x.type), id, x) = Entered(Drop(e, {id}), id, x)
<1> DEFINE f == Put(Joined(e, base, id, x.type), id, x)
           g == Entered(Drop(e, {id}), id, x)
<1>1. DOMAIN f = DOMAIN e /\ DOMAIN g = DOMAIN e
  BY DEF Put, Joined, Entered, Retyped, Drop
<1>2. f = [i \in DOMAIN f |-> f[i]] /\ g = [i \in DOMAIN g |-> g[i]]
  BY DEF Put, Entered
<1>3. ASSUME NEW i \in DOMAIN e PROVE f[i] = g[i]
  <2>1. f[i] = IF i = id THEN x ELSE IF i = base THEN [e[i] EXCEPT !.type = BaseType[x.type]] ELSE e[i]
    BY DEF Put, Joined
  <2>2. g[i] = IF i = id THEN x ELSE IF i = base THEN [e[i] EXCEPT !.type = BaseType[x.type]] ELSE e[i]
    BY DEF Put, Entered, Retyped, Drop
  <2> QED BY <2>1, <2>2
<1> HIDE DEF f, g
<1>4. f = g
  BY <1>1, <1>2, <1>3, SamePart
<1> QED BY <1>4 DEF f, g

(* The others once an entry without dependents is gone. *)
LEMMA NormalLeaves ==
  ASSUME NEW p, IsPast(p), NEW id \in DOMAIN p, p[id].type = "normal"
  PROVE  IsPast(Drop(p, {id})) /\ Links(Drop(p, {id})) = Links(p)
<1> DEFINE L == Links(p)
           q == Part(p, L, {id}, {}, {})
<1>1. IsFit(p, L) /\ IsLinks(L)
  BY PastIsFit
<1>2. \A i \in DOMAIN p : IsDependent(p[i]) => p[i].base \in DOMAIN p /\ p[p[i].base].type = BaseType[p[i].type]
  BY PastIs
<1>3. IsStage(p, {id}, {})
  BY <1>2 DEF IsStage, IsDependent, BaseType, Kinds
<1>4. IsPast(q) /\ Links(q) = Remaining(L, {id} \cup {})
  BY <1>3, PartPast
<1>5. \A kind \in Kinds : \A b : <<b, id>> \notin L[kind]
  BY LinksIs DEF Kinds
<1>6. Remaining(L, {id} \cup {}) = L
  BY <1>1, <1>5 DEF Remaining, IsLinks
<1>7. ASSUME NEW i \in DOMAIN p PROVE ~Bereft(p, L, {id}, i)
  <2>1. ~Bereft(p, L, {}, i)
    BY <1>1 DEF IsFit
  <2>2. \A kind \in Kinds : id \notin Targets(L, kind, i)
    BY <1>5 DEF Targets
  <2> QED BY <2>1, <2>2 DEF Bereft
<1>8. q = Drop(p, {id})
  <2>1. \A i \in DOMAIN p \ {id} : q[i] = p[i]
    <3>1. {id} \cup {} = {id}
      OBVIOUS
    <3> HIDE DEF L
    <3> QED BY <1>7, <3>1 DEF Part
  <2>2. q = [i \in DOMAIN p \ {id} |-> q[i]]
    BY DEF Part
  <2> HIDE DEF q
  <2> QED BY <2>1, <2>2 DEF Drop
<1> QED BY <1>4, <1>6, <1>8

LEMMA DependentLeaves ==
  ASSUME NEW p, IsPast(p), NEW id \in DOMAIN p, IsDependent(p[id])
  PROVE  LET L == Links(p)
             q == Drop(Released(p, L, p[id].base, id, p[id].type), {id})
         IN  IsPast(q) /\ Links(q) = Cut(L, p[id].type, p[id].base, id)
<1> DEFINE L == Links(p)
           base == p[id].base
           kind == p[id].type
           f == Released(p, L, base, id, kind)
           q == Drop(f, {id})
           r == Part(p, L, {id}, {}, {})
<1>1. IsFit(p, L) /\ IsLinks(L)
  BY PastIsFit
<1>2. /\ \A i \in DOMAIN p : IsDependent(p[i]) => p[i].base \in DOMAIN p /\ ~IsDependent(p[p[i].base])
      /\ base \in DOMAIN p /\ p[base].type = BaseType[kind] /\ kind \in Kinds /\ base # id /\ IsEntry(p[base])
      /\ p = [i \in DOMAIN p |-> p[i]]
  BY PastIs DEF IsDependent
<1>3. IsStage(p, {id}, {})
  BY <1>2 DEF IsStage
<1>4. IsPast(r) /\ Links(r) = Remaining(L, {id} \cup {})
  BY <1>3, PartPast
<1>5. /\ Cut(Remaining(L, {}), kind, base, id) = Remaining(L, {} \cup {id})
      /\ \A i \in DOMAIN p \ {base} : Bereft(p, L, {} \cup {id}, i) = Bereft(p, L, {}, i)
  BY <1>1, OneMoreGone
<1>6. Remaining(L, {}) = L /\ {} \cup {id} = {id} /\ {id} \cup {} = {id}
  BY <1>1 DEF Remaining, IsLinks
<1>7. \A i \in DOMAIN p \ {base} : ~Bereft(p, L, {id}, i)
  BY <1>1, <1>5, <1>6 DEF IsFit
<1>8. Bereft(p, L, {id}, base) <=> Targets(L, kind, base) \ {id} = {}
  <2>1. \A k \in Kinds : p[base].type = BaseType[k] => k = kind
    BY <1>2 DEF BaseType, Kinds
  <2> QED BY <1>2, <2>1 DEF Bereft
<1> HIDE DEF L, base, kind
<1>9. /\ DOMAIN f = DOMAIN p
      /\ f[base] = IF Targets(L, kind, base) \ {id} = {} THEN [p[base] EXCEPT !.type = "normal"] ELSE p[base]
      /\ \A i \in DOMAIN p \ {base} : f[i] = p[i]
  BY <1>2 DEF Released, Retyped
<1>10. \A i \in DOMAIN p \ {id} : r[i] = IF Bereft(p, L, {id}, i) THEN [p[i] EXCEPT !.type = "normal"] ELSE p[i]
  BY <1>6 DEF Part
<1>11. r = [i \in DOMAIN p \ {id} |-> r[i]]
  BY DEF Part
<1> HIDE DEF f, r
<1>12. \A i \in DOMAIN p \ {id} : r[i] = f[i]
  BY <1>7, <1>8, <1>9, <1>10
<1>13. r = q
  BY <1>9, <1>11, <1>12 DEF Drop
<1> HIDE DEF q
<1>14. IsPast(q) /\ Links(q) = Cut(L, kind, base, id)
  BY <1>4, <1>5, <1>6, <1>13
<1> QED BY <1>14 DEF q, f, L, base, kind
-----------------------------------------------------------------------------
(* An entry becomes an alias, or an alias a normal entry.                   *)

LEMMA AliasIs ==
  ASSUME NEW x, IsEntry(x), x.type = "alias"
  PROVE  IsDependent(x) /\ Norm(x) = x /\ "alias" \in Kinds /\ BaseType["alias"] = "aliasbase" /\ x.base \in Ids /\ ~x.expires
  BY DEF IsDependent, Norm, IsEntry, Kinds, BaseType

LEMMA KeyKept ==
  ASSUME NEW p, IsPast(p), NEW id \in DOMAIN p, NEW x, x.key = p[id].key, NEW q, DOMAIN q \subseteq DOMAIN p \ {id},
         \A i \in DOMAIN q : q[i].key = p[i].key
  PROVE  KeyFree(q, x)
  BY PastIs DEF KeyFree

(* The shortcut key that was free stays so among the entries left. *)
LEMMA KeyStillFree ==
  ASSUME NEW p, NEW id, NEW x, KeyFree(Drop(p, {id}), x), NEW q, DOMAIN q \subseteq DOMAIN p \ {id},
         \A i \in DOMAIN q : q[i].key = p[i].key
  PROVE  KeyFree(q, x)
BY DEF KeyFree, Drop

LEMMA EditSameKey ==
  ASSUME NEW e, NEW L, NEW g, NEW M, NEW id \in DOMAIN e, NEW old, IsEntry(old), NEW x, IsEntry(x),
         old.key = x.key, old.key = e[id].key, old.expires = e[id].expires,
         id \in DOMAIN g, x.key = g[id].key, x.expires = g[id].expires
  PROVE  Does(Edit(id, old, x), <<e, L>>, <<Put(e, id, Norm(x)), L>>, <<Put(g, id, Norm(old)), M>>, <<g, M>>)
<1> DEFINE c == Edit(id, old, x)
<1>1. c.op = "edit" /\ c.id = id /\ c.old = old /\ c.new = x /\ DOMAIN c = {"op", "id", "old", "new"}
  BY EditIs
<1>2. old.key # x.key => KeyFree(Drop(e, {id}), x) /\ KeyFree(Drop(g, {id}), old)
  OBVIOUS
<1> HIDE DEF c
<1>3. Does(c, <<e, L>>, <<Put(e, id, Norm(x)), L>>, <<Put(g, id, Norm(old)), M>>, <<g, M>>)
  BY <1>1, <1>2, EditDoes
<1> QED BY <1>3 DEF c

(* The edit that closes the list of a change of kind: the commands before  *)
(* it have changed no key.                                                 *)
LEMMA EditInPlace ==
  ASSUME NEW p, IsPast(p), NEW id \in DOMAIN p,
         NEW old, IsEntry(old), old.key = p[id].key, old.expires = p[id].expires,
         NEW x, IsEntry(x), KeyFree(Drop(p, {id}), x),
         NEW e, id \in DOMAIN e, DOMAIN e \subseteq DOMAIN p, e[id].expires = p[id].expires,
         \A i \in DOMAIN e : e[i].key = p[i].key,
         NEW q, q = Put(e, id, Norm(x)), NEW M
  PROVE  Does(Edit(id, old, x), <<e, M>>, <<q, M>>, <<Put(q, id, Norm(old)), M>>, <<q, M>>)
<1> DEFINE c == Edit(id, old, x)
<1>1. c.op = "edit" /\ c.id = id /\ c.old = old /\ c.new = x /\ DOMAIN c = {"op", "id", "old", "new"}
  BY EditIs
<1>2. /\ DOMAIN Drop(e, {id}) \subseteq DOMAIN p \ {id}
      /\ \A i \in DOMAIN Drop(e, {id}) : Drop(e, {id})[i].key = p[i].key
  BY DEF Drop
<1>3. /\ DOMAIN Drop(q, {id}) \subseteq DOMAIN p \ {id}
      /\ \A i \in DOMAIN Drop(q, {id}) : Drop(q, {id})[i].key = p[i].key
  BY DEF Drop, Put
<1>4. KeyFree(Drop(e, {id}), x) /\ KeyFree(Drop(q, {id}), old)
  BY <1>2, <1>3, KeyStillFree, KeyKept
<1>5. id \in DOMAIN q /\ x.key = q[id].key /\ x.expires = q[id].expires
  BY NormIs DEF Put
<1> HIDE DEF c
<1>6. Does(c, <<e, M>>, <<Put(e, id, Norm(x)), M>>, <<Put(q, id, Norm(old)), M>>, <<q, M>>)
  BY <1>1, <1>4, <1>5, EditDoes
<1> QED BY <1>6 DEF c

LEMMA NormalToAliasLeads ==
  ASSUME NEW p, IsPast(p), NEW id \in DOMAIN p, p[id].type = "normal", NEW base \in DOMAIN p \ {id},
         p[base].type \in {"normal", "aliasbase"},
         NEW old, IsEntry(old), Norm(old) = p[id], NEW x, IsEntry(x), DOMAIN x = EntryFields, x.type = "alias",
         x.base = base, KeyFree(Drop(p, {id}), x)
  PROVE  \E q : IsPast(q) /\ Leads(<<AddAliasCommand(base, id), Edit(id, old, x)>>, p, q)
<1> DEFINE L == Links(p)
           r == Drop(p, {id})
           q == Entered(r, id, x)
           M == Tied(L, "alias", base, id)
           e1 == Joined(p, base, id, "alias")
<1>1. IsDependent(x) /\ Norm(x) = x /\ "alias" \in Kinds /\ BaseType["alias"] = "aliasbase" /\ base \in Ids /\ ~x.expires
  BY AliasIs
<1>2. /\ p = [i \in DOMAIN p |-> p[i]] /\ id \in Ids /\ IsEntry(p[base]) /\ IsEntry(p[id])
  BY PastIs
<1>3. IsPast(r) /\ Links(r) = L
  BY NormalLeaves
<1>4. DOMAIN r = DOMAIN p \ {id} /\ \A i \in DOMAIN p \ {id} : r[i] = p[i]
  BY DEF Drop
<1>5. old.key = p[id].key /\ old.expires = p[id].expires /\ ~IsDependent(p[id])
  <2>1. Norm(old).key = old.key /\ Norm(old).expires = old.expires
    BY NormIs
  <2> QED BY <2>1 DEF IsDependent, Kinds
<1>6. KeyFree(r, x)
  BY DEF r
<1> HIDE DEF r, L
<1>7. /\ IsPast(q) /\ Links(q) = M /\ <<base, id>> \notin L["alias"]
      /\ p[base].type = IF Targets(L, "alias", base) = {} THEN "normal" ELSE "aliasbase"
  <2>1. id \in Ids \ DOMAIN r /\ x.base \in DOMAIN r /\ r[x.base].type \in {"normal", BaseType[x.type]}
    BY <1>1, <1>2, <1>4
  <2>2. /\ IsPast(q) /\ Links(q) = Tied(Links(r), x.type, x.base, id)
        /\ <<x.base, id>> \notin Links(r)[x.type]
        /\ r[x.base].type = IF Targets(Links(r), x.type, x.base) = {} THEN "normal" ELSE BaseType[x.type]
    BY <1>1, <1>3, <1>6, <2>1, EnteredPast
  <2> QED BY <1>1, <1>3, <1>4, <2>2
<1>8. IsLinks(L)
  BY PastIsFit DEF L
<1>9. /\ DOMAIN e1 = DOMAIN p /\ e1 = [i \in DOMAIN p |-> e1[i]]
      /\ e1[base] = [p[base] EXCEPT !.type = "aliasbase"] /\ e1[id] = p[id]
      /\ Put(e1, id, p[id]) = Retyped(p, base, "aliasbase")
  <2> DEFINE f == Joined(p, base, id, "alias")
  <2>1. /\ DOMAIN f = DOMAIN p /\ f = [i \in DOMAIN p |-> f[i]]
        /\ f[base] = [p[base] EXCEPT !.type = BaseType["alias"]]
        /\ f[id] = IF IsDependent(p[id]) THEN [p[id] EXCEPT !.base = base] ELSE p[id]
        /\ Put(f, id, p[id]) = Retyped(p, base, BaseType["alias"])
    BY <1>1, <1>2, JoinedIs
  <2> HIDE DEF f
  <2> QED BY <1>1, <1>5, <2>1 DEF f
<1> HIDE DEF e1, M
<1>10. e1 = Retyped(p, base, "aliasbase")
  BY <1>9 DEF Put
<1>11. Released(e1, M, base, id, "alias") = p /\ Cut(M, "alias", base, id) = L
  <2>1. Released(Retyped(p, base, BaseType["alias"]), Tied(L, "alias", base, id), base, id, "alias") = p
    BY <1>1, <1>2, <1>7, <1>8, ReleasedRetyped
  <2>2. Cut(Tied(L, "alias", base, id), "alias", base, id) = L
    BY <1>1, <1>2, <1>7, <1>8, CutTied
  <2> QED BY <1>1, <1>10, <2>1, <2>2 DEF M
<1>12. /\ ~IsDependent(e1[base]) /\ <<base, id>> \in M["alias"]
  <2>1. e1[base].type = "aliasbase"
    BY <1>2, <1>9 DEF IsEntry
  <2>2. M["alias"] = L["alias"] \cup {<<base, id>>}
    BY <1>1, <1>8 DEF M, Tied, IsLinks
  <2> QED BY <2>1, <2>2 DEF IsDependent, Kinds
<1>13. Does(AddAliasCommand(base, id), <<p, L>>, <<e1, M>>, <<p, L>>, <<e1, M>>)
  <2>1. Does(AddAliasCommand(base, id), <<p, L>>, <<Joined(p, base, id, "alias"), Tied(L, "alias", base, id)>>,
             <<Released(e1, M, base, id, "alias"), Cut(M, "alias", base, id)>>, <<e1, M>>)
    BY <1>7, <1>9, <1>12, TieDoes
  <2> QED BY <1>11, <2>1 DEF e1, M
<1>14. q = Put(e1, id, x)
  <2>1. Put(Joined(p, base, id, x.type), id, x) = Entered(Drop(p, {id}), id, x)
    BY <1>1, JoinedEntered
  <2> QED BY <2>1 DEF e1, r
<1> HIDE DEF q
<1>15. q[id] = x /\ id \in DOMAIN q /\ Put(q, id, Norm(old)) = e1
  <2>1. Put(Put(e1, id, x), id, e1[id]) = e1
    BY <1>9, PutIn
  <2>2. Put(e1, id, x)[id] = x /\ id \in DOMAIN Put(e1, id, x)
    BY DEF Put
  <2> QED BY <1>9, <1>14, <2>1, <2>2
<1>16. Does(Edit(id, old, x), <<e1, M>>, <<q, M>>, <<e1, M>>, <<q, M>>)
  <2>1. id \in DOMAIN e1 /\ e1[id].expires = p[id].expires /\ \A i \in DOMAIN e1 : e1[i].key = p[i].key
    BY <1>2, <1>9, <1>10 DEF Retyped, IsEntry
  <2>2. Does(Edit(id, old, x), <<e1, M>>, <<q, M>>, <<Put(q, id, Norm(old)), M>>, <<q, M>>)
    BY <1>1, <1>5, <1>9, <1>14, <2>1, EditInPlace
  <2> QED BY <1>15, <2>2
<1>17. Leads(<<AddAliasCommand(base, id), Edit(id, old, x)>>, p, q)
  BY <1>7, <1>13, <1>16, TwoLead DEF Stage, L
<1> QED BY <1>7, <1>17
(* An alias has left its base, and is still what it was otherwise. *)
LeftBase(p, id, L, b, e1, r, M) ==
    /\ IsPast(r) /\ Links(r) = M /\ DOMAIN r = DOMAIN p \ {id}
    /\ DOMAIN e1 = DOMAIN p /\ e1 = [i \in DOMAIN p |-> e1[i]] /\ e1[id] = p[id]
    /\ \A i \in DOMAIN p \ {id} : r[i] = e1[i] /\ e1[i].key = p[i].key
    /\ \A i \in DOMAIN p \ {b} : e1[i] = p[i]
    /\ b \in DOMAIN p /\ b # id /\ b \in Ids /\ id \in Ids
    /\ e1[b].type \in {"normal", "aliasbase"} /\ ~IsDependent(p[b])
    /\ <<b, id>> \in L["alias"] /\ <<b, id>> \notin M["alias"]
    /\ IsLinks(L) /\ IsLinks(M)
    /\ Joined(e1, b, id, "alias") = p /\ Tied(M, "alias", b, id) = L

LEMMA LeftIs ==
  ASSUME NEW p, IsPast(p), NEW id \in DOMAIN p, p[id].type = "alias", NEW b0, b0 = p[id].base,
         NEW L0, L0 = Links(p), NEW e0, e0 = Released(p, L0, b0, id, "alias"),
         NEW r0, r0 = Drop(e0, {id}), NEW M0, M0 = Cut(L0, "alias", b0, id)
  PROVE  LeftBase(p, id, L0, b0, e0, r0, M0)
<1> DEFINE L == Links(p)
           b == p[id].base
           e1 == Released(p, L, b, id, "alias")
           r == Drop(e1, {id})
           M == Cut(L, "alias", b, id)
<1>1. IsDependent(p[id]) /\ "alias" \in Kinds /\ BaseType["alias"] = "aliasbase"
  BY DEF IsDependent, Kinds, BaseType
<1>2. /\ p = [i \in DOMAIN p |-> p[i]] /\ id \in Ids /\ b \in DOMAIN p /\ b # id /\ b \in Ids
      /\ p[b].type = "aliasbase" /\ ~IsDependent(p[b]) /\ IsEntry(p[b]) /\ IsEntry(p[id])
      /\ DOMAIN p \subseteq Ids
  BY <1>1, PastIs
<1>3. IsPast(r) /\ Links(r) = M
  BY <1>1, DependentLeaves
<1>4. IsLinks(L)
  BY PastIsFit
<1>5. <<b, id>> \in L["alias"]
  BY <1>1, LinksIs
<1>6. IsLinks(M) /\ <<b, id>> \notin M["alias"] /\ Tied(M, "alias", b, id) = L
  <2>1. IsLinks(M) /\ Tied(M, "alias", b, id) = L
    BY <1>1, <1>2, <1>4, <1>5, CutLinks, CutTied
  <2>2. M["alias"] = L["alias"] \ {<<b, id>>}
    BY <1>1, <1>4 DEF Cut, IsLinks
  <2> QED BY <2>1, <2>2
<1>7. Joined(e1, b, id, "alias") = p
  BY <1>1, <1>2, JoinedReleased
<1>8. /\ DOMAIN e1 = DOMAIN p /\ e1 = [i \in DOMAIN p |-> e1[i]]
      /\ e1[b] = p[b] \/ e1[b] = [p[b] EXCEPT !.type = "normal"]
      /\ \A i \in DOMAIN p \ {b} : e1[i] = p[i]
  BY <1>2 DEF Released, Retyped
<1> HIDE DEF e1, L, M
<1>9. /\ e1[b].type \in {"normal", "aliasbase"} /\ e1[b].key = p[b].key
  BY <1>2, <1>8 DEF IsEntry
<1>10. DOMAIN r = DOMAIN p \ {id} /\ \A i \in DOMAIN p \ {id} : r[i] = e1[i]
  BY <1>8 DEF Drop
<1> HIDE DEF r, b
<1>11. LeftBase(p, id, L, b, e1, r, M)
  BY <1>2, <1>3, <1>4, <1>5, <1>6, <1>7, <1>8, <1>9, <1>10 DEF LeftBase
<1> QED BY <1>11 DEF L, e1, r, M, b

LEMMA AliasToNormalLeads ==
  ASSUME NEW p, IsPast(p), NEW id \in DOMAIN p, p[id].type = "alias", NEW b, b = p[id].base,
         NEW old, IsEntry(old), Norm(old) = p[id], NEW x, IsEntry(x), DOMAIN x = EntryFields, x.type = "normal",
         KeyFree(Drop(p, {id}), x)
  PROVE  \E q : IsPast(q) /\ Leads(<<RemoveAliasCommand(b, id), Edit(id, old, x)>>, p, q)
<1> DEFINE L == Links(p)
           e1 == Released(p, L, b, id, "alias")
           M == Cut(L, "alias", b, id)
           r == Drop(e1, {id})
           q == Put(r, id, Norm(x))
<1>1. /\ IsPast(r) /\ Links(r) = M /\ DOMAIN r = DOMAIN p \ {id}
      /\ DOMAIN e1 = DOMAIN p /\ e1 = [i \in DOMAIN p |-> e1[i]] /\ e1[id] = p[id]
      /\ \A i \in DOMAIN p \ {id} : r[i] = e1[i] /\ e1[i].key = p[i].key
      /\ b \in DOMAIN p /\ b # id /\ b \in Ids /\ id \in Ids
      /\ e1[b].type \in {"normal", "aliasbase"} /\ ~IsDependent(p[b])
      /\ <<b, id>> \in L["alias"] /\ <<b, id>> \notin M["alias"]
      /\ Joined(e1, b, id, "alias") = p /\ Tied(M, "alias", b, id) = L
  <2>1. LeftBase(p, id, L, b, e1, r, M)
    BY LeftIs
  <2> HIDE DEF L, e1, r, M
  <2> QED BY <2>1 DEF LeftBase
<1>2. old.key = p[id].key /\ old.expires = p[id].expires
  BY NormIs
<1>4. Put(e1, id, Norm(x)) = q
  <2>1. id \in DOMAIN e1
    BY <1>1
  <2> HIDE DEF e1
  <2> QED BY <2>1, PutAfterDrop
<1> HIDE DEF q, e1, M, L, r
<1>5. IsPast(q) /\ Links(q) = M
  <2>1. KeyFree(r, x)
    <3>1. DOMAIN r \subseteq DOMAIN p \ {id} /\ \A i \in DOMAIN r : r[i].key = p[i].key
      BY <1>1
    <3> QED BY <3>1, KeyStillFree
  <2>2. IsPast(Put(r, id, Norm(x))) /\ Links(Put(r, id, Norm(x))) = Links(r)
    BY <1>1, <2>1, NormalPast
  <2> QED BY <1>1, <2>2 DEF q
<1>6. Does(RemoveAliasCommand(b, id), <<p, L>>, <<e1, M>>, <<p, L>>, <<e1, M>>)
  <2>1. Does(RemoveAliasCommand(b, id), <<p, L>>, <<Released(p, L, b, id, "alias"), Cut(L, "alias", b, id)>>,
             <<Joined(e1, b, id, "alias"), Tied(M, "alias", b, id)>>, <<e1, M>>)
    BY <1>1, UntieDoes
  <2> QED BY <1>1, <2>1 DEF e1, M
<1>7. q[id] = Norm(x) /\ id \in DOMAIN q /\ Put(q, id, Norm(old)) = e1
  <2>1. Put(Put(e1, id, Norm(x)), id, e1[id]) = e1
    BY <1>1, PutIn
  <2>2. Put(e1, id, Norm(x))[id] = Norm(x) /\ id \in DOMAIN Put(e1, id, Norm(x))
    BY DEF Put
  <2> QED BY <1>1, <1>4, <2>1, <2>2
<1>8. Does(Edit(id, old, x), <<e1, M>>, <<q, M>>, <<e1, M>>, <<q, M>>)
  <2>1. id \in DOMAIN e1 /\ DOMAIN e1 = DOMAIN p /\ e1[id] = p[id] /\ \A i \in DOMAIN e1 : e1[i].key = p[i].key
    BY <1>1
  <2>2. Does(Edit(id, old, x), <<e1, M>>, <<q, M>>, <<Put(q, id, Norm(old)), M>>, <<q, M>>)
    BY <1>2, <1>4, <2>1, EditInPlace
  <2> QED BY <1>7, <2>2
<1>9. Leads(<<RemoveAliasCommand(b, id), Edit(id, old, x)>>, p, q)
  BY <1>5, <1>6, <1>8, TwoLead DEF Stage, L
<1> QED BY <1>5, <1>9

LEMMA RebaseLeads ==
  ASSUME NEW p, IsPast(p), NEW id \in DOMAIN p, p[id].type = "alias", NEW b, b = p[id].base,
         NEW base \in DOMAIN p \ {id}, base # b, p[base].type \in {"normal", "aliasbase"},
         NEW old, IsEntry(old), Norm(old) = p[id], NEW x, IsEntry(x), DOMAIN x = EntryFields, x.type = "alias",
         x.base = base, KeyFree(Drop(p, {id}), x)
  PROVE  \E q : IsPast(q) /\ Leads(<<RemoveAliasCommand(b, id), AddAliasCommand(base, id), Edit(id, old, x)>>, p, q)
<1> DEFINE L == Links(p)
           e1 == Released(p, L, b, id, "alias")
           M == Cut(L, "alias", b, id)
           r == Drop(e1, {id})
           q == Entered(r, id, x)
           e2 == Joined(e1, base, id, "alias")
           N == Tied(M, "alias", base, id)
           g2 == Put(q, id, Norm(old))
<1>1. /\ IsPast(r) /\ Links(r) = M /\ DOMAIN r = DOMAIN p \ {id}
      /\ DOMAIN e1 = DOMAIN p /\ e1 = [i \in DOMAIN p |-> e1[i]] /\ e1[id] = p[id]
      /\ \A i \in DOMAIN p \ {id} : r[i] = e1[i] /\ e1[i].key = p[i].key
      /\ \A i \in DOMAIN p \ {b} : e1[i] = p[i]
      /\ b \in DOMAIN p /\ b # id /\ b \in Ids /\ id \in Ids
      /\ e1[b].type \in {"normal", "aliasbase"} /\ ~IsDependent(p[b])
      /\ <<b, id>> \in L["alias"] /\ <<b, id>> \notin M["alias"]
      /\ IsLinks(M)
      /\ Joined(e1, b, id, "alias") = p /\ Tied(M, "alias", b, id) = L
  <2>1. LeftBase(p, id, L, b, e1, r, M)
    BY LeftIs
  <2> HIDE DEF L, e1, r, M
  <2> QED BY <2>1 DEF LeftBase
<1>2. old.key = p[id].key /\ old.expires = p[id].expires
  BY NormIs
<1>3. /\ IsDependent(x) /\ Norm(x) = x /\ "alias" \in Kinds /\ BaseType["alias"] = "aliasbase" /\ base \in Ids /\ ~x.expires
  BY AliasIs
<1>4. q = Put(e2, id, x)
  <2>1. base \in DOMAIN e1 /\ id \in DOMAIN e1 /\ base # id /\ x.type \in Kinds
    BY <1>1, <1>3
  <2> HIDE DEF e1
  <2>2. Put(Joined(e1, base, id, x.type), id, x) = Entered(Drop(e1, {id}), id, x)
    BY <2>1, JoinedEntered
  <2> QED BY <2>2
<1> HIDE DEF r, L, M, q, e1
<1>5. /\ IsPast(q) /\ Links(q) = N /\ <<base, id>> \notin M["alias"]
      /\ e1[base].type = IF Targets(M, "alias", base) = {} THEN "normal" ELSE "aliasbase"
      /\ IsEntry(e1[base])
  <2>1. r[base] = p[base] /\ r[base] = e1[base] /\ base \in DOMAIN r
    BY <1>1
  <2>2. KeyFree(r, x)
    <3>1. DOMAIN r \subseteq DOMAIN p \ {id} /\ \A i \in DOMAIN r : r[i].key = p[i].key
      BY <1>1
    <3> QED BY <3>1, KeyStillFree
  <2>3. id \in Ids \ DOMAIN r /\ x.base \in DOMAIN r /\ r[x.base].type \in {"normal", BaseType[x.type]}
    BY <1>1, <1>3, <2>1
  <2>4. /\ IsPast(q) /\ Links(q) = Tied(Links(r), x.type, x.base, id)
        /\ <<x.base, id>> \notin Links(r)[x.type]
        /\ r[x.base].type = IF Targets(Links(r), x.type, x.base) = {} THEN "normal" ELSE BaseType[x.type]
    <3>1. EntersWell(r, id, x, q)
      BY <1>1, <1>3, <2>2, <2>3, DependentEnters DEF q
    <3> QED BY <3>1 DEF EntersWell
  <2>5. IsEntry(p[base])
    BY PastIs
  <2> QED BY <1>1, <1>3, <2>1, <2>4, <2>5
<1>6. /\ DOMAIN e2 = DOMAIN p /\ e2 = [i \in DOMAIN p |-> e2[i]]
      /\ e2[base] = [e1[base] EXCEPT !.type = "aliasbase"]
      /\ e2[id] = [p[id] EXCEPT !.base = base]
      /\ Put(e2, id, p[id]) = Retyped(e1, base, "aliasbase")
  <2>1. base \in DOMAIN e1 /\ id \in DOMAIN e1 /\ base # id /\ e1 = [i \in DOMAIN e1 |-> e1[i]] /\ IsDependent(p[id])
    BY <1>1 DEF IsDependent, Kinds
  <2>2. /\ DOMAIN e2 = DOMAIN e1 /\ e2 = [i \in DOMAIN e1 |-> e2[i]]
        /\ e2[base] = [e1[base] EXCEPT !.type = BaseType["alias"]]
        /\ e2[id] = IF IsDependent(e1[id]) THEN [e1[id] EXCEPT !.base = base] ELSE e1[id]
        /\ Put(e2, id, e1[id]) = Retyped(e1, base, BaseType["alias"])
    BY <1>3, <2>1, JoinedIs
  <2> HIDE DEF e2
  <2> QED BY <1>1, <1>3, <2>1, <2>2
<1> HIDE DEF e2, g2
<1>7. g2 = Retyped(e1, base, "aliasbase") /\ q[id] = x /\ id \in DOMAIN q
  <2>1. Put(Put(e2, id, x), id, p[id]) = Put(e2, id, p[id])
    BY <1>6 DEF Put
  <2>2. Put(e2, id, x)[id] = x /\ id \in DOMAIN Put(e2, id, x)
    BY DEF Put
  <2> QED BY <1>4, <1>6, <2>1, <2>2 DEF g2
<1>8. Released(g2, N, base, id, "alias") = e1 /\ Cut(N, "alias", base, id) = M
  <2>1. Released(Retyped(e1, base, BaseType["alias"]), Tied(M, "alias", base, id), base, id, "alias") = e1
    <3>1. base \in DOMAIN e1 /\ e1 = [i \in DOMAIN e1 |-> e1[i]]
      BY <1>1
    <3> QED BY <1>1, <1>3, <1>5, <3>1, ReleasedRetyped
  <2>2. Cut(Tied(M, "alias", base, id), "alias", base, id) = M
    BY <1>1, <1>3, <1>5, CutTied
  <2> QED BY <1>3, <1>7, <2>1, <2>2
<1>9. base \in DOMAIN g2 /\ ~IsDependent(g2[base]) /\ <<base, id>> \in N["alias"]
  <2>1. g2[base] = [e1[base] EXCEPT !.type = "aliasbase"] /\ base \in DOMAIN g2
    BY <1>1, <1>7 DEF Retyped
  <2>2. g2[base].type = "aliasbase"
    BY <1>5, <2>1 DEF IsEntry
  <2>3. N["alias"] = M["alias"] \cup {<<base, id>>}
    BY <1>1, <1>3 DEF Tied, IsLinks
  <2> QED BY <2>1, <2>2, <2>3 DEF IsDependent, Kinds
<1>10. Does(RemoveAliasCommand(b, id), <<p, L>>, <<e1, M>>, <<p, L>>, <<e1, M>>)
  <2>1. Does(RemoveAliasCommand(b, id), <<p, L>>, <<Released(p, L, b, id, "alias"), Cut(L, "alias", b, id)>>,
             <<Joined(e1, b, id, "alias"), Tied(M, "alias", b, id)>>, <<e1, M>>)
    BY <1>1, UntieDoes
  <2> QED BY <1>1, <2>1 DEF e1, M
<1>11. Does(AddAliasCommand(base, id), <<e1, M>>, <<e2, N>>, <<e1, M>>, <<g2, N>>)
  <2>1. base \in DOMAIN e1 /\ id \in DOMAIN e1 /\ base # id /\ e1[base].type \in {"normal", "aliasbase"}
    BY <1>1, <1>5
  <2>2. Does(AddAliasCommand(base, id), <<e1, M>>, <<Joined(e1, base, id, "alias"), Tied(M, "alias", base, id)>>,
             <<Released(g2, N, base, id, "alias"), Cut(N, "alias", base, id)>>, <<g2, N>>)
    BY <1>5, <1>9, <2>1, TieDoes
  <2> QED BY <1>8, <2>2 DEF e2
<1>12. Does(Edit(id, old, x), <<e2, N>>, <<q, N>>, <<g2, N>>, <<q, N>>)
  <2>0. IsEntry(p[id])
    BY PastIs
  <2>1. e2[id].key = p[id].key /\ e2[id].expires = p[id].expires
    BY <1>6, <2>0 DEF IsEntry
  <2>2. e2[base].key = e1[base].key
    BY <1>5, <1>6 DEF IsEntry
  <2>3. \A i \in DOMAIN p \ {base, id} : e2[i] = e1[i]
    BY <1>1 DEF e2, Joined
  <2>4. \A i \in DOMAIN e2 : e2[i].key = p[i].key
    BY <1>1, <1>6, <2>1, <2>2, <2>3
  <2>5. Does(Edit(id, old, x), <<e2, N>>, <<q, N>>, <<Put(q, id, Norm(old)), N>>, <<q, N>>)
    BY <1>2, <1>3, <1>4, <1>6, <2>1, <2>4, EditInPlace
  <2> QED BY <2>5 DEF g2
<1>13. Leads(<<RemoveAliasCommand(b, id), AddAliasCommand(base, id), Edit(id, old, x)>>, p, q)
  <2> HIDE DEF N
  <2>1. <<p, L>> = Stage(p) /\ <<q, N>> = Stage(q)
    BY <1>5 DEF Stage, L
  <2> DEFINE s1 == <<e1, M>>
             s2 == <<e2, N>>
             t2 == <<g2, N>>
  <2>2. /\ Does(RemoveAliasCommand(b, id), Stage(p), s1, Stage(p), s1)
        /\ Does(AddAliasCommand(base, id), s1, s2, s1, t2)
        /\ Does(Edit(id, old, x), s2, Stage(q), t2, Stage(q))
    BY <1>10, <1>11, <1>12, <2>1
  <2> HIDE DEF s1, s2, t2
  <2> QED BY <2>2, ThreeLead
<1> QED BY <1>5, <1>13

-----------------------------------------------------------------------------
(* A base of aliases becomes an alias, and its aliases follow it.           *)

(* The entries S refer to another base. *)
Rebased(e, S, base) ==
    [i \in DOMAIN e |-> IF i \in S THEN [e[i] EXCEPT !.base = base] ELSE e[i]]

OneMoreRebased(e, S, S2, base, id) ==
    /\ Put(Rebased(e, S, base), id, [e[id] EXCEPT !.base = base]) = Rebased(e, S2, base)
    /\ Put(Rebased(e, S2, base), id, e[id]) = Rebased(e, S, base)
    /\ DOMAIN Rebased(e, S, base) = DOMAIN e
    /\ Rebased(e, S, base)[id] = e[id]
    /\ Rebased(e, S2, base)[id] = [e[id] EXCEPT !.base = base]

LEMMA RebasedOneMore ==
  ASSUME NEW e, e = [i \in DOMAIN e |-> e[i]], NEW S, NEW base, NEW id \in DOMAIN e, id \notin S, NEW S2, S2 = S \cup {id}
  PROVE  OneMoreRebased(e, S, S2, base, id)
<1> DEFINE f == Put(Rebased(e, S, base), id, [e[id] EXCEPT !.base = base])
           g == Rebased(e, S2, base)
           h == Put(Rebased(e, S2, base), id, e[id])
           j == Rebased(e, S, base)
<1>1. /\ DOMAIN f = DOMAIN e /\ DOMAIN g = DOMAIN e /\ DOMAIN h = DOMAIN e /\ DOMAIN j = DOMAIN e
      /\ f = [i \in DOMAIN f |-> f[i]] /\ g = [i \in DOMAIN g |-> g[i]]
      /\ h = [i \in DOMAIN h |-> h[i]] /\ j = [i \in DOMAIN j |-> j[i]]
  BY DEF Put, Rebased
<1>2. ASSUME NEW i \in DOMAIN e PROVE f[i] = g[i] /\ h[i] = j[i]
  BY DEF Put, Rebased
<1>3. j[id] = e[id] /\ g[id] = [e[id] EXCEPT !.base = base]
  BY DEF Rebased
<1> HIDE DEF f, g, h, j
<1>4. f = g
  BY <1>1, <1>2, SamePart
<1>5. h = j
  BY <1>1, <1>2, SamePart
<1> QED BY <1>1, <1>3, <1>4, <1>5 DEF f, g, h, j, OneMoreRebased

(* The links once id is an alias of base, and the aliases of id follow.     *)
Followed(L, id, base) == [Tied(L, "alias", base, id) EXCEPT !["alias"] = Moved(@, id, base)]

LEMMA FollowedIs ==
  ASSUME NEW L, IsLinks(L), NEW id \in Ids, NEW base \in Ids, base # id
  PROVE  /\ IsLinks(Followed(L, id, base))
         /\ \A b, i \in Ids : <<b, i>> \in Followed(L, id, base)["shortcut"] <=> <<b, i>> \in L["shortcut"]
         /\ \A b, i \in Ids : <<b, i>> \in Followed(L, id, base)["alias"] <=>
               \/ b # id /\ (<<b, i>> \in L["alias"] \/ (b = base /\ i = id))
               \/ b = base /\ <<id, i>> \in L["alias"]
<1> DEFINE M == Tied(L, "alias", base, id)
           N == Followed(L, id, base)
           A == M["alias"]
<1>1. "alias" \in Kinds /\ "shortcut" \in Kinds /\ \A kind \in Kinds : kind = "alias" \/ kind = "shortcut"
  BY DEF Kinds
<1>2. IsLinks(M)
  BY <1>1, CutLinks
<1>3. A = L["alias"] \cup {<<base, id>>} /\ M["shortcut"] = L["shortcut"]
  BY <1>1 DEF Tied, IsLinks
<1> HIDE DEF M
<1>4. Moved(A, id, base) \subseteq Ids \X Ids
  BY <1>1, <1>2 DEF Moved, IsLinks
<1>5. N = [M EXCEPT !["alias"] = Moved(A, id, base)]
  BY DEF M, Followed
<1>6. IsLinks(N) /\ N["alias"] = Moved(A, id, base) /\ N["shortcut"] = M["shortcut"]
  <2>1. IsLinks([M EXCEPT !["alias"] = Moved(A, id, base)])
    BY <1>1, <1>2, <1>4, BagLinks
  <2> QED BY <1>1, <1>2, <1>5, <2>1 DEF IsLinks
<1> HIDE DEF N
<1>7. ASSUME NEW b \in Ids, NEW i \in Ids
      PROVE  <<b, i>> \in N["alias"] <=>
               \/ b # id /\ (<<b, i>> \in L["alias"] \/ (b = base /\ i = id))
               \/ b = base /\ <<id, i>> \in L["alias"]
  <2>1. \A c \in Ids : <<c, i>> \in A <=> <<c, i>> \in L["alias"] \/ (c = base /\ i = id)
    BY <1>3
  <2>2. <<b, i>> \in Moved(A, id, base) <=> (b # id /\ <<b, i>> \in A) \/ (b = base /\ <<id, i>> \in A)
    BY DEF Moved
  <2> HIDE DEF A
  <2> QED BY <1>6, <2>1, <2>2
<1> QED BY <1>3, <1>6, <1>7 DEF N

Following(p, id, base, x, L, e1, T, q, M) ==
    /\ L = Links(p) /\ e1 = Joined(p, base, id, "alias") /\ T = Targets(L, "alias", id)
    /\ q = Put(Rebased(e1, T, base), id, x) /\ M = Followed(L, id, base)

LEMMA FollowPast ==
  ASSUME NEW p, IsPast(p), NEW id \in DOMAIN p, p[id].type = "aliasbase", NEW base \in DOMAIN p \ {id},
         p[base].type \in {"normal", "aliasbase"},
         NEW x, IsEntry(x), DOMAIN x = EntryFields, x.type = "alias", x.base = base, KeyFree(Drop(p, {id}), x),
         NEW L, NEW e1, NEW T, NEW q, NEW M, Following(p, id, base, x, L, e1, T, q, M)
  PROVE  IsPast(q) /\ Links(q) = M
<1>1. IsDependent(x) /\ Norm(x) = x /\ "alias" \in Kinds /\ BaseType["alias"] = "aliasbase" /\ base \in Ids /\ ~x.expires
  BY AliasIs
<1>2. /\ p = [i \in DOMAIN p |-> p[i]] /\ DOMAIN p \subseteq Ids /\ id \in Ids
      /\ \A i \in DOMAIN p : IsEntry(p[i]) /\ Norm(p[i]) = p[i] /\ DOMAIN p[i] = EntryFields
  BY PastIs
<1>3. \A i \in T : i \in DOMAIN p /\ p[i].type = "alias" /\ p[i].base = id
  BY <1>1, LinksIs DEF Targets, Following
<1>4. IsLinks(L)
  BY PastIsFit DEF Following
<1>5. DOMAIN q = DOMAIN p /\ q = [i \in DOMAIN q |-> q[i]]
  BY <1>2 DEF Put, Rebased, Joined, Following
<1>6. q[id] = x
  BY DEF Put, Following
<1>7. q[base] = [p[base] EXCEPT !.type = "aliasbase"]
  <2>1. base \notin T
    BY <1>3
  <2> QED BY <1>1, <2>1 DEF Put, Rebased, Joined, Following
<1>8. ASSUME NEW i \in DOMAIN p \ {id, base} PROVE q[i] = IF i \in T THEN [p[i] EXCEPT !.base = base] ELSE p[i]
  <2>1. ~(i = id /\ IsDependent(p[i]))
    OBVIOUS
  <2> QED BY <2>1 DEF Put, Rebased, Joined, Following
<1>9. ASSUME NEW i \in DOMAIN q
      PROVE /\ IsEntry(q[i]) /\ Norm(q[i]) = q[i] /\ DOMAIN q[i] = EntryFields
            /\ i # id => q[i].key = p[i].key
            /\ i \notin {id, base} => q[i].type = p[i].type
            /\ i \in T => q[i].base = base
            /\ i \notin T \cup {id} => q[i].base = p[i].base
  <2>1. CASE i = id
    BY <1>1, <1>3, <1>6, <2>1
  <2>2. CASE i = base
    <3>1. IsEntry(p[base]) /\ ~IsDependent(p[base]) /\ "aliasbase" \in Types \ Kinds /\ Norm(p[base]) = p[base]
      BY <1>2 DEF IsDependent, Kinds, Types
    <3>2. /\ IsEntry([p[base] EXCEPT !.type = "aliasbase"])
          /\ Norm([p[base] EXCEPT !.type = "aliasbase"]) = [Norm(p[base]) EXCEPT !.type = "aliasbase"]
          /\ [p[base] EXCEPT !.type = "aliasbase"].key = p[base].key
          /\ [p[base] EXCEPT !.type = "aliasbase"].base = p[base].base
      BY <3>1, RetypeIs
    <3>3. DOMAIN [p[base] EXCEPT !.type = "aliasbase"] = DOMAIN p[base]
      OBVIOUS
    <3>4. base \notin T
      BY <1>3
    <3> DEFINE y == [p[base] EXCEPT !.type = "aliasbase"]
    <3>5. IsEntry(y) /\ Norm(y) = y /\ y.key = p[base].key /\ y.base = p[base].base /\ DOMAIN y = EntryFields
      BY <1>2, <3>1, <3>2, <3>3
    <3>6. q[i] = y
      BY <1>7, <2>2
    <3> HIDE DEF y
    <3> QED BY <2>2, <3>4, <3>5, <3>6
  <2>3. CASE i \notin {id, base} /\ i \in T
    <3>1. q[i] = [p[i] EXCEPT !.base = base] /\ IsEntry(p[i]) /\ Norm(p[i]) = p[i]
      BY <1>2, <1>3, <1>8, <2>3
    <3>2. /\ IsEntry([p[i] EXCEPT !.base = base])
          /\ Norm([p[i] EXCEPT !.base = base]) = IF IsDependent(p[i]) THEN [Norm(p[i]) EXCEPT !.base = base] ELSE Norm(p[i])
          /\ [p[i] EXCEPT !.base = base].base = base
          /\ [p[i] EXCEPT !.base = base].key = p[i].key
          /\ [p[i] EXCEPT !.base = base].type = p[i].type
      BY <1>1, <3>1, RebaseIs
    <3>3. IsDependent(p[i])
      BY <1>3, <2>3 DEF IsDependent, Kinds
    <3>4. DOMAIN [p[i] EXCEPT !.base = base] = DOMAIN p[i]
      OBVIOUS
    <3> QED BY <1>2, <1>3, <2>3, <3>1, <3>2, <3>3, <3>4
  <2>4. CASE i \notin {id, base} /\ i \notin T
    BY <1>2, <1>5, <1>8, <2>4
  <2> QED BY <2>1, <2>2, <2>3, <2>4
<1>10. q[base].type = "aliasbase" /\ q[id].type = "alias" /\ q[id].base = base
  BY <1>2, <1>6, <1>7 DEF IsEntry
<1>11. /\ IsLinks(M)
       /\ \A b, i \in Ids : <<b, i>> \in M["shortcut"] <=> <<b, i>> \in L["shortcut"]
       /\ \A b, i \in Ids : <<b, i>> \in M["alias"] <=>
               \/ b # id /\ (<<b, i>> \in L["alias"] \/ (b = base /\ i = id))
               \/ b = base /\ <<id, i>> \in L["alias"]
  BY <1>1, <1>2, <1>4, FollowedIs DEF Following
<1>12. ASSUME NEW b, NEW i
       PROVE  /\ <<b, i>> \in L["alias"] <=> i \in DOMAIN p /\ p[i].type = "alias" /\ p[i].base = b
              /\ <<b, i>> \in L["shortcut"] <=> i \in DOMAIN p /\ p[i].type = "shortcut" /\ p[i].base = b
  <2>1. "alias" \in Kinds /\ "shortcut" \in Kinds
    BY DEF Kinds
  <2> QED BY <2>1, LinksIs DEF Following
<1>13. \A i \in Ids : i \in T <=> <<id, i>> \in L["alias"]
  BY DEF Targets, Following
<1>14. ASSUME NEW b \in Ids, NEW i \in Ids
       PROVE  <<b, i>> \in M["alias"] <=> i \in DOMAIN q /\ q[i].type = "alias" /\ q[i].base = b
  <2>0. /\ <<b, i>> \in M["alias"] <=>
               \/ b # id /\ (<<b, i>> \in L["alias"] \/ (b = base /\ i = id))
               \/ b = base /\ <<id, i>> \in L["alias"]
        /\ <<b, i>> \in L["alias"] <=> i \in DOMAIN p /\ p[i].type = "alias" /\ p[i].base = b
        /\ <<id, i>> \in L["alias"] <=> i \in DOMAIN p /\ p[i].type = "alias" /\ p[i].base = id
        /\ i \in T <=> <<id, i>> \in L["alias"]
    BY <1>2, <1>11, <1>12, <1>13
  <2>9. /\ i \in DOMAIN q /\ i \notin {id, base} => q[i].type = p[i].type
        /\ i \in DOMAIN q /\ i \in T => q[i].base = base
        /\ i \in DOMAIN q /\ i \notin T \cup {id} => q[i].base = p[i].base
    BY <1>9
  <2>8. i \in DOMAIN q <=> i \in DOMAIN p
    BY <1>5
  <2>1. CASE i = id
    BY <1>10, <2>0, <2>1, <2>8
  <2>2. CASE i = base
    BY <1>10, <2>0, <2>2, <2>8
  <2>3. CASE i \notin {id, base} /\ i \in T
    <3>1. i \in DOMAIN p /\ p[i].type = "alias" /\ p[i].base = id
      BY <1>3, <2>3
    <3>2. i \in DOMAIN q /\ q[i].type = "alias" /\ q[i].base = base
      BY <2>3, <2>8, <2>9, <3>1
    <3>3. /\ <<b, i>> \in L["alias"] <=> id = b
          /\ <<id, i>> \in L["alias"]
      BY <2>0, <3>1
    <3>4. <<b, i>> \in M["alias"] <=> b = base
      BY <2>0, <2>3, <3>3
    <3> QED BY <3>2, <3>4
  <2>4. CASE i \notin {id, base} /\ i \notin T
    <3>1. <<b, i>> \in M["alias"] <=> b # id /\ <<b, i>> \in L["alias"]
      BY <2>0, <2>4
    <3>2. i \in DOMAIN q => q[i].type = p[i].type /\ q[i].base = p[i].base
      BY <2>4, <2>9
    <3>3. ~(i \in DOMAIN p /\ p[i].type = "alias" /\ p[i].base = id)
      BY <2>0, <2>4
    <3>4. <<b, i>> \in M["alias"] <=> b # id /\ i \in DOMAIN p /\ p[i].type = "alias" /\ p[i].base = b
      BY <2>0, <3>1
    <3> QED BY <2>8, <3>2, <3>3, <3>4
  <2> QED BY <2>1, <2>2, <2>3, <2>4
<1>15. ASSUME NEW b \in Ids, NEW i \in Ids
       PROVE  <<b, i>> \in M["shortcut"] <=> i \in DOMAIN q /\ q[i].type = "shortcut" /\ q[i].base = b
  <2>1. CASE i = id
    BY <1>5, <1>10, <1>11, <1>12, <2>1
  <2>2. CASE i = base
    BY <1>5, <1>10, <1>11, <1>12, <2>2
  <2>3. CASE i \notin {id, base} /\ i \in T
    BY <1>3, <1>5, <1>9, <1>11, <1>12, <1>13, <2>3
  <2>4. CASE i \notin {id, base} /\ i \notin T
    BY <1>5, <1>9, <1>11, <1>12, <1>13, <2>4
  <2> QED BY <2>1, <2>2, <2>3, <2>4
<1>16. ASSUME NEW kind \in Kinds, NEW b \in Ids, NEW i \in Ids
       PROVE <<b, i>> \in M[kind] <=> i \in DOMAIN q /\ q[i].type = kind /\ q[i].base = b
  <2>1. kind = "alias" \/ kind = "shortcut"
    BY DEF Kinds
  <2>2. CASE kind = "alias"
    BY <1>14, <2>2
  <2>3. CASE kind = "shortcut"
    BY <1>15, <2>3
  <2> QED BY <2>1, <2>2, <2>3
<1>17. \A i \in DOMAIN p : IsDependent(p[i]) => p[i].base \in DOMAIN p /\ p[p[i].base].type = BaseType[p[i].type]
  BY PastIs
<1>18. BaseType["shortcut"] = "shortcutbase" /\ \A kind \in Kinds : kind = "alias" \/ kind = "shortcut"
  BY DEF BaseType, Kinds
<1>19. ASSUME NEW b \in Ids, NEW i \in Ids, <<b, i>> \in M["alias"] PROVE b \in DOMAIN q /\ q[b].type = "aliasbase"
  <2>1. CASE b = base
    BY <1>5, <1>10, <2>1
  <2>2. CASE b # base
    <3>1. b # id /\ <<b, i>> \in L["alias"]
      BY <1>11, <1>19, <2>2
    <3>2. b \in DOMAIN p /\ p[b].type = "aliasbase"
      BY <1>1, <1>12, <1>17, <3>1 DEF IsDependent
    <3> QED BY <1>5, <1>9, <2>2, <3>1, <3>2
  <2> QED BY <2>1, <2>2
<1>20. ASSUME NEW b \in Ids, NEW i \in Ids, <<b, i>> \in M["shortcut"] PROVE b \in DOMAIN q /\ q[b].type = "shortcutbase"
  <2>1. i \in DOMAIN p /\ p[i].type = "shortcut" /\ p[i].base = b
    BY <1>11, <1>12, <1>20
  <2>2. b \in DOMAIN p /\ p[b].type = "shortcutbase"
    BY <1>17, <1>18, <2>1 DEF IsDependent, Kinds
  <2> QED BY <1>5, <1>9, <2>2
<1>21. \A kind \in Kinds, b, i \in Ids : <<b, i>> \in M[kind] => b \in DOMAIN q /\ q[b].type = BaseType[kind]
  BY <1>1, <1>18, <1>19, <1>20
<1>22. \A kind \in Kinds : \A b \in DOMAIN p : p[b].type = BaseType[kind] => \E i \in DOMAIN p : p[i].type = kind /\ p[i].base = b
  BY PastIs
<1>23. ASSUME NEW b \in DOMAIN q, q[b].type = "aliasbase" PROVE \E i \in Ids : <<b, i>> \in M["alias"]
  <2>1. CASE b = base
    BY <1>1, <1>2, <1>11, <2>1
  <2>2. CASE b # base
    <3>1. b # id /\ p[b].type = "aliasbase" /\ b \in DOMAIN p
      BY <1>5, <1>9, <1>10, <1>23, <2>2
    <3>2. PICK i \in DOMAIN p : p[i].type = "alias" /\ p[i].base = b
      BY <1>1, <1>22, <3>1
    <3>3. b \in Ids /\ i \in Ids /\ <<b, i>> \in L["alias"]
      BY <1>2, <1>12, <3>1, <3>2
    <3>4. <<b, i>> \in M["alias"]
      BY <1>11, <3>1, <3>3
    <3> QED BY <3>3, <3>4
  <2> QED BY <2>1, <2>2
<1>24. ASSUME NEW b \in DOMAIN q, q[b].type = "shortcutbase" PROVE \E i \in Ids : <<b, i>> \in M["shortcut"]
  <2>1. b # id /\ b # base /\ p[b].type = "shortcutbase" /\ b \in DOMAIN p
    BY <1>5, <1>9, <1>10, <1>24
  <2>2. PICK i \in DOMAIN p : p[i].type = "shortcut" /\ p[i].base = b
    BY <1>18, <1>22, <2>1 DEF Kinds
  <2>3. <<b, i>> \in M["shortcut"]
    BY <1>2, <1>11, <1>12, <2>1, <2>2
  <2> QED BY <1>2, <2>3
<1>25. \A kind \in Kinds, b \in DOMAIN q : q[b].type = BaseType[kind] => Targets(M, kind, b) # {}
  <2>1. \A b \in DOMAIN q : q[b].type = "aliasbase" => Targets(M, "alias", b) # {}
    BY <1>23 DEF Targets
  <2>2. \A b \in DOMAIN q : q[b].type = "shortcutbase" => Targets(M, "shortcut", b) # {}
    BY <1>24 DEF Targets
  <2> QED BY <1>1, <1>18, <2>1, <2>2
<1>26. \A i, j \in DOMAIN q : i # j => q[i].key # q[j].key \/ q[i].key = NoKey
  <2>1. \A i, j \in DOMAIN p : i # j => p[i].key # p[j].key \/ p[i].key = NoKey
    BY PastIs
  <2>2. x.key = NoKey \/ \A i \in DOMAIN p \ {id} : p[i].key # x.key
    BY DEF KeyFree, Drop
  <2>3. \A i \in DOMAIN p \ {id} : q[i].key = p[i].key
    BY <1>5, <1>9
  <2> QED BY <1>5, <1>6, <2>1, <2>2, <2>3
<1>27. \A i \in DOMAIN q : IsEntry(q[i]) /\ Norm(q[i]) = q[i] /\ DOMAIN q[i] = EntryFields
  BY <1>9
<1>28. DOMAIN q \subseteq Ids
  BY <1>2, <1>5
<1>29. IsLinks(M) /\ q = [i \in DOMAIN q |-> q[i]]
  BY <1>5, <1>11
<1>30. \A kind \in Kinds, b, i \in Ids : <<b, i>> \in M[kind] <=> i \in DOMAIN q /\ q[i].type = kind /\ q[i].base = b
  BY <1>16
<1>31. \A kind \in Kinds, b, i \in Ids : <<b, i>> \in M[kind] <=> i \in DOMAIN q /\ q[i].type = kind /\ q[i].base = b
  BY <1>30
<1>32. IsPast(q) /\ Links(q) = M
  BY <1>30, <1>21, <1>25, <1>26, <1>27, <1>28, <1>29, PastFrom, SMTT(60)
<1> QED BY <1>32

(* The list of AliasBaseToAlias. *)
AliasBaseList(p, id, base, old, x, n, order, T, list) ==
    /\ IsPast(p)
    /\ id \in DOMAIN p
    /\ p[id].type = "aliasbase"
    /\ base \in DOMAIN p \ {id}
    /\ p[base].type \in {"normal", "aliasbase"}
    /\ IsEntry(old)
    /\ Norm(old) = p[id]
    /\ IsEntry(x)
    /\ DOMAIN x = EntryFields
    /\ x.type = "alias"
    /\ x.base = base
    /\ KeyFree(Drop(p, {id}), x)
    /\ n \in Nat
    /\ T = Targets(Links(p), "alias", id)
    /\ \A k \in 1 .. n : order[k] \in T
    /\ \A i \in T : \E k \in 1 .. n : order[k] = i
    /\ \A j, k \in 1 .. n : j < k => order[j] # order[k]
    /\ Len(list) = n + 3
    /\ list[1] = AddAliasCommand(base, id)
    /\ list[2] = MoveCommand(id, base)
    /\ \A k \in 1 .. n : list[k + 2] = Edit(order[k], p[order[k]], [p[order[k]] EXCEPT !.base = base])
    /\ list[n + 3] = Edit(id, old, x)

LEMMA AliasBaseToAliasLeads ==
  ASSUME NEW p, NEW id, NEW base, NEW old, NEW x, NEW n, NEW order, NEW T, NEW list,
         AliasBaseList(p, id, base, old, x, n, order, T, list)
  PROVE  \E q : IsPast(q) /\ Leads(list, p, q)
<1> SUFFICES ASSUME IsPast(p), id \in DOMAIN p, p[id].type = "aliasbase",
                    base \in DOMAIN p \ {id},
                    p[base].type \in {"normal", "aliasbase"},
                    IsEntry(old),
                    Norm(old) = p[id],
                    IsEntry(x),
                    DOMAIN x = EntryFields,
                    x.type = "alias",
                    x.base = base,
                    KeyFree(Drop(p, {id}), x),
                    n \in Nat,
                    T = Targets(Links(p), "alias", id),
                    \A k \in 1 .. n : order[k] \in T,
                    \A i \in T : \E k \in 1 .. n : order[k] = i,
                    \A j, k \in 1 .. n : j < k => order[j] # order[k],
                    Len(list) = n + 3,
                    list[1] = AddAliasCommand(base, id),
                    list[2] = MoveCommand(id, base),
                    \A k \in 1 .. n : list[k + 2] = Edit(order[k], p[order[k]], [p[order[k]] EXCEPT !.base = base]),
                    list[n + 3] = Edit(id, old, x)
             PROVE  \E q : IsPast(q) /\ Leads(list, p, q)
  BY DEF AliasBaseList
<1> DEFINE L == Links(p)
           L1 == Tied(L, "alias", base, id)
           e1 == Joined(p, base, id, "alias")
           q == Put(Rebased(e1, T, base), id, x)
           M == Followed(L, id, base)
           First(k) == {order[j] : j \in 1 .. k}
           S == [k \in 0 .. n + 3 |->
                    IF k = 0 THEN <<p, L>> ELSE IF k = 1 THEN <<e1, L1>>
                    ELSE IF k = n + 3 THEN <<q, M>> ELSE <<Rebased(e1, First(k - 2), base), M>>]
<1>1. Following(p, id, base, x, L, e1, T, q, M)
  BY DEF Following
<1>2. IsDependent(x) /\ Norm(x) = x /\ "alias" \in Kinds /\ BaseType["alias"] = "aliasbase" /\ base \in Ids /\ ~x.expires
  BY AliasIs
<1>3. /\ p = [i \in DOMAIN p |-> p[i]] /\ DOMAIN p \subseteq Ids /\ id \in Ids
      /\ \A i \in DOMAIN p : IsEntry(p[i]) /\ Norm(p[i]) = p[i]
  BY PastIs
<1>4. IsLinks(L) /\ T # {} /\ ~IsDependent(p[id])
  <2>1. IsLinks(L) /\ \A kind \in Kinds, b \in DOMAIN p : p[b].type = BaseType[kind] => Targets(L, kind, b) # {}
    BY PastIsFit
  <2> QED BY <1>2, <2>1 DEF IsDependent, Kinds
<1>5. old.key = p[id].key /\ old.expires = p[id].expires
  BY NormIs
<1>6. \A i \in T : i \in DOMAIN p /\ p[i].type = "alias" /\ p[i].base = id /\ i # id /\ i # base
  BY <1>2, LinksIs DEF Targets
<1>7. /\ DOMAIN e1 = DOMAIN p /\ e1 = [i \in DOMAIN e1 |-> e1[i]]
      /\ e1[base] = [p[base] EXCEPT !.type = "aliasbase"]
      /\ e1[id] = p[id] /\ \A i \in DOMAIN p \ {base, id} : e1[i] = p[i]
      /\ Put(e1, id, p[id]) = Retyped(p, base, "aliasbase")
  <2> DEFINE f == Joined(p, base, id, "alias")
  <2>1. /\ DOMAIN f = DOMAIN p /\ f = [i \in DOMAIN p |-> f[i]]
        /\ f[base] = [p[base] EXCEPT !.type = BaseType["alias"]]
        /\ f[id] = IF IsDependent(p[id]) THEN [p[id] EXCEPT !.base = base] ELSE p[id]
        /\ \A i \in DOMAIN p \ {base, id} : f[i] = p[i]
        /\ Put(f, id, p[id]) = Retyped(p, base, BaseType["alias"])
    BY <1>2, <1>3, JoinedIs
  <2> HIDE DEF f
  <2> QED BY <1>2, <1>4, <2>1 DEF f
<1>8. ASSUME NEW b, NEW i PROVE <<b, i>> \in L["alias"] <=> i \in DOMAIN p /\ p[i].type = "alias" /\ p[i].base = b
  BY <1>2, LinksIs
<1>9. <<base, id>> \notin L["alias"]
  BY <1>8
<1>10. p[base].type = IF Targets(L, "alias", base) = {} THEN "normal" ELSE BaseType["alias"]
  <2>1. /\ \A kind \in Kinds, b \in DOMAIN p : p[b].type = BaseType[kind] => Targets(L, kind, b) # {}
        /\ \A kind \in Kinds, b \in DOMAIN p : p[b].type # BaseType[kind] => Targets(L, kind, b) = {}
    BY PastIsFit
  <2> QED BY <1>2, <2>1
<1>11. /\ IsLinks(L1) /\ L1["alias"] = L["alias"] \cup {<<base, id>>}
       /\ M = [L1 EXCEPT !["alias"] = Moved(@, id, base)]
  <2>1. IsLinks(L1)
    BY <1>2, <1>3, <1>4, CutLinks
  <2>2. L1["alias"] = L["alias"] \cup {<<base, id>>}
    BY <1>2, <1>4 DEF Tied, IsLinks
  <2>3. M = [L1 EXCEPT !["alias"] = Moved(@, id, base)]
    BY DEF Followed
  <2> QED BY <2>1, <2>2, <2>3
<1> HIDE DEF e1, L, L1, q, M
<1>12. IsPast(q) /\ Links(q) = M
  BY <1>1, FollowPast
<1>13. Does(AddAliasCommand(base, id), <<p, L>>, <<e1, L1>>, <<p, L>>, <<e1, L1>>)
  <2>1. Released(e1, L1, base, id, "alias") = p
    <3>1. e1 = Retyped(p, base, "aliasbase")
      BY <1>7 DEF Put
    <3>2. IsEntry(p[base]) /\ base \in DOMAIN p
      BY <1>3
    <3>3. Released(Retyped(p, base, BaseType["alias"]), Tied(L, "alias", base, id), base, id, "alias") = p
      BY <1>2, <1>3, <1>4, <1>9, <1>10, <3>2, ReleasedRetyped
    <3> QED BY <1>2, <3>1, <3>3 DEF L1
  <2>2. Cut(L1, "alias", base, id) = L
    BY <1>2, <1>3, <1>4, <1>9, CutTied DEF L1
  <2>3. base \in DOMAIN e1 /\ ~IsDependent(e1[base]) /\ <<base, id>> \in L1["alias"]
    <3>1. e1[base].type = "aliasbase"
      BY <1>3, <1>7 DEF IsEntry
    <3> QED BY <1>7, <1>11, <3>1 DEF IsDependent, Kinds
  <2>4. Does(AddAliasCommand(base, id), <<p, L>>, <<Joined(p, base, id, "alias"), Tied(L, "alias", base, id)>>,
             <<Released(e1, L1, base, id, "alias"), Cut(L1, "alias", base, id)>>, <<e1, L1>>)
    BY <1>9, <2>3, TieDoes
  <2> QED BY <2>1, <2>2, <2>4 DEF e1, L1
<1>14. Does(MoveCommand(id, base), <<e1, L1>>, <<e1, M>>, <<e1, L1>>, <<e1, M>>)
  <2>1. \A i \in Targets(L1, "alias", id) : <<base, i>> \notin L1["alias"]
    <3>1. ASSUME NEW i \in Ids, <<id, i>> \in L1["alias"] PROVE <<base, i>> \notin L1["alias"]
      <4>1. <<id, i>> \in L["alias"]
        BY <1>11, <3>1
      <4>2. p[i].base = id /\ i \in T
        BY <1>8, <4>1 DEF Targets, L
      <4>3. i # id /\ <<base, i>> \notin L["alias"]
        BY <1>6, <1>8, <4>2
      <4> QED BY <1>11, <4>3
    <3> QED BY <3>1 DEF Targets
  <2>2. Targets(L1, "alias", id) # {}
    BY <1>4, <1>11 DEF Targets, L
  <2>3. LET N == [L1 EXCEPT !["alias"] = Moved(@, id, base)]
        IN  Does(MoveCommand(id, base), <<e1, L1>>, <<e1, N>>, <<e1, L1>>, <<e1, N>>)
    BY <1>2, <1>3, <2>1, <2>2, MoveDoes
  <2> QED BY <1>11, <2>3
<1>15. ASSUME NEW k \in 1 .. n
       PROVE  Does(list[k + 2], <<Rebased(e1, First(k - 1), base), M>>, <<Rebased(e1, First(k), base), M>>,
                   <<Rebased(e1, First(k - 1), base), M>>, <<Rebased(e1, First(k), base), M>>)
  <2> DEFINE i == order[k]
             y == [p[i] EXCEPT !.base = base]
             e == Rebased(e1, First(k - 1), base)
             g == Rebased(e1, First(k), base)
  <2>1. i \in DOMAIN p /\ e1[i] = p[i] /\ IsEntry(p[i]) /\ Norm(p[i]) = p[i] /\ IsDependent(p[i])
    <3>1. i \in T
      OBVIOUS
    <3> QED BY <1>3, <1>6, <1>7, <3>1 DEF IsDependent, Kinds
  <2>2. IsEntry(y) /\ Norm(y) = y /\ y.key = p[i].key /\ y.expires = p[i].expires
    BY <1>2, <2>1, RebaseIs
  <2>3. i \notin First(k - 1) /\ First(k) = First(k - 1) \cup {i}
    <3>1. 1 .. k = (1 .. k - 1) \cup {k} /\ \A j \in 1 .. k - 1 : j \in 1 .. n /\ j < k
      OBVIOUS
    <3> QED BY <3>1
  <2>4. list[k + 2] = Edit(i, p[i], y)
    OBVIOUS
  <2>5. /\ Put(e, i, y) = g /\ Put(g, i, p[i]) = e /\ i \in DOMAIN e /\ i \in DOMAIN g /\ e[i] = p[i] /\ g[i] = y
    <3> DEFINE F == First(k - 1)
               G == First(k)
    <3>1. G = F \cup {i} /\ i \notin F
      BY <2>3
    <3> HIDE DEF F, G
    <3> HIDE DEF i
    <3>4. i \in DOMAIN e1 /\ e1 = [z \in DOMAIN e1 |-> e1[z]]
      BY <1>7, <2>1
    <3>5. OneMoreRebased(e1, F, G, base, i)
      BY <3>1, <3>4, RebasedOneMore
    <3>2. /\ Put(Rebased(e1, F, base), i, [e1[i] EXCEPT !.base = base]) = Rebased(e1, G, base)
          /\ Put(Rebased(e1, G, base), i, e1[i]) = Rebased(e1, F, base)
          /\ DOMAIN Rebased(e1, F, base) = DOMAIN e1
          /\ Rebased(e1, F, base)[i] = e1[i]
          /\ Rebased(e1, G, base)[i] = [e1[i] EXCEPT !.base = base]
      BY <3>5 DEF OneMoreRebased
    <3>3. DOMAIN Rebased(e1, G, base) = DOMAIN e1
      BY DEF Rebased
    <3> QED BY <1>7, <2>1, <3>2, <3>3 DEF F, G
  <2> HIDE DEF y, e, g, i
  <2>6. Does(Edit(i, p[i], y), <<e, M>>, <<Put(e, i, Norm(y)), M>>, <<Put(g, i, Norm(p[i])), M>>, <<g, M>>)
    BY <2>1, <2>2, <2>5, EditSameKey
  <2>7. Does(list[k + 2], <<e, M>>, <<g, M>>, <<e, M>>, <<g, M>>)
    BY <2>1, <2>2, <2>4, <2>5, <2>6
  <2> QED BY <2>7 DEF e, g
<1>16. First(0) = {} /\ First(n) = T
  <2>1. 1 .. 0 = {}
    OBVIOUS
  <2> QED BY <2>1
<1>17. Rebased(e1, {}, base) = e1
  BY <1>7 DEF Rebased
<1>18. Does(Edit(id, old, x), <<Rebased(e1, T, base), M>>, <<q, M>>, <<Rebased(e1, T, base), M>>, <<q, M>>)
  <2> DEFINE e == Rebased(e1, T, base)
  <2>1. /\ DOMAIN e = DOMAIN p /\ e = [i \in DOMAIN e |-> e[i]] /\ e[id] = p[id]
    <3>1. id \notin T
      BY <1>6
    <3> QED BY <1>7, <3>1 DEF Rebased
  <2> HIDE DEF e
  <2>2. Put(Put(e, id, x), id, e[id]) = e
    BY <2>1, PutIn
  <2>3. q = Put(e, id, x)
    BY DEF q, e
  <2>4. \A i \in DOMAIN e : e[i].key = p[i].key
    <3>1. \A i \in DOMAIN p : IsEntry(p[i])
      BY <1>3
    <3>2. e1[base].key = p[base].key
      BY <1>7, <3>1 DEF IsEntry
    <3>3. \A i \in DOMAIN p : e1[i].key = p[i].key
      BY <1>7, <3>2
    <3>4. ASSUME NEW i \in DOMAIN p PROVE e[i].key = p[i].key
      <4>1. CASE i \in T
        <5>1. e1[i] = p[i] /\ e[i] = [p[i] EXCEPT !.base = base]
          BY <1>6, <1>7, <4>1 DEF e, Rebased
        <5> QED BY <3>1, <5>1 DEF IsEntry
      <4>2. CASE i \notin T
        BY <1>7, <3>3, <4>2 DEF e, Rebased
      <4> QED BY <4>1, <4>2
    <3> QED BY <2>1, <3>4
  <2>5. Does(Edit(id, old, x), <<e, M>>, <<q, M>>, <<Put(q, id, Norm(old)), M>>, <<q, M>>)
    BY <1>2, <1>5, <2>1, <2>3, <2>4, EditInPlace
  <2>7. Put(q, id, Norm(old)) = e
    <3>1. Put(Put(e, id, x), id, p[id]) = e
      BY <2>1, <2>2
    <3> QED BY <2>3, <3>1
  <2>6. Does(Edit(id, old, x), <<e, M>>, <<q, M>>, <<e, M>>, <<q, M>>)
    BY <2>5, <2>7
  <2> QED BY <2>6 DEF e
<1> HIDE DEF First
<1>19. /\ S[0] = <<p, L>> /\ S[n + 3] = <<q, M>> /\ S[1] = <<e1, L1>> /\ S[2] = <<e1, M>>
       /\ \A k \in 0 .. n : S[k + 2] = <<Rebased(e1, First(k), base), M>>
  <2>1. \A k \in 0 .. n : k + 2 \in 0 .. n + 3 /\ (k + 2) - 2 = k /\ k + 2 # n + 3 /\ k + 2 # 0 /\ k + 2 # 1
    OBVIOUS
  <2>2. 0 \in 0 .. n + 3 /\ 1 \in 0 .. n + 3 /\ n + 3 \in 0 .. n + 3 /\ n + 3 # 0 /\ n + 3 # 1 /\ 0 \in 0 .. n /\ 0 + 2 = 2
    OBVIOUS
  <2>3. \A k \in 0 .. n : S[k + 2] = <<Rebased(e1, First(k), base), M>>
    BY <2>1
  <2>4. S[0] = <<p, L>> /\ S[n + 3] = <<q, M>> /\ S[1] = <<e1, L1>>
    BY <2>2
  <2> HIDE DEF S
  <2>5. S[0 + 2] = <<Rebased(e1, First(0), base), M>>
    BY <2>2, <2>3
  <2>6. S[2] = <<e1, M>>
    BY <1>16, <1>17, <2>2, <2>5
  <2> QED BY <2>3, <2>4, <2>6
<1> HIDE DEF S
<1>20. ASSUME NEW k \in 1 .. n + 3 PROVE Does(list[k], S[k - 1], S[k], S[k - 1], S[k])
  <2>1. CASE k = 1
    <3>1. S[k - 1] = <<p, L>> /\ S[k] = <<e1, L1>> /\ list[k] = AddAliasCommand(base, id)
      BY <1>19, <2>1
    <3> QED BY <1>13, <3>1
  <2>2. CASE k = 2
    <3>1. S[k - 1] = <<e1, L1>> /\ S[k] = <<e1, M>> /\ list[k] = MoveCommand(id, base)
      BY <1>19, <2>2
    <3> QED BY <1>14, <3>1
  <2>3. CASE k = n + 3
    <3>1. S[n + 2] = <<Rebased(e1, T, base), M>> /\ k - 1 = n + 2
      BY <1>16, <1>19, <2>3
    <3> QED BY <1>18, <1>19, <2>3, <3>1
  <2>4. CASE k \notin {1, 2, n + 3}
    <3>1. PICK j \in 1 .. n : k = j + 2
      <4>1. k - 2 \in 1 .. n /\ k = (k - 2) + 2
        BY <2>4
      <4> QED BY <4>1
    <3>2. j - 1 \in 0 .. n /\ j \in 0 .. n /\ k - 1 = (j - 1) + 2
      BY <3>1
    <3>3. S[k] = <<Rebased(e1, First(j), base), M>> /\ S[k - 1] = <<Rebased(e1, First(j - 1), base), M>>
      BY <1>19, <3>1, <3>2
    <3> QED BY <1>15, <3>1, <3>3
  <2> QED BY <2>1, <2>2, <2>3, <2>4
<1>21. Leads(list, p, q)
  <2>1. S[0] = Stage(p) /\ S[n + 3] = Stage(q) /\ n + 3 \in Nat
    BY <1>12, <1>19 DEF Stage, L
  <2> QED BY <1>20, <2>1, StagesLead
<1> QED BY <1>12, <1>21

-----------------------------------------------------------------------------
(* A base of shortcuts becomes an alias, and its shortcuts go.              *)

(* id, no dependent yet, is linked to base. *)
Linking(p, id, base, L, e, M) ==
    /\ IsPast(p) /\ id \in DOMAIN p /\ ~IsDependent(p[id])
    /\ base \in DOMAIN p \ {id} /\ p[base].type \in {"normal", "aliasbase"}
    /\ L = Links(p) /\ e = Joined(p, base, id, "alias") /\ M = Tied(L, "alias", base, id)

Linked(p, id, base, L, e, M) ==
    /\ DOMAIN e = DOMAIN p /\ e = [i \in DOMAIN e |-> e[i]]
    /\ e[base] = [p[base] EXCEPT !.type = "aliasbase"] /\ e[base].type = "aliasbase"
    /\ \A i \in DOMAIN p \ {base} : e[i] = p[i]
    /\ \A b, i \in Ids : <<b, i>> \in M["alias"] <=> <<b, i>> \in L["alias"] \/ (b = base /\ i = id)
    /\ M["shortcut"] = L["shortcut"] /\ IsLinks(M)
    /\ \A i \in DOMAIN p : IsEntry(e[i]) /\ Norm(e[i]) = e[i] /\ e[i].key = p[i].key /\ (IsDependent(e[i]) <=> IsDependent(p[i]))

LEMMA LinkingIs ==
  ASSUME NEW p, NEW id, NEW base, NEW L, NEW e, NEW M, Linking(p, id, base, L, e, M)
  PROVE  Linked(p, id, base, L, e, M)
<1>1. "alias" \in Kinds /\ "shortcut" \in Kinds /\ BaseType["alias"] = "aliasbase" /\ "aliasbase" \in Types \ Kinds
  BY DEF Kinds, BaseType, Types
<1>2. /\ p = [i \in DOMAIN p |-> p[i]] /\ DOMAIN p \subseteq Ids
      /\ \A i \in DOMAIN p : IsEntry(p[i]) /\ Norm(p[i]) = p[i]
  BY PastIs DEF Linking
<1>3. IsLinks(L)
  BY PastIsFit DEF Linking
<1>4. id \in DOMAIN p /\ base \in DOMAIN p \ {id} /\ ~IsDependent(p[id]) /\ ~IsDependent(p[base]) /\ id \in Ids /\ base \in Ids
  BY <1>2 DEF Linking, IsDependent, Kinds
<1>5. DOMAIN e = DOMAIN p /\ e = [i \in DOMAIN e |-> e[i]]
  BY <1>1, <1>4 DEF Linking, Joined
<1>6. e[base] = [p[base] EXCEPT !.type = "aliasbase"]
  BY <1>1, <1>4 DEF Linking, Joined
<1>7. \A i \in DOMAIN p \ {base} : e[i] = p[i]
  BY <1>4 DEF Linking, Joined
<1>8. M = Tied(L, "alias", base, id) /\ IsLinks(M)
  BY <1>1, <1>3, <1>4, CutLinks DEF Linking
<1>9. M["alias"] = L["alias"] \cup {<<base, id>>} /\ M["shortcut"] = L["shortcut"]
  BY <1>1, <1>3, <1>8 DEF Tied, IsLinks
<1>10. /\ IsEntry(e[base]) /\ Norm(e[base]) = e[base] /\ e[base].key = p[base].key /\ e[base].type = "aliasbase"
  <2> DEFINE y == [p[base] EXCEPT !.type = "aliasbase"]
  <2>1. IsEntry(p[base]) /\ Norm(p[base]) = p[base]
    BY <1>2, <1>4
  <2>2. IsEntry(y) /\ Norm(y) = [Norm(p[base]) EXCEPT !.type = "aliasbase"] /\ y.type = "aliasbase" /\ y.key = p[base].key
    BY <1>1, <1>4, <2>1, RetypeIs
  <2> QED BY <1>6, <2>1, <2>2
<1>11. \A i \in DOMAIN p : IsEntry(e[i]) /\ Norm(e[i]) = e[i] /\ e[i].key = p[i].key /\ (IsDependent(e[i]) <=> IsDependent(p[i]))
  BY <1>2, <1>4, <1>7, <1>10 DEF IsDependent, Kinds
<1>12. \A b, i \in Ids : <<b, i>> \in M["alias"] <=> <<b, i>> \in L["alias"] \/ (b = base /\ i = id)
  BY <1>9
<1> QED BY <1>5, <1>6, <1>7, <1>8, <1>9, <1>10, <1>11, <1>12 DEF Linked

LEMMA LinkedFit ==
  ASSUME NEW p, NEW id, NEW base, NEW L, NEW e, NEW M, Linking(p, id, base, L, e, M)
  PROVE  IsFit(e, M)
<1>1. "alias" \in Kinds /\ "shortcut" \in Kinds /\ BaseType["alias"] = "aliasbase" /\ BaseType["shortcut"] = "shortcutbase"
      /\ \A kind \in Kinds : kind = "alias" \/ kind = "shortcut"
  BY DEF Kinds, BaseType
<1>2. Linked(p, id, base, L, e, M)
  BY LinkingIs
<1>3. IsPast(p) /\ L = Links(p) /\ id \in DOMAIN p /\ base \in DOMAIN p /\ base # id /\ ~IsDependent(p[id])
  BY DEF Linking
<1>4. IsFit(p, L) /\ DOMAIN p \subseteq Ids
  BY <1>3, PastIsFit, PastIs
<1>5. e = [i \in DOMAIN e |-> e[i]] /\ DOMAIN e = DOMAIN p /\ IsLinks(M)
  BY <1>2 DEF Linked
<1>6. \A i \in DOMAIN e : IsEntry(e[i]) /\ Norm(e[i]) = e[i]
  BY <1>2 DEF Linked
<1>7. \A i, j \in DOMAIN e : i # j => e[i].key # e[j].key \/ e[i].key = NoKey
  <2>1. \A i, j \in DOMAIN p : i # j => p[i].key # p[j].key \/ p[i].key = NoKey
    BY <1>4 DEF IsFit
  <2> QED BY <1>2, <2>1 DEF Linked
<1>8. \A i \in DOMAIN p : e[i].type = p[i].type \/ (i = base /\ e[i].type = "aliasbase")
  BY <1>2 DEF Linked
<1>9. \A i \in DOMAIN p : IsDependent(e[i]) => e[i] = p[i]
  BY <1>1, <1>2 DEF Linked, IsDependent, Kinds
<1>10. ASSUME NEW kind \in Kinds, NEW b \in Ids, NEW i \in Ids, <<b, i>> \in M[kind]
       PROVE  /\ b \in DOMAIN e /\ i \in DOMAIN e /\ e[b].type = BaseType[kind]
              /\ IsDependent(e[i]) => kind = e[i].type /\ b = e[i].base
  <2>1. CASE <<b, i>> \in L[kind]
    <3>1. b \in DOMAIN p /\ i \in DOMAIN p /\ p[b].type = BaseType[kind] /\ (IsDependent(p[i]) => kind = p[i].type /\ b = p[i].base)
      BY <1>4, <2>1 DEF IsFit
    <3>2. b = base => kind = "alias"
      BY <1>1, <3>1 DEF Linking
    <3> QED BY <1>1, <1>5, <1>8, <1>9, <3>1, <3>2
  <2>2. CASE kind = "alias" /\ b = base /\ i = id
    <3>1. ~IsDependent(e[id]) /\ e[base].type = "aliasbase"
      BY <1>2, <1>3 DEF Linked
    <3> QED BY <1>1, <1>3, <1>5, <2>2, <3>1
  <2> QED BY <1>1, <1>2, <1>10, <2>1, <2>2 DEF Linked
<1>11. ASSUME NEW i \in DOMAIN e, IsDependent(e[i]) PROVE <<e[i].base, i>> \in M[e[i].type]
  <2>1. e[i] = p[i] /\ i \in DOMAIN p /\ IsDependent(p[i])
    BY <1>5, <1>9, <1>11
  <2>2. <<p[i].base, i>> \in L[p[i].type] /\ p[i].type \in Kinds /\ i \in Ids /\ p[i].base \in Ids
    BY <1>4, <2>1, DependentIs
  <2>3. <<p[i].base, i>> \in M[p[i].type]
    BY <1>1, <1>2, <2>2 DEF Linked
  <2> QED BY <2>1, <2>3
<1>12. ASSUME NEW i \in DOMAIN e PROVE ~Bereft(e, M, {}, i)
  <2>1. ASSUME NEW kind \in Kinds, e[i].type = BaseType[kind] PROVE Targets(M, kind, i) # {}
    <3>0. i \in Ids /\ base \in Ids /\ id \in Ids
      BY <1>3, <1>4, <1>5
    <3>1. CASE i = base
      <4>1. kind = "alias" /\ <<base, id>> \in M["alias"]
        BY <1>1, <1>2, <2>1, <3>0, <3>1 DEF Linked
      <4> QED BY <3>0, <3>1, <4>1 DEF Targets
    <3>2. CASE i # base
      <4>1. p[i].type = BaseType[kind] /\ i \in DOMAIN p
        BY <1>5, <1>8, <2>1, <3>2
      <4>2. Targets(L, kind, i) # {}
        BY <1>4, <4>1 DEF IsFit, Bereft
      <4>3. PICK j \in Ids : <<i, j>> \in L[kind]
        BY <4>2 DEF Targets
      <4>4. <<i, j>> \in M[kind]
        BY <1>1, <1>2, <3>0, <4>3 DEF Linked
      <4> QED BY <4>4 DEF Targets
    <3> QED BY <3>1, <3>2
  <2> QED BY <2>1 DEF Bereft
<1>13. DOMAIN e \subseteq Ids
  BY <1>4, <1>5
<1>14. \A kind \in Kinds, b, i \in Ids : <<b, i>> \in M[kind] =>
          /\ b \in DOMAIN e /\ i \in DOMAIN e /\ e[b].type = BaseType[kind]
          /\ IsDependent(e[i]) => kind = e[i].type /\ b = e[i].base
  BY <1>10
<1> QED BY <1>5, <1>6, <1>7, <1>11, <1>12, <1>13, <1>14 DEF IsFit

LEMMA LinkingDoes ==
  ASSUME NEW p, NEW id, NEW base, NEW L, NEW e, NEW M, Linking(p, id, base, L, e, M)
  PROVE  Does(AddAliasCommand(base, id), <<p, L>>, <<e, M>>, <<p, L>>, <<e, M>>)
<1>1. "alias" \in Kinds /\ BaseType["alias"] = "aliasbase"
  BY DEF Kinds, BaseType
<1>2. Linked(p, id, base, L, e, M)
  BY LinkingIs
<1>3. /\ IsPast(p) /\ L = Links(p) /\ id \in DOMAIN p /\ base \in DOMAIN p /\ base # id /\ ~IsDependent(p[id])
      /\ p[base].type \in {"normal", "aliasbase"} /\ e = Joined(p, base, id, "alias") /\ M = Tied(L, "alias", base, id)
  BY DEF Linking
<1>4. /\ p = [i \in DOMAIN p |-> p[i]] /\ IsEntry(p[base]) /\ base \in Ids /\ id \in Ids
  BY <1>3, PastIs
<1>5. /\ IsLinks(L) /\ p[base].type = IF Targets(L, "alias", base) = {} THEN "normal" ELSE BaseType["alias"]
  <2>1. /\ IsLinks(L)
        /\ \A kind \in Kinds, b \in DOMAIN p : p[b].type = BaseType[kind] => Targets(L, kind, b) # {}
        /\ \A kind \in Kinds, b \in DOMAIN p : p[b].type # BaseType[kind] => Targets(L, kind, b) = {}
    BY <1>3, PastIsFit
  <2> QED BY <1>1, <1>3, <2>1
<1>6. <<base, id>> \notin L["alias"]
  BY <1>1, <1>3, LinksIs DEF IsDependent
<1>7. Released(e, M, base, id, "alias") = p
  <2>1. e = Retyped(p, base, BaseType["alias"])
    BY <1>1, <1>3, <1>4 DEF Joined, Retyped
  <2>2. Released(Retyped(p, base, BaseType["alias"]), Tied(L, "alias", base, id), base, id, "alias") = p
    BY <1>1, <1>3, <1>4, <1>5, <1>6, ReleasedRetyped
  <2> QED BY <1>3, <2>1, <2>2
<1>8. Cut(M, "alias", base, id) = L
  BY <1>1, <1>3, <1>4, <1>5, <1>6, CutTied
<1>9. base \in DOMAIN e /\ ~IsDependent(e[base]) /\ <<base, id>> \in M["alias"]
  BY <1>2, <1>3, <1>4 DEF Linked, IsDependent, Kinds
<1>10. Does(AddAliasCommand(base, id), <<p, L>>, <<Joined(p, base, id, "alias"), Tied(L, "alias", base, id)>>,
             <<Released(e, M, base, id, "alias"), Cut(M, "alias", base, id)>>, <<e, M>>)
  BY <1>3, <1>6, <1>9, TieDoes
<1>11. <<Joined(p, base, id, "alias"), Tied(L, "alias", base, id)>> = <<e, M>>
  BY <1>3
<1>12. <<Released(e, M, base, id, "alias"), Cut(M, "alias", base, id)>> = <<p, L>>
  BY <1>7, <1>8
<1> QED BY <1>10, <1>11, <1>12

(* The shortcuts of id are gone, and it is an alias. *)
Collapsed(p, id, base, x, L, e, M, A, f, f2, q, N) ==
    /\ Linking(p, id, base, L, e, M) /\ p[id].type = "shortcutbase"
    /\ A = Targets(L, "shortcut", id)
    /\ IsEntry(x) /\ DOMAIN x = EntryFields /\ x.type = "alias" /\ x.base = base
    /\ KeyFree(Drop(p, {id}), x)
    /\ f = Part(e, M, A, {}, {}) /\ f2 = Part(e, M, A, {}, {id})
    /\ q = Put(f, id, x) /\ N = Remaining(M, A)

CollapsedTo(p, id, base, e, A, f, f2) ==
    /\ IsStage(e, A, {}) /\ A \subseteq DOMAIN p \ {id, base}
    /\ \A i \in A : IsDependent(e[i]) /\ e[i] = p[i] /\ e[i].type = "shortcut" /\ e[i].base = id
    /\ DOMAIN f = DOMAIN p \ A /\ f = [i \in DOMAIN f |-> f[i]]
    /\ DOMAIN f2 = DOMAIN p \ A /\ f2 = [i \in DOMAIN f2 |-> f2[i]]
    /\ \A i \in DOMAIN p \ (A \cup {id}) : f[i] = e[i] /\ f2[i] = e[i]
    /\ f2[id] = p[id] /\ f[id].key = p[id].key /\ f[id].expires = p[id].expires

LEMMA CollapsedParts ==
  ASSUME NEW p, NEW id, NEW base, NEW x, NEW L, NEW e, NEW M, NEW A, NEW f, NEW f2, NEW q, NEW N,
         Collapsed(p, id, base, x, L, e, M, A, f, f2, q, N)
  PROVE  CollapsedTo(p, id, base, e, A, f, f2)
<1>1. "alias" \in Kinds /\ "shortcut" \in Kinds /\ BaseType["alias"] = "aliasbase" /\ BaseType["shortcut"] = "shortcutbase"
      /\ \A kind \in Kinds : kind = "alias" \/ kind = "shortcut"
  BY DEF Kinds, BaseType
<1>2. Linking(p, id, base, L, e, M) /\ A = Targets(L, "shortcut", id) /\ f = Part(e, M, A, {}, {}) /\ f2 = Part(e, M, A, {}, {id})
  BY DEF Collapsed
<1>3. Linked(p, id, base, L, e, M) /\ IsFit(e, M)
  BY <1>2, LinkingIs, LinkedFit
<1>4. IsPast(p) /\ L = Links(p) /\ id \in DOMAIN p /\ base \in DOMAIN p /\ base # id /\ ~IsDependent(p[id]) /\ ~IsDependent(p[base])
  BY <1>2 DEF Linking, IsDependent, Kinds
<1>5. ASSUME NEW i \in A PROVE i \in DOMAIN p \ {id, base} /\ IsDependent(e[i]) /\ e[i] = p[i] /\ e[i].type = "shortcut" /\ e[i].base = id
  <2>1. <<id, i>> \in L["shortcut"]
    BY <1>2 DEF Targets
  <2>2. i \in DOMAIN p /\ p[i].type = "shortcut" /\ p[i].base = id
    BY <1>1, <1>4, <2>1, LinksIs
  <2>3. i # id /\ i # base
    BY <1>1, <1>4, <2>2 DEF IsDependent
  <2> QED BY <1>1, <1>3, <2>2, <2>3 DEF Linked, IsDependent
<1>6. IsStage(e, A, {})
  <2>1. DOMAIN e = DOMAIN p
    BY <1>3 DEF Linked
  <2>2. ASSUME NEW i \in DOMAIN e, IsDependent(e[i]) PROVE e[i].base \notin A
    <3>1. ~IsDependent(e[e[i].base])
      BY <1>3, <2>2, DependentIs
    <3> QED BY <1>5, <3>1
  <2> QED BY <1>5, <2>1, <2>2 DEF IsStage
<1>7. \A i \in DOMAIN p : ~Bereft(e, M, {}, i)
  BY <1>3 DEF IsFit, Linked
<1>8. ASSUME NEW i \in DOMAIN p, i # id PROVE ~Bereft(e, M, A \cup {}, i)
  <2>1. ASSUME NEW kind \in Kinds, e[i].type = BaseType[kind], Targets(M, kind, i) \subseteq A PROVE FALSE
    <3>1. PICK j \in Ids : <<i, j>> \in M[kind] /\ j \in A
      BY <1>7, <2>1 DEF Bereft, Targets
    <3>2. i \in Ids
      BY <1>4, PastIs
    <3>3. IsDependent(e[j]) => i = e[j].base
      BY <1>3, <3>1, <3>2 DEF IsFit
    <3> QED BY <1>5, <1>8, <3>1, <3>3
  <2> QED BY <2>1 DEF Bereft
<1>9. ASSUME NEW F PROVE IsPart(Part(e, M, A, {}, F), e, M, A, {}, F)
  BY <1>3, <1>6, PartIs
<1>10. DOMAIN e = DOMAIN p /\ e[id] = p[id] /\ id \in DOMAIN p \ A
  BY <1>3, <1>4, <1>5 DEF Linked
<1>11. /\ DOMAIN f = DOMAIN p \ A /\ f = [i \in DOMAIN f |-> f[i]]
       /\ \A i \in DOMAIN p \ (A \cup {id}) : f[i] = e[i]
       /\ f[id].key = p[id].key /\ f[id].expires = p[id].expires
  <2>1. IsPart(f, e, M, A, {}, {})
    BY <1>2, <1>9
  <2> QED BY <1>8, <1>10, <2>1 DEF IsPart
<1>12. /\ DOMAIN f2 = DOMAIN p \ A /\ f2 = [i \in DOMAIN f2 |-> f2[i]]
       /\ \A i \in DOMAIN p \ (A \cup {id}) : f2[i] = e[i]
       /\ f2[id] = p[id]
  <2>1. IsPart(f2, e, M, A, {}, {id})
    BY <1>2, <1>9
  <2> QED BY <1>8, <1>10, <2>1 DEF IsPart
<1> QED BY <1>5, <1>6, <1>11, <1>12 DEF CollapsedTo

LEMMA CollapsedPast ==
  ASSUME NEW p, NEW id, NEW base, NEW x, NEW L, NEW e, NEW M, NEW A, NEW f, NEW f2, NEW q, NEW N,
         Collapsed(p, id, base, x, L, e, M, A, f, f2, q, N)
  PROVE  IsPast(q) /\ Links(q) = N
<1> DEFINE G == A \cup {id}
           r == Part(p, L, G, {}, {})
<1>1. "alias" \in Kinds /\ "shortcut" \in Kinds /\ BaseType["alias"] = "aliasbase" /\ BaseType["shortcut"] = "shortcutbase"
      /\ \A kind \in Kinds : kind = "alias" \/ kind = "shortcut"
  BY DEF Kinds, BaseType
<1>2. /\ Linking(p, id, base, L, e, M) /\ A = Targets(L, "shortcut", id) /\ q = Put(f, id, x) /\ N = Remaining(M, A)
      /\ IsEntry(x) /\ DOMAIN x = EntryFields /\ x.type = "alias" /\ x.base = base
      /\ KeyFree(Drop(p, {id}), x) /\ p[id].type = "shortcutbase"
  BY DEF Collapsed
<1>3. Linked(p, id, base, L, e, M)
  BY <1>2, LinkingIs
<1>4. /\ IsPast(p) /\ L = Links(p) /\ id \in DOMAIN p /\ base \in DOMAIN p /\ base # id /\ ~IsDependent(p[id])
      /\ p[base].type \in {"normal", "aliasbase"}
  BY <1>2 DEF Linking
<1>5. /\ A \subseteq DOMAIN p \ {id, base}
      /\ \A i \in A : IsDependent(e[i]) /\ e[i] = p[i] /\ e[i].type = "shortcut" /\ e[i].base = id
      /\ DOMAIN f = DOMAIN p \ A /\ f = [i \in DOMAIN f |-> f[i]]
      /\ \A i \in DOMAIN p \ (A \cup {id}) : f[i] = e[i]
  <2>1. CollapsedTo(p, id, base, e, A, f, f2)
    BY CollapsedParts
  <2> QED BY <2>1 DEF CollapsedTo
<1>6. /\ \A i \in DOMAIN p : IsDependent(p[i]) => p[i].base \in DOMAIN p /\ p[p[i].base].type = BaseType[p[i].type] /\ ~IsDependent(p[p[i].base])
      /\ DOMAIN p \subseteq Ids
  BY <1>4, PastIs
<1>7. IsFit(p, L) /\ IsLinks(L)
  BY <1>4, PastIsFit
<1>8. IsStage(p, G, {})
  <2>1. ASSUME NEW i \in DOMAIN p \ G, IsDependent(p[i]) PROVE p[i].base \notin G
    <3>1. p[i].base \notin A
      BY <1>5, <1>6, <2>1
    <3>2. ASSUME p[i].base = id PROVE FALSE
      <4>1. p[i].type \in Kinds
        BY <2>1 DEF IsDependent
      <4>2. p[i].type = "shortcut"
        BY <1>1, <1>2, <1>6, <2>1, <3>2, <4>1
      <4>3. <<id, i>> \in L["shortcut"] /\ i \in Ids
        BY <1>1, <1>4, <1>6, <3>2, <4>2, LinksIs
      <4> QED BY <1>2, <4>3 DEF Targets
    <3> QED BY <3>1, <3>2
  <2> QED BY <1>4, <1>5, <2>1 DEF IsStage
<1>9. IsPast(r) /\ Links(r) = Remaining(L, G)
  <2>1. IsPast(r) /\ Links(r) = Remaining(L, G \cup {})
    BY <1>4, <1>8, PartPast
  <2> QED BY <2>1
<1>10. ASSUME NEW i \in DOMAIN p \ G PROVE ~Bereft(p, L, G \cup {}, i)
  <2>1. ASSUME NEW kind \in Kinds, p[i].type = BaseType[kind], Targets(L, kind, i) \subseteq G PROVE FALSE
    <3>1. PICK j \in Ids : <<i, j>> \in L[kind] /\ j \in G
      BY <1>7, <2>1 DEF Bereft, Targets, IsFit
    <3>2. j \in DOMAIN p /\ p[j].type = kind /\ p[j].base = i
      BY <1>4, <3>1, LinksIs
    <3>3. j # id
      BY <1>4, <3>2 DEF IsDependent
    <3> QED BY <1>5, <3>1, <3>2, <3>3
  <2> QED BY <2>1 DEF Bereft
<1>11. DOMAIN r = DOMAIN p \ G /\ r = [i \in DOMAIN r |-> r[i]] /\ \A i \in DOMAIN p \ G : r[i] = p[i]
  <2>1. IsPart(r, p, L, G, {}, {})
    BY <1>7, <1>8, PartIs
  <2> HIDE DEF r, G
  <2> QED BY <1>10, <2>1 DEF IsPart
<1> HIDE DEF r
<1>12. KeyFree(r, x)
  <2>1. DOMAIN r \subseteq DOMAIN p \ {id} /\ \A i \in DOMAIN r : r[i].key = p[i].key
    BY <1>11
  <2> QED BY <1>2, <2>1, KeyStillFree
<1>13. /\ IsPast(Entered(r, id, x)) /\ Links(Entered(r, id, x)) = Tied(Links(r), "alias", base, id)
  <2>1. IsDependent(x)
    BY <1>1, <1>2 DEF IsDependent
  <2>2. id \in Ids \ DOMAIN r /\ x.base \in DOMAIN r /\ r[x.base].type \in {"normal", BaseType[x.type]}
    BY <1>1, <1>2, <1>4, <1>5, <1>6, <1>11
  <2>3. /\ IsPast(Entered(r, id, x)) /\ Links(Entered(r, id, x)) = Tied(Links(r), x.type, x.base, id)
    BY <1>2, <1>9, <1>12, <2>1, <2>2, EnteredPast
  <2> QED BY <1>2, <2>3
<1>14. Entered(r, id, x) = q
  <2> DEFINE g == Entered(r, id, x)
  <2>1. DOMAIN g = DOMAIN p \ A /\ g = [i \in DOMAIN g |-> g[i]] /\ DOMAIN q = DOMAIN p \ A /\ q = [i \in DOMAIN q |-> q[i]]
    BY <1>2, <1>4, <1>5, <1>11 DEF Entered, Put, Retyped
  <2>2. ASSUME NEW i \in DOMAIN p \ A PROVE g[i] = q[i]
    <3>1. CASE i = id
      BY <1>2, <3>1 DEF Entered, Put
    <3>2. CASE i = base
      <4>1. g[base] = [p[base] EXCEPT !.type = "aliasbase"]
        BY <1>1, <1>2, <1>4, <1>5, <1>11 DEF Entered, Put, Retyped
      <4>2. q[base] = e[base]
        BY <1>2, <1>4, <1>5 DEF Put
      <4> QED BY <1>3, <3>2, <4>1, <4>2 DEF Linked
    <3>3. CASE i \notin {id, base}
      <4>1. g[i] = p[i]
        BY <1>2, <1>11, <3>3 DEF Entered, Put, Retyped
      <4>2. q[i] = e[i]
        BY <1>2, <1>5, <3>3 DEF Put
      <4> QED BY <1>3, <3>3, <4>1, <4>2 DEF Linked
    <3> QED BY <3>1, <3>2, <3>3
  <2> HIDE DEF g
  <2>3. g = q
    BY <2>1, <2>2, SamePart
  <2> QED BY <2>3 DEF g
<1>15. Tied(Remaining(L, G), "alias", base, id) = N
  <2> DEFINE T == Tied(Remaining(L, G), "alias", base, id)
             K == Remaining(L, G)
  <2>0. base \in Ids /\ id \in Ids
    BY <1>4, <1>6
  <2>1. IsLinks(K) /\ IsLinks(N)
    BY <1>2, <1>3, <1>7, RemainingLinks DEF Linked
  <2>2. IsLinks(T)
    BY <1>1, <2>0, <2>1, CutLinks
  <2>3. ASSUME NEW kind \in Kinds, NEW b \in Ids, NEW i \in Ids PROVE <<b, i>> \in T[kind] <=> <<b, i>> \in N[kind]
    <3>1. <<b, i>> \in T[kind] <=> <<b, i>> \in K[kind] \/ (kind = "alias" /\ b = base /\ i = id)
      BY <1>1, <2>0, <2>1, CutIs
    <3>2. <<b, i>> \in K[kind] <=> <<b, i>> \in L[kind] /\ i \notin G
      BY RemainingIs
    <3>3. <<b, i>> \in N[kind] <=> <<b, i>> \in M[kind] /\ i \notin A
      BY <1>2, RemainingIs
    <3>4. <<b, i>> \in M[kind] <=> <<b, i>> \in L[kind] \/ (kind = "alias" /\ b = base /\ i = id)
      BY <1>1, <1>3 DEF Linked
    <3>5. <<b, id>> \notin L[kind]
      BY <1>4, LinksIs DEF IsDependent
    <3>6. id \notin A
      BY <1>5
    <3> HIDE DEF T, K
    <3> QED BY <3>1, <3>2, <3>3, <3>4, <3>5, <3>6
  <2> HIDE DEF T
  <2>4. T = N
    BY <2>1, <2>2, <2>3, SameLinks
  <2> QED BY <2>4 DEF T
<1> QED BY <1>9, <1>13, <1>14, <1>15

LEMMA PartNone ==
  ASSUME NEW e, NEW L, IsFit(e, L), NEW F
  PROVE  Part(e, L, {}, {}, F) = e /\ Remaining(L, {}) = L
<1>1. IsStage(e, {}, {})
  BY DEF IsStage
<1> DEFINE f == Part(e, L, {}, {}, F)
<1>2. IsPart(f, e, L, {}, {}, F)
  BY <1>1, PartIs
<1>3. {} \cup {} = {} /\ DOMAIN e \ {} = DOMAIN e /\ e = [i \in DOMAIN e |-> e[i]] /\ \A i \in DOMAIN e : ~Bereft(e, L, {}, i)
  BY DEF IsFit
<1> HIDE DEF f
<1>4. f = [i \in DOMAIN e |-> f[i]] /\ \A i \in DOMAIN e : f[i] = e[i]
  BY <1>2, <1>3 DEF IsPart
<1>5. f = e
  BY <1>3, <1>4
<1>6. Remaining(L, {}) = L
  BY DEF Remaining, IsFit, IsLinks
<1> QED BY <1>5, <1>6 DEF f

(* A shortcut of id goes, and comes back after id is a base again. *)
LEMMA ShortcutGoes ==
  ASSUME NEW e, NEW M, IsFit(e, M), IsFiniteSet(Ids), NEW id, NEW i \in DOMAIN e, IsDependent(e[i]), e[i].base = id,
         NEW A, IsStage(e, A, {}), i \notin A, NEW B, IsStage(e, B, {}), B = A \cup {i}, id \notin B,
         NEW c, IsDelete(c, e, M, i), {"op", "id", "entry", "deps"} \subseteq DOMAIN c
  PROVE  Does(c, <<Part(e, M, A, {}, {}), Remaining(M, A)>>, <<Part(e, M, B, {}, {}), Remaining(M, B)>>,
              <<Part(e, M, A, {}, {id}), Remaining(M, A)>>, <<Part(e, M, B, {}, {id}), Remaining(M, B)>>)
<1>1. \A b : Alike(b, c) => IsDelete(b, e, M, i)
  BY DeleteAlike
<1>2. WithShortcuts(e, M, i) = {i} /\ AliasesWith(e, M, i) = {} /\ ForcedWith(e, i) = {}
  BY DEF WithShortcuts, AliasesWith, ForcedWith, IsDependent, Kinds
<1> DEFINE R == {}
           F == {id}
<1>3. IsStage(e, A, R) /\ IsStage(e, B, R) /\ i \notin R /\ i \in DOMAIN e \ (A \cup R) /\ i \in B /\ e[i].base \notin B
  OBVIOUS
<1> HIDE DEF R, F
<1>4. LET A2 == A \cup WithShortcuts(e, M, i)
          R2 == R \cup (AliasesWith(e, M, i) \ A)
          B2 == B \ WithShortcuts(e, M, i)
          S2 == R \ AliasesWith(e, M, i)
          F2 == F \cup ForcedWith(e, i)
      IN  Does(c, <<Part(e, M, A, R, {}), Remaining(M, A \cup R)>>,
                  <<Part(e, M, A2, R2, {}), Remaining(M, A2 \cup R2)>>,
                  <<Part(e, M, B2, S2, F2), Remaining(M, B2 \cup S2)>>,
                  <<Part(e, M, B, R, F), Remaining(M, B \cup R)>>)
  BY <1>1, <1>3, DeleteDoes
<1>5. /\ A \cup WithShortcuts(e, M, i) = B /\ R \cup (AliasesWith(e, M, i) \ A) = {}
      /\ B \ WithShortcuts(e, M, i) = A /\ R \ AliasesWith(e, M, i) = {} /\ F \cup ForcedWith(e, i) = {id}
      /\ A \cup R = A /\ B \cup R = B /\ A \cup {} = A /\ B \cup {} = B /\ R = {} /\ F = {id}
  BY <1>2 DEF R, F
<1> QED BY <1>4, <1>5

(* The list of ShortcutBaseToAlias. *)
ShortcutBaseList(p, id, base, old, x, n, order, A, list) ==
    /\ IsPast(p)
    /\ id \in DOMAIN p
    /\ p[id].type = "shortcutbase"
    /\ base \in DOMAIN p \ {id}
    /\ p[base].type \in {"normal", "aliasbase"}
    /\ IsEntry(old)
    /\ Norm(old) = p[id]
    /\ IsEntry(x)
    /\ DOMAIN x = EntryFields
    /\ x.type = "alias"
    /\ x.base = base
    /\ KeyFree(Drop(p, {id}), x)
    /\ n \in Nat
    /\ A = Targets(Links(p), "shortcut", id)
    /\ \A k \in 1 .. n : order[k] \in A
    /\ \A i \in A : \E k \in 1 .. n : order[k] = i
    /\ \A j, k \in 1 .. n : j < k => order[j] # order[k]
    /\ Len(list) = n + 2
    /\ list[1] = AddAliasCommand(base, id)
    /\ \A k \in 1 .. n : IsDelete(list[k + 1], p, Links(p), order[k]) /\ {"op", "id", "entry", "deps"} \subseteq DOMAIN list[k + 1]
    /\ list[n + 2] = Edit(id, old, x)

LEMMA ShortcutBaseToAliasLeads ==
  ASSUME IsFiniteSet(Ids), NEW p, NEW id, NEW base, NEW old, NEW x, NEW n, NEW order, NEW A, NEW list,
         ShortcutBaseList(p, id, base, old, x, n, order, A, list)
  PROVE  \E q : IsPast(q) /\ Leads(list, p, q)
<1> SUFFICES ASSUME IsPast(p), id \in DOMAIN p, p[id].type = "shortcutbase",
                    base \in DOMAIN p \ {id},
                    p[base].type \in {"normal", "aliasbase"},
                    IsEntry(old),
                    Norm(old) = p[id],
                    IsEntry(x),
                    DOMAIN x = EntryFields,
                    x.type = "alias",
                    x.base = base,
                    KeyFree(Drop(p, {id}), x),
                    n \in Nat,
                    A = Targets(Links(p), "shortcut", id),
                    \A k \in 1 .. n : order[k] \in A,
                    \A i \in A : \E k \in 1 .. n : order[k] = i,
                    \A j, k \in 1 .. n : j < k => order[j] # order[k],
                    Len(list) = n + 2,
                    list[1] = AddAliasCommand(base, id),
                    \A k \in 1 .. n : IsDelete(list[k + 1], p, Links(p), order[k]) /\ {"op", "id", "entry", "deps"} \subseteq DOMAIN list[k + 1],
                    list[n + 2] = Edit(id, old, x)
             PROVE  \E q : IsPast(q) /\ Leads(list, p, q)
  BY DEF ShortcutBaseList
<1> DEFINE L == Links(p)
           e == Joined(p, base, id, "alias")
           M == Tied(L, "alias", base, id)
           f == Part(e, M, A, {}, {})
           f2 == Part(e, M, A, {}, {id})
           q == Put(f, id, x)
           N == Remaining(M, A)
           First(k) == {order[j] : j \in 1 .. k}
           S == [k \in 0 .. n + 2 |->
                    IF k = 0 THEN <<p, L>> ELSE IF k = n + 2 THEN <<q, N>>
                    ELSE <<Part(e, M, First(k - 1), {}, {}), Remaining(M, First(k - 1))>>]
           T == [k \in 0 .. n + 2 |->
                    IF k = 0 THEN <<p, L>> ELSE IF k = n + 2 THEN <<q, N>>
                    ELSE <<Part(e, M, First(k - 1), {}, {id}), Remaining(M, First(k - 1))>>]
<1>1. old.key = p[id].key /\ old.expires = p[id].expires
  BY NormIs
<1>2. Linking(p, id, base, L, e, M)
  BY DEF Linking, IsDependent, Kinds
<1>3. Collapsed(p, id, base, x, L, e, M, A, f, f2, q, N)
  BY <1>1, <1>2 DEF Collapsed
<1> HIDE DEF L, e, M, f, f2, q, N
<1>4. CollapsedTo(p, id, base, e, A, f, f2) /\ IsPast(q) /\ Links(q) = N
  BY <1>3, CollapsedParts, CollapsedPast
<1>5. Does(AddAliasCommand(base, id), <<p, L>>, <<e, M>>, <<p, L>>, <<e, M>>) /\ IsFit(e, M)
  BY <1>2, LinkingDoes, LinkedFit
<1>6. IsDependent(x) /\ Norm(x) = x /\ ~x.expires
  BY AliasIs
<1>7. Does(Edit(id, old, x), <<f, N>>, <<q, N>>, <<f2, N>>, <<q, N>>)
  <2>1. q = Put(f, id, x) /\ id \in DOMAIN f /\ id \in DOMAIN f2 /\ q[id] = x /\ id \in DOMAIN q
    BY <1>4 DEF q, CollapsedTo, Put
  <2>2. Put(q, id, p[id]) = f2
    <3> DEFINE g == Put(q, id, p[id])
    <3>1. DOMAIN f = DOMAIN p \ A /\ DOMAIN f2 = DOMAIN p \ A /\ f2 = [i \in DOMAIN f2 |-> f2[i]] /\ f2[id] = p[id]
          /\ \A i \in DOMAIN p \ (A \cup {id}) : f[i] = e[i] /\ f2[i] = e[i]
      BY <1>4 DEF CollapsedTo
    <3>2. DOMAIN g = DOMAIN p \ A /\ g = [i \in DOMAIN g |-> g[i]]
      BY <2>1, <3>1 DEF Put
    <3>3. \A i \in DOMAIN p \ A : g[i] = f2[i]
      BY <2>1, <3>1 DEF Put
    <3> HIDE DEF g
    <3>4. g = f2
      BY <3>1, <3>2, <3>3, SamePart
    <3> QED BY <3>4 DEF g
  <2>3. f[id].key = p[id].key /\ f[id].expires = p[id].expires
    BY <1>4 DEF CollapsedTo
  <2>5. DOMAIN f \subseteq DOMAIN p /\ \A i \in DOMAIN f : f[i].key = p[i].key
    <3>1. DOMAIN f = DOMAIN p \ A /\ \A i \in DOMAIN p \ (A \cup {id}) : f[i] = e[i]
      BY <1>4 DEF CollapsedTo
    <3>2. \A i \in DOMAIN p : e[i].key = p[i].key
      <4>1. \A i \in DOMAIN p : IsEntry(p[i])
        BY PastIs
      <4> QED BY <4>1 DEF e, Joined, IsEntry
    <3> QED BY <2>3, <3>1, <3>2
  <2>4. Does(Edit(id, old, x), <<f, N>>, <<q, N>>, <<Put(q, id, Norm(old)), N>>, <<q, N>>)
    BY <1>1, <1>6, <2>1, <2>3, <2>5, EditInPlace
  <2> QED BY <2>2, <2>4
<1>8. \A i \in A : i \in DOMAIN e /\ IsDependent(e[i]) /\ e[i] = p[i] /\ e[i].type = "shortcut" /\ e[i].base = id /\ i # id
  <2>1. DOMAIN e = DOMAIN p
    BY DEF e, Joined
  <2> QED BY <1>4, <2>1 DEF CollapsedTo
<1>9. \A B \in SUBSET A : IsStage(e, B, {}) /\ id \notin B
  <2>1. IsStage(e, A, {})
    BY <1>4 DEF CollapsedTo
  <2>2. \A i \in DOMAIN e : IsDependent(e[i]) => e[i].base \notin A
    <3>1. \A i \in DOMAIN e : IsDependent(e[i]) => ~IsDependent(e[e[i].base])
      BY <1>5, DependentIs
    <3> QED BY <1>8, <3>1
  <2> QED BY <1>8, <2>1, <2>2 DEF IsStage
<1>10. ASSUME NEW k \in 1 .. n
       PROVE  Does(list[k + 1],
                   <<Part(e, M, First(k - 1), {}, {}), Remaining(M, First(k - 1))>>,
                   <<Part(e, M, First(k), {}, {}), Remaining(M, First(k))>>,
                   <<Part(e, M, First(k - 1), {}, {id}), Remaining(M, First(k - 1))>>,
                   <<Part(e, M, First(k), {}, {id}), Remaining(M, First(k))>>)
  <2> DEFINE F == First(k - 1)
             G == First(k)
             i == order[k]
             c == list[k + 1]
  <2>1. i \notin F /\ G = F \cup {i} /\ F \subseteq A /\ G \subseteq A /\ i \in A
    <3>1. 1 .. k = (1 .. k - 1) \cup {k} /\ \A j \in 1 .. k - 1 : j \in 1 .. n /\ j < k
      OBVIOUS
    <3> QED BY <3>1
  <2>2. IsDelete(c, p, L, i) /\ {"op", "id", "entry", "deps"} \subseteq DOMAIN c
    BY DEF L
  <2> HIDE DEF First, F, G, i, c
  <2>3. i \in DOMAIN e /\ IsDependent(e[i]) /\ e[i] = p[i] /\ e[i].base = id /\ e[i].type = "shortcut"
    BY <1>8, <2>1
  <2>4. IsDelete(c, e, M, i)
    BY <2>2, <2>3 DEF IsDelete, BaseType, Kinds
  <2>5. IsStage(e, F, {}) /\ IsStage(e, G, {}) /\ id \notin G
    BY <1>9, <2>1
  <2>6. Does(c, <<Part(e, M, F, {}, {}), Remaining(M, F)>>, <<Part(e, M, G, {}, {}), Remaining(M, G)>>,
              <<Part(e, M, F, {}, {id}), Remaining(M, F)>>, <<Part(e, M, G, {}, {id}), Remaining(M, G)>>)
    BY <1>5, <2>1, <2>2, <2>3, <2>4, <2>5, ShortcutGoes
  <2> QED BY <2>6 DEF F, G, c
<1>11. First(0) = {} /\ First(n) = A
  <2>1. 1 .. 0 = {}
    OBVIOUS
  <2> QED BY <2>1
<1> HIDE DEF First
<1>12. \A F : Part(e, M, {}, {}, F) = e /\ Remaining(M, {}) = M
  BY <1>5, PartNone
<1>13. \A k \in 0 .. n : k + 1 \in 0 .. n + 2 /\ (k + 1) - 1 = k /\ k + 1 # n + 2 /\ k + 1 # 0
  OBVIOUS
<1>14. 0 \in 0 .. n + 2 /\ n + 2 \in 0 .. n + 2 /\ n + 2 # 0 /\ 0 \in 0 .. n /\ 0 + 1 = 1 /\ n \in 0 .. n
  OBVIOUS
<1>15. /\ S[0] = <<p, L>> /\ S[n + 2] = <<q, N>> /\ S[1] = <<e, M>> /\ S[n + 1] = <<f, N>>
       /\ \A k \in 0 .. n : S[k + 1] = <<Part(e, M, First(k), {}, {}), Remaining(M, First(k))>>
  <2>1. \A k \in 0 .. n : S[k + 1] = <<Part(e, M, First(k), {}, {}), Remaining(M, First(k))>>
    BY <1>13
  <2>2. S[0] = <<p, L>> /\ S[n + 2] = <<q, N>>
    BY <1>14
  <2> HIDE DEF S
  <2>3. S[0 + 1] = <<Part(e, M, First(0), {}, {}), Remaining(M, First(0))>>
        /\ S[n + 1] = <<Part(e, M, First(n), {}, {}), Remaining(M, First(n))>>
    BY <1>14, <2>1
  <2>4. S[1] = <<e, M>>
    BY <1>11, <1>12, <1>14, <2>3
  <2>5. S[n + 1] = <<f, N>>
    BY <1>11, <2>3 DEF f, N
  <2> QED BY <2>1, <2>2, <2>4, <2>5
<1>16. /\ T[0] = <<p, L>> /\ T[n + 2] = <<q, N>> /\ T[1] = <<e, M>> /\ T[n + 1] = <<f2, N>>
       /\ \A k \in 0 .. n : T[k + 1] = <<Part(e, M, First(k), {}, {id}), Remaining(M, First(k))>>
  <2>1. \A k \in 0 .. n : T[k + 1] = <<Part(e, M, First(k), {}, {id}), Remaining(M, First(k))>>
    BY <1>13
  <2>2. T[0] = <<p, L>> /\ T[n + 2] = <<q, N>>
    BY <1>14
  <2> HIDE DEF T
  <2>3. T[0 + 1] = <<Part(e, M, First(0), {}, {id}), Remaining(M, First(0))>>
        /\ T[n + 1] = <<Part(e, M, First(n), {}, {id}), Remaining(M, First(n))>>
    BY <1>14, <2>1
  <2>4. T[1] = <<e, M>>
    BY <1>11, <1>12, <1>14, <2>3
  <2>5. T[n + 1] = <<f2, N>>
    BY <1>11, <2>3 DEF f2, N
  <2> QED BY <2>1, <2>2, <2>4, <2>5
<1> HIDE DEF S, T
<1>17. ASSUME NEW k \in 1 .. n + 2 PROVE Does(list[k], S[k - 1], S[k], T[k - 1], T[k])
  <2>1. CASE k = 1
    <3>1. k - 1 = 0
      BY <2>1
    <3>2. S[k - 1] = <<p, L>> /\ S[k] = <<e, M>> /\ T[k - 1] = <<p, L>> /\ T[k] = <<e, M>> /\ list[k] = AddAliasCommand(base, id)
      BY <1>15, <1>16, <2>1, <3>1
    <3> QED BY <1>5, <3>2
  <2>2. CASE k = n + 2
    <3>1. k - 1 = n + 1
      BY <2>2
    <3>2. S[k - 1] = <<f, N>> /\ S[k] = <<q, N>> /\ T[k - 1] = <<f2, N>> /\ T[k] = <<q, N>> /\ list[k] = Edit(id, old, x)
      BY <1>15, <1>16, <2>2, <3>1
    <3> QED BY <1>7, <3>2
  <2>3. CASE k \notin {1, n + 2}
    <3>1. PICK j \in 1 .. n : k = j + 1
      <4>1. k - 1 \in 1 .. n /\ k = (k - 1) + 1
        BY <2>3
      <4> QED BY <4>1
    <3>2. j - 1 \in 0 .. n /\ j \in 0 .. n /\ k - 1 = (j - 1) + 1
      BY <3>1
    <3>3. S[k] = <<Part(e, M, First(j), {}, {}), Remaining(M, First(j))>> /\ S[k - 1] = <<Part(e, M, First(j - 1), {}, {}), Remaining(M, First(j - 1))>>
      BY <1>15, <3>1, <3>2
    <3>4. T[k] = <<Part(e, M, First(j), {}, {id}), Remaining(M, First(j))>> /\ T[k - 1] = <<Part(e, M, First(j - 1), {}, {id}), Remaining(M, First(j - 1))>>
      BY <1>16, <3>1, <3>2
    <3> QED BY <1>10, <3>1, <3>3, <3>4
  <2> QED BY <2>1, <2>2, <2>3
<1>18. Leads(list, p, q)
  <2>1. S[0] = Stage(p) /\ S[n + 2] = Stage(q) /\ T[0] = Stage(p) /\ T[n + 2] = Stage(q) /\ n + 2 \in Nat
    BY <1>4, <1>15, <1>16 DEF Stage, L
  <2> DEFINE m == n + 2
  <2>2. \A k \in 1 .. m : Does(list[k], S[k - 1], S[k], T[k - 1], T[k])
    BY <1>17
  <2>3. m \in Nat /\ Len(list) = m /\ S[0] = Stage(p) /\ S[m] = Stage(q) /\ T[0] = Stage(p) /\ T[m] = Stage(q)
    BY <2>1
  <2> HIDE DEF m
  <2> QED BY <2>2, <2>3, StagesLead, SMTT(120)
<1> QED BY <1>4, <1>18

-----------------------------------------------------------------------------
(* Lists whose elements need not be of one set. *)

IsList(s) == Len(s) \in Nat /\ s = [k \in 1 .. Len(s) |-> s[k]]

LEMMA ListIsSeq ==
  ASSUME NEW s, IsList(s), NEW S, \A k \in 1 .. Len(s) : s[k] \in S
  PROVE  s \in Seq(S)
<1>1. s \in [1 .. Len(s) -> S] /\ Len(s) \in Nat
  BY DEF IsList
<1> QED BY <1>1, SeqDef

LEMMA SeqIsList ==
  ASSUME NEW S, NEW s \in Seq(S)
  PROVE  IsList(s)
  BY LenProperties DEF IsList

Prolonged(t, s, n, x) ==
    /\ IsList(t) /\ Len(t) = n + 1 /\ t[n + 1] = x
    /\ \A k \in 1 .. n : t[k] = s[k]

LEMMA ListExtended ==
  ASSUME NEW s, IsList(s), NEW n \in 0 .. Len(s), NEW x, NEW t, t = Append(SubSeq(s, 1, n), x)
  PROVE  Prolonged(t, s, n, x)
<1> DEFINE S == {s[k] : k \in 1 .. Len(s)} \cup {x}
           u == SubSeq(s, 1, n)
<1>1. \A k \in 1 .. n : s[k] \in S
  BY DEF IsList
<1> HIDE DEF S
<1>2. u \in Seq(S) /\ Len(u) = n /\ \A k \in 1 .. n : u[k] = s[k]
  <2>1. Len(s) \in Nat /\ 1 \in Int /\ n \in Int /\ n \in Nat
    BY DEF IsList
  <2>2. /\ u \in Seq(S) /\ Len(u) = (IF 1 <= n THEN n - 1 + 1 ELSE 0)
        /\ \A k \in 1 .. n - 1 + 1 : u[k] = s[1 + k - 1]
    BY <1>1, <2>1, SubSeqProperties
  <2>3. \A k \in 1 .. n : k \in 1 .. n - 1 + 1 /\ 1 + k - 1 = k
    BY <2>1
  <2> HIDE DEF u
  <2>4. Len(u) = n
    BY <2>1, <2>2
  <2>5. ASSUME NEW k \in 1 .. n PROVE u[k] = s[k]
    <3>1. k \in 1 .. n - 1 + 1 /\ 1 + k - 1 = k
      BY <2>3
    <3>2. u[k] = s[1 + k - 1]
      BY <2>2, <3>1
    <3> QED BY <3>1, <3>2
  <2> QED BY <2>2, <2>4, <2>5
<1>3. x \in S /\ t = Append(u, x)
  BY DEF S
<1> HIDE DEF u
<1>4. /\ t \in Seq(S) /\ Len(t) = Len(u) + 1 /\ t[Len(u) + 1] = x
      /\ \A k \in 1 .. Len(u) : t[k] = u[k]
  BY <1>2, <1>3, AppendProperties
<1> QED BY <1>2, <1>4, SeqIsList DEF Prolonged

(* A list of one, or of several parts. *)
LEMMA ListJoined ==
  ASSUME NEW s, IsList(s), NEW t, IsList(t)
  PROVE  /\ IsList(s \o t) /\ Len(s \o t) = Len(s) + Len(t)
         /\ \A k \in 1 .. Len(s) : (s \o t)[k] = s[k]
         /\ \A k \in 1 .. Len(t) : (s \o t)[Len(s) + k] = t[k]
<1> DEFINE S == {s[k] : k \in 1 .. Len(s)} \cup {t[k] : k \in 1 .. Len(t)}
<1>1. s \in Seq(S) /\ t \in Seq(S)
  <2>1. (\A k \in 1 .. Len(s) : s[k] \in S) /\ (\A k \in 1 .. Len(t) : t[k] \in S)
    OBVIOUS
  <2> HIDE DEF S
  <2> QED BY <2>1, ListIsSeq
<1> HIDE DEF S
<1>2. /\ s \o t \in Seq(S) /\ Len(s \o t) = Len(s) + Len(t)
      /\ \A i \in 1 .. Len(s) + Len(t) : (s \o t)[i] = IF i <= Len(s) THEN s[i] ELSE t[i - Len(s)]
  BY <1>1, ConcatProperties
<1>3. Len(s) \in Nat /\ Len(t) \in Nat
  BY DEF IsList
<1> DEFINE u == s \o t
           m == Len(s)
           n == Len(t)
<1>4. m \in Nat /\ n \in Nat /\ \A i \in 1 .. m + n : u[i] = IF i <= m THEN s[i] ELSE t[i - m]
  BY <1>2, <1>3
<1>5. IsList(u) /\ Len(u) = m + n
  BY <1>2, SeqIsList
<1> HIDE DEF u, m, n
<1>6. ASSUME NEW k \in 1 .. m PROVE u[k] = s[k]
  BY <1>4
<1>7. ASSUME NEW k \in 1 .. n PROVE u[m + k] = t[k]
  <2>1. m + k \in 1 .. m + n /\ ~(m + k <= m) /\ (m + k) - m = k
    BY <1>4
  <2> QED BY <1>4, <2>1
<1> QED BY <1>5, <1>6, <1>7 DEF u, m, n

LEMMA ShortLists ==
  /\ \A a : IsList(<<a>>) /\ Len(<<a>>) = 1 /\ <<a>>[1] = a
  /\ \A a, b : IsList(<<a, b>>) /\ Len(<<a, b>>) = 2 /\ <<a, b>>[1] = a /\ <<a, b>>[2] = b
  /\ \A a, b, c : IsList(<<a, b, c>>) /\ Len(<<a, b, c>>) = 3
  BY DEF IsList

(* The elements of a finite set in some order. *)
LEMMA OrderIs ==
  ASSUME NEW S, IsFiniteSet(S), NEW order \in SetToSeqs(S)
  PROVE  \E n \in Nat : /\ n = Cardinality(S) /\ DOMAIN order = 1 .. n /\ \A k \in 1 .. n : order[k] \in S
                        /\ \A x \in S : \E k \in 1 .. n : order[k] = x
                        /\ \A j, k \in 1 .. n : j < k => order[j] # order[k]
<1> DEFINE n == Cardinality(S)
<1>1. n \in Nat
  BY FS_CardinalityType
<1>2. order \in [1 .. n -> S] /\ \A i, j \in 1 .. n : i # j => order[i] # order[j]
  BY DEF SetToSeqs
<1>3. order \in Injection(1 .. n, S)
  BY <1>2 DEF Injection, IsInjective
<1>4. Cardinality(1 .. n) = n
  BY <1>1, FS_Interval
<1>5. order \in Surjection(1 .. n, S)
  BY <1>3, <1>4, FS_Injection
<1>6. \A x \in S : \E k \in 1 .. n : order[k] = x
  BY <1>5 DEF Surjection
<1> HIDE DEF n
<1>7. DOMAIN order = 1 .. n /\ (\A k \in 1 .. n : order[k] \in S) /\ (\A j, k \in 1 .. n : j < k => order[j] # order[k])
  BY <1>1, <1>2
<1>8. n = Cardinality(S)
  BY DEF n
<1> QED BY <1>1, <1>6, <1>7, <1>8

-----------------------------------------------------------------------------
(* What the database is when it has the entries p. *)

FullView(p) ==
    [deps |-> Bag(Links(p)), keys |-> [key \in Keys |-> HolderOf(p, key)],
     expired |-> SetToBag(Expiring(p)), entries |-> p]

LEMMA HoldersAre ==
  ASSUME NEW keys, NEW e, KeysAre(keys, e), DOMAIN e \subseteq Ids, NEW key \in Keys
  PROVE  keys[key] = HolderOf(e, key)
<1>1. /\ keys[key] \in Ids \cup {NoId}
      /\ \A i \in Ids : keys[key] = i <=> i \in DOMAIN e /\ e[i].key = key
  BY DEF KeysAre
<1>2. CASE \E i \in DOMAIN e : e[i].key = key
  <2>1. HolderOf(e, key) \in DOMAIN e /\ e[HolderOf(e, key)].key = key
    BY <1>2 DEF HolderOf
  <2> QED BY <1>1, <2>1
<1>3. CASE ~\E i \in DOMAIN e : e[i].key = key
  <2>1. HolderOf(e, key) = NoId
    BY <1>3 DEF HolderOf
  <2> QED BY <1>1, <1>3, <2>1
<1> QED BY <1>2, <1>3

(* The database agrees with the entries p, one by one. *)
Agrees(d, p) ==
    /\ DOMAIN d.entries = DOMAIN p /\ d.sound /\ d.deps = Bag(Links(p)) /\ d.expired = SetToBag(Expiring(p))
    /\ d.entries = [i \in DOMAIN p |-> d.entries[i]]
    /\ KeysAre(d.keys, p) /\ d.keys = [key \in Keys |-> HolderOf(p, key)]
    /\ \A i \in DOMAIN p :
          /\ IsEntry(d.entries[i]) /\ p[i] = Norm(d.entries[i]) /\ DOMAIN d.entries[i] = EntryFields
          /\ d.entries[i].type = p[i].type /\ d.entries[i].key = p[i].key /\ d.entries[i].expires = p[i].expires
          /\ d.entries[i].password = p[i].password
          /\ IsDependent(d.entries[i]) <=> IsDependent(p[i])
          /\ IsDependent(p[i]) => d.entries[i] = p[i]

LEMMA AtParts ==
  ASSUME NEW p, IsPast(p), NEW d, At(d, p)
  PROVE  Agrees(d, p)
<1>1. /\ Db(d, d.entries, Bag(Links(p)), d.keys, SetToBag(Expiring(p)))
      /\ d.entries = [i \in DOMAIN p |-> d.entries[i]] /\ DOMAIN d.entries = DOMAIN p
      /\ DOMAIN p \subseteq Ids
      /\ \A i \in DOMAIN p : IsEntry(d.entries[i]) /\ p[i] = Norm(d.entries[i])
      /\ KeysAre(d.keys, p)
  BY StoParts DEF At
<1>2. d.sound /\ d.deps = Bag(Links(p)) /\ d.expired = SetToBag(Expiring(p))
  BY <1>1 DEF Db
<1>3. d.keys = [key \in Keys |-> HolderOf(p, key)]
  <2>1. d.keys = [key \in Keys |-> d.keys[key]]
    BY <1>1 DEF KeysAre
  <2>2. \A key \in Keys : d.keys[key] = HolderOf(p, key)
    BY <1>1, HoldersAre
  <2> QED BY <2>1, <2>2
<1>4. ASSUME NEW i \in DOMAIN p
      PROVE  /\ DOMAIN d.entries[i] = EntryFields
             /\ d.entries[i].type = p[i].type /\ d.entries[i].key = p[i].key /\ d.entries[i].expires = p[i].expires
             /\ d.entries[i].password = p[i].password
             /\ IsDependent(d.entries[i]) <=> IsDependent(p[i])
             /\ IsDependent(p[i]) => d.entries[i] = p[i]
  <2>1. DOMAIN p[i] = EntryFields
    BY PastIs
  <2> DEFINE x == d.entries[i]
  <2>2. IsEntry(x) /\ p[i] = Norm(x)
    BY <1>1
  <2> HIDE DEF x
  <2>3. /\ DOMAIN Norm(x) = DOMAIN x
        /\ Norm(x).type = x.type /\ Norm(x).key = x.key
        /\ Norm(x).expires = x.expires /\ Norm(x).password = x.password
        /\ IsDependent(Norm(x)) <=> IsDependent(x)
        /\ IsDependent(x) => Norm(x) = x
    BY <2>2, NormIs
  <2>4. /\ DOMAIN x = EntryFields
        /\ x.type = p[i].type /\ x.key = p[i].key /\ x.expires = p[i].expires /\ x.password = p[i].password
        /\ IsDependent(x) <=> IsDependent(p[i])
        /\ IsDependent(p[i]) => x = p[i]
    BY <2>1, <2>2, <2>3
  <2> QED BY <2>4 DEF x
<1> QED BY <1>1, <1>2, <1>3, <1>4 DEF Agrees

LEMMA AtView ==
  ASSUME NEW p, IsPast(p), NEW d, At(d, p)
  PROVE  View(d) = FullView(p)
<1>1. /\ DOMAIN d.entries = DOMAIN p /\ d.deps = Bag(Links(p)) /\ d.expired = SetToBag(Expiring(p))
      /\ d.keys = [key \in Keys |-> HolderOf(p, key)]
      /\ \A i \in DOMAIN p : p[i] = Norm(d.entries[i])
  <2>1. Agrees(d, p)
    BY AtParts
  <2> QED BY <2>1 DEF Agrees
<1>2. p = [i \in DOMAIN p |-> p[i]]
  BY PastIs
<1> DEFINE es == [i \in DOMAIN d.entries |->
                    IF IsDependent(d.entries[i]) THEN d.entries[i]
                    ELSE [d.entries[i] EXCEPT !.base = NoId]]
<1>3. es = p
  BY <1>1, <1>2 DEF Norm
<1>4. View(d) = [deps |-> d.deps, keys |-> d.keys, expired |-> d.expired, entries |-> es]
  BY DEF View
<1> HIDE DEF es
<1> QED BY <1>1, <1>3, <1>4 DEF FullView

(* What the multimaps hold, in terms of the entries as they are. *)
LEMMA LinksOfDb ==
  ASSUME NEW p, IsPast(p), NEW d, At(d, p), NEW kind \in Kinds
  PROVE  LinksOf(d.entries, kind) = Links(p)[kind]
<1>1. /\ DOMAIN d.entries = DOMAIN p
      /\ \A i \in DOMAIN p : d.entries[i].type = p[i].type /\ (IsDependent(p[i]) => d.entries[i] = p[i])
  <2>1. Agrees(d, p)
    BY AtParts
  <2> QED BY <2>1 DEF Agrees
<1>2. Links(p)[kind] = LinksOf(p, kind)
  BY DEF Links
<1>3. {j \in DOMAIN d.entries : d.entries[j].type = kind} = {j \in DOMAIN p : p[j].type = kind}
  BY <1>1
<1>4. \A i \in {j \in DOMAIN p : p[j].type = kind} : d.entries[i] = p[i]
  BY <1>1 DEF IsDependent
<1> QED BY <1>2, <1>3, <1>4 DEF LinksOf

(* What holds of a database that has well-formed entries. *)
LEMMA AtAgrees ==
  ASSUME NEW p, IsPast(p), NEW d, At(d, p)
  PROVE  /\ EntryFields = StoreFields =>
               \A i \in DOMAIN d.entries : d.entries[i] \in Bases \cup Dependents
         /\ DOMAIN d.entries \subseteq Ids
         /\ \A kind \in Kinds : d.deps[kind] = SetToBag(LinksOf(d.entries, kind))
         /\ \A i \in DOMAIN d.entries, kind \in Kinds :
               (d.entries[i].type = BaseType[kind]) = (LinkedTo(d, kind, i) # {})
         /\ \A key \in Keys : d.keys[key] = HolderOf(d.entries, key)
         /\ \A i, j \in DOMAIN d.entries :
               i # j => d.entries[i].key # d.entries[j].key \/ d.entries[i].key = NoKey
         /\ d.expired = SetToBag(ExpiringOf(d.entries))
<1>1. /\ DOMAIN d.entries = DOMAIN p /\ d.deps = Bag(Links(p)) /\ d.expired = SetToBag(Expiring(p))
      /\ KeysAre(d.keys, p)
      /\ \A i \in DOMAIN p :
            /\ IsEntry(d.entries[i]) /\ DOMAIN d.entries[i] = EntryFields
            /\ d.entries[i].type = p[i].type /\ d.entries[i].key = p[i].key /\ d.entries[i].expires = p[i].expires
            /\ IsDependent(d.entries[i]) <=> IsDependent(p[i])
  <2>1. Agrees(d, p)
    BY AtParts
  <2> QED BY <2>1 DEF Agrees
<1>2. /\ DOMAIN p \subseteq Ids
      /\ \A i \in DOMAIN p : IsDependent(p[i]) => ~p[i].expires
      /\ \A i, j \in DOMAIN p : i # j => p[i].key # p[j].key \/ p[i].key = NoKey
  BY PastIs
<1>3. ASSUME NEW x, IsEntry(x), DOMAIN x = StoreFields PROVE x \in Bases \cup Dependents
  <2>1. x = [f \in StoreFields |-> x[f]]
    BY <1>3 DEF IsEntry
  <2>2. x = [type |-> x.type, base |-> x.base, password |-> x.password, key |-> x.key, expires |-> x.expires]
    BY <2>1 DEF StoreFields
  <2>3. /\ x.type \in Types /\ x.base \in Ids \cup {NoId} /\ x.key \in Keys \cup {NoKey} /\ x.expires \in BOOLEAN
        /\ IF IsDependent(x) THEN x.base \in Ids /\ x.password = NoPassword ELSE x.password \in Passwords
    BY <1>3 DEF IsEntry
  <2>4. CASE IsDependent(x)
    <3>1. x.type \in Kinds /\ x.base \in Ids /\ x.password \in {NoPassword}
      BY <2>3, <2>4 DEF IsDependent
    <3> QED BY <2>2, <2>3, <3>1 DEF Dependents
  <2>5. CASE ~IsDependent(x)
    <3>1. x.type \in {"normal", "aliasbase", "shortcutbase"} /\ x.password \in Passwords /\ x.base \in {NoId} \cup Ids
      BY <2>3, <2>5 DEF IsDependent, Types, Kinds
    <3> QED BY <2>2, <2>3, <3>1 DEF Bases
  <2> QED BY <2>4, <2>5
<1>4. EntryFields = StoreFields =>
        \A i \in DOMAIN d.entries : d.entries[i] \in Bases \cup Dependents
  BY <1>1, <1>3
<1>5. \A kind \in Kinds : d.deps[kind] = SetToBag(LinksOf(d.entries, kind))
  BY <1>1, LinksOfDb DEF Bag
<1>6. ASSUME NEW i \in DOMAIN d.entries, NEW kind \in Kinds
      PROVE  (d.entries[i].type = BaseType[kind]) = (LinkedTo(d, kind, i) # {})
  <2>1. LinkedTo(d, kind, i) = Targets(Links(p), kind, i)
    BY LinkedIs DEF At
  <2>2. /\ p[i].type = BaseType[kind] => Targets(Links(p), kind, i) # {}
        /\ p[i].type # BaseType[kind] => Targets(Links(p), kind, i) = {}
    BY <1>1, PastIsFit
  <2> QED BY <1>1, <2>1, <2>2
<1>7. ASSUME NEW key \in Keys PROVE d.keys[key] = HolderOf(d.entries, key)
  <2>1. KeysAre(d.keys, d.entries)
    BY <1>1 DEF KeysAre
  <2> QED BY <1>1, <1>2, <2>1, HoldersAre
<1>8. \A i, j \in DOMAIN d.entries : i # j => d.entries[i].key # d.entries[j].key \/ d.entries[i].key = NoKey
  BY <1>1, <1>2
<1>9. ExpiringOf(d.entries) = Expiring(p)
  BY <1>1, <1>2 DEF ExpiringOf, Expiring
<1> QED BY <1>1, <1>2, <1>4, <1>5, <1>6, <1>7, <1>8, <1>9

-----------------------------------------------------------------------------
(* The inductive invariant.  The database has the entries that the history  *)
(* has at its position, every list of commands leads from one of them to    *)
(* the next, and the executed ones, back.                                   *)

ChainFits ==
    /\ IsList(commands) /\ IsList(history)
    /\ Len(history) = Len(commands) + 1 /\ Len(commands) <= MaxCommands
    /\ next \in 1 .. Len(commands) + 1

PastsFit == \A k \in 1 .. Len(history) :
    IsPast(history[k].entries) /\ history[k] = FullView(history[k].entries)

ListsLead == \A k \in 1 .. Len(commands) :
    Len(commands[k]) \in Nat /\ Leads(commands[k], history[k].entries, history[k + 1].entries)

ListsReturn == \A k \in 1 .. next - 1 :
    Returns(commands[k], history[k].entries, history[k + 1].entries)

Present == At(db, history[next].entries)

StoreInv == ChainFits /\ PastsFit /\ ListsLead /\ ListsReturn /\ Present

(* A list that was executed leads where it led. *)
LEMMA LeadsAgain ==
  ASSUME NEW list, Len(list) \in Nat, NEW p, NEW q, Leads(list, p, q), NEW d, At(d, p),
         NEW result, result = ExecuteAll(list, d)
  PROVE  /\ At(result.db, q) /\ Returns(result.did, p, q)
         /\ Leads(result.did, p, q) /\ Len(result.did) \in Nat
<1>1. AllAlike(list, list)
  BY DEF AllAlike, Alike
<1>2. At(result.db, q) /\ Returns(result.did, p, q)
  BY <1>1 DEF Leads
<1>3. AllAlike(result.did, list)
  BY <1>1, DidAlike
<1> DEFINE did == result.did
<1>4. ASSUME NEW l, AllAlike(l, did) PROVE AllAlike(l, list)
  <2>1. Len(l) = Len(list) /\ Len(did) = Len(list)
    BY <1>3, <1>4 DEF AllAlike
  <2>2. ASSUME NEW k \in 1 .. Len(list) PROVE Alike(l[k], list[k])
    <3>1. Alike(l[k], did[k]) /\ Alike(did[k], list[k])
      BY <1>3, <1>4, <2>1 DEF AllAlike
    <3> QED BY <3>1 DEF Alike
  <2> QED BY <2>1, <2>2 DEF AllAlike
<1>5. Len(did) \in Nat
  BY <1>3 DEF AllAlike
<1> HIDE DEF did
<1>6. Leads(did, p, q)
  BY <1>4 DEF Leads
<1> QED BY <1>2, <1>5, <1>6 DEF did

LEMMA ExecuteKeeps ==
  ASSUME StoreInv, NEW list, Len(list) \in Nat, NEW p, p = history[next].entries,
         NEW q, IsPast(q), Leads(list, p, q), Execute(list)
  PROVE  StoreInv'
<1> DEFINE result == ExecuteAll(list, db)
<1>1. /\ next <= MaxCommands /\ db' = result.db /\ next' = next + 1
      /\ commands' = Append(SubSeq(commands, 1, next - 1), result.did)
      /\ history' = Append(SubSeq(history, 1, next), View(result.db))
  BY DEF Execute
<1>2. /\ IsList(commands) /\ IsList(history)
      /\ Len(history) = Len(commands) + 1 /\ Len(commands) <= MaxCommands
      /\ next \in 1 .. Len(commands) + 1 /\ Len(commands) \in Nat /\ MaxCommands \in Nat
  BY StoreAssumption DEF StoreInv, ChainFits, IsList
<1>3. At(db, p)
  BY DEF StoreInv, Present
<1>4. /\ At(result.db, q) /\ Returns(result.did, p, q)
      /\ Leads(result.did, p, q) /\ Len(result.did) \in Nat
  BY <1>3, LeadsAgain
<1>5. View(result.db) = FullView(q) /\ FullView(q).entries = q
  BY <1>4, AtView DEF FullView
<1> HIDE DEF result
<1>6. /\ IsList(commands') /\ Len(commands') = next /\ commands'[next] = result.did
      /\ \A k \in 1 .. next - 1 : commands'[k] = commands[k]
  <2> DEFINE n == next - 1
             t == commands'
  <2>1. n \in 0 .. Len(commands) /\ t = Append(SubSeq(commands, 1, n), result.did) /\ n + 1 = next
    BY <1>1, <1>2
  <2> HIDE DEF n, t
  <2>2. Prolonged(t, commands, n, result.did)
    BY <1>2, <2>1, ListExtended
  <2> QED BY <2>1, <2>2 DEF t, n, Prolonged
<1>7. /\ IsList(history') /\ Len(history') = next + 1 /\ history'[next + 1] = FullView(q)
      /\ \A k \in 1 .. next : history'[k] = history[k]
  <2> DEFINE t == history'
             x == View(result.db)
  <2>1. next \in 0 .. Len(history) /\ t = Append(SubSeq(history, 1, next), x)
    BY <1>1, <1>2
  <2> HIDE DEF t, x
  <2>2. Prolonged(t, history, next, x)
    BY <1>2, <2>1, ListExtended
  <2> QED BY <1>5, <2>2 DEF t, x, Prolonged
<1>8. ChainFits'
  BY <1>1, <1>2, <1>6, <1>7 DEF ChainFits
<1>9. PastsFit'
  <2>1. ASSUME NEW k \in 1 .. next + 1
        PROVE  IsPast(history'[k].entries) /\ history'[k] = FullView(history'[k].entries)
    <3>1. CASE k = next + 1
      BY <1>5, <1>7, <3>1
    <3>2. CASE k \in 1 .. next
      <4>1. history'[k] = history[k] /\ k \in 1 .. Len(history)
        BY <1>2, <1>7, <3>2
      <4> QED BY <4>1 DEF StoreInv, PastsFit
    <3> QED BY <1>2, <3>1, <3>2
  <2> QED BY <1>7, <2>1 DEF PastsFit
<1>10. next \in 1 .. next /\ history'[next].entries = p /\ history'[next + 1].entries = q
  BY <1>2, <1>5, <1>7
<1>11. ASSUME NEW k \in 1 .. next - 1
       PROVE  /\ commands'[k] = commands[k] /\ history'[k] = history[k] /\ history'[k + 1] = history[k + 1]
              /\ k \in 1 .. Len(commands)
  <2>1. k \in 1 .. next /\ k + 1 \in 1 .. next /\ k \in 1 .. Len(commands)
    BY <1>2
  <2> QED BY <1>6, <1>7, <2>1
<1>12. ListsLead'
  <2>1. ASSUME NEW k \in 1 .. next
        PROVE  Len(commands'[k]) \in Nat /\ Leads(commands'[k], history'[k].entries, history'[k + 1].entries)
    <3>1. CASE k = next
      BY <1>4, <1>6, <1>10, <3>1
    <3>2. CASE k \in 1 .. next - 1
      BY <1>11, <3>2 DEF StoreInv, ListsLead
    <3> QED BY <1>2, <3>1, <3>2
  <2> QED BY <1>6, <2>1 DEF ListsLead
<1>13. ListsReturn'
  <2>1. ASSUME NEW k \in 1 .. next
        PROVE  Returns(commands'[k], history'[k].entries, history'[k + 1].entries)
    <3>1. CASE k = next
      BY <1>4, <1>6, <1>10, <3>1
    <3>2. CASE k \in 1 .. next - 1
      BY <1>11, <3>2 DEF StoreInv, ListsReturn
    <3> QED BY <1>2, <3>1, <3>2
  <2>2. next' - 1 = next
    BY <1>1, <1>2
  <2> QED BY <2>1, <2>2 DEF ListsReturn
<1>14. Present'
  BY <1>1, <1>4, <1>10 DEF Present
<1> QED BY <1>8, <1>9, <1>12, <1>13, <1>14 DEF StoreInv

LEMMA UndoKeeps ==
  ASSUME StoreInv, Undo
  PROVE  StoreInv'
<1>1. /\ next > 1 /\ db' = UndoAll(commands[next - 1], db) /\ next' = next - 1
      /\ commands' = commands /\ history' = history
  BY DEF Undo
<1>2. /\ next \in 1 .. Len(commands) + 1 /\ Len(commands) \in Nat
  BY DEF StoreInv, ChainFits, IsList
<1>3. next - 1 \in 1 .. next - 1 /\ (next - 1) + 1 = next /\ next - 1 \in 1 .. Len(commands) + 1
  BY <1>1, <1>2
<1>4. Returns(commands[next - 1], history[next - 1].entries, history[next].entries)
  BY <1>3 DEF StoreInv, ListsReturn
<1>5. At(db', history[next - 1].entries)
  BY <1>1, <1>4 DEF StoreInv, Present, Returns
<1>6. Present'
  BY <1>1, <1>5 DEF Present
<1>7. ChainFits'
  BY <1>1, <1>3 DEF StoreInv, ChainFits
<1>8. PastsFit' /\ ListsLead'
  BY <1>1 DEF StoreInv, PastsFit, ListsLead
<1>9. ListsReturn'
  <2>1. \A k \in 1 .. next - 1 - 1 : k \in 1 .. next - 1
    BY <1>2
  <2> QED BY <1>1, <2>1 DEF StoreInv, ListsReturn
<1> QED BY <1>6, <1>7, <1>8, <1>9 DEF StoreInv

LEMMA RedoKeeps ==
  ASSUME StoreInv, Redo
  PROVE  StoreInv'
<1> DEFINE result == ExecuteAll(commands[next], db)
           p == history[next].entries
           q == history[next + 1].entries
<1>1. /\ next <= Len(commands) /\ db' = result.db /\ next' = next + 1
      /\ commands' = [commands EXCEPT ![next] = result.did] /\ history' = history
  BY DEF Redo
<1>2. /\ IsList(commands) /\ IsList(history)
      /\ Len(history) = Len(commands) + 1 /\ Len(commands) <= MaxCommands
      /\ next \in 1 .. Len(commands) + 1 /\ Len(commands) \in Nat
  BY DEF StoreInv, ChainFits, IsList
<1>3. next \in 1 .. Len(commands)
  BY <1>1, <1>2
<1>4. At(db, p) /\ Len(commands[next]) \in Nat /\ Leads(commands[next], p, q)
  BY <1>3 DEF StoreInv, Present, ListsLead
<1>5. /\ At(result.db, q) /\ Returns(result.did, p, q)
      /\ Leads(result.did, p, q) /\ Len(result.did) \in Nat
  BY <1>4, LeadsAgain
<1> HIDE DEF result
<1>6. /\ IsList(commands') /\ Len(commands') = Len(commands) /\ commands'[next] = result.did
      /\ \A k \in 1 .. Len(commands) \ {next} : commands'[k] = commands[k]
  <2> DEFINE t == commands'
  <2>1. t = [k \in 1 .. Len(commands) |-> t[k]] /\ t[next] = result.did
        /\ \A k \in 1 .. Len(commands) \ {next} : t[k] = commands[k]
    BY <1>1, <1>2, <1>3 DEF IsList
  <2> HIDE DEF t
  <2>2. Len(t) = Len(commands)
    BY <1>2, <2>1, LenIs
  <2> QED BY <1>2, <2>1, <2>2 DEF t, IsList
<1>7. Present'
  BY <1>1, <1>5 DEF Present
<1>8. ChainFits' /\ PastsFit'
  BY <1>1, <1>2, <1>3, <1>6 DEF StoreInv, ChainFits, PastsFit
<1>9. ListsLead'
  <2>1. ASSUME NEW k \in 1 .. Len(commands)
        PROVE  Len(commands'[k]) \in Nat /\ Leads(commands'[k], history[k].entries, history[k + 1].entries)
    <3>1. CASE k = next
      BY <1>5, <1>6, <3>1
    <3>2. CASE k # next
      BY <1>6, <3>2 DEF StoreInv, ListsLead
    <3> QED BY <3>1, <3>2
  <2> QED BY <1>1, <1>6, <2>1 DEF ListsLead
<1>10. ListsReturn'
  <2>1. ASSUME NEW k \in 1 .. next
        PROVE  Returns(commands'[k], history[k].entries, history[k + 1].entries)
    <3>1. CASE k = next
      BY <1>5, <1>6, <3>1
    <3>2. CASE k # next
      <4>1. k \in 1 .. next - 1 /\ k \in 1 .. Len(commands)
        BY <1>2, <1>3, <3>2
      <4> QED BY <1>6, <3>2, <4>1 DEF StoreInv, ListsReturn
    <3> QED BY <3>1, <3>2
  <2>2. next' - 1 = next
    BY <1>1, <1>2
  <2> QED BY <1>1, <2>1, <2>2 DEF ListsReturn
<1> QED BY <1>7, <1>8, <1>9, <1>10 DEF StoreInv

-----------------------------------------------------------------------------
(* The front ends' operations keep the invariant.                           *)

(* The entries that the database has. *)
Now(p) == p = history[next].entries /\ IsPast(p) /\ At(db, p) /\ Agrees(db, p)

LEMMA NowIs ==
  ASSUME StoreInv
  PROVE  \E p : Now(p)
<1>1. next \in 1 .. Len(history)
  BY DEF StoreInv, ChainFits
<1>2. IsPast(history[next].entries) /\ At(db, history[next].entries)
  BY <1>1 DEF StoreInv, PastsFit, Present
<1>3. Agrees(db, history[next].entries)
  BY <1>2, AtParts
<1> QED BY <1>2, <1>3 DEF Now

(* It is enough that the list leads to entries that fit. *)
LEMMA Kept ==
  ASSUME StoreInv, NEW p, Now(p), NEW list, IsList(list), \E q : IsPast(q) /\ Leads(list, p, q), Execute(list)
  PROVE  StoreInv'
<1>1. PICK q : IsPast(q) /\ Leads(list, p, q)
  OBVIOUS
<1>2. p = history[next].entries /\ Len(list) \in Nat
  BY DEF Now, IsList
<1> QED BY <1>1, <1>2, ExecuteKeeps

LEMMA FreshIs ==
  ASSUME StoreInv, NEW p, Now(p), NEW id \in Fresh
  PROVE  id \in Ids \ DOMAIN p
<1>1. next \in 1 .. Len(history)
  BY DEF StoreInv, ChainFits
<1> QED BY <1>1 DEF Fresh, Now

LEMMA FreeIs ==
  ASSUME NEW p, Now(p), NEW id \in Ids, NEW key \in FreeKeys(id)
  PROVE  /\ key \in Keys \cup {NoKey}
         /\ key = NoKey \/ \A i \in DOMAIN p \ {id} : p[i].key # key
<1>1. KeysAre(db.keys, p) /\ DOMAIN p \subseteq Ids /\ NoId \notin Ids
  BY PastIs, StoreAssumption DEF Now, Agrees
<1>2. CASE key = NoKey
  BY <1>2
<1>3. CASE key # NoKey
  <2>1. key \in Keys /\ db.keys[key] \in {NoId, id}
    BY <1>3 DEF FreeKeys
  <2>2. \A i \in DOMAIN p : p[i].key = key => db.keys[key] = i
    BY <1>1, <2>1 DEF KeysAre
  <2> QED BY <1>1, <2>1, <2>2
<1> QED BY <1>2, <1>3

LEMMA KeyFreeWithout ==
  ASSUME NEW p, Now(p), NEW id \in Ids, NEW x, x.key \in FreeKeys(id)
  PROVE  KeyFree(Drop(p, {id}), x) /\ (id \notin DOMAIN p => KeyFree(p, x))
<1>1. x.key = NoKey \/ \A i \in DOMAIN p \ {id} : p[i].key # x.key
  BY FreeIs
<1> QED BY <1>1 DEF KeyFree, Drop

(* What the entry recorded in a command is. *)
LEMMA EntryIs ==
  ASSUME NEW p, Now(p), NEW id \in Used, NEW old, old = Entry(id)
  PROVE  /\ id \in DOMAIN p /\ id \in Ids
         /\ IsEntry(old) /\ Norm(old) = p[id] /\ DOMAIN old = EntryFields
         /\ old.type = p[id].type /\ old.key = p[id].key
         /\ IsDependent(old) => old = p[id]
<1>1. id \in DOMAIN p /\ DOMAIN p \subseteq Ids
  BY PastIs DEF Now, Agrees, Used
<1> QED BY <1>1 DEF Now, Agrees, Entry

(* The key an edit may choose is its own, or one no entry has. *)
LEMMA EditKeyIs ==
  ASSUME NEW p, Now(p), NEW id \in Used, NEW key \in EditKeys(id)
  PROVE  key \in Keys \cup {NoKey} /\ \A x : x.key = key => KeyFree(Drop(p, {id}), x)
<1>1. IsPast(p) /\ id \in DOMAIN p /\ id \in Ids /\ IsEntry(Entry(id)) /\ Entry(id).key = p[id].key
  BY EntryIs DEF Now
<1>2. key = Entry(id).key \/ key \in FreeKeys(id)
  BY DEF EditKeys
<1>3. CASE key \in FreeKeys(id)
  BY <1>1, <1>3, FreeIs, KeyFreeWithout
<1>4. CASE key = Entry(id).key
  <2>1. ASSUME NEW x, x.key = key PROVE KeyFree(Drop(p, {id}), x)
    <3>1. DOMAIN Drop(p, {id}) \subseteq DOMAIN p \ {id} /\ \A i \in DOMAIN Drop(p, {id}) : Drop(p, {id})[i].key = p[i].key
      BY DEF Drop
    <3> QED BY <1>1, <1>4, <2>1, <3>1, KeyKept
  <2> QED BY <1>1, <1>4, <2>1 DEF IsEntry
<1> QED BY <1>2, <1>3, <1>4

LEMMA TargetIs ==
  ASSUME NEW p, Now(p), NEW id, NEW base \in AliasTargets(id)
  PROVE  base \in DOMAIN p \ {id} /\ base \in Ids /\ p[base].type \in {"normal", "aliasbase"}
<1>1. base \in Used \ {id} /\ Entry(base).type \in {"normal", "aliasbase"}
  BY DEF AliasTargets
<1>2. base \in DOMAIN p /\ base \in Ids /\ Entry(base).type = p[base].type
  BY <1>1, EntryIs
<1> QED BY <1>1, <1>2

LEMMA AddNormalKeeps ==
  ASSUME EntryFields = StoreFields, StoreInv, AddNormal
  PROVE  StoreInv'
<1>1. PICK p : Now(p)
  BY NowIs
<1>2. PICK id \in Fresh, entry \in Bases :
        /\ entry.type = "normal" /\ entry.base = NoId /\ entry.key \in FreeKeys(id)
        /\ Execute(<<AddCommand(id, entry)>>)
  BY DEF AddNormal
<1>3. id \in Ids \ DOMAIN p
  BY <1>1, FreshIs
<1>4. IsEntry(entry) /\ DOMAIN entry = EntryFields
  BY <1>2 DEF Bases, IsEntry, IsDependent, Kinds, Types, StoreFields
<1>5. KeyFree(p, entry)
  BY <1>1, <1>2, <1>3, KeyFreeWithout
<1>6. \E q : IsPast(q) /\ Leads(<<AddCommand(id, entry)>>, p, q)
  BY <1>1, <1>2, <1>3, <1>4, <1>5, AddNormalLeads DEF Now
<1> QED BY <1>1, <1>2, <1>6, ShortLists, Kept

(* A dependent is added to the entries. *)
LEMMA DependentAdded ==
  ASSUME StoreInv, NEW p, Now(p), NEW id \in Fresh, NEW x, IsEntry(x), DOMAIN x = EntryFields, IsDependent(x),
         x.key \in FreeKeys(id), x.base \in DOMAIN p, p[x.base].type \in {"normal", BaseType[x.type]},
         Execute(<<AddCommand(id, x)>>)
  PROVE  StoreInv'
<1>1. id \in Ids \ DOMAIN p
  BY FreshIs
<1>2. KeyFree(p, x)
  BY <1>1, KeyFreeWithout
<1>3. \E q : IsPast(q) /\ Leads(<<AddCommand(id, x)>>, p, q)
  BY <1>1, <1>2, AddDependentLeads DEF Now
<1> QED BY <1>3, ShortLists, Kept

LEMMA AddAliasKeeps ==
  ASSUME EntryFields = StoreFields, StoreInv, AddAlias
  PROVE  StoreInv'
<1>1. PICK p : Now(p)
  BY NowIs
<1>2. PICK id \in Fresh, base \in Used :
        /\ base \in AliasTargets(id)
        /\ \E key \in FreeKeys(id) :
            Execute(<<AddCommand(id, [type |-> "alias", base |-> base, key |-> key,
                                      password |-> NoPassword, expires |-> FALSE])>>)
  BY DEF AddAlias
<1>3. PICK key \in FreeKeys(id) :
            Execute(<<AddCommand(id, [type |-> "alias", base |-> base, key |-> key,
                                      password |-> NoPassword, expires |-> FALSE])>>)
  BY <1>2
<1> DEFINE x == [type |-> "alias", base |-> base, key |-> key, password |-> NoPassword, expires |-> FALSE]
<1>4. id \in Ids /\ base \in DOMAIN p \ {id} /\ base \in Ids /\ p[base].type \in {"normal", "aliasbase"}
  BY <1>1, <1>2, FreshIs, TargetIs
<1>5. key \in Keys \cup {NoKey}
  BY <1>1, <1>4, FreeIs
<1>6. /\ IsEntry(x) /\ DOMAIN x = EntryFields /\ IsDependent(x) /\ x.key = key /\ x.base = base /\ BaseType[x.type] = "aliasbase"
  BY <1>4, <1>5 DEF IsEntry, IsDependent, Kinds, Types, StoreFields, BaseType
<1> HIDE DEF x
<1> QED BY <1>1, <1>3, <1>4, <1>6, DependentAdded DEF x

LEMMA AddShortcutKeeps ==
  ASSUME EntryFields = StoreFields, StoreInv, AddShortcut
  PROVE  StoreInv'
<1>1. PICK p : Now(p)
  BY NowIs
<1>2. PICK id \in Fresh, base \in Used :
        /\ Entry(base).type \in {"normal", "shortcutbase"}
        /\ Execute(<<AddCommand(id, [type |-> "shortcut", base |-> base, key |-> NoKey,
                                     password |-> NoPassword, expires |-> FALSE])>>)
  BY DEF AddShortcut
<1> DEFINE x == [type |-> "shortcut", base |-> base, key |-> NoKey, password |-> NoPassword, expires |-> FALSE]
<1>4. base \in DOMAIN p /\ base \in Ids /\ p[base].type \in {"normal", "shortcutbase"}
  BY <1>1, <1>2, EntryIs
<1>6. /\ IsEntry(x) /\ DOMAIN x = EntryFields /\ IsDependent(x) /\ x.key = NoKey /\ x.base = base /\ BaseType[x.type] = "shortcutbase"
  BY <1>4 DEF IsEntry, IsDependent, Kinds, Types, StoreFields, BaseType
<1> HIDE DEF x
<1>7. x.key \in FreeKeys(id)
  BY <1>6 DEF FreeKeys
<1> QED BY <1>1, <1>2, <1>4, <1>6, <1>7, DependentAdded DEF x

LEMMA DuplicateKeeps ==
  ASSUME StoreInv, FrontEnd = "mfc", Duplicate
  PROVE  StoreInv'
<1>1. PICK p : Now(p)
  BY NowIs
<1>2. PICK id \in Fresh, of \in Used : Execute(<<AddCommand(id, DuplicateOf(Entry(of)))>>)
  BY DEF Duplicate
<1> DEFINE old == Entry(of)
           x == DuplicateOf(old)
<1>3. /\ of \in DOMAIN p /\ IsEntry(old) /\ Norm(old) = p[of] /\ DOMAIN old = EntryFields
      /\ old.type = p[of].type /\ (IsDependent(old) => old = p[of])
  BY <1>1, EntryIs
<1> HIDE DEF old
<1>4. x = [old EXCEPT !.type = IF IsDependent(old) THEN @ ELSE "normal", !.key = NoKey]
  BY DEF DuplicateOf
<1>5. /\ IsEntry(x) /\ DOMAIN x = EntryFields /\ x.key = NoKey
      /\ x.type = IF IsDependent(old) THEN old.type ELSE "normal"
      /\ x.base = old.base
  BY <1>3, <1>4 DEF IsEntry, IsDependent, Kinds, Types
<1>6. x.key \in FreeKeys(id) /\ KeyFree(p, x)
  BY <1>5 DEF FreeKeys, KeyFree
<1> HIDE DEF x
<1>7. Execute(<<AddCommand(id, x)>>)
  BY <1>2 DEF x, old
<1>8. CASE IsDependent(old)
  <2>1. /\ IsDependent(x) /\ x.base = p[of].base /\ x.type = p[of].type /\ IsDependent(p[of])
    BY <1>3, <1>5, <1>8 DEF IsDependent
  <2>2. p[of].base \in DOMAIN p /\ p[p[of].base].type = BaseType[p[of].type]
    BY <1>1, <1>3, <2>1, PastIs DEF Now
  <2> QED BY <1>1, <1>5, <1>6, <1>7, <2>1, <2>2, DependentAdded
<1>9. CASE ~IsDependent(old)
  <2>1. id \in Ids \ DOMAIN p
    BY <1>1, FreshIs
  <2>2. \E q : IsPast(q) /\ Leads(<<AddCommand(id, x)>>, p, q)
    BY <1>1, <1>5, <1>6, <1>9, <2>1, AddNormalLeads DEF Now
  <2> QED BY <1>1, <1>7, <2>2, ShortLists, Kept
<1> QED BY <1>8, <1>9

LEMMA EditCommandIs ==
  ASSUME NEW id, NEW new
  PROVE  EditCommand(id, new) = Edit(id, Entry(id), new)
<1> QED BY DEF EditCommand, Edit, Entry

LEMMA EditFieldsKeeps ==
  ASSUME StoreInv, FrontEnd = "mfc", EditFields
  PROVE  StoreInv'
<1>1. PICK p : Now(p)
  BY NowIs
<1>2. PICK id \in Used, password \in Passwords \cup {NoPassword}, expires \in BOOLEAN :
        \E key \in EditKeys(id) :
            /\ Entry(id).type # "shortcut"
            /\ Entry(id).type = "alias" => password = NoPassword /\ ~expires
            /\ Entry(id).type # "alias" => password # NoPassword
            /\ Execute(<<EditCommand(id, Edited(id, password, key, expires))>>)
  BY DEF EditFields
<1>3. PICK key \in EditKeys(id) :
            /\ Entry(id).type # "shortcut"
            /\ Entry(id).type = "alias" => password = NoPassword /\ ~expires
            /\ Entry(id).type # "alias" => password # NoPassword
            /\ Execute(<<EditCommand(id, Edited(id, password, key, expires))>>)
  BY <1>2
<1> DEFINE old == Entry(id)
           x == Edited(id, password, key, expires)
<1>4. /\ id \in DOMAIN p /\ id \in Ids
      /\ IsEntry(old) /\ Norm(old) = p[id] /\ DOMAIN old = EntryFields
      /\ old.type = p[id].type /\ old.key = p[id].key
  BY <1>1, EntryIs
<1>5. /\ old.type # "shortcut"
      /\ old.type = "alias" => password = NoPassword /\ ~expires
      /\ old.type # "alias" => password # NoPassword
      /\ Execute(<<Edit(id, old, x)>>)
  BY <1>3, EditCommandIs
<1>6. x = [old EXCEPT !.password = password, !.key = key, !.expires = expires, !.type = @]
  BY StoreAssumption DEF Edited
<1>7. key \in Keys \cup {NoKey} /\ \A y : y.key = key => KeyFree(Drop(p, {id}), y)
  BY <1>1, EditKeyIs
<1> HIDE DEF old, x
<1>8. /\ DOMAIN x = EntryFields /\ x = [f \in EntryFields |-> x[f]]
      /\ x.type = old.type /\ x.base = old.base /\ x.key = key /\ x.password = password /\ x.expires = expires
  BY <1>4, <1>6 DEF IsEntry
<1>9. StoreFields \subseteq EntryFields /\ old.type \in Types /\ old.base \in Ids \cup {NoId} /\ (IsDependent(old) <=> old.type = "alias") /\ (IsDependent(old) => old.base \in Ids)
  BY <1>4, <1>5 DEF IsEntry, IsDependent, Kinds, StoreFields
<1>10. IsDependent(x) <=> IsDependent(old)
  BY <1>8 DEF IsDependent
<1>11. IsEntry(x)
  <2>1. CASE IsDependent(old)
    BY <1>2, <1>5, <1>7, <1>8, <1>9, <1>10, <2>1 DEF IsEntry, StoreFields
  <2>2. CASE ~IsDependent(old)
    BY <1>2, <1>5, <1>7, <1>8, <1>9, <1>10, <2>2 DEF IsEntry, StoreFields
  <2> QED BY <2>1, <2>2
<1>12. old.key # x.key => KeyFree(Drop(p, {id}), x)
  BY <1>7, <1>8
<1>13. \E q : IsPast(q) /\ Leads(<<Edit(id, old, x)>>, p, q)
  BY <1>1, <1>4, <1>8, <1>11, <1>12, EditLeads DEF Now
<1> QED BY <1>1, <1>5, <1>13, ShortLists, Kept

(* What an entry is once it is an alias, or normal. *)
LEMMA AsAliasIs ==
  ASSUME FrontEnd = "mfc", NEW old, IsEntry(old), DOMAIN old = EntryFields, NEW base \in Ids,
         NEW key \in Keys \cup {NoKey}, NEW x, x = AsAlias(old, base, key)
  PROVE  IsEntry(x) /\ DOMAIN x = EntryFields /\ x.type = "alias" /\ x.base = base /\ x.key = key
<1>1. x = [old EXCEPT !.type = "alias", !.base = base, !.password = NoPassword, !.key = key, !.expires = FALSE]
  BY DEF AsAlias, IsEntry
<1>2. /\ DOMAIN x = EntryFields /\ x = [f \in EntryFields |-> x[f]]
      /\ x.type = "alias" /\ x.base = base /\ x.key = key /\ x.password = NoPassword /\ x.expires = FALSE
  BY <1>1 DEF IsEntry
<1>3. "alias" \in Types /\ "alias" \in Kinds
  BY DEF Types, Kinds, IsEntry
<1> QED BY <1>2, <1>3 DEF IsEntry, IsDependent

LEMMA AsNormalIs ==
  ASSUME NEW old, IsEntry(old), DOMAIN old = EntryFields, NEW password \in Passwords,
         NEW key \in Keys \cup {NoKey}, NEW expires \in BOOLEAN, NEW x, x = AsNormal(old, password, key, expires)
  PROVE  IsEntry(x) /\ DOMAIN x = EntryFields /\ x.type = "normal" /\ x.key = key
<1>1. /\ DOMAIN x = EntryFields /\ x = [f \in EntryFields |-> x[f]]
      /\ x.type = "normal" /\ x.base = old.base /\ x.key = key /\ x.password = password /\ x.expires = expires
  BY DEF AsNormal, IsEntry
<1>2. "normal" \in Types /\ "normal" \notin Kinds /\ old.base \in Ids \cup {NoId}
  BY DEF Types, Kinds, IsEntry
<1> QED BY <1>1, <1>2 DEF IsEntry, IsDependent

LEMMA NormalToAliasKeeps ==
  ASSUME StoreInv, FrontEnd = "mfc", NormalToAlias
  PROVE  StoreInv'
<1>1. PICK p : Now(p)
  BY NowIs
<1>2. PICK id \in Used : \E base \in AliasTargets(id), key \in EditKeys(id) :
        /\ Entry(id).type = "normal"
        /\ Execute(<<AddAliasCommand(base, id), EditCommand(id, AsAlias(Entry(id), base, key))>>)
  BY DEF NormalToAlias
<1>3. PICK base \in AliasTargets(id), key \in EditKeys(id) :
        /\ Entry(id).type = "normal"
        /\ Execute(<<AddAliasCommand(base, id), EditCommand(id, AsAlias(Entry(id), base, key))>>)
  BY <1>2
<1> DEFINE old == Entry(id)
           x == AsAlias(old, base, key)
<1>4. /\ id \in DOMAIN p
      /\ IsEntry(old) /\ Norm(old) = p[id] /\ DOMAIN old = EntryFields
      /\ old.type = p[id].type
  BY <1>1, EntryIs
<1>5. base \in DOMAIN p \ {id} /\ base \in Ids /\ p[base].type \in {"normal", "aliasbase"}
  BY <1>1, TargetIs
<1>6. IsEntry(x) /\ DOMAIN x = EntryFields /\ x.type = "alias" /\ x.base = base /\ KeyFree(Drop(p, {id}), x)
  BY <1>1, <1>4, <1>5, AsAliasIs, EditKeyIs
<1>7. old.type = "normal" /\ Execute(<<AddAliasCommand(base, id), Edit(id, old, x)>>)
  BY <1>3, EditCommandIs
<1> HIDE DEF old, x
<1>8. \E q : IsPast(q) /\ Leads(<<AddAliasCommand(base, id), Edit(id, old, x)>>, p, q)
  BY <1>1, <1>4, <1>5, <1>6, <1>7, NormalToAliasLeads DEF Now
<1> QED BY <1>1, <1>7, <1>8, ShortLists, Kept

LEMMA AliasToNormalKeeps ==
  ASSUME StoreInv, AliasToNormal
  PROVE  StoreInv'
<1>1. PICK p : Now(p)
  BY NowIs
<1>2. PICK id \in Used, password \in Passwords, expires \in BOOLEAN : \E key \in EditKeys(id) :
        /\ Entry(id).type = "alias"
        /\ Execute(<<RemoveAliasCommand(Entry(id).base, id),
                     EditCommand(id, AsNormal(Entry(id), password, key, expires))>>)
  BY DEF AliasToNormal
<1>3. PICK key \in EditKeys(id) :
        /\ Entry(id).type = "alias"
        /\ Execute(<<RemoveAliasCommand(Entry(id).base, id),
                     EditCommand(id, AsNormal(Entry(id), password, key, expires))>>)
  BY <1>2
<1> DEFINE old == Entry(id)
           x == AsNormal(old, password, key, expires)
<1>4. /\ id \in DOMAIN p
      /\ IsEntry(old) /\ Norm(old) = p[id] /\ DOMAIN old = EntryFields
      /\ old.type = p[id].type /\ (IsDependent(old) => old = p[id])
  BY <1>1, EntryIs
<1>6. IsEntry(x) /\ DOMAIN x = EntryFields /\ x.type = "normal" /\ KeyFree(Drop(p, {id}), x)
  BY <1>1, <1>4, AsNormalIs, EditKeyIs
<1>7. old.type = "alias" /\ Execute(<<RemoveAliasCommand(old.base, id), Edit(id, old, x)>>)
  BY <1>3, EditCommandIs
<1> HIDE DEF old, x
<1>8. old.base = p[id].base
  BY <1>4, <1>7 DEF IsDependent, Kinds
<1>9. \E q : IsPast(q) /\ Leads(<<RemoveAliasCommand(old.base, id), Edit(id, old, x)>>, p, q)
  BY <1>1, <1>4, <1>6, <1>7, <1>8, AliasToNormalLeads DEF Now
<1> QED BY <1>1, <1>7, <1>9, ShortLists, Kept

LEMMA RebaseKeeps ==
  ASSUME StoreInv, FrontEnd = "mfc", Rebase
  PROVE  StoreInv'
<1>1. PICK p : Now(p)
  BY NowIs
<1>2. PICK id \in Used : \E base \in AliasTargets(id), key \in EditKeys(id) :
        /\ Entry(id).type = "alias" /\ Entry(id).base # base
        /\ Execute(<<RemoveAliasCommand(Entry(id).base, id), AddAliasCommand(base, id),
                     EditCommand(id, AsAlias(Entry(id), base, key))>>)
  BY DEF Rebase
<1>3. PICK base \in AliasTargets(id), key \in EditKeys(id) :
        /\ Entry(id).type = "alias" /\ Entry(id).base # base
        /\ Execute(<<RemoveAliasCommand(Entry(id).base, id), AddAliasCommand(base, id),
                     EditCommand(id, AsAlias(Entry(id), base, key))>>)
  BY <1>2
<1> DEFINE old == Entry(id)
           x == AsAlias(old, base, key)
<1>4. /\ id \in DOMAIN p
      /\ IsEntry(old) /\ Norm(old) = p[id] /\ DOMAIN old = EntryFields
      /\ old.type = p[id].type /\ (IsDependent(old) => old = p[id])
  BY <1>1, EntryIs
<1>5. base \in DOMAIN p \ {id} /\ base \in Ids /\ p[base].type \in {"normal", "aliasbase"}
  BY <1>1, TargetIs
<1>6. IsEntry(x) /\ DOMAIN x = EntryFields /\ x.type = "alias" /\ x.base = base /\ KeyFree(Drop(p, {id}), x)
  BY <1>1, <1>4, <1>5, AsAliasIs, EditKeyIs
<1>7. /\ old.type = "alias" /\ old.base # base
      /\ Execute(<<RemoveAliasCommand(old.base, id), AddAliasCommand(base, id), Edit(id, old, x)>>)
  BY <1>3, EditCommandIs
<1> HIDE DEF old, x
<1>8. old.base = p[id].base
  BY <1>4, <1>7 DEF IsDependent, Kinds
<1>9. \E q : IsPast(q) /\ Leads(<<RemoveAliasCommand(old.base, id), AddAliasCommand(base, id), Edit(id, old, x)>>, p, q)
  BY <1>1, <1>4, <1>5, <1>6, <1>7, <1>8, RebaseLeads DEF Now
<1> QED BY <1>1, <1>7, <1>9, ShortLists, Kept

(* The dependents of an entry in some order, and a list of commands, one   *)
(* for each.                                                               *)
LEMMA DependentsInOrder ==
  ASSUME IsFiniteSet(Ids), NEW p, Now(p), NEW kind \in Kinds, NEW id, NEW order \in SetToSeqs(LinkedTo(db, kind, id))
  PROVE  LET T == Targets(Links(p), kind, id)
         IN  \E n \in Nat : /\ DOMAIN order = 1 .. n /\ \A k \in 1 .. n : order[k] \in T
                            /\ \A x \in T : \E k \in 1 .. n : order[k] = x
                            /\ \A j, k \in 1 .. n : j < k => order[j] # order[k]
<1> DEFINE T == Targets(Links(p), kind, id)
<1>1. LinkedTo(db, kind, id) = T
  BY LinkedIs DEF Now, At
<1>2. IsFiniteSet(T)
  BY FS_Subset DEF Targets
<1> HIDE DEF T
<1>3. \E n \in Nat : /\ n = Cardinality(T) /\ DOMAIN order = 1 .. n /\ \A k \in 1 .. n : order[k] \in T
                     /\ \A x \in T : \E k \in 1 .. n : order[k] = x
                     /\ \A j, k \in 1 .. n : j < k => order[j] # order[k]
  BY <1>1, <1>2, OrderIs
<1> QED BY <1>3 DEF T

LEMMA DependentEntry ==
  ASSUME NEW p, Now(p), NEW kind \in Kinds, NEW id, NEW i \in Targets(Links(p), kind, id)
  PROVE  i \in DOMAIN p /\ Entry(i) = p[i] /\ i \in Used /\ p[i].type = kind /\ p[i].base = id /\ IsDependent(p[i])
<1>1. i \in DOMAIN p /\ p[i].type = kind /\ p[i].base = id
  BY LinksIs DEF Targets
<1>2. IsDependent(p[i])
  BY <1>1 DEF IsDependent
<1>3. i \in Used
  BY <1>1 DEF Now, Agrees, Used
<1>4. Entry(i) = p[i]
  BY <1>1, <1>2 DEF Now, Agrees, Entry
<1> QED BY <1>1, <1>2, <1>3, <1>4

LEMMA ListOf ==
  ASSUME NEW n \in Nat, NEW s, s = [k \in 1 .. n |-> s[k]]
  PROVE  IsList(s) /\ Len(s) = n
<1>1. Len(s) = n
  BY LenIs
<1> QED BY <1>1 DEF IsList

(* A list between a list and one command more. *)
Concatenated(u, s, t) ==
    /\ IsList(u) /\ Len(u) = Len(s) + Len(t)
    /\ \A k \in 1 .. Len(s) : u[k] = s[k]
    /\ \A k \in 1 .. Len(t) : u[Len(s) + k] = t[k]

LEMMA ListsConcatenate ==
  ASSUME NEW s, IsList(s), NEW t, IsList(t)
  PROVE  Concatenated(s \o t, s, t)
<1> QED BY ListJoined DEF Concatenated

Between(list, a, n, s, c, m) ==
    /\ IsList(list) /\ Len(list) = m + n + 1
    /\ \A k \in 1 .. m : list[k] = a[k]
    /\ \A k \in 1 .. n : list[m + k] = s[k]
    /\ list[m + n + 1] = c

LEMMA ListBetween ==
  ASSUME NEW a, IsList(a), NEW n \in Nat, NEW s, s = [k \in 1 .. n |-> s[k]], NEW c
  PROVE  Between(a \o s \o <<c>>, a, n, s, c, Len(a))
<1> DEFINE m == Len(a)
           b == a \o s
           e == <<c>>
           list == b \o e
<1>1. IsList(s) /\ Len(s) = n /\ m \in Nat
  BY ListOf DEF IsList
<1>2. Concatenated(b, a, s)
  BY <1>1, ListsConcatenate
<1>3. IsList(e) /\ Len(e) = 1 /\ e[1] = c /\ 1 \in 1 .. Len(e)
  BY ShortLists
<1> HIDE DEF b, e
<1>4. IsList(b) /\ Len(b) = m + n /\ (\A k \in 1 .. m : b[k] = a[k]) /\ \A k \in 1 .. n : b[m + k] = s[k]
  BY <1>1, <1>2 DEF Concatenated
<1>5. Concatenated(list, b, e)
  BY <1>3, <1>4, ListsConcatenate
<1> HIDE DEF list, m
<1>6. /\ IsList(list) /\ Len(list) = m + n + 1 /\ (\A k \in 1 .. m + n : list[k] = b[k])
      /\ list[Len(b) + 1] = e[1]
  BY <1>1, <1>3, <1>4, <1>5 DEF Concatenated
<1>7. /\ IsList(list) /\ Len(list) = m + n + 1
      /\ \A k \in 1 .. m : list[k] = a[k]
      /\ \A k \in 1 .. n : list[m + k] = s[k]
      /\ list[m + n + 1] = c
  BY <1>1, <1>3, <1>4, <1>6
<1>8. Between(list, a, n, s, c, m)
  BY <1>7 DEF Between
<1> QED BY <1>8 DEF list, b, e, m

LEMMA AliasBaseToAliasKeeps ==
  ASSUME StoreInv, FrontEnd = "mfc", IsFiniteSet(Ids), AliasBaseToAlias
  PROVE  StoreInv'
<1>1. PICK p : Now(p)
  BY NowIs
<1>2. PICK id \in Used : \E base \in AliasTargets(id), key \in EditKeys(id) :
        /\ Entry(id).type = "aliasbase"
        /\ \E order \in SetToSeqs(LinkedTo(db, "alias", id)) :
            Execute(<<AddAliasCommand(base, id), MoveCommand(id, base)>>
                    \o [k \in DOMAIN order |-> EditCommand(order[k], [Entry(order[k]) EXCEPT !.base = base])]
                    \o <<EditCommand(id, AsAlias(Entry(id), base, key))>>)
  BY DEF AliasBaseToAlias
<1>3. PICK base \in AliasTargets(id), key \in EditKeys(id) :
        /\ Entry(id).type = "aliasbase"
        /\ \E order \in SetToSeqs(LinkedTo(db, "alias", id)) :
            Execute(<<AddAliasCommand(base, id), MoveCommand(id, base)>>
                    \o [k \in DOMAIN order |-> EditCommand(order[k], [Entry(order[k]) EXCEPT !.base = base])]
                    \o <<EditCommand(id, AsAlias(Entry(id), base, key))>>)
  BY <1>2
<1>4. PICK order \in SetToSeqs(LinkedTo(db, "alias", id)) :
            Execute(<<AddAliasCommand(base, id), MoveCommand(id, base)>>
                    \o [k \in DOMAIN order |-> EditCommand(order[k], [Entry(order[k]) EXCEPT !.base = base])]
                    \o <<EditCommand(id, AsAlias(Entry(id), base, key))>>)
  BY <1>3
<1> DEFINE old == Entry(id)
           x == AsAlias(old, base, key)
           T == Targets(Links(p), "alias", id)
           s == [k \in DOMAIN order |-> EditCommand(order[k], [Entry(order[k]) EXCEPT !.base = base])]
           a == <<AddAliasCommand(base, id), MoveCommand(id, base)>>
           c == EditCommand(id, x)
           list == a \o s \o <<c>>
<1>5. /\ id \in DOMAIN p
      /\ IsEntry(old) /\ Norm(old) = p[id] /\ DOMAIN old = EntryFields
      /\ old.type = p[id].type
  BY <1>1, EntryIs
<1>6. base \in DOMAIN p \ {id} /\ base \in Ids /\ p[base].type \in {"normal", "aliasbase"}
  BY <1>1, TargetIs
<1>7. IsEntry(x) /\ DOMAIN x = EntryFields /\ x.type = "alias" /\ x.base = base /\ KeyFree(Drop(p, {id}), x)
  <2>1. key \in Keys \cup {NoKey} /\ \A y : y.key = key => KeyFree(Drop(p, {id}), y)
    BY <1>1, EditKeyIs
  <2> HIDE DEF old
  <2>2. IsEntry(x) /\ DOMAIN x = EntryFields /\ x.type = "alias" /\ x.base = base /\ x.key = key
    BY <1>5, <1>6, <2>1, AsAliasIs
  <2> QED BY <2>1, <2>2
<1>8. PICK n \in Nat : /\ DOMAIN order = 1 .. n /\ \A k \in 1 .. n : order[k] \in T
                       /\ \A i \in T : \E k \in 1 .. n : order[k] = i
                       /\ \A j, k \in 1 .. n : j < k => order[j] # order[k]
  BY <1>1, DependentsInOrder DEF Kinds
<1>9. \A k \in 1 .. n : s[k] = Edit(order[k], p[order[k]], [p[order[k]] EXCEPT !.base = base])
  BY <1>1, <1>8, EditCommandIs, DependentEntry DEF Kinds
<1>10. s = [k \in 1 .. n |-> s[k]]
  BY <1>8
<1>11. IsList(a) /\ Len(a) = 2 /\ a[1] = AddAliasCommand(base, id) /\ a[2] = MoveCommand(id, base)
  BY ShortLists
<1>12. c = Edit(id, old, x)
  BY EditCommandIs
<1>13. Execute(list) /\ old.type = "aliasbase"
  BY <1>3, <1>4
<1>14. list = a \o s \o <<c>>
  OBVIOUS
<1> HIDE DEF old, x, T, s, a, c, list
<1>15. Between(list, a, n, s, c, Len(a))
  BY <1>10, <1>11, <1>14, ListBetween
<1>16. /\ Len(list) = n + 3 /\ list[1] = AddAliasCommand(base, id) /\ list[2] = MoveCommand(id, base)
       /\ list[n + 3] = Edit(id, old, x)
       /\ \A k \in 1 .. n : list[k + 2] = Edit(order[k], p[order[k]], [p[order[k]] EXCEPT !.base = base])
  <2>1. n + 3 = 2 + n + 1 /\ 1 \in 1 .. 2 /\ 2 \in 1 .. 2 /\ \A k \in 1 .. n : k + 2 = 2 + k
    OBVIOUS
  <2>2. /\ Len(list) = n + 3 /\ list[1] = a[1] /\ list[2] = a[2] /\ list[n + 3] = c
        /\ \A k \in 1 .. n : list[k + 2] = s[k]
    BY <1>11, <1>15, <2>1 DEF Between
  <2> QED BY <1>9, <1>11, <1>12, <2>2
<1>17. T = Targets(Links(p), "alias", id)
  BY DEF T
<1>18. IsPast(p) /\ p[id].type = "aliasbase"
  BY <1>1, <1>5, <1>13 DEF Now
<1>19. \E q : IsPast(q) /\ Leads(list, p, q)
  <2>1. AliasBaseList(p, id, base, old, x, n, order, T, list)
    BY <1>5, <1>6, <1>7, <1>8, <1>16, <1>17, <1>18 DEF AliasBaseList
  <2> QED BY <2>1, AliasBaseToAliasLeads
<1>20. IsList(list)
  BY <1>15 DEF Between
<1> QED BY <1>1, <1>13, <1>19, <1>20, Kept

(* The command built for an entry deletes it with its dependents. *)
LEMMA DeleteCommandIs ==
  ASSUME NEW p, Now(p), NEW id \in Used
  PROVE  /\ IsDelete(DeleteCommand(id), p, Links(p), id)
         /\ {"op", "id", "entry", "deps"} \subseteq DOMAIN DeleteCommand(id)
<1> DEFINE c == DeleteCommand(id)
           L == Links(p)
<1>1. /\ id \in DOMAIN p /\ IsEntry(Entry(id)) /\ Norm(Entry(id)) = p[id] /\ Entry(id).type = p[id].type
  BY EntryIs
<1>2. /\ c.op = "delete" /\ c.id = id /\ c.entry = Entry(id)
      /\ c.deps = Restrict(db.entries, DependentsOf(db, id) \cap DOMAIN db.entries)
      /\ {"op", "id", "entry", "deps", "done"} \subseteq DOMAIN c
  BY DEF DeleteCommand, Entry
<1>3. DOMAIN db.entries = DOMAIN p
  BY DEF Now, Agrees
<1>4. ASSUME NEW kind \in Kinds, p[id].type = BaseType[kind]
      PROVE  DOMAIN c.deps = Targets(L, kind, id) /\ \A i \in DOMAIN c.deps : c.deps[i] = p[i]
  <2>1. DependentsOf(db, id) = LinkedTo(db, kind, id)
    BY <1>1, <1>4 DEF DependentsOf, Entry, Kinds, BaseType
  <2>2. LinkedTo(db, kind, id) = Targets(L, kind, id)
    BY LinkedIs DEF Now, At
  <2>3. \A i \in Targets(L, kind, id) : i \in DOMAIN p /\ db.entries[i] = p[i]
    BY DependentEntry DEF Entry
  <2>4. c.deps = [i \in Targets(L, kind, id) |-> db.entries[i]]
    BY <1>2, <1>3, <2>1, <2>2, <2>3 DEF Restrict
  <2> QED BY <2>3, <2>4
<1> HIDE DEF c
<1>5. IsDelete(c, p, L, id)
  BY <1>1, <1>2, <1>4 DEF IsDelete
<1> QED BY <1>2, <1>5 DEF c

LEMMA ShortcutBaseToAliasKeeps ==
  ASSUME StoreInv, FrontEnd = "mfc", IsFiniteSet(Ids), ShortcutBaseToAlias
  PROVE  StoreInv'
<1>1. PICK p : Now(p)
  BY NowIs
<1>2. PICK id \in Used : \E base \in AliasTargets(id), key \in EditKeys(id) :
        /\ Entry(id).type = "shortcutbase"
        /\ \E order \in SetToSeqs(LinkedTo(db, "shortcut", id)) :
            Execute(<<AddAliasCommand(base, id)>>
                    \o [k \in DOMAIN order |-> DeleteCommand(order[k])]
                    \o <<EditCommand(id, AsAlias(Entry(id), base, key))>>)
  BY DEF ShortcutBaseToAlias
<1>3. PICK base \in AliasTargets(id), key \in EditKeys(id) :
        /\ Entry(id).type = "shortcutbase"
        /\ \E order \in SetToSeqs(LinkedTo(db, "shortcut", id)) :
            Execute(<<AddAliasCommand(base, id)>>
                    \o [k \in DOMAIN order |-> DeleteCommand(order[k])]
                    \o <<EditCommand(id, AsAlias(Entry(id), base, key))>>)
  BY <1>2
<1>4. PICK order \in SetToSeqs(LinkedTo(db, "shortcut", id)) :
            Execute(<<AddAliasCommand(base, id)>>
                    \o [k \in DOMAIN order |-> DeleteCommand(order[k])]
                    \o <<EditCommand(id, AsAlias(Entry(id), base, key))>>)
  BY <1>3
<1> DEFINE old == Entry(id)
           x == AsAlias(old, base, key)
           T == Targets(Links(p), "shortcut", id)
           s == [k \in DOMAIN order |-> DeleteCommand(order[k])]
           a == <<AddAliasCommand(base, id)>>
           c == EditCommand(id, x)
           list == a \o s \o <<c>>
<1>5. /\ id \in DOMAIN p
      /\ IsEntry(old) /\ Norm(old) = p[id] /\ DOMAIN old = EntryFields
      /\ old.type = p[id].type
  BY <1>1, EntryIs
<1>6. base \in DOMAIN p \ {id} /\ base \in Ids /\ p[base].type \in {"normal", "aliasbase"}
  BY <1>1, TargetIs
<1>7. IsEntry(x) /\ DOMAIN x = EntryFields /\ x.type = "alias" /\ x.base = base /\ KeyFree(Drop(p, {id}), x)
  <2>1. key \in Keys \cup {NoKey} /\ \A y : y.key = key => KeyFree(Drop(p, {id}), y)
    BY <1>1, EditKeyIs
  <2> HIDE DEF old
  <2>2. IsEntry(x) /\ DOMAIN x = EntryFields /\ x.type = "alias" /\ x.base = base /\ x.key = key
    BY <1>5, <1>6, <2>1, AsAliasIs
  <2> QED BY <2>1, <2>2
<1>8. PICK n \in Nat : /\ DOMAIN order = 1 .. n /\ \A k \in 1 .. n : order[k] \in T
                       /\ \A i \in T : \E k \in 1 .. n : order[k] = i
                       /\ \A j, k \in 1 .. n : j < k => order[j] # order[k]
  BY <1>1, DependentsInOrder DEF Kinds
<1>9. \A k \in 1 .. n : /\ IsDelete(s[k], p, Links(p), order[k])
                        /\ {"op", "id", "entry", "deps"} \subseteq DOMAIN s[k]
  <2> TAKE k \in 1 .. n
  <2>1. s[k] = DeleteCommand(order[k]) /\ order[k] \in T
    BY <1>8
  <2>2. order[k] \in Used
    BY <1>1, <2>1, DependentEntry DEF Kinds
  <2> QED BY <1>1, <2>1, <2>2, DeleteCommandIs
<1>10. s = [k \in 1 .. n |-> s[k]]
  BY <1>8
<1>11. IsList(a) /\ Len(a) = 1 /\ a[1] = AddAliasCommand(base, id)
  BY ShortLists
<1>12. c = Edit(id, old, x)
  BY EditCommandIs
<1>13. Execute(list) /\ old.type = "shortcutbase"
  BY <1>3, <1>4
<1>14. list = a \o s \o <<c>>
  OBVIOUS
<1> HIDE DEF old, x, T, s, a, c, list
<1>15. Between(list, a, n, s, c, Len(a))
  BY <1>10, <1>11, <1>14, ListBetween
<1>16. /\ Len(list) = n + 2 /\ list[1] = AddAliasCommand(base, id)
       /\ list[n + 2] = Edit(id, old, x)
       /\ \A k \in 1 .. n : IsDelete(list[k + 1], p, Links(p), order[k]) /\ {"op", "id", "entry", "deps"} \subseteq DOMAIN list[k + 1]
  BY <1>9, <1>11, <1>12, <1>15 DEF Between
<1>17. T = Targets(Links(p), "shortcut", id)
  BY DEF T
<1>18. IsPast(p) /\ p[id].type = "shortcutbase"
  BY <1>1, <1>5, <1>13 DEF Now
<1>19. \E q : IsPast(q) /\ Leads(list, p, q)
  <2>1. ShortcutBaseList(p, id, base, old, x, n, order, T, list)
    BY <1>5, <1>6, <1>7, <1>8, <1>16, <1>17, <1>18 DEF ShortcutBaseList
  <2> QED BY <2>1, ShortcutBaseToAliasLeads
<1>20. IsList(list)
  BY <1>15 DEF Between
<1> QED BY <1>1, <1>13, <1>19, <1>20, Kept

-----------------------------------------------------------------------------
(* Deletions. *)

(* A group in an order in which no base goes before a dependent of its own. *)
LEMMA GroupIsDeletion ==
  ASSUME NEW p, Now(p), NEW n \in Nat, NEW order, \A k \in 1 .. n : order[k] \in Used,
         \A j, k \in 1 .. n : j < k => order[j] # order[k],
         \A j, k \in 1 .. n : j < k /\ Entry(order[j]).type \in {"aliasbase", "shortcutbase"} =>
            Entry(order[k]).type \in {"aliasbase", "shortcutbase"},
         NEW list, Len(list) = n, \A k \in 1 .. n : list[k] = DeleteCommand(order[k])
  PROVE  DeletionList(p, n, order, list)
<1>1. \A k \in 1 .. n : order[k] \in DOMAIN p /\ Entry(order[k]).type = p[order[k]].type
  BY EntryIs
<1>2. \A k \in 1 .. n : IsDelete(list[k], p, Links(p), order[k]) /\ {"op", "id", "entry", "deps"} \subseteq DOMAIN list[k]
  BY DeleteCommandIs
<1>3. ASSUME NEW j \in 1 .. n, NEW k \in 1 .. n, j < k, IsDependent(p[order[k]]), p[order[k]].base = order[j]
      PROVE  FALSE
  <2>1. p[order[j]].type = BaseType[p[order[k]].type]
    BY <1>1, <1>3, PastIs DEF Now
  <2>2. p[order[k]].type \in Kinds
    BY <1>3 DEF IsDependent
  <2>3. p[order[j]].type \in {"aliasbase", "shortcutbase"}
    BY <2>1, <2>2 DEF BaseType, Kinds
  <2>4. p[order[k]].type \in {"aliasbase", "shortcutbase"}
    BY <1>1, <1>3, <2>3
  <2> QED BY <2>2, <2>4 DEF Kinds
<1> QED BY <1>1, <1>2, <1>3 DEF DeletionList

(* The list of a deletion, and the entries that it deletes. *)
LEMMA DeletionIs ==
  ASSUME FrontEnd = "mfc", IsFiniteSet(Ids), DeleteOne \/ DeleteGroup, NEW p, Now(p)
  PROVE  \E list, X : IsList(list) /\ Execute(list) /\ Deletes(list, p, X)
<1>1. CASE DeleteOne
  <2>1. PICK id \in Used : Execute(<<DeleteCommand(id)>>)
    BY <1>1 DEF DeleteOne
  <2> DEFINE order == <<id>>
             list == <<DeleteCommand(id)>>
  <2>2. IsList(list) /\ Len(list) = 1 /\ list[1] = DeleteCommand(id) /\ order[1] = id
    BY ShortLists
  <2>3. 1 \in Nat /\ \A k \in 1 .. 1 : k = 1
    OBVIOUS
  <2>4. Execute(list)
    BY <2>1
  <2> HIDE DEF list, order
  <2>5. \A j, k \in 1 .. 1 : ~(j < k)
    OBVIOUS
  <2>6. \A k \in 1 .. 1 : order[k] \in Used /\ list[k] = DeleteCommand(order[k])
    BY <2>2, <2>3
  <2>7. DeletionList(p, 1, order, list)
    BY <2>2, <2>3, <2>5, <2>6, GroupIsDeletion
  <2>8. IsPast(p)
    BY DEF Now
  <2> QED BY <2>2, <2>4, <2>7, <2>8, DeletionLeads
<1>2. CASE DeleteGroup
  <2>1. PICK group \in SUBSET Used : \E order \in SetToSeqs(group) :
          GroupOrder(order) /\ Execute([k \in DOMAIN order |-> DeleteCommand(order[k])])
    BY <1>2 DEF DeleteGroup
  <2>2. PICK order \in SetToSeqs(group) :
          GroupOrder(order) /\ Execute([k \in DOMAIN order |-> DeleteCommand(order[k])])
    BY <2>1
  <2>3. IsFiniteSet(group)
    <3>1. Used \subseteq Ids
      BY PastIs DEF Now, Agrees, Used
    <3> QED BY <3>1, FS_Subset
  <2>4. PICK n \in Nat : /\ DOMAIN order = 1 .. n /\ \A k \in 1 .. n : order[k] \in group
                         /\ \A j, k \in 1 .. n : j < k => order[j] # order[k]
    BY <2>3, OrderIs
  <2> DEFINE list == [k \in DOMAIN order |-> DeleteCommand(order[k])]
  <2>5. /\ list = [k \in 1 .. n |-> list[k]] /\ Execute(list)
        /\ \A k \in 1 .. n : list[k] = DeleteCommand(order[k]) /\ order[k] \in Used
    BY <2>2, <2>4
  <2> HIDE DEF list
  <2>6. IsList(list) /\ Len(list) = n
    BY <2>5, ListOf
  <2>7. \A j, k \in 1 .. n : j < k /\ Entry(order[j]).type \in {"aliasbase", "shortcutbase"} =>
            Entry(order[k]).type \in {"aliasbase", "shortcutbase"}
    BY <2>2, <2>4 DEF GroupOrder
  <2>8. DeletionList(p, n, order, list)
    BY <2>4, <2>5, <2>6, <2>7, GroupIsDeletion
  <2>9. IsPast(p)
    BY DEF Now
  <2> QED BY <2>5, <2>6, <2>8, <2>9, DeletionLeads
<1> QED BY <1>1, <1>2

LEMMA DeletionKeeps ==
  ASSUME StoreInv, FrontEnd = "mfc", IsFiniteSet(Ids), DeleteOne \/ DeleteGroup
  PROVE  StoreInv'
<1>1. PICK p : Now(p)
  BY NowIs
<1>2. PICK list, X : IsList(list) /\ Execute(list) /\ Deletes(list, p, X)
  BY <1>1, DeletionIs
<1>3. \E q : IsPast(q) /\ Leads(list, p, q)
  BY <1>2 DEF Deletes
<1> QED BY <1>1, <1>2, <1>3, Kept

(* The password that an entry shows, from the entries. *)
ShownOf(p, id) == IF IsDependent(p[id]) THEN p[p[id].base].password ELSE p[id].password

LEMMA AtShown ==
  ASSUME NEW p, IsPast(p), NEW d, At(d, p), NEW id \in DOMAIN p
  PROVE  Shown(d, id) = ShownOf(p, id)
<1>1. Agrees(d, p)
  BY AtParts
<1>2. CASE IsDependent(p[id])
  <2>1. p[id].base \in DOMAIN p
    BY <1>2, PastIs
  <2>2. d.entries[id] = p[id] /\ DOMAIN d.entries = DOMAIN p /\ d.entries[p[id].base].password = p[p[id].base].password
    BY <1>1, <1>2, <2>1 DEF Agrees
  <2> QED BY <1>2, <2>1, <2>2 DEF Shown, ShownOf
<1>3. CASE ~IsDependent(p[id])
  <2>1. ~IsDependent(d.entries[id]) /\ d.entries[id].password = p[id].password
    BY <1>1, <1>3 DEF Agrees
  <2> QED BY <1>3, <2>1 DEF Shown, ShownOf
<1> QED BY <1>2, <1>3

LEMMA GoneShown ==
  ASSUME NEW p, IsPast(p), NEW X, NEW list, Deletes(list, p, X), NEW id \in DOMAIN Gone(p, X)
  PROVE  id \in DOMAIN p /\ ShownOf(Gone(p, X), id) = ShownOf(p, id)
<1> DEFINE L == Links(p)
           A == Leaving(p, X, {})
           R == Resetting(p, X)
           f == Gone(p, X)
<1>1. IsFit(p, L) /\ IsStage(p, A, R) /\ f = Part(p, L, A, R, {}) /\ IsPast(f) /\ id \in DOMAIN f
  BY PastIsFit DEF Deletes, Gone
<1> HIDE DEF L, A, R, f
<1>2. IsPart(f, p, L, A, R, {})
  BY <1>1, PartIs
<1>3. /\ DOMAIN f = DOMAIN p \ A
      /\ \A i \in DOMAIN p \ A :
            /\ i \in R => f[i] = ResetOf(p, i)
            /\ i \notin R /\ IsDependent(p[i]) => f[i] = p[i]
            /\ i \notin R /\ ~IsDependent(p[i]) => ~IsDependent(f[i]) /\ f[i].password = p[i].password
  BY <1>2 DEF IsPart
<1>4. \A i \in R : p[i].type = "alias" /\ IsDependent(p[i])
  BY <1>1 DEF IsStage, IsDependent, Kinds
<1>5. id \in DOMAIN p /\ IsEntry(p[id])
  BY <1>1, <1>3, PastIs
<1>6. ShownOf(f, id) = ShownOf(p, id)
  <2>1. CASE id \in R
    <3>1. f[id] = [p[id] EXCEPT !.type = "normal", !.password = p[p[id].base].password, !.base = NoId]
      BY <1>1, <1>3, <2>1 DEF ResetOf
    <3>2. f[id].type = "normal" /\ f[id].password = p[p[id].base].password
      BY <1>5, <3>1 DEF IsEntry
    <3> QED BY <1>4, <2>1, <3>2 DEF ShownOf, IsDependent, Kinds
  <2>2. CASE id \notin R /\ IsDependent(p[id])
    <3> DEFINE b == p[id].base
    <3>1. f[id] = p[id]
      BY <1>1, <1>3, <2>2
    <3>2. b \in DOMAIN f /\ ~IsDependent(p[b])
      BY <1>1, <1>5, <2>2, <3>1, PastIs
    <3>3. f[b].password = p[b].password
      BY <1>3, <1>4, <3>2
    <3> QED BY <2>2, <3>1, <3>3 DEF ShownOf
  <2>3. CASE id \notin R /\ ~IsDependent(p[id])
    BY <1>1, <1>3, <2>3 DEF ShownOf
  <2> QED BY <2>1, <2>2, <2>3
<1> QED BY <1>5, <1>6 DEF f

LEMMA DeletionShows ==
  ASSUME StoreInv, FrontEnd = "mfc", IsFiniteSet(Ids), DeleteOne \/ DeleteGroup
  PROVE  \A id \in DOMAIN db'.entries : Shown(db', id) = Shown(db, id)
<1>1. PICK p : Now(p)
  BY NowIs
<1>2. PICK list, X : IsList(list) /\ Execute(list) /\ Deletes(list, p, X)
  BY <1>1, DeletionIs
<1> DEFINE q == Gone(p, X)
<1>3. IsPast(p) /\ At(db, p) /\ IsPast(q) /\ Leads(list, p, q) /\ Len(list) \in Nat
  BY <1>1, <1>2 DEF Now, Deletes, IsList
<1>4. db' = ExecuteAll(list, db).db
  BY <1>2 DEF Execute
<1> HIDE DEF q
<1>5. At(db', q)
  BY <1>3, <1>4, LeadsAgain
<1>6. DOMAIN db'.entries = DOMAIN q
  BY <1>3, <1>5, AtParts DEF Agrees
<1> TAKE id \in DOMAIN db'.entries
<1>7. id \in DOMAIN p /\ ShownOf(q, id) = ShownOf(p, id)
  BY <1>2, <1>3, <1>6, GoneShown DEF q
<1>8. Shown(db', id) = ShownOf(q, id)
  BY <1>3, <1>5, <1>6, AtShown
<1>9. Shown(db, id) = ShownOf(p, id)
  BY <1>3, <1>7, AtShown
<1> QED BY <1>7, <1>8, <1>9

-----------------------------------------------------------------------------
(* The database as it was read. *)

LEMMA FileIsPast ==
  ASSUME EntryFields = StoreFields, NEW e \in Files(Ids)
  PROVE  IsPast(e)
<1>1. PICK S \in SUBSET Ids : e \in [S -> {x \in Bases : x.base = NoId} \cup Dependents]
  BY DEF Files
<1>2. WellFormed(e)
  BY DEF Files
<1>3. ASSUME NEW i \in DOMAIN e
      PROVE  IsEntry(e[i]) /\ Norm(e[i]) = e[i] /\ DOMAIN e[i] = EntryFields
  <2> DEFINE x == e[i]
  <2>1. x \in {y \in Bases : y.base = NoId} \/ x \in Dependents
    BY <1>1, <1>3
  <2>5. IsDependent(x) => ~x.expires
    BY <1>2, <1>3 DEF WellFormed
  <2> HIDE DEF x
  <2>2. CASE x \in Bases /\ x.base = NoId
    <3>1. ~IsDependent(x)
      BY <2>2 DEF Bases, IsDependent, Kinds
    <3>2. /\ x = [f \in EntryFields |-> x[f]] /\ DOMAIN x = EntryFields
          /\ x.type \in Types /\ x.key \in Keys \cup {NoKey} /\ x.expires \in BOOLEAN /\ x.password \in Passwords
      BY <2>2 DEF Bases, StoreFields, Types
    <3>3. IsEntry(x)
      BY <2>2, <3>1, <3>2 DEF IsEntry, StoreFields
    <3>4. [x EXCEPT !.base = NoId] = x
      BY <2>2, <3>2
    <3> QED BY <3>1, <3>2, <3>3, <3>4 DEF Norm, x
  <2>3. CASE x \in Dependents
    <3>1. IsDependent(x)
      BY <2>3 DEF Dependents, IsDependent
    <3>2. /\ x = [f \in EntryFields |-> x[f]] /\ DOMAIN x = EntryFields
          /\ x.type \in Types /\ x.key \in Keys \cup {NoKey} /\ x.expires \in BOOLEAN /\ x.password = NoPassword
          /\ x.base \in Ids
      BY <2>3 DEF Dependents, StoreFields, Types, Kinds
    <3>3. IsEntry(x)
      BY <2>5, <3>1, <3>2 DEF IsEntry, StoreFields
    <3> QED BY <3>1, <3>2, <3>3 DEF Norm, x
  <2> QED BY <2>1, <2>2, <2>3
<1> QED BY <1>1, <1>2, <1>3 DEF IsPast

LEMMA HolderIs ==
  ASSUME NEW p, IsPast(p), NEW keys, keys = [key \in Keys |-> HolderOf(p, key)]
  PROVE  KeysAre(keys, p)
<1>1. DOMAIN p \subseteq Ids /\ NoId \notin Ids /\ NoKey \notin Keys
  BY PastIs, StoreAssumption
<1>2. \A i, j \in DOMAIN p : i # j => p[i].key # p[j].key \/ p[i].key = NoKey
  BY PastIs
<1>3. ASSUME NEW key \in Keys
      PROVE  /\ keys[key] \in Ids \cup {NoId}
             /\ \A i \in Ids : keys[key] = i <=> i \in DOMAIN p /\ p[i].key = key
  <2>1. CASE \E i \in DOMAIN p : p[i].key = key
    <3>1. keys[key] = CHOOSE i \in DOMAIN p : p[i].key = key
      BY <2>1 DEF HolderOf
    <3>2. keys[key] \in DOMAIN p /\ p[keys[key]].key = key
      BY <2>1, <3>1
    <3> QED BY <1>1, <1>2, <1>3, <3>2
  <2>2. CASE ~\E i \in DOMAIN p : p[i].key = key
    <3>1. keys[key] = NoId
      BY <2>2 DEF HolderOf
    <3> QED BY <1>1, <2>2, <3>1
  <2> QED BY <2>1, <2>2
<1> QED BY <1>3 DEF KeysAre

LEMMA ReadArrives ==
  ASSUME NEW e, IsPast(e)
  PROVE  At(DatabaseOf(e), e)
<1> DEFINE d == DatabaseOf(e)
<1>1. /\ d.entries = e /\ d.deps = [kind \in Kinds |-> SetToBag(LinksOf(e, kind))]
      /\ d.keys = [key \in Keys |-> HolderOf(e, key)] /\ d.expired = SetToBag(ExpiringOf(e))
      /\ d.sound /\ DOMAIN d = Fields
  BY DEF DatabaseOf, Fields
<1> HIDE DEF d
<1>2. d.deps = Bag(Links(e))
  BY <1>1 DEF Bag, Links
<1>3. ExpiringOf(e) = Expiring(e)
  BY PastIs DEF ExpiringOf, Expiring
<1>4. KeysAre(d.keys, e)
  BY <1>1, HolderIs
<1>5. IsLinks(Links(e))
  BY PastIsFit
<1>6. Holds(d.entries, e)
  BY <1>1, PastIs DEF Holds
<1>7. Db(d, d.entries, Bag(Links(e)), d.keys, SetToBag(Expiring(e)))
  BY <1>1, <1>2, <1>3 DEF Db
<1> QED BY <1>4, <1>5, <1>6, <1>7 DEF At, Sto, d

LEMMA InitFits ==
  ASSUME EntryFields = StoreFields, Init
  PROVE  StoreInv
<1>1. PICK e \in Files(Ids) : db = DatabaseOf(e)
  BY DEF Init
<1>2. IsPast(e)
  BY FileIsPast
<1>3. At(db, e)
  BY <1>1, <1>2, ReadArrives
<1>4. View(db) = FullView(e)
  BY <1>2, <1>3, AtView
<1>5. commands = <<>> /\ next = 1 /\ history = <<View(db)>>
  BY DEF Init
<1>6. IsList(history) /\ Len(history) = 1 /\ history[1] = FullView(e)
  BY <1>4, <1>5, ShortLists
<1>7. IsList(commands) /\ Len(commands) = 0
  BY <1>5 DEF IsList
<1>8. history[1].entries = e
  BY <1>6 DEF FullView
<1>9. ChainFits
  BY <1>5, <1>6, <1>7, StoreAssumption DEF ChainFits
<1>10. PastsFit
  BY <1>2, <1>6, <1>8 DEF PastsFit
<1>11. ListsLead /\ ListsReturn
  BY <1>5, <1>7 DEF ListsLead, ListsReturn
<1>12. Present
  BY <1>3, <1>5, <1>8 DEF Present
<1> QED BY <1>9, <1>10, <1>11, <1>12 DEF StoreInv

(* A step that changes nothing. *)
LEMMA StutterKeeps ==
  ASSUME StoreInv, UNCHANGED vars
  PROVE  StoreInv'
<1> QED BY DEF StoreInv, ChainFits, PastsFit, ListsLead, ListsReturn, Present, vars

LEMMA NextKeeps ==
  ASSUME EntryFields = StoreFields, StoreInv, FrontEnd = "mfc", IsFiniteSet(Ids), [Next]_vars
  PROVE  StoreInv'
<1>1. CASE AddNormal
  BY <1>1, AddNormalKeeps
<1>2. CASE AddAlias
  BY <1>2, AddAliasKeeps
<1>3. CASE AddShortcut
  BY <1>3, AddShortcutKeeps
<1>4. CASE Duplicate
  BY <1>4, DuplicateKeeps
<1>5. CASE DeleteOne \/ DeleteGroup
  BY <1>5, DeletionKeeps
<1>6. CASE EditFields
  BY <1>6, EditFieldsKeeps
<1>7. CASE NormalToAlias
  BY <1>7, NormalToAliasKeeps
<1>8. CASE AliasBaseToAlias
  BY <1>8, AliasBaseToAliasKeeps
<1>9. CASE ShortcutBaseToAlias
  BY <1>9, ShortcutBaseToAliasKeeps
<1>10. CASE Rebase
  BY <1>10, RebaseKeeps
<1>11. CASE AliasToNormal
  BY <1>11, AliasToNormalKeeps
<1>12. CASE Undo
  BY <1>12, UndoKeeps
<1>13. CASE Redo
  BY <1>13, RedoKeeps
<1>14. CASE UNCHANGED vars
  BY <1>14, StutterKeeps
<1> QED BY <1>1, <1>2, <1>3, <1>4, <1>5, <1>6, <1>7, <1>8, <1>9, <1>10, <1>11, <1>12, <1>13, <1>14 DEF Next

(* What the invariant says of the database and the history. *)
LEMMA StoreInvShows ==
  ASSUME StoreInv
  PROVE  (EntryFields = StoreFields => TypeOK) /\ UndoIsExact /\ DependentsAgree /\ BasesFound /\ ListsAgree
<1>1. PICK p : Now(p)
  BY NowIs
<1>2. IsPast(p) /\ At(db, p) /\ Agrees(db, p) /\ p = history[next].entries
  BY <1>1 DEF Now
<1>3. next \in 1 .. Len(history) /\ history[next] = FullView(p)
  BY <1>2 DEF StoreInv, ChainFits, PastsFit
<1>4. UndoIsExact
  BY <1>2, <1>3, AtView DEF UndoIsExact
<1>5. BasesFound
  BY <1>2 DEF Agrees, BasesFound
<1>6. /\ EntryFields = StoreFields =>
            \A i \in DOMAIN db.entries : db.entries[i] \in Bases \cup Dependents
      /\ DOMAIN db.entries \subseteq Ids
      /\ \A kind \in Kinds : db.deps[kind] = SetToBag(LinksOf(db.entries, kind))
      /\ \A i \in DOMAIN db.entries, kind \in Kinds :
            (db.entries[i].type = BaseType[kind]) = (LinkedTo(db, kind, i) # {})
      /\ \A key \in Keys : db.keys[key] = HolderOf(db.entries, key)
      /\ \A i, j \in DOMAIN db.entries :
            i # j => db.entries[i].key # db.entries[j].key \/ db.entries[i].key = NoKey
      /\ db.expired = SetToBag(ExpiringOf(db.entries))
  BY <1>2, AtAgrees
<1>7. EntryFields = StoreFields => TypeOK
  BY <1>6 DEF TypeOK, StoreInv, ChainFits
<1>8. DependentsAgree
  BY <1>6 DEF DependentsAgree
<1>9. ListsAgree
  BY <1>6 DEF ListsAgree
<1> QED BY <1>4, <1>5, <1>7, <1>8, <1>9

(* The inductive invariant: the database has the entries that the history   *)
(* has at its position, and every list of commands in the chain leads from  *)
(* the entries before it to those after it, and its undo back, whatever     *)
(* operations of the Windows front end, undos and redos follow.             *)
THEOREM StoreInvariant ==
  ASSUME EntryFields = StoreFields, FrontEnd = "mfc", IsFiniteSet(Ids)
  PROVE  Spec => []StoreInv
<1>1. Init => StoreInv
  BY InitFits
<1>2. StoreInv /\ [Next]_vars => StoreInv'
  BY NextKeeps
<1> QED BY <1>1, <1>2, PTL DEF Spec

(* Whatever the user does, undoes and redoes, every entry is a base with a  *)
(* password of its own or a dependent without one, of a uuid that exists,  *)
(* and the position lies in the chain of commands.                         *)
THEOREM StoreTyped ==
  ASSUME EntryFields = StoreFields, FrontEnd = "mfc", IsFiniteSet(Ids)
  PROVE  Spec => []TypeOK
<1>1. StoreInv => TypeOK
  BY StoreInvShows
<1> QED BY <1>1, StoreInvariant, PTL

(* Command::Undo and Redo of the commands of every operation bring back the *)
(* entries, the links, the shortcut keys and the expiry list that PWScore   *)
(* had when it was first there, in whatever order they follow one another.  *)
THEOREM UndosAreExact ==
  ASSUME EntryFields = StoreFields, FrontEnd = "mfc", IsFiniteSet(Ids)
  PROVE  Spec => []UndoIsExact
<1>1. StoreInv => UndoIsExact
  BY StoreInvShows
<1> QED BY <1>1, StoreInvariant, PTL

(* The multimaps from bases to aliases and to shortcuts hold each dependent *)
(* once, under its base, and an entry is a base exactly while it has        *)
(* dependents, after any list of commands, undone or not.                   *)
THEOREM LinksAgree ==
  ASSUME EntryFields = StoreFields, FrontEnd = "mfc", IsFiniteSet(Ids)
  PROVE  Spec => []DependentsAgree
<1>1. StoreInv => DependentsAgree
  BY StoreInvShows
<1> QED BY <1>1, StoreInvariant, PTL

(* DoAddDependentEntry always finds the base and the dependent, and the     *)
(* base normal or a base of that kind: no command of any list, executed or  *)
(* undone, fails its ASSERTs.                                               *)
THEOREM AssertsHold ==
  ASSUME EntryFields = StoreFields, FrontEnd = "mfc", IsFiniteSet(Ids)
  PROVE  Spec => []BasesFound
<1>1. StoreInv => BasesFound
  BY StoreInvShows
<1> QED BY <1>1, StoreInvariant, PTL

(* The map of shortcut keys leads to the one entry that has the key, and    *)
(* the list of expiring entries holds those with an expiry date, each once. *)
THEOREM KeysAndDatesAgree ==
  ASSUME EntryFields = StoreFields, FrontEnd = "mfc", IsFiniteSet(Ids)
  PROVE  Spec => []ListsAgree
<1>1. StoreInv => ListsAgree
  BY StoreInvShows
<1> QED BY <1>1, StoreInvariant, PTL

(* However large the group that goes, and in whatever order that leaves     *)
(* bases for last, an entry that stays shows the password it showed: the    *)
(* aliases of a deleted base have taken over its password.                  *)
THEOREM DeletionsKeepPasswords ==
  ASSUME EntryFields = StoreFields, FrontEnd = "mfc", IsFiniteSet(Ids)
  PROVE  Spec => DeletionKeepsPasswords
<1>1. StoreInv /\ [Next]_vars =>
        [DeleteOne \/ DeleteGroup => \A id \in DOMAIN db'.entries : Shown(db', id) = Shown(db, id)]_vars
  BY DeletionShows
<1> QED BY <1>1, StoreInvariant, PTL DEF Spec, DeletionKeepsPasswords
=============================================================================
