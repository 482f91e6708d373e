------------------------ MODULE OtherDatabaseProofs ------------------------
(***************************************************************************)
(* What a merge and a synchronisation leave behind, and that undo brings   *)
(* back what was there, for databases of any size.                         *)
(*                                                                         *)
(* A merge adds, base by base, a base that is new and then its dependents. *)
(* A base is recorded as one before it has dependents, and once they are   *)
(* undone it is a normal entry: between the two the commands and their     *)
(* undo do not pass the same stages, so a list of commands is followed in  *)
(* both directions here (Runs) until it is complete.                       *)
(*                                                                         *)
(* Then the inductive invariant OtherInv, of every position of the chain;  *)
(* and the properties of steps, from where the lists lead.                 *)
(***************************************************************************)
EXTENDS OtherDatabase, EntryStoreProofs

(* The first m commands lead from the stage s to the entries q, and their  *)
(* undo to the stage t.                                                    *)
Runs(list, m, s, t, q) ==
    \E S, T : /\ S[0] = s /\ T[0] = t /\ S[m] = Stage(q) /\ T[m] = Stage(q)
              /\ \A k \in 1 .. m : Does(list[k], S[k - 1], S[k], T[k - 1], T[k])

LEMMA RunsNone ==
  ASSUME NEW list, NEW q
  PROVE  Runs(list, 0, Stage(q), Stage(q), q)
<1> DEFINE S == [k \in 0 .. 0 |-> Stage(q)]
<1>1. S[0] = Stage(q)
  OBVIOUS
<1>2. \A k \in 1 .. 0 : Does(list[k], S[k - 1], S[k], S[k - 1], S[k])
  OBVIOUS
<1> HIDE DEF S
<1> QED BY <1>1, <1>2 DEF Runs

LEMMA RunsOne ==
  ASSUME NEW list, NEW s, NEW t, NEW q, Does(list[1], s, Stage(q), t, Stage(q))
  PROVE  Runs(list, 1, s, t, q)
<1> DEFINE S == [k \in 0 .. 1 |-> IF k = 0 THEN s ELSE Stage(q)]
           T == [k \in 0 .. 1 |-> IF k = 0 THEN t ELSE Stage(q)]
<1>1. S[0] = s /\ T[0] = t /\ S[1] = Stage(q) /\ T[1] = Stage(q)
  <2>1. 0 \in 0 .. 1 /\ 1 \in 0 .. 1
    OBVIOUS
  <2> QED BY <2>1
<1> HIDE DEF S, T
<1>2. \A k \in 1 .. 1 : Does(list[k], S[k - 1], S[k], T[k - 1], T[k])
  <2> SUFFICES ASSUME NEW k \in 1 .. 1  PROVE Does(list[k], S[k - 1], S[k], T[k - 1], T[k])
    OBVIOUS
  <2>1. k = 1 /\ k - 1 = 0
    OBVIOUS
  <2> QED BY <1>1, <2>1
<1> QED BY <1>1, <1>2 DEF Runs

(* The list goes on as another does. *)
LEMMA RunsJoin ==
  ASSUME NEW a, NEW m \in Nat, NEW s, NEW t, NEW q, Runs(a, m, s, t, q),
         NEW b, NEW n \in Nat, NEW r, Runs(b, n, Stage(q), Stage(q), r),
         NEW list, \A k \in 1 .. m : list[k] = a[k], \A k \in 1 .. n : list[m + k] = b[k]
  PROVE  Runs(list, m + n, s, t, r)
<1>1. PICK S, T : /\ S[0] = s /\ T[0] = t /\ S[m] = Stage(q) /\ T[m] = Stage(q)
                  /\ \A k \in 1 .. m : Does(a[k], S[k - 1], S[k], T[k - 1], T[k])
  BY DEF Runs
<1>2. PICK V, W : /\ V[0] = Stage(q) /\ W[0] = Stage(q) /\ V[n] = Stage(r) /\ W[n] = Stage(r)
                  /\ \A k \in 1 .. n : Does(b[k], V[k - 1], V[k], W[k - 1], W[k])
  BY DEF Runs
<1> DEFINE X == [k \in 0 .. m + n |-> IF k <= m THEN S[k] ELSE V[k - m]]
           Y == [k \in 0 .. m + n |-> IF k <= m THEN T[k] ELSE W[k - m]]
<1>3. \A k \in 0 .. m : X[k] = S[k] /\ Y[k] = T[k]
  <2> SUFFICES ASSUME NEW k \in 0 .. m  PROVE X[k] = S[k] /\ Y[k] = T[k]
    OBVIOUS
  <2>1. k \in 0 .. m + n /\ k <= m
    OBVIOUS
  <2> QED BY <2>1
<1>4. \A k \in 0 .. n : X[m + k] = V[k] /\ Y[m + k] = W[k]
  <2> SUFFICES ASSUME NEW k \in 0 .. n  PROVE X[m + k] = V[k] /\ Y[m + k] = W[k]
    OBVIOUS
  <2>1. m + k \in 0 .. m + n /\ (m + k) - m = k
    OBVIOUS
  <2>2. CASE k = 0
    <3>1. m + k = m /\ m \in 0 .. m
      BY <2>2
    <3> HIDE DEF X, Y
    <3> QED BY <1>1, <1>2, <1>3, <2>2, <3>1
  <2>3. CASE k # 0
    <3>1. ~(m + k <= m)
      BY <2>3
    <3>2. X[m + k] = V[(m + k) - m] /\ Y[m + k] = W[(m + k) - m]
      BY <2>1, <3>1
    <3> QED BY <2>1, <3>2
  <2> QED BY <2>2, <2>3
<1> HIDE DEF X, Y
<1>5. X[0] = s /\ Y[0] = t /\ X[m + n] = Stage(r) /\ Y[m + n] = Stage(r)
  <2>1. 0 \in 0 .. m /\ n \in 0 .. n
    OBVIOUS
  <2> QED BY <1>1, <1>2, <1>3, <1>4, <2>1
<1>6. ASSUME NEW k \in 1 .. m + n PROVE Does(list[k], X[k - 1], X[k], Y[k - 1], Y[k])
  <2>1. CASE k <= m
    <3>1. k \in 0 .. m /\ k - 1 \in 0 .. m /\ k \in 1 .. m
      BY <2>1
    <3> QED BY <1>1, <1>3, <3>1
  <2>2. CASE ~(k <= m)
    <3> DEFINE j == k - m
    <3>1. j \in 1 .. n /\ j \in 0 .. n /\ j - 1 \in 0 .. n /\ m + j = k /\ m + (j - 1) = k - 1
      BY <2>2
    <3> HIDE DEF j
    <3>2. X[k] = V[j] /\ Y[k] = W[j] /\ X[k - 1] = V[j - 1] /\ Y[k - 1] = W[j - 1] /\ list[k] = b[j]
      BY <1>4, <3>1
    <3> QED BY <1>2, <3>1, <3>2
  <2> QED BY <2>1, <2>2
<1> QED BY <1>5, <1>6 DEF Runs

(* One command more. *)
LEMMA RunsOn ==
  ASSUME NEW list, NEW m \in Nat, NEW s, NEW t, NEW q, Runs(list, m, s, t, q),
         NEW r, Does(list[m + 1], Stage(q), Stage(r), Stage(q), Stage(r))
  PROVE  Runs(list, m + 1, s, t, r)
<1> DEFINE b == <<list[m + 1]>>
<1>1. b[1] = list[m + 1]
  OBVIOUS
<1>2. Runs(b, 1, Stage(q), Stage(q), r)
  <2> HIDE DEF b
  <2> QED BY <1>1, RunsOne
<1>3. \A k \in 1 .. 1 : list[m + k] = b[k]
  <2> SUFFICES ASSUME NEW k \in 1 .. 1  PROVE list[m + k] = b[k]
    OBVIOUS
  <2>1. k = 1
    OBVIOUS
  <2> QED BY <2>1
<1> HIDE DEF b
<1>4. 1 \in Nat
  OBVIOUS
<1> QED BY <1>2, <1>3, <1>4, RunsJoin

(* Two commands, executed and undone over different stages. *)
LEMMA RunsTwo ==
  ASSUME NEW list, NEW p, NEW s, NEW t, NEW q,
         Does(list[1], Stage(p), s, Stage(p), t), Does(list[2], s, Stage(q), t, Stage(q))
  PROVE  Runs(list, 2, Stage(p), Stage(p), q)
<1> DEFINE S == [k \in 0 .. 2 |-> IF k = 0 THEN Stage(p) ELSE IF k = 1 THEN s ELSE Stage(q)]
           T == [k \in 0 .. 2 |-> IF k = 0 THEN Stage(p) ELSE IF k = 1 THEN t ELSE Stage(q)]
<1>1. /\ S[0] = Stage(p) /\ T[0] = Stage(p) /\ S[1] = s /\ T[1] = t
      /\ S[2] = Stage(q) /\ T[2] = Stage(q)
  <2>1. 0 \in 0 .. 2 /\ 1 \in 0 .. 2 /\ 2 \in 0 .. 2
    OBVIOUS
  <2> QED BY <2>1
<1> HIDE DEF S, T
<1>2. ASSUME NEW k \in 1 .. 2 PROVE Does(list[k], S[k - 1], S[k], T[k - 1], T[k])
  <2>1. (k = 1 /\ k - 1 = 0) \/ (k = 2 /\ k - 1 = 1)
    OBVIOUS
  <2> QED BY <1>1, <2>1
<1> QED BY <1>1, <1>2 DEF Runs

LEMMA RunsLead ==
  ASSUME NEW list, Len(list) \in Nat, NEW p, NEW q, Runs(list, Len(list), Stage(p), Stage(p), q)
  PROVE  Leads(list, p, q)
<1> DEFINE n == Len(list)
<1>1. PICK S, T : /\ S[0] = Stage(p) /\ T[0] = Stage(p) /\ S[n] = Stage(q) /\ T[n] = Stage(q)
                  /\ \A k \in 1 .. n : Does(list[k], S[k - 1], S[k], T[k - 1], T[k])
  BY DEF Runs
<1> QED BY <1>1, StagesLead

-----------------------------------------------------------------------------
(* Entries are added.                                                       *)

(* An entry that is what it was but for becoming a base, or no base.        *)
AllBut(y, x) ==
    /\ DOMAIN y = DOMAIN x
    /\ \A f \in DOMAIN x \ {"type"} : y[f] = x[f]
    /\ IsDependent(y) <=> IsDependent(x)
    /\ IsDependent(x) => y = x

LEMMA AllButSelf ==
  ASSUME NEW x
  PROVE  AllBut(x, x)
  BY DEF AllBut

LEMMA AllButOn ==
  ASSUME NEW x, NEW y, NEW z, AllBut(y, x), AllBut(z, y)
  PROVE  AllBut(z, x)
  BY DEF AllBut

LEMMA AllButType ==
  ASSUME NEW x, IsEntry(x), ~IsDependent(x), NEW type \in Types \ Kinds
  PROVE  AllBut([x EXCEPT !.type = type], x)
  BY DEF AllBut, IsEntry, IsDependent, Kinds

(* Another entry x enters, a dependent of b. *)
Entering(r, id, x, kind, b) ==
    /\ id \in Ids \ DOMAIN r /\ IsEntry(x) /\ DOMAIN x = EntryFields
    /\ x.type = kind /\ x.base = b /\ KeyFree(r, x)

EntersAs(r2, r, id, x, b, kind) ==
    /\ IsPast(r2) /\ DOMAIN r2 = DOMAIN r \cup {id} /\ r2[id] = x
    /\ \A i \in DOMAIN r : AllBut(r2[i], r[i])
    /\ b \in DOMAIN r2 /\ r2[b].type = BaseType[kind]

LEMMA EnteringEnters ==
  ASSUME NEW r, IsPast(r), NEW kind \in Kinds, NEW b \in DOMAIN r, r[b].type \in {"normal", BaseType[kind]},
         NEW id, NEW x, Entering(r, id, x, kind, b), NEW r2, r2 = Entered(r, id, x)
  PROVE  /\ EntersAs(r2, r, id, x, b, kind)
         /\ EntersWell(r, id, x, r2)
<1>1. id \in Ids \ DOMAIN r /\ IsEntry(x) /\ DOMAIN x = EntryFields /\ IsDependent(x) /\ KeyFree(r, x)
      /\ x.base = b /\ x.type = kind
  BY DEF Entering, IsDependent
<1>2. EntersWell(r, id, x, r2)
  BY <1>1, DependentEnters
<1> DEFINE e == Retyped(r, b, BaseType[kind])
<1>3. r2 = Put(e, id, x)
  BY <1>1 DEF Entered
<1>4. BaseType[kind] \in Types \ Kinds /\ BaseType[kind] \notin Kinds
  BY DEF BaseType, Types, Kinds
<1>5. IsEntry(r[b]) /\ ~IsDependent(r[b]) /\ r = [i \in DOMAIN r |-> r[i]]
  <2>1. IsEntry(r[b])
    BY PastIs
  <2> QED BY <2>1, <1>4, PastIs DEF IsDependent, Kinds
<1>6. /\ DOMAIN e = DOMAIN r /\ e[b] = [r[b] EXCEPT !.type = BaseType[kind]]
      /\ \A i \in DOMAIN r \ {b} : e[i] = r[i]
  BY <1>5 DEF Retyped
<1>7. e[b].type = BaseType[kind] /\ AllBut(e[b], r[b])
  <2>1. AllBut([r[b] EXCEPT !.type = BaseType[kind]], r[b])
    BY <1>4, <1>5, AllButType
  <2>2. [r[b] EXCEPT !.type = BaseType[kind]].type = BaseType[kind]
    BY <1>4, <1>5, RetypeIs
  <2> QED BY <1>6, <2>1, <2>2
<1> HIDE DEF e
<1>8. /\ DOMAIN r2 = DOMAIN e \cup {id} /\ r2[id] = x /\ \A i \in DOMAIN e : i # id => r2[i] = e[i]
  <2>1. /\ DOMAIN Put(e, id, x) = DOMAIN e \cup {id} /\ Put(e, id, x)[id] = x
        /\ \A i \in DOMAIN e : i # id => Put(e, id, x)[i] = e[i]
    BY DEF Put
  <2> QED BY <1>3, <2>1
<1>9. \A i \in DOMAIN r : AllBut(r2[i], r[i])
  <2> SUFFICES ASSUME NEW i \in DOMAIN r  PROVE AllBut(r2[i], r[i])
    OBVIOUS
  <2>1. r2[i] = e[i]
    BY <1>1, <1>6, <1>8
  <2>2. AllBut(r[i], r[i])
    BY AllButSelf
  <2> QED BY <1>6, <1>7, <2>1, <2>2
<1>10. r2[b] = e[b] /\ b \in DOMAIN r2
  BY <1>1, <1>6, <1>8
<1> QED BY <1>2, <1>6, <1>7, <1>8, <1>9, <1>10 DEF EntersAs, EntersWell

(* Its command, from a stage at which its base may be taken for a base      *)
(* already.                                                                 *)
LEMMA EnteringDoes ==
  ASSUME NEW r, IsPast(r), NEW kind \in Kinds, NEW b \in DOMAIN r, r[b].type \in {"normal", BaseType[kind]},
         NEW id, NEW x, Entering(r, id, x, kind, b), NEW r2, r2 = Entered(r, id, x)
  PROVE  Does(AddCommand(id, x), Stage(r), Stage(r2), Stage(r), Stage(r2))
<1>1. id \in Ids \ DOMAIN r /\ IsEntry(x) /\ DOMAIN x = EntryFields /\ IsDependent(x) /\ KeyFree(r, x)
      /\ x.base = b /\ x.type = kind
  BY DEF Entering, IsDependent
<1>2. EntersWell(r, id, x, r2)
  BY EnteringEnters
<1> DEFINE L == Links(r)
           s == <<r2, Tied(L, x.type, x.base, id)>>
<1>3. /\ Links(r2) = Tied(L, x.type, x.base, id) /\ <<x.base, id>> \notin L[x.type]
      /\ r[x.base].type = IF Targets(L, x.type, x.base) = {} THEN "normal" ELSE BaseType[x.type]
  BY <1>2 DEF EntersWell
<1>4. Does(AddCommand(id, x), <<r, L>>, s, <<r, L>>, s)
  <2> HIDE DEF L
  <2> QED BY <1>1, <1>3, AddDependentDoes
<1> QED BY <1>3, <1>4 DEF Stage

(* The commands lo + 1 to n add dependents of b, with other uuids and keys  *)
(* than there are.                                                          *)
DependentsOf1(list, lo, n, q, b, kind) ==
    /\ \A k \in lo + 1 .. n :
          /\ list[k] = AddCommand(list[k].id, list[k].entry)
          /\ Entering(q, list[k].id, list[k].entry, kind, b)
    /\ \A j, k \in lo + 1 .. n : j < k =>
          /\ list[j].id # list[k].id
          /\ list[j].entry.key # list[k].entry.key \/ list[k].entry.key = NoKey

(* What the commands lo + 1 to m add. *)
Adds(r, q, list, lo, m) ==
    /\ DOMAIN r = DOMAIN q \cup {list[k].id : k \in lo + 1 .. m}
    /\ \A i \in DOMAIN q : AllBut(r[i], q[i])
    /\ \A k \in lo + 1 .. m : AllBut(r[list[k].id], Norm(list[k].entry))

(* After m of them the next enters. *)
LEMMA NextEnters ==
  ASSUME NEW list, NEW lo \in Nat, NEW n \in Nat, NEW m \in Nat, lo <= m, m < n,
         NEW q, IsPast(q), NEW kind \in Kinds, NEW b, DependentsOf1(list, lo, n, q, b, kind),
         NEW r, IsPast(r), Adds(r, q, list, lo, m)
  PROVE  /\ list[m + 1] = AddCommand(list[m + 1].id, list[m + 1].entry)
         /\ Entering(r, list[m + 1].id, list[m + 1].entry, kind, b)
<1> DEFINE id == list[m + 1].id
           x == list[m + 1].entry
<1>1. m + 1 \in lo + 1 .. n /\ \A j \in lo + 1 .. m : j \in lo + 1 .. n /\ j < m + 1
  OBVIOUS
<1>2. list[m + 1] = AddCommand(id, x) /\ Entering(q, id, x, kind, b)
  BY <1>1 DEF DependentsOf1
<1>3. \A j \in lo + 1 .. m : list[j].id # id /\ (list[j].entry.key # x.key \/ x.key = NoKey)
  BY <1>1 DEF DependentsOf1
<1> HIDE DEF id, x
<1>4. id \notin DOMAIN r
  BY <1>2, <1>3 DEF Entering, Adds
<1>5. ASSUME x.key # NoKey, NEW i \in DOMAIN r PROVE r[i].key # x.key
  <2>1. CASE i \in DOMAIN q
    <3>1. AllBut(r[i], q[i]) /\ IsEntry(q[i])
      BY <2>1, PastIs DEF Adds
    <3>2. r[i].key = q[i].key
      BY <3>1 DEF AllBut, IsEntry
    <3>3. q[i].key # x.key
      BY <1>2, <1>5, <2>1 DEF Entering, KeyFree
    <3> QED BY <3>2, <3>3
  <2>2. CASE i \notin DOMAIN q
    <3>1. PICK j \in lo + 1 .. m : i = list[j].id
      BY <2>2 DEF Adds
    <3> DEFINE y == list[j].entry
    <3>2. AllBut(r[i], Norm(y))
      BY <3>1 DEF Adds
    <3>3. IsEntry(y)
      BY <1>1, <3>1 DEF DependentsOf1, Entering
    <3>4. y.key # x.key
      BY <1>3, <1>5, <3>1
    <3> HIDE DEF y
    <3>5. IsEntry(Norm(y)) /\ Norm(y).key = y.key
      BY <3>3, NormIs
    <3>6. r[i].key = Norm(y).key
      BY <3>2, <3>5 DEF AllBut, IsEntry
    <3> QED BY <3>4, <3>5, <3>6
  <2> QED BY <2>1, <2>2
<1>6. Entering(r, id, x, kind, b)
  BY <1>2, <1>4, <1>5 DEF Entering, KeyFree
<1> QED BY <1>2, <1>6 DEF id, x

LEMMA AddsOneMore ==
  ASSUME NEW list, NEW lo \in Nat, NEW m \in Nat, lo <= m, NEW q, IsPast(q), NEW r, IsPast(r), Adds(r, q, list, lo, m),
         NEW id, id = list[m + 1].id, NEW x, x = list[m + 1].entry, NEW kind \in Kinds, NEW b,
         Entering(r, id, x, kind, b), NEW r2, EntersAs(r2, r, id, x, b, kind)
  PROVE  Adds(r2, q, list, lo, m + 1)
<1>1. \A k \in Int : k \in lo + 1 .. m + 1 <=> k \in lo + 1 .. m \/ k = m + 1
  OBVIOUS
<1>2. DOMAIN r2 = DOMAIN q \cup {list[k].id : k \in lo + 1 .. m + 1}
  BY <1>1 DEF Adds, EntersAs
<1>3. \A i \in DOMAIN q : AllBut(r2[i], q[i])
  <2> SUFFICES ASSUME NEW i \in DOMAIN q  PROVE AllBut(r2[i], q[i])
    OBVIOUS
  <2>1. AllBut(r[i], q[i]) /\ AllBut(r2[i], r[i])
    BY DEF Adds, EntersAs
  <2> QED BY <2>1, AllButOn
<1>4. ASSUME NEW k \in lo + 1 .. m + 1 PROVE AllBut(r2[list[k].id], Norm(list[k].entry))
  <2>1. CASE k \in lo + 1 .. m
    <3> DEFINE i == list[k].id
               y == Norm(list[k].entry)
    <3>1. i \in DOMAIN r /\ AllBut(r[i], y)
      BY <2>1 DEF Adds
    <3>2. AllBut(r2[i], r[i])
      BY <3>1 DEF EntersAs
    <3> HIDE DEF i, y
    <3>3. AllBut(r2[i], y)
      BY <3>1, <3>2, AllButOn
    <3> QED BY <3>3 DEF i, y
  <2>2. CASE k = m + 1
    <3>1. r2[id] = x /\ IsEntry(x) /\ IsDependent(x)
      BY DEF EntersAs, Entering, IsDependent
    <3>2. Norm(x) = x
      BY <3>1, NormIs
    <3>3. AllBut(x, x)
      BY AllButSelf
    <3> QED BY <2>2, <3>1, <3>2, <3>3
  <2> QED BY <1>1, <2>1, <2>2
<1> QED BY <1>2, <1>3, <1>4 DEF Adds

LEMMA AddsNone ==
  ASSUME NEW q, NEW list, NEW lo \in Nat
  PROVE  Adds(q, q, list, lo, lo)
<1>1. lo + 1 .. lo = {}
  OBVIOUS
<1>2. \A i \in DOMAIN q : AllBut(q[i], q[i])
  BY AllButSelf
<1> QED BY <1>1, <1>2 DEF Adds

(* From those after m0 of them they lead to the entries with all of them. *)
LEMMA DependentsRun ==
  ASSUME NEW list, NEW lo \in Nat, NEW m0 \in Nat, NEW n \in Nat, lo <= m0, m0 <= n, NEW q, IsPast(q),
         NEW kind \in Kinds, NEW b, DependentsOf1(list, lo, n, q, b, kind),
         NEW q0, IsPast(q0), Adds(q0, q, list, lo, m0), b \in DOMAIN q0, q0[b].type \in {"normal", BaseType[kind]},
         NEW s, NEW t, Runs(list, m0, s, t, q0)
  PROVE  \E r : IsPast(r) /\ Adds(r, q, list, lo, n) /\ Runs(list, n, s, t, r)
<1> DEFINE Right(r, m) ==
               /\ IsPast(r) /\ Adds(r, q, list, lo, m) /\ Runs(list, m, s, t, r)
               /\ b \in DOMAIN r /\ r[b].type \in {"normal", BaseType[kind]}
           S == {j \in Nat : m0 + j <= n => \E r : Right(r, m0 + j)}
<1>1. 0 \in S
  <2>1. Right(q0, m0)
    OBVIOUS
  <2>2. m0 + 0 = m0
    OBVIOUS
  <2> HIDE DEF Right
  <2> QED BY <2>1, <2>2
<1>2. ASSUME NEW j \in Nat, j \in S PROVE j + 1 \in S
  <2> SUFFICES ASSUME m0 + (j + 1) <= n  PROVE \E r : Right(r, m0 + (j + 1))
    OBVIOUS
  <2> DEFINE m == m0 + j
  <2>1. m \in Nat /\ lo <= m /\ m < n /\ m0 + (j + 1) = m + 1
    OBVIOUS
  <2>2. PICK r : Right(r, m)
    BY <1>2, <2>1
  <2> HIDE DEF S, m
  <2> DEFINE id == list[m + 1].id
             x == list[m + 1].entry
             r2 == Entered(r, id, x)
  <2>3. list[m + 1] = AddCommand(id, x) /\ Entering(r, id, x, kind, b)
    BY <2>1, <2>2, NextEnters
  <2>4. EntersAs(r2, r, id, x, b, kind)
    <3> HIDE DEF id, x
    <3> QED BY <2>2, <2>3, EnteringEnters
  <2>5. Does(AddCommand(id, x), Stage(r), Stage(r2), Stage(r), Stage(r2))
    <3> HIDE DEF id, x
    <3> QED BY <2>2, <2>3, EnteringDoes
  <2>6. Adds(r2, q, list, lo, m + 1)
    <3> HIDE DEF r2
    <3> QED BY <2>1, <2>2, <2>3, <2>4, AddsOneMore
  <2>7. Runs(list, m + 1, s, t, r2)
    <3> HIDE DEF r2
    <3> QED BY <2>1, <2>2, <2>3, <2>5, RunsOn
  <2>8. Right(r2, m + 1)
    <3> HIDE DEF r2
    <3> QED BY <2>4, <2>6, <2>7 DEF EntersAs
  <2> HIDE DEF Right
  <2> QED BY <2>1, <2>8
<1> HIDE DEF S
<1>3. n - m0 \in Nat /\ n - m0 \in S /\ m0 + (n - m0) = n
  <2>1. Nat \subseteq S
    BY <1>1, <1>2, SetInduction
  <2> QED BY <2>1
<1>4. \E r : Right(r, n)
  BY <1>3 DEF S
<1> QED BY <1>4

-----------------------------------------------------------------------------
(* A base is added before its dependents.                                   *)

(* An entry that was recorded as a base goes, when nothing is linked to it. *)
LEMMA BareBaseLeaves ==
  ASSUME NEW d, NEW e, NEW L, Sto(d, e, L), NEW id \in DOMAIN e, ~IsDependent(e[id]),
         \A kind \in Kinds : Targets(L, kind, id) = {}, NEW x, x.key = e[id].key, ~IsDependent(x)
  PROVE  Sto(DeleteEntry(d, id, x), Drop(e, {id}), L)
<1>1. /\ id \in DOMAIN d.entries /\ IsLinks(L) /\ id \in Ids /\ e = [i \in DOMAIN e |-> e[i]]
  BY StoParts
<1>2. "alias" \in Kinds /\ "shortcut" \in Kinds
  BY DEF Kinds
<1>3. CASE x.type = "aliasbase"
  <2> DEFINE mid == ResetAllAliasPasswords(d, id)
  <2>1. DeleteEntry(d, id, x) = RemoveExpiry(Erase(mid, id, x), id)
    BY <1>1, <1>3 DEF DeleteEntry, DoDeleteEntry
  <2>2. Sto(mid, AllReset(e, Targets(L, "alias", id), id), [L EXCEPT !["alias"] = {p \in @ : p[1] # id}])
    BY ResetArrives
  <2>3. AllReset(e, Targets(L, "alias", id), id) = e
    <3>1. Targets(L, "alias", id) = {}
      BY <1>2
    <3>2. AllReset(e, {}, id) = [i \in DOMAIN e |-> e[i]]
      BY DEF AllReset
    <3> QED BY <1>1, <3>1, <3>2
  <2>4. [L EXCEPT !["alias"] = {p \in @ : p[1] # id}] = L
    <3>1. \A p \in L["alias"] : p[1] # id
      <4>1. L["alias"] \subseteq Ids \X Ids
        BY <1>1, <1>2 DEF IsLinks
      <4> QED BY <1>2, <4>1 DEF Targets
    <3>2. {p \in L["alias"] : p[1] # id} = L["alias"]
      BY <3>1
    <3>3. [L EXCEPT !["alias"] = L["alias"]] = L
      BY <1>1 DEF IsLinks
    <3> QED BY <3>2, <3>3
  <2> HIDE DEF mid
  <2>5. Sto(mid, e, L)
    BY <2>2, <2>3, <2>4
  <2> QED BY <2>1, <2>5, EraseArrives
<1>4. CASE x.type = "shortcutbase"
  <2>1. DeleteEntry(d, id, x) = RemoveExpiry(Erase(DeleteDependents(d, LinkedTo(d, "shortcut", id)), id, x), id)
    BY <1>1, <1>4 DEF DeleteEntry, DoDeleteEntry
  <2>2. LinkedTo(d, "shortcut", id) = {}
    <3>1. LinkedTo(d, "shortcut", id) = Targets(L, "shortcut", id)
      BY <1>2, LinkedIs
    <3> QED BY <1>2, <3>1
  <2>3. DeleteDependents(d, {}) = d
    <3>1. IsFiniteSet({})
      BY FS_EmptySet
    <3> QED BY <3>1, DeletingFolds
  <2> QED BY <2>1, <2>2, <2>3, EraseArrives
<1>5. CASE x.type \notin {"aliasbase", "shortcutbase"}
  <2>1. DeleteEntry(d, id, x) = RemoveExpiry(Erase(d, id, x), id)
    BY <1>1, <1>5 DEF DeleteEntry, DoDeleteEntry
  <2> QED BY <2>1, EraseArrives
<1> QED BY <1>3, <1>4, <1>5

(* The command that adds a base, undone when it is a normal entry.          *)
LEMMA AddBaseDoes ==
  ASSUME NEW e, NEW L, e = [i \in DOMAIN e |-> e[i]], NEW id \in Ids \ DOMAIN e,
         \A kind \in Kinds : Targets(L, kind, id) = {},
         NEW x, IsEntry(x), ~IsDependent(x), KeyFree(e, x), NEW y, y = [x EXCEPT !.type = "normal"]
  PROVE  Does(AddCommand(id, x), <<e, L>>, <<Put(e, id, Norm(x)), L>>, <<e, L>>, <<Put(e, id, Norm(y)), L>>)
<1> DEFINE f == Put(e, id, Norm(x))
           g == Put(e, id, Norm(y))
<1> SUFFICES ASSUME NEW c, NEW d, Alike(c, AddCommand(id, x)), In(d, <<e, L>>)
             PROVE  In(Execute1(d, c), <<f, L>>) /\ \A b : In(b, <<g, L>>) => In(Undo1(b, Executed1(d, c)), <<e, L>>)
  BY DEF Does
<1>1. c.op = "add" /\ c.id = id /\ c.entry = x
  BY DEF Alike, AddCommand
<1>2. Execute1(d, c) = AddEntry(d, id, x) /\ Executed1(d, c) = c
  BY <1>1 DEF Execute1, Executed1
<1>3. Sto(AddEntry(d, id, x), f, L)
  BY AddNormalArrives DEF In
<1>4. IsEntry(y) /\ y.type = "normal" /\ y.key = x.key
  <2>1. "normal" \in Types \ Kinds
    BY DEF Types, Kinds
  <2> QED BY <2>1, RetypeIs
<1>5. ~IsDependent(Norm(y)) /\ Norm(y).key = x.key
  BY <1>4, NormIs DEF IsDependent, Kinds
<1>6. ASSUME NEW b, In(b, <<g, L>>) PROVE In(Undo1(b, c), <<e, L>>)
  <2>1. Undo1(b, c) = DeleteEntry(b, id, x)
    BY <1>1 DEF Undo1, UndoAdd
  <2>2. id \in DOMAIN g /\ g[id] = Norm(y)
    BY DEF Put
  <2>3. Sto(b, g, L)
    BY <1>6 DEF In
  <2>4. Drop(g, {id}) = e
    BY DEF Drop, Put
  <2> HIDE DEF g
  <2>5. Sto(DeleteEntry(b, id, x), Drop(g, {id}), L)
    BY <1>5, <2>2, <2>3, BareBaseLeaves
  <2> QED BY <2>1, <2>4, <2>5 DEF In
<1> QED BY <1>2, <1>3, <1>6 DEF In

(* The first dependent of a base that is recorded as one already.           *)
LEMMA FirstDependentDoes ==
  ASSUME NEW r, IsPast(r), NEW kind \in Kinds, NEW b \in DOMAIN r, r[b].type = "normal",
         NEW id, NEW x, Entering(r, id, x, kind, b), NEW r2, r2 = Entered(r, id, x),
         NEW e, e = Retyped(r, b, BaseType[kind])
  PROVE  Does(AddCommand(id, x), <<e, Links(r)>>, Stage(r2), Stage(r), Stage(r2))
<1> DEFINE L == Links(r)
<1>1. id \in Ids \ DOMAIN r /\ IsEntry(x) /\ IsDependent(x) /\ KeyFree(r, x) /\ x.base = b /\ x.type = kind
  BY DEF Entering, IsDependent
<1>2. Does(AddCommand(id, x), Stage(r), Stage(r2), Stage(r), Stage(r2))
  BY EnteringDoes
<1>3. Links(r2) = Tied(L, x.type, x.base, id) /\ <<x.base, id>> \notin L[x.type]
  <2>1. EntersWell(r, id, x, r2)
    BY EnteringEnters
  <2> QED BY <2>1 DEF EntersWell
<1>4. r = [i \in DOMAIN r |-> r[i]] /\ IsEntry(r[b])
  BY PastIs
<1>5. /\ DOMAIN e = DOMAIN r /\ e[b] = [r[b] EXCEPT !.type = BaseType[kind]]
      /\ \A i \in DOMAIN r \ {b} : e[i] = r[i]
  BY <1>4 DEF Retyped
<1>6. e[b].type = BaseType[kind] /\ e[b].key = r[b].key
  BY <1>4, <1>5 DEF IsEntry
<1>7. KeyFree(e, x)
  <2>1. ASSUME NEW i \in DOMAIN r PROVE e[i].key = r[i].key
    BY <1>5, <1>6
  <2> QED BY <1>1, <1>5, <2>1 DEF KeyFree
<1>8. Entered(e, id, x) = r2
  <2>1. Retyped(e, b, BaseType[kind]) = Retyped(r, b, BaseType[kind])
    BY <1>4, <1>5 DEF Retyped
  <2> QED BY <1>1, <2>1 DEF Entered
<1> SUFFICES ASSUME NEW c, NEW d, Alike(c, AddCommand(id, x)), In(d, <<e, L>>)
             PROVE  In(Execute1(d, c), Stage(r2)) /\ \A b2 : In(b2, Stage(r2)) => In(Undo1(b2, Executed1(d, c)), Stage(r))
  BY DEF Does
<1>9. c.op = "add" /\ c.id = id /\ c.entry = x
  BY DEF Alike, AddCommand
<1>10. Execute1(d, c) = AddEntry(d, id, x)
  BY <1>9 DEF Execute1
<1>11. Sto(AddEntry(d, id, x), Entered(e, id, x), Tied(L, x.type, x.base, id))
  <2>1. Sto(d, e, L)
    BY DEF In
  <2> HIDE DEF L
  <2> QED BY <1>1, <1>3, <1>5, <1>6, <1>7, <2>1, AddDependentArrives
<1>12. In(Execute1(d, c), Stage(r2))
  BY <1>3, <1>8, <1>10, <1>11 DEF In, Stage
<1>13. In(DatabaseOf(r), Stage(r))
  <2>1. At(DatabaseOf(r), r)
    BY ReadArrives
  <2> QED BY <2>1 DEF At, In, Stage
<1>14. Executed1(d, c) = c /\ Executed1(DatabaseOf(r), c) = c
  BY <1>9 DEF Executed1
<1>15. \A b2 : In(b2, Stage(r2)) => In(Undo1(b2, Executed1(DatabaseOf(r), c)), Stage(r))
  BY <1>2, <1>13 DEF Does
<1> QED BY <1>12, <1>14, <1>15

(* A base that is new with its dependents, if it is to have any.            *)
BaseList(list, n, q, id, x, y, kind) ==
    /\ list[1] = AddCommand(id, x) /\ id \in Ids \ DOMAIN q
    /\ IsEntry(x) /\ DOMAIN x = EntryFields /\ ~IsDependent(x) /\ KeyFree(q, x)
    /\ y = [x EXCEPT !.type = "normal"] /\ kind \in Kinds /\ n \in Nat
    /\ \/ x.type = "normal" /\ n = 1
       \/ x.type = BaseType[kind] /\ n >= 2
    /\ DependentsOf1(list, 1, n, Put(q, id, Norm(y)), id, kind)

(* The base as a normal entry, and as it is recorded.                       *)
BareBase(list, q, g, f, id, x) ==
    /\ IsPast(g) /\ Links(g) = Links(q) /\ Adds(g, q, list, 0, 1)
    /\ id \in DOMAIN g /\ g[id].type = "normal" /\ DOMAIN g = DOMAIN q \cup {id}
    /\ f = Retyped(g, id, x.type)
    /\ Does(list[1], Stage(q), <<f, Links(q)>>, Stage(q), Stage(g))

LEMMA BareBaseIs ==
  ASSUME NEW list, NEW n, NEW q, IsPast(q), NEW id, NEW x, NEW y, NEW kind, BaseList(list, n, q, id, x, y, kind),
         NEW g, g = Put(q, id, Norm(y)), NEW f, f = Put(q, id, Norm(x))
  PROVE  BareBase(list, q, g, f, id, x)
<1>1. /\ list[1] = AddCommand(id, x) /\ id \in Ids \ DOMAIN q
      /\ IsEntry(x) /\ DOMAIN x = EntryFields /\ ~IsDependent(x) /\ KeyFree(q, x)
      /\ y = [x EXCEPT !.type = "normal"]
  BY DEF BaseList
<1>2. /\ IsEntry(y) /\ y.type = "normal" /\ y.key = x.key /\ DOMAIN y = EntryFields
      /\ Norm(y) = [Norm(x) EXCEPT !.type = "normal"]
  <2>1. "normal" \in Types \ Kinds
    BY DEF Types, Kinds
  <2> QED BY <1>1, <2>1, RetypeIs
<1>3. KeyFree(q, y)
  BY <1>1, <1>2 DEF KeyFree
<1>4. IsPast(g) /\ Links(g) = Links(q)
  BY <1>1, <1>2, <1>3, NormalPast
<1>5. /\ IsEntry(Norm(x)) /\ DOMAIN Norm(x) = EntryFields /\ Norm(x).type = x.type
      /\ ~IsDependent(Norm(x)) /\ Norm(y).type = "normal"
  BY <1>1, <1>2, NormIs
<1>6. /\ DOMAIN g = DOMAIN q \cup {id} /\ g[id] = Norm(y) /\ \A i \in DOMAIN q : g[i] = q[i]
  BY <1>1 DEF Put
<1>7. AllBut(Norm(y), Norm(x))
  <2>1. "normal" \in Types \ Kinds
    BY DEF Types, Kinds
  <2> QED BY <1>2, <1>5, <2>1, AllButType
<1>8. Adds(g, q, list, 0, 1)
  <2>1. \A k \in 0 + 1 .. 1 : k = 1
    OBVIOUS
  <2>2. 1 \in 0 + 1 .. 1
    OBVIOUS
  <2>3. list[1].id = id /\ list[1].entry = x
    BY <1>1 DEF AddCommand
  <2>4. \A i \in DOMAIN q : AllBut(g[i], q[i])
    BY <1>6, AllButSelf
  <2>5. DOMAIN g = DOMAIN q \cup {list[k].id : k \in 0 + 1 .. 1}
    BY <1>6, <2>1, <2>2, <2>3
  <2>6. \A k \in 0 + 1 .. 1 : AllBut(g[list[k].id], Norm(list[k].entry))
    BY <1>6, <1>7, <2>1, <2>3
  <2> QED BY <2>4, <2>5, <2>6 DEF Adds
<1>9. f = Retyped(g, id, x.type)
  <2>1. [Norm(y) EXCEPT !.type = x.type] = Norm(x)
    <3>1. Norm(x) = [h \in DOMAIN Norm(x) |-> Norm(x)[h]] /\ "type" \in DOMAIN Norm(x)
      BY <1>5 DEF IsEntry
    <3> QED BY <1>2, <1>5, <3>1
  <2>2. [g[id] EXCEPT !.type = x.type] = Norm(x)
    BY <1>6, <2>1
  <2> QED BY <1>1, <1>6, <2>2 DEF Retyped, Put
<1>10. \A k \in Kinds : Targets(Links(q), k, id) = {}
  <2> SUFFICES ASSUME NEW k \in Kinds, NEW i \in Ids, <<id, i>> \in Links(q)[k]  PROVE FALSE
    BY DEF Targets
  <2>1. i \in DOMAIN q /\ q[i].type = k /\ q[i].base = id
    BY LinksIs
  <2>2. q[i].base \in DOMAIN q
    BY <2>1, PastIs DEF IsDependent
  <2> QED BY <1>1, <2>1, <2>2
<1>11. Does(AddCommand(id, x), <<q, Links(q)>>, <<Put(q, id, Norm(x)), Links(q)>>, <<q, Links(q)>>, <<Put(q, id, Norm(y)), Links(q)>>)
  <2> DEFINE L == Links(q)
  <2>1. q = [i \in DOMAIN q |-> q[i]] /\ \A k \in Kinds : Targets(L, k, id) = {}
    BY <1>10, PastIs
  <2> HIDE DEF L
  <2>2. Does(AddCommand(id, x), <<q, L>>, <<Put(q, id, Norm(x)), L>>, <<q, L>>, <<Put(q, id, Norm(y)), L>>)
    BY <1>1, <2>1, AddBaseDoes
  <2> QED BY <2>2 DEF L
<1>12. Does(list[1], Stage(q), <<f, Links(q)>>, Stage(q), Stage(g))
  BY <1>1, <1>4, <1>11 DEF Stage
<1> QED BY <1>2, <1>4, <1>5, <1>6, <1>8, <1>9, <1>12 DEF BareBase

LEMMA AddsJoin ==
  ASSUME NEW q, NEW g, NEW r, NEW list, NEW lo \in Nat, NEW m \in Nat, NEW n \in Nat, lo <= m, m <= n,
         Adds(g, q, list, lo, m), Adds(r, g, list, m, n)
  PROVE  Adds(r, q, list, lo, n)
<1>1. \A k \in Int : k \in lo + 1 .. n <=> k \in lo + 1 .. m \/ k \in m + 1 .. n
  OBVIOUS
<1>2. DOMAIN r = DOMAIN q \cup {list[k].id : k \in lo + 1 .. n}
  BY <1>1 DEF Adds
<1>3. \A i \in DOMAIN q : AllBut(r[i], q[i])
  <2> SUFFICES ASSUME NEW i \in DOMAIN q  PROVE AllBut(r[i], q[i])
    OBVIOUS
  <2>1. AllBut(g[i], q[i]) /\ AllBut(r[i], g[i])
    BY DEF Adds
  <2> QED BY <2>1, AllButOn
<1>4. ASSUME NEW k \in lo + 1 .. n PROVE AllBut(r[list[k].id], Norm(list[k].entry))
  <2>1. CASE k \in lo + 1 .. m
    <3> DEFINE i == list[k].id
               y == Norm(list[k].entry)
    <3>1. i \in DOMAIN g /\ AllBut(g[i], y)
      BY <2>1 DEF Adds
    <3>2. AllBut(r[i], g[i])
      BY <3>1 DEF Adds
    <3> HIDE DEF i, y
    <3>3. AllBut(r[i], y)
      BY <3>1, <3>2, AllButOn
    <3> QED BY <3>3 DEF i, y
  <2>2. CASE k \in m + 1 .. n
    BY <2>2 DEF Adds
  <2> QED BY <1>1, <2>1, <2>2
<1> QED BY <1>2, <1>3, <1>4 DEF Adds

LEMMA BaseRuns ==
  ASSUME NEW list, NEW n, NEW q, IsPast(q), NEW id, NEW x, NEW y, NEW kind, BaseList(list, n, q, id, x, y, kind)
  PROVE  \E r : IsPast(r) /\ Adds(r, q, list, 0, n) /\ Runs(list, n, Stage(q), Stage(q), r)
<1> DEFINE g == Put(q, id, Norm(y))
           f == Put(q, id, Norm(x))
           L == Links(q)
<1>1. /\ IsPast(g) /\ Links(g) = L /\ Adds(g, q, list, 0, 1)
      /\ id \in DOMAIN g /\ g[id].type = "normal"
      /\ f = Retyped(g, id, x.type)
      /\ Does(list[1], Stage(q), <<f, L>>, Stage(q), Stage(g))
  <2>1. g = Put(q, id, Norm(y)) /\ f = Put(q, id, Norm(x)) /\ L = Links(q)
    OBVIOUS
  <2> HIDE DEF f, g, L
  <2>2. BareBase(list, q, g, f, id, x)
    BY <2>1, BareBaseIs
  <2> QED BY <2>1, <2>2 DEF BareBase
<1>2. CASE x.type = "normal" /\ n = 1
  <2>1. y = x
    <3>1. x = [h \in DOMAIN x |-> x[h]] /\ "type" \in DOMAIN x /\ y = [x EXCEPT !.type = "normal"]
      BY DEF BaseList, IsEntry
    <3> QED BY <1>2, <3>1
  <2>2. <<f, L>> = Stage(g)
    BY <1>1, <2>1 DEF Stage
  <2> HIDE DEF f, g, L
  <2>3. Runs(list, 1, Stage(q), Stage(q), g)
    BY <1>1, <2>2, RunsOne
  <2> QED BY <1>1, <1>2, <2>3
<1>3. CASE x.type = BaseType[kind] /\ n >= 2
  <2> DEFINE i2 == list[2].id
             x2 == list[2].entry
             r2 == Entered(g, i2, x2)
  <2>1. n \in Nat /\ kind \in Kinds /\ DependentsOf1(list, 1, n, g, id, kind)
    BY DEF BaseList
  <2> HIDE DEF f, g, L
  <2>2. Adds(g, g, list, 1, 1)
    <3>1. 1 \in Nat
      OBVIOUS
    <3> QED BY <3>1, AddsNone
  <2>3. list[1 + 1] = AddCommand(list[1 + 1].id, list[1 + 1].entry) /\ Entering(g, list[1 + 1].id, list[1 + 1].entry, kind, id)
    <3>1. 1 \in Nat /\ 1 <= 1 /\ 1 < n
      BY <1>3, <2>1
    <3> QED BY <1>1, <2>1, <2>2, <3>1, NextEnters
  <2>4. 1 + 1 = 2
    OBVIOUS
  <2>5. list[2] = AddCommand(i2, x2) /\ Entering(g, i2, x2, kind, id)
    BY <2>3, <2>4
  <2> HIDE DEF i2, x2
  <2>6. EntersAs(r2, g, i2, x2, id, kind)
    BY <1>1, <2>1, <2>5, EnteringEnters
  <2>7. Does(AddCommand(i2, x2), <<f, Links(g)>>, Stage(r2), Stage(g), Stage(r2))
    <3> HIDE DEF r2
    <3>1. r2 = Entered(g, i2, x2) /\ f = Retyped(g, id, BaseType[kind])
      BY <1>1, <1>3 DEF r2
    <3> QED BY <1>1, <2>1, <2>5, <3>1, FirstDependentDoes
  <2> HIDE DEF r2
  <2>8. Runs(list, 2, Stage(q), Stage(q), r2)
    BY <1>1, <2>5, <2>7, RunsTwo
  <2>9. Adds(r2, g, list, 1, 2)
    <3>1. Adds(r2, g, list, 1, 1 + 1)
      <4>1. 1 \in Nat /\ 1 <= 1 /\ i2 = list[1 + 1].id /\ x2 = list[1 + 1].entry
        BY <2>4 DEF i2, x2
      <4> QED BY <1>1, <2>1, <2>2, <2>5, <2>6, <4>1, AddsOneMore
    <3> QED BY <2>4, <3>1
  <2>10. IsPast(r2) /\ id \in DOMAIN r2 /\ r2[id].type \in {"normal", BaseType[kind]}
    BY <2>6 DEF EntersAs
  <2>11. PICK r : IsPast(r) /\ Adds(r, g, list, 1, n) /\ Runs(list, n, Stage(q), Stage(q), r)
    <3>1. 1 \in Nat /\ 2 \in Nat /\ 1 <= 2 /\ 2 <= n
      BY <1>3, <2>1
    <3> QED BY <1>1, <2>1, <2>8, <2>9, <2>10, <3>1, DependentsRun
  <2>12. Adds(r, q, list, 0, n)
    <3>1. 0 \in Nat /\ 1 \in Nat /\ 0 <= 1 /\ 1 <= n
      BY <1>3, <2>1
    <3> QED BY <1>1, <2>1, <2>11, <3>1, AddsJoin
  <2> QED BY <2>11, <2>12
<1> QED BY <1>2, <1>3 DEF BaseList

-----------------------------------------------------------------------------
(* The orders in which a merge and a synchronisation go, and their lists.   *)

InSome(order, S) ==
    \E n \in Nat : /\ DOMAIN order = 1 .. n /\ order = [k \in 1 .. n |-> order[k]]
                   /\ \A k \in 1 .. n : order[k] \in S
                   /\ \A x \in S : \E k \in 1 .. n : order[k] = x
                   /\ \A j, k \in 1 .. n : j < k => order[j] # order[k]

LEMMA SeqOfSet ==
  ASSUME NEW S, IsFiniteSet(S)
  PROVE  InSome(SetToSeq(S), S)
<1> DEFINE n == Cardinality(S)
           f == SetToSeq(S)
<1>1. n \in Nat
  BY FS_CardinalityType
<1>2. \E g \in [1 .. n -> S] : IsInjective(g)
  <2>1. ExistsBijection(1 .. n, S)
    BY FS_NatBijection, FS_CountingElements
  <2>2. PICK g : g \in Bijection(1 .. n, S)
    BY <2>1 DEF ExistsBijection
  <2> QED BY <2>2 DEF Bijection, Injection, IsInjective
<1>3. f \in [1 .. n -> S] /\ IsInjective(f)
  BY <1>2 DEF SetToSeq
<1> HIDE DEF f
<1>4. f \in Injection(1 .. n, S)
  BY <1>3 DEF Injection
<1>5. Cardinality(1 .. n) = n /\ IsFiniteSet(1 .. n)
  BY <1>1, FS_Interval
<1>6. f \in Surjection(1 .. n, S)
  BY <1>4, <1>5, FS_Injection
<1>7. \A x \in S : \E k \in 1 .. n : f[k] = x
  BY <1>6 DEF Surjection
<1>8. \A j, k \in 1 .. n : j < k => f[j] # f[k]
  BY <1>3 DEF IsInjective
<1> HIDE DEF n
<1>9. DOMAIN f = 1 .. n /\ f = [k \in 1 .. n |-> f[k]] /\ \A k \in 1 .. n : f[k] \in S
  BY <1>3
<1>10. InSome(f, S)
  BY <1>1, <1>7, <1>8, <1>9 DEF InSome
<1> QED BY <1>10 DEF f

(* The lists of a list one after the other, as FlattenSeq puts them.        *)
Flat(lists) ==
    CHOOSE f : f = [i \in 1 .. Len(lists) |-> IF i = 1 THEN lists[i] ELSE f[i - 1] \o lists[i]]

LEMMA FlattenIs ==
  ASSUME NEW lists, NEW n \in Nat, Len(lists) = n, n # 0
  PROVE  /\ FlattenSeq(lists) = Flat(lists)[n]
         /\ Flat(lists)[1] = lists[1]
         /\ \A k \in 2 .. n : Flat(lists)[k] = Flat(lists)[k - 1] \o lists[k]
<1> DEFINE IsFlat(f, m) == /\ f = [k \in 1 .. m |-> f[k]] /\ (m >= 1 => f[1] = lists[1])
                           /\ \A k \in 2 .. m : f[k] = f[k - 1] \o lists[k]
           S == {m \in Nat : \E f : IsFlat(f, m)}
           Body(f) == [i \in 1 .. n |-> IF i = 1 THEN lists[i] ELSE f[i - 1] \o lists[i]]
           flat == Flat(lists)
<1>1. 0 \in S
  <2>1. IsFlat([k \in 1 .. 0 |-> lists], 0)
    OBVIOUS
  <2> QED BY <2>1
<1>2. ASSUME NEW m \in Nat, m \in S PROVE m + 1 \in S
  <2>1. PICK f : IsFlat(f, m)
    BY <1>2
  <2> DEFINE g == [k \in 1 .. m + 1 |-> IF k = 1 THEN lists[1] ELSE IF k = m + 1 THEN f[m] \o lists[m + 1] ELSE f[k]]
  <2>2. g = [k \in 1 .. m + 1 |-> g[k]]
    OBVIOUS
  <2>3. g[1] = lists[1]
    <3>1. 1 \in 1 .. m + 1
      OBVIOUS
    <3> QED BY <3>1
  <2>4. ASSUME NEW k \in 2 .. m + 1 PROVE g[k] = g[k - 1] \o lists[k]
    <3>1. \A i \in 1 .. m : g[i] = f[i]
      <4> SUFFICES ASSUME NEW i \in 1 .. m  PROVE g[i] = f[i]
        OBVIOUS
      <4>1. i \in 1 .. m + 1 /\ i # m + 1
        OBVIOUS
      <4>2. CASE i = 1
        BY <2>1, <4>1, <4>2
      <4>3. CASE i # 1
        BY <4>1, <4>3
      <4> QED BY <4>2, <4>3
    <3>2. k - 1 \in 1 .. m /\ k \in 1 .. m + 1 /\ k # 1
      OBVIOUS
    <3>3. CASE k = m + 1
      <4>1. g[m + 1] = f[m] \o lists[m + 1]
        <5>1. m + 1 \in 1 .. m + 1 /\ m + 1 # 1
          BY <3>2, <3>3
        <5> QED BY <5>1
      <4>2. k - 1 = m /\ m \in 1 .. m
        BY <3>2, <3>3
      <4> HIDE DEF g
      <4> QED BY <3>1, <3>3, <4>1, <4>2
    <3>4. CASE k # m + 1
      <4>1. k \in 1 .. m /\ k \in 2 .. m
        BY <3>4
      <4>2. g[k] = f[k] /\ g[k - 1] = f[k - 1]
        BY <3>1, <3>2, <4>1
      <4> HIDE DEF g
      <4> QED BY <2>1, <4>1, <4>2
    <3> QED BY <3>3, <3>4
  <2> HIDE DEF g
  <2>5. IsFlat(g, m + 1)
    BY <2>2, <2>3, <2>4
  <2> HIDE DEF IsFlat
  <2> QED BY <2>5
<1>3. \E f : IsFlat(f, n)
  <2> HIDE DEF S
  <2>1. Nat \subseteq S
    BY <1>1, <1>2, SetInduction
  <2>2. n \in S
    BY <2>1
  <2> QED BY <2>2 DEF S
<1>4. PICK f : IsFlat(f, n)
  BY <1>3
<1>5. f = Body(f)
  <2>1. ASSUME NEW i \in 1 .. n PROVE f[i] = IF i = 1 THEN lists[i] ELSE f[i - 1] \o lists[i]
    <3>1. CASE i = 1
      <4>1. n >= 1
        OBVIOUS
      <4> QED BY <1>4, <3>1, <4>1
    <3>2. CASE i # 1
      <4>1. i \in 2 .. n
        BY <3>2
      <4> QED BY <1>4, <3>2, <4>1
    <3> QED BY <3>1, <3>2
  <2> QED BY <1>4, <2>1
<1>6. flat = Body(flat)
  BY <1>5 DEF Flat
<1> HIDE DEF flat
<1>7. flat[1] = lists[1]
  <2>1. 1 \in 1 .. n
    OBVIOUS
  <2> QED BY <1>6, <2>1
<1>8. ASSUME NEW k \in 2 .. n PROVE flat[k] = flat[k - 1] \o lists[k]
  <2>1. k \in 1 .. n /\ k # 1
    OBVIOUS
  <2> QED BY <1>6, <2>1
<1>9. FlattenSeq(lists) = flat[n]
  BY DEF FlattenSeq, flat, Flat
<1> QED BY <1>7, <1>8, <1>9 DEF flat

-----------------------------------------------------------------------------
(* The other database, and what a merge makes of its entries.               *)

OtherFields == {"type", "base", "password", "key", "expires", "name", "own", "pname", "protected"}

LEMMA FileFits ==
  ASSUME EntryFields = OtherFields, NEW d, IsFile(d)
  PROVE  IsPast(d.entries)
<1> DEFINE e == d.entries
<1>1. /\ e = [i \in DOMAIN e |-> e[i]] /\ DOMAIN e \subseteq Ids /\ WellFormed(e)
      /\ \A i \in DOMAIN e : IsFileEntry(e[i])
  BY DEF IsFile
<1> HIDE DEF e
<1>2. ASSUME NEW i \in DOMAIN e PROVE IsEntry(e[i]) /\ Norm(e[i]) = e[i] /\ DOMAIN e[i] = EntryFields
  <2> DEFINE x == e[i]
  <2>1. IsFileEntry(x)
    BY <1>1
  <2> HIDE DEF x
  <2>2. x = [f \in OtherFields |-> x[f]]
    BY <2>1 DEF IsFileEntry, OtherFields
  <2> DEFINE y == [type |-> x.type, base |-> x.base, password |-> x.password, key |-> x.key, expires |-> x.expires]
  <2>3. y \in {entry \in Bases : entry.base = NoId} \cup Dependents
    BY <2>1 DEF IsFileEntry
  <2>4. /\ y.type = x.type /\ y.base = x.base /\ y.password = x.password /\ y.key = x.key /\ y.expires = x.expires
    OBVIOUS
  <2> HIDE DEF y
  <2>5. IF IsDependent(y) THEN y \in Dependents ELSE y \in Bases /\ y.base = NoId
    BY <2>3 DEF IsDependent, Bases, Dependents, Kinds
  <2>6. IsDependent(x) <=> IsDependent(y)
    BY <2>4 DEF IsDependent
  <2>7. /\ x.type \in Types /\ x.base \in Ids \cup {NoId}
        /\ x.key \in Keys \cup {NoKey}
    BY <2>4, <2>5 DEF Bases, Dependents, Types, Kinds
  <2>8. x.expires \in BOOLEAN
    <3>1. CASE IsDependent(y)
      BY <2>4, <2>5, <3>1 DEF Dependents
    <3>2. CASE ~IsDependent(y)
      BY <2>4, <2>5, <3>2 DEF Bases
    <3> QED BY <3>1, <3>2
  <2>9. IF IsDependent(x) THEN x.base \in Ids /\ x.password = NoPassword /\ ~x.expires ELSE x.password \in Passwords
    <3>1. CASE IsDependent(x)
      <4>1. x.base \in Ids /\ x.password = NoPassword
        BY <2>4, <2>5, <2>6, <3>1 DEF Dependents
      <4>2. ~x.expires
        BY <1>1, <3>1 DEF WellFormed, x
      <4> QED BY <3>1, <4>1, <4>2
    <3>2. CASE ~IsDependent(x)
      BY <2>4, <2>5, <2>6, <3>2 DEF Bases
    <3> QED BY <3>1, <3>2
  <2>10. DOMAIN x = OtherFields /\ {"type", "base", "password", "key", "expires"} \subseteq DOMAIN x
    BY <2>2 DEF OtherFields
  <2>11. IsEntry(x)
    BY <2>2, <2>7, <2>8, <2>9, <2>10 DEF IsEntry
  <2>12. Norm(x) = x
    <3>1. CASE IsDependent(x)
      BY <3>1 DEF Norm
    <3>2. CASE ~IsDependent(x)
      <4>1. x.base = NoId
        BY <2>4, <2>5, <2>6, <3>2
      <4>2. [x EXCEPT !.base = NoId] = x
        BY <2>2, <2>10, <4>1
      <4> QED BY <3>2, <4>2 DEF Norm
    <3> QED BY <3>1, <3>2
  <2> QED BY <2>10, <2>11, <2>12 DEF x
<1> QED BY <1>1, <1>2 DEF IsPast, e

(* The entry y is x with the policy that WithPolicy gives it.               *)
PolicyGiven(y, x, n) ==
    /\ y = [f \in OtherFields |-> y[f]]
    /\ \A f \in OtherFields \ {"own", "pname"} : y[f] = x[f]
    /\ y.own = IF n = NoPolicy /\ policies.default # other.policies.default THEN other.policies.default ELSE x.own
    /\ y.pname = IF n = NoPolicy THEN x.pname
                 ELSE IF ~PolicyKnown(n) THEN n
                 ELSE IF policies.named[n] = other.policies.named[n] THEN x.pname ELSE RenamedPolicy[next][n]

LEMMA WithPolicyIs ==
  ASSUME NEW x, x = [f \in OtherFields |-> x[f]], NEW n
  PROVE  PolicyGiven(WithPolicy(x, n), x, n)
<1> DEFINE y == WithPolicy(x, n)
           k == PolicyKnown(n)
           r == RenamedPolicy[next][n]
           s == other.policies.default
<1>1. /\ "own" \in OtherFields /\ "pname" \in OtherFields
  BY DEF OtherFields
<1>2. CASE n = NoPolicy
  <2>1. y = IF policies.default = s THEN x ELSE [x EXCEPT !.own = s]
    BY <1>2 DEF WithPolicy
  <2> HIDE DEF y, s
  <2>2. CASE policies.default = s
    BY <1>2, <2>1, <2>2 DEF PolicyGiven, s, y
  <2>3. CASE policies.default # s
    <3>1. y = [x EXCEPT !.own = s]
      BY <2>1, <2>3
    <3>2. /\ y = [f \in OtherFields |-> y[f]] /\ y.own = s /\ y.pname = x.pname
          /\ \A f \in OtherFields \ {"own", "pname"} : y[f] = x[f]
      BY <1>1, <3>1
    <3> QED BY <1>2, <2>3, <3>2 DEF PolicyGiven, s, y
  <2> QED BY <2>2, <2>3
<1>3. CASE n # NoPolicy /\ ~k
  <2>1. y = [x EXCEPT !.pname = n]
    BY <1>3 DEF WithPolicy
  <2> HIDE DEF y
  <2>2. /\ y = [f \in OtherFields |-> y[f]] /\ y.own = x.own /\ y.pname = n
        /\ \A f \in OtherFields \ {"own", "pname"} : y[f] = x[f]
    BY <1>1, <2>1
  <2> QED BY <1>3, <2>2 DEF PolicyGiven, y
<1>4. CASE n # NoPolicy /\ k
  <2>1. y = IF policies.named[n] = other.policies.named[n] THEN x ELSE [x EXCEPT !.pname = r]
    BY <1>4 DEF WithPolicy
  <2> HIDE DEF y, r
  <2>2. CASE policies.named[n] = other.policies.named[n]
    BY <1>4, <2>1, <2>2 DEF PolicyGiven, y
  <2>3. CASE policies.named[n] # other.policies.named[n]
    <3>1. y = [x EXCEPT !.pname = r]
      BY <2>1, <2>3
    <3>2. /\ y = [f \in OtherFields |-> y[f]] /\ y.own = x.own /\ y.pname = r
          /\ \A f \in OtherFields \ {"own", "pname"} : y[f] = x[f]
      BY <1>1, <3>1
    <3> QED BY <1>4, <2>3, <3>2 DEF PolicyGiven, r, y
  <2> QED BY <2>2, <2>3
<1> QED BY <1>2, <1>3, <1>4

(* A key that is free, or none. *)
LEMMA FreeKeyIs ==
  ASSUME NEW p, Now(p), NEW key \in Keys \cup {NoKey}
  PROVE  /\ FreeKey(key) \in {key, NoKey}
         /\ FreeKey(key) # NoKey => \A i \in DOMAIN p : p[i].key # key
<1>1. KeysAre(db.keys, p) /\ DOMAIN p \subseteq Ids
  BY PastIs DEF Now, Agrees
<1>2. FreeKey(key) # NoKey => db.keys[key] = NoId /\ key \in Keys
  BY DEF FreeKey
<1>3. NoId \notin Ids
  BY StoreAssumption
<1> QED BY <1>1, <1>2, <1>3 DEF FreeKey, KeysAre

(* What the entry i of the other database is added as. *)
Made(i) ==
    IF IsDependent(EntryOf(other, i)) THEN [EntryOf(other, i) EXCEPT !.base = NewBase(EntryOf(other, i).base)]
    ELSE MergedBase(i)

(* What a merge of bases finds.                                             *)
OneReady(o) ==
    /\ o \in DOMAIN other.entries /\ ~IsDependent(EntryOf(other, o))
    /\ Same(o) # {} /\ DependentsToAdd(o) # {} =>
          o \in Used /\ Entry(o).type \in {"normal", EntryOf(other, o).type}
    /\ Same(o) = {} => DependentsIn(other, o) = {} \/ DependentsToAdd(o) # {}
    /\ \A i \in DependentsToAdd(o) : EntryOf(other, i).key = FreeKey(EntryOf(other, i).key)

MergeReady(p, bases) ==
    /\ Now(p) /\ IsPast(other.entries)
    /\ \A i \in DOMAIN other.entries : NewId(i) \in Ids \ DOMAIN p
    /\ \A i, j \in DOMAIN other.entries : NewId(i) = NewId(j) \/ NewId(i) = j => i = j
    /\ \A o \in bases : OneReady(o)

MadeAs(x, e) ==
    /\ IsEntry(x) /\ DOMAIN x = EntryFields /\ x.type = e.type
    /\ IsDependent(e) => x.base = NewBase(e.base) /\ x.key = e.key
    /\ ~IsDependent(e) => x.key = FreeKey(e.key)

LEMMA OtherIs ==
  ASSUME EntryFields = OtherFields, IsPast(other.entries), NEW i \in DOMAIN other.entries, NEW e, e = EntryOf(other, i)
  PROVE  /\ IsEntry(e) /\ Norm(e) = e /\ e = [f \in OtherFields |-> e[f]] /\ i \in Ids
         /\ IsDependent(e) => /\ e.base \in DOMAIN other.entries /\ e.base # i /\ e.type \in Kinds
                              /\ EntryOf(other, e.base).type = BaseType[e.type] /\ ~IsDependent(EntryOf(other, e.base))
<1>1. /\ IsEntry(e) /\ Norm(e) = e /\ DOMAIN e = EntryFields /\ i \in Ids
  BY PastIs DEF EntryOf
<1>2. e = [f \in OtherFields |-> e[f]]
  BY <1>1 DEF IsEntry
<1>3. IsDependent(e) => /\ e.base \in DOMAIN other.entries /\ e.base # i /\ e.type \in Kinds
                        /\ EntryOf(other, e.base).type = BaseType[e.type] /\ ~IsDependent(EntryOf(other, e.base))
  BY PastIs DEF EntryOf, IsDependent
<1> QED BY <1>1, <1>2, <1>3

(* A base with its name and its key, before it has its policy.              *)
Keyed(o) ==
    [(IF Named(Current, EntryOf(other, o).name) = {} THEN EntryOf(other, o)
      ELSE [EntryOf(other, o) EXCEPT !.name = MergedName(@)]) EXCEPT !.key = FreeKey(@)]

KeyedAs(x, e) ==
    /\ x = [f \in OtherFields |-> x[f]]
    /\ \A f \in OtherFields \ {"name", "key"} : x[f] = e[f]
    /\ x.name = IF Named(Current, e.name) = {} THEN e.name ELSE MergedName(e.name)
    /\ x.key = FreeKey(e.key)

LEMMA KeyedIs ==
  ASSUME EntryFields = OtherFields, IsPast(other.entries), NEW o \in DOMAIN other.entries
  PROVE  /\ KeyedAs(Keyed(o), EntryOf(other, o))
         /\ MergedBase(o) = WithPolicy(Keyed(o), EntryOf(other, o).pname)
<1> DEFINE e == EntryOf(other, o)
           free == Named(Current, e.name) = {}
           named == IF free THEN e ELSE [e EXCEPT !.name = MergedName(@)]
           x == Keyed(o)
<1>1. MergedBase(o) = WithPolicy(x, e.pname)
  BY DEF MergedBase, Keyed
<1>2. e = [f \in OtherFields |-> e[f]]
  BY OtherIs
<1>3. x = [named EXCEPT !.key = FreeKey(@)]
  BY DEF Keyed
<1> HIDE DEF e, x, free
<1>4. /\ named = [f \in OtherFields |-> named[f]]
      /\ \A f \in OtherFields \ {"name"} : named[f] = e[f]
      /\ named.name = IF free THEN e.name ELSE MergedName(e.name)
  <2>1. CASE free
    BY <1>2, <2>1
  <2>2. CASE ~free
    <3>1. "name" \in OtherFields
      BY DEF OtherFields
    <3> QED BY <1>2, <2>2, <3>1
  <2> QED BY <2>1, <2>2
<1> HIDE DEF named
<1>5. /\ x = [f \in OtherFields |-> x[f]] /\ x.key = FreeKey(e.key)
      /\ \A f \in OtherFields \ {"key"} : x[f] = named[f]
  <2>1. "key" \in OtherFields /\ named.key = e.key
    BY <1>4 DEF OtherFields
  <2>2. x = [named EXCEPT !.key = FreeKey(e.key)]
    BY <1>3, <2>1
  <2> QED BY <1>4, <2>1, <2>2
<1>6. x.name = named.name
  BY <1>5 DEF OtherFields
<1>7. KeyedAs(x, e)
  BY <1>4, <1>5, <1>6 DEF KeyedAs, free
<1> QED BY <1>1, <1>7 DEF e, x

LEMMA NewBaseIs ==
  ASSUME EntryFields = OtherFields, NEW p, NEW bases, MergeReady(p, bases), NEW o \in DOMAIN other.entries
  PROVE  NewBase(o) \in Ids /\ \A j \in DOMAIN other.entries : NewBase(o) = j => o = j
<1>1. NewId(o) \in Ids /\ o \in Ids
  BY OtherIs DEF MergeReady
<1>2. \A j \in DOMAIN other.entries : NewId(o) = j => o = j
  BY DEF MergeReady
<1> QED BY <1>1, <1>2 DEF NewBase

LEMMA MadeIs ==
  ASSUME EntryFields = OtherFields, NEW p, NEW bases, MergeReady(p, bases), NEW i \in DOMAIN other.entries,
         NEW e, e = EntryOf(other, i), NEW x, x = Made(i)
  PROVE  MadeAs(x, e)
<1>1. Now(p) /\ IsPast(other.entries)
  BY DEF MergeReady
<1>2. /\ IsEntry(e) /\ Norm(e) = e /\ e = [f \in OtherFields |-> e[f]]
      /\ IsDependent(e) => e.base \in DOMAIN other.entries
  BY <1>1, OtherIs
<1>3. CASE IsDependent(e)
  <2> DEFINE b == NewBase(e.base)
  <2>1. x = [e EXCEPT !.base = b]
    BY <1>3 DEF Made
  <2>2. b \in Ids
    BY <1>2, <1>3, NewBaseIs
  <2> HIDE DEF b
  <2>3. IsEntry(x) /\ x.base = b /\ x.type = e.type /\ x.key = e.key
    BY <1>2, <2>1, <2>2, RebaseIs
  <2>4. DOMAIN x = EntryFields
    BY <1>2, <2>1
  <2> QED BY <1>3, <2>3, <2>4 DEF MadeAs, b
<1>4. CASE ~IsDependent(e)
  <2> DEFINE y == Keyed(i)
  <2>1. KeyedAs(y, e) /\ x = WithPolicy(y, e.pname)
    <3>1. KeyedAs(Keyed(i), EntryOf(other, i)) /\ MergedBase(i) = WithPolicy(Keyed(i), EntryOf(other, i).pname)
      BY <1>1, KeyedIs
    <3> QED BY <1>4, <3>1 DEF Made
  <2> HIDE DEF y
  <2>2. PolicyGiven(x, y, e.pname)
    <3>1. y = [f \in OtherFields |-> y[f]]
      BY <2>1 DEF KeyedAs
    <3> QED BY <2>1, <3>1, WithPolicyIs
  <2>3. /\ x = [f \in OtherFields |-> x[f]]
        /\ x.type = e.type /\ x.base = e.base /\ x.password = e.password /\ x.expires = e.expires
        /\ x.key = FreeKey(e.key)
    <3>1. \A f \in {"type", "base", "password", "expires", "key"} : f \in OtherFields \ {"own", "pname"}
      BY DEF OtherFields
    <3>2. \A f \in {"type", "base", "password", "expires"} : f \in OtherFields \ {"name", "key"}
      BY DEF OtherFields
    <3>3. x = [f \in OtherFields |-> x[f]] /\ \A f \in {"type", "base", "password", "expires", "key"} : x[f] = y[f]
      BY <2>2, <3>1 DEF PolicyGiven
    <3>4. y.key = FreeKey(e.key) /\ \A f \in {"type", "base", "password", "expires"} : y[f] = e[f]
      BY <2>1, <3>2 DEF KeyedAs
    <3> QED BY <3>3, <3>4
  <2>4. FreeKey(e.key) \in Keys \cup {NoKey}
    BY <1>2 DEF FreeKey, IsEntry
  <2>5. DOMAIN x = OtherFields /\ {"type", "base", "password", "key", "expires"} \subseteq DOMAIN x
    <3>1. DOMAIN x = OtherFields
      BY <2>3
    <3> QED BY <3>1 DEF OtherFields
  <2>6. IsEntry(x)
    <3>1. ~IsDependent(x)
      BY <1>4, <2>3 DEF IsDependent
    <3> QED BY <1>2, <1>4, <2>3, <2>4, <2>5, <3>1 DEF IsEntry
  <2> QED BY <1>4, <2>3, <2>5, <2>6 DEF MadeAs
<1> QED BY <1>3, <1>4

(* What the entries that a merge of o adds are.                             *)
Parts(o) == (IF Same(o) = {} THEN {o} ELSE {}) \cup DependentsToAdd(o)

(* The list of MergeOne, command by command: the base if it is new, and the *)
(* dependents in some order.                                                *)
MergeCommand(i) == AddCommand(NewId(i), Made(i))

OneList(list, o, lo, n, deps) ==
    /\ IsList(list) /\ n \in Nat /\ Len(list) = lo + n
    /\ IF Same(o) = {} THEN lo = 1 /\ list[1] = MergeCommand(o) ELSE lo = 0
    /\ \A k \in 1 .. n : deps[k] \in DependentsToAdd(o) /\ list[lo + k] = MergeCommand(deps[k])
    /\ \A i \in DependentsToAdd(o) : \E k \in 1 .. n : deps[k] = i
    /\ \A j, k \in 1 .. n : j < k => deps[j] # deps[k]

LEMMA MergeOneIs ==
  ASSUME EntryFields = OtherFields, IsFiniteSet(Ids), NEW p, NEW bases, MergeReady(p, bases), NEW o \in bases
  PROVE  \E lo, n, deps : OneList(MergeOne(o), o, lo, n, deps)
<1> DEFINE D == DependentsToAdd(o)
           deps == SetToSeq(D)
           tail == [k \in DOMAIN deps |-> MergedDependent(deps[k], o)]
           head == IF Same(o) = {} THEN <<AddCommand(NewId(o), MergedBase(o))>> ELSE <<>>
           lo == IF Same(o) = {} THEN 1 ELSE 0
           list == head \o tail
<1>1. OneReady(o) /\ IsPast(other.entries)
  BY DEF MergeReady
<1>2. \A i \in D : i \in DOMAIN other.entries /\ IsDependent(EntryOf(other, i)) /\ EntryOf(other, i).base = o
  BY DEF DependentsToAdd, DependentsIn, EntryOf
<1>3. IsFiniteSet(D)
  <2>1. D \subseteq Ids
    BY <1>1, <1>2, PastIs
  <2> HIDE DEF D
  <2> QED BY <2>1, FS_Subset
<1>4. InSome(deps, D)
  <2> HIDE DEF D
  <2> QED BY <1>3, SeqOfSet
<1>5. MergeOne(o) = list
  BY DEF MergeOne
<1> HIDE DEF D, deps
<1>6. PICK n \in Nat : /\ DOMAIN deps = 1 .. n /\ \A k \in 1 .. n : deps[k] \in D
                       /\ \A i \in D : \E k \in 1 .. n : deps[k] = i
                       /\ \A j, k \in 1 .. n : j < k => deps[j] # deps[k]
  BY <1>4 DEF InSome
<1>7. IsList(tail) /\ Len(tail) = n /\ \A k \in 1 .. n : tail[k] = MergedDependent(deps[k], o)
  <2>1. tail = [k \in 1 .. n |-> tail[k]] /\ \A k \in 1 .. n : tail[k] = MergedDependent(deps[k], o)
    BY <1>6
  <2> HIDE DEF tail
  <2> QED BY <2>1, ListOf
<1>8. IsList(head) /\ Len(head) = lo /\ (Same(o) = {} => head[1] = MergeCommand(o))
  <2>1. CASE Same(o) = {}
    <3> DEFINE c == AddCommand(NewId(o), MergedBase(o))
    <3>1. head = <<c>> /\ lo = 1
      BY <2>1
    <3>2. c = MergeCommand(o)
      BY <1>1 DEF MergeCommand, Made, OneReady
    <3> HIDE DEF c, head
    <3> QED BY <3>1, <3>2, ShortLists
  <2>2. CASE Same(o) # {}
    <3>1. head = <<>> /\ lo = 0
      BY <2>2
    <3> QED BY <2>2, <3>1 DEF IsList
  <2> QED BY <2>1, <2>2
<1> HIDE DEF head, tail
<1>9. Concatenated(list, head, tail)
  BY <1>7, <1>8, ListsConcatenate
<1> HIDE DEF list
<1>10. lo = IF Same(o) = {} THEN 1 ELSE 0
  OBVIOUS
<1> HIDE DEF lo
<1>11. \A k \in 1 .. n : deps[k] \in D /\ list[lo + k] = MergeCommand(deps[k])
  <2> SUFFICES ASSUME NEW k \in 1 .. n  PROVE deps[k] \in D /\ list[lo + k] = MergeCommand(deps[k])
    OBVIOUS
  <2>1. list[lo + k] = tail[k]
    BY <1>7, <1>8, <1>9 DEF Concatenated
  <2>2. tail[k] = MergedDependent(deps[k], o) /\ deps[k] \in D
    BY <1>6, <1>7
  <2>3. IsDependent(EntryOf(other, deps[k])) /\ EntryOf(other, deps[k]).base = o
    BY <1>2, <2>2
  <2> HIDE DEF MadeAs
  <2>4. MergedDependent(deps[k], o) = MergeCommand(deps[k])
    BY <2>3 DEF MergedDependent, MergeCommand, Made
  <2> QED BY <2>1, <2>2, <2>4
<1>12. Same(o) = {} => list[1] = MergeCommand(o)
  <2>1. Same(o) = {} => 1 \in 1 .. Len(head)
    BY <1>8, <1>10
  <2> QED BY <1>8, <1>9, <2>1 DEF Concatenated
<1>13. IsList(list) /\ Len(list) = lo + n
  BY <1>7, <1>8, <1>9 DEF Concatenated
<1>14. OneList(list, o, lo, n, deps)
  BY <1>6, <1>10, <1>11, <1>12, <1>13 DEF OneList, D
<1> QED BY <1>5, <1>14

-----------------------------------------------------------------------------
(* One base after the other.                                                *)

(* The entries B of the other database are added to p.                      *)
AddedTo(q, p, B) ==
    /\ IsPast(q) /\ B \subseteq DOMAIN other.entries
    /\ DOMAIN q = DOMAIN p \cup {NewId(i) : i \in B}
    /\ \A i \in DOMAIN p : AllBut(q[i], p[i])
    /\ \A i \in B : AllBut(q[NewId(i)], Norm(Made(i)))

(* All that the merge of bases adds.                                        *)
Wanted(bases) == UNION {Parts(o) : o \in bases}

PartOf(i, o) ==
    /\ i \in DOMAIN other.entries
    /\ IF IsDependent(EntryOf(other, i)) THEN EntryOf(other, i).base = o /\ i \in DependentsToAdd(o)
       ELSE i = o /\ Same(o) = {}

LEMMA PartsAre ==
  ASSUME NEW p, NEW bases, MergeReady(p, bases), NEW o \in bases, NEW i
  PROVE  i \in Parts(o) <=> PartOf(i, o)
<1>1. OneReady(o)
  BY DEF MergeReady
<1>2. i \in DependentsToAdd(o) => /\ i \in DOMAIN other.entries /\ IsDependent(EntryOf(other, i))
                                  /\ EntryOf(other, i).base = o
  BY DEF DependentsToAdd, DependentsIn, EntryOf
<1>3. CASE i = o
  BY <1>1, <1>2, <1>3 DEF Parts, PartOf, OneReady
<1>4. CASE i # o
  BY <1>1, <1>2, <1>4 DEF Parts, PartOf, OneReady
<1> QED BY <1>3, <1>4

(* One of the entries to be added.                                          *)
WantedAs(i, x, p) ==
    /\ i \in DOMAIN other.entries /\ NewId(i) \in Ids \ DOMAIN p
    /\ IsEntry(x) /\ DOMAIN x = EntryFields /\ x.type = EntryOf(other, i).type
    /\ x.key = FreeKey(EntryOf(other, i).key)
    /\ KeyFree(p, x)

LEMMA WantedIs ==
  ASSUME EntryFields = OtherFields, NEW p, NEW bases, MergeReady(p, bases), NEW i \in Wanted(bases), NEW x, x = Made(i)
  PROVE  WantedAs(i, x, p)
<1>1. PICK o \in bases : i \in Parts(o)
  BY DEF Wanted
<1>2. PartOf(i, o) /\ OneReady(o)
  <2>1. PartOf(i, o)
    BY <1>1, PartsAre
  <2> QED BY <2>1 DEF MergeReady
<1> DEFINE e == EntryOf(other, i)
<1>3. i \in DOMAIN other.entries /\ NewId(i) \in Ids \ DOMAIN p /\ Now(p) /\ IsPast(other.entries)
  BY <1>2 DEF PartOf, MergeReady
<1>4. MadeAs(x, e)
  BY <1>3, MadeIs
<1>5. x.key = FreeKey(e.key)
  <2>1. CASE IsDependent(e)
    <3>1. e.key = FreeKey(e.key)
      BY <1>2, <2>1 DEF PartOf, OneReady
    <3> HIDE DEF e
    <3> QED BY <1>4, <2>1, <3>1 DEF MadeAs
  <2>2. CASE ~IsDependent(e)
    <3> HIDE DEF e
    <3> QED BY <1>4, <2>2 DEF MadeAs
  <2> QED BY <2>1, <2>2
<1>6. e.key \in Keys \cup {NoKey}
  <2>1. IsEntry(e)
    BY <1>3, OtherIs
  <2> QED BY <2>1 DEF IsEntry
<1>7. KeyFree(p, x)
  <2>1. /\ FreeKey(e.key) \in {e.key, NoKey}
        /\ FreeKey(e.key) # NoKey => \A j \in DOMAIN p : p[j].key # e.key
    <3> HIDE DEF e
    <3> QED BY <1>3, <1>6, FreeKeyIs
  <2> QED BY <1>5, <2>1 DEF KeyFree
<1> QED BY <1>3, <1>4, <1>5, <1>7 DEF MadeAs, WantedAs

(* Two of them have other uuids and keys.                                   *)
LEMMA TwoWanted ==
  ASSUME EntryFields = OtherFields, NEW p, NEW bases, MergeReady(p, bases),
         NEW i \in Wanted(bases), NEW j \in Wanted(bases), i # j
  PROVE  NewId(i) # NewId(j) /\ (Made(i).key # Made(j).key \/ Made(j).key = NoKey)
<1> DEFINE x == Made(i)
           y == Made(j)
<1>1. WantedAs(i, x, p) /\ WantedAs(j, y, p)
  BY WantedIs
<1>2. NewId(i) # NewId(j)
  BY <1>1 DEF WantedAs, MergeReady
<1> HIDE DEF x, y
<1>3. other.entries[i].key # other.entries[j].key \/ other.entries[i].key = NoKey
  BY <1>1, PastIs DEF MergeReady, WantedAs
<1>4. x.key # y.key \/ y.key = NoKey
  BY <1>1, <1>3 DEF WantedAs, FreeKey, EntryOf
<1> QED BY <1>2, <1>4 DEF x, y

(* One more of them, when others are there.                                 *)
LEMMA WantedEnters ==
  ASSUME EntryFields = OtherFields, NEW p, NEW bases, MergeReady(p, bases), NEW B, B \subseteq Wanted(bases),
         NEW q, AddedTo(q, p, B), NEW i \in Wanted(bases) \ B, NEW x, x = Made(i)
  PROVE  NewId(i) \notin DOMAIN q /\ KeyFree(q, x)
<1>1. WantedAs(i, x, p)
  BY WantedIs
<1>2. NewId(i) \notin DOMAIN q
  <2>1. \A j \in B : NewId(i) # NewId(j)
    BY TwoWanted
  <2> QED BY <1>1, <2>1 DEF AddedTo, WantedAs
<1>3. ASSUME x.key # NoKey, NEW k \in DOMAIN q PROVE q[k].key # x.key
  <2>1. CASE k \in DOMAIN p
    <3>1. AllBut(q[k], p[k]) /\ IsEntry(p[k])
      BY <2>1, PastIs DEF AddedTo, MergeReady, Now
    <3>2. q[k].key = p[k].key
      BY <3>1 DEF AllBut, IsEntry
    <3> QED BY <1>1, <1>3, <2>1, <3>2 DEF WantedAs, KeyFree
  <2>2. CASE k \notin DOMAIN p
    <3>1. PICK j \in B : k = NewId(j)
      BY <2>2 DEF AddedTo
    <3> DEFINE y == Made(j)
    <3>2. AllBut(q[k], Norm(y))
      BY <3>1 DEF AddedTo
    <3>3. WantedAs(j, y, p)
      BY WantedIs
    <3>4. y.key # x.key
      <4>1. j # i /\ j \in Wanted(bases)
        BY <3>1
      <4>2. Made(j).key # Made(i).key \/ Made(i).key = NoKey
        BY <4>1, TwoWanted
      <4> QED BY <1>3, <4>2
    <3> HIDE DEF y
    <3>5. IsEntry(Norm(y)) /\ Norm(y).key = y.key
      BY <3>3, NormIs DEF WantedAs
    <3>6. q[k].key = Norm(y).key
      BY <3>2, <3>5 DEF AllBut, IsEntry
    <3> QED BY <3>4, <3>5, <3>6
  <2> QED BY <2>1, <2>2
<1>4. KeyFree(q, x)
  BY <1>3 DEF KeyFree
<1> QED BY <1>2, <1>4

(* All dependents of a base are of one kind. *)
LEMMA KindOf ==
  ASSUME EntryFields = OtherFields, IsPast(other.entries), NEW o \in DOMAIN other.entries, ~IsDependent(EntryOf(other, o))
  PROVE  \E kind \in Kinds :
            /\ \A i \in DependentsIn(other, o) : EntryOf(other, i).type = kind
            /\ IF DependentsIn(other, o) = {} THEN EntryOf(other, o).type = "normal"
               ELSE EntryOf(other, o).type = BaseType[kind]
<1>1. \A i \in DependentsIn(other, o) :
         EntryOf(other, i).type \in Kinds /\ EntryOf(other, o).type = BaseType[EntryOf(other, i).type]
  <2> SUFFICES ASSUME NEW i \in DependentsIn(other, o)
               PROVE  EntryOf(other, i).type \in Kinds /\ EntryOf(other, o).type = BaseType[EntryOf(other, i).type]
    OBVIOUS
  <2>1. i \in DOMAIN other.entries /\ IsDependent(EntryOf(other, i)) /\ EntryOf(other, i).base = o
    BY DEF DependentsIn, EntryOf
  <2> QED BY <2>1, OtherIs
<1>2. \A k1, k2 \in Kinds : BaseType[k1] = BaseType[k2] => k1 = k2
  BY DEF BaseType, Kinds
<1>3. CASE DependentsIn(other, o) = {}
  <2>1. \A kind \in Kinds : EntryOf(other, o).type # BaseType[kind]
    <3> SUFFICES ASSUME NEW kind \in Kinds, other.entries[o].type = BaseType[kind]  PROVE FALSE
      BY DEF EntryOf
    <3>1. \E j \in DOMAIN other.entries : other.entries[j].type = kind /\ other.entries[j].base = o
      BY PastIs
    <3> QED BY <1>3, <3>1 DEF DependentsIn, IsDependent
  <2>2. EntryOf(other, o).type \in Types /\ EntryOf(other, o).type \notin Kinds
    <3>1. IsEntry(EntryOf(other, o))
      BY OtherIs
    <3> QED BY <3>1 DEF IsEntry, IsDependent
  <2>3. EntryOf(other, o).type = "normal"
    BY <2>1, <2>2 DEF Types, Kinds, BaseType
  <2>4. "alias" \in Kinds
    BY DEF Kinds
  <2> QED BY <1>3, <2>3, <2>4
<1>4. CASE DependentsIn(other, o) # {}
  BY <1>1, <1>2, <1>4
<1> QED BY <1>3, <1>4

(* The command that adds the dependent i of o. *)
CommandOf(c, i, o, kind, q) ==
    /\ c = AddCommand(c.id, c.entry) /\ c.id = NewId(i) /\ c.entry = Made(i)
    /\ Entering(q, c.id, c.entry, kind, NewBase(o))

LEMMA CommandIs ==
  ASSUME EntryFields = OtherFields, NEW p, NEW bases, MergeReady(p, bases), NEW B, B \subseteq Wanted(bases),
         NEW q, AddedTo(q, p, B), NEW o \in bases, Parts(o) \cap B = {}, NEW i \in DependentsToAdd(o),
         NEW kind, EntryOf(other, i).type = kind, NEW c, c = MergeCommand(i)
  PROVE  CommandOf(c, i, o, kind, q)
<1> DEFINE x == Made(i)
           e == EntryOf(other, i)
<1>1. i \in Parts(o)
  BY DEF Parts
<1>2. i \in Wanted(bases) \ B
  BY <1>1 DEF Wanted
<1>3. WantedAs(i, x, p)
  BY <1>2, WantedIs
<1>4. NewId(i) \notin DOMAIN q /\ KeyFree(q, x)
  BY <1>2, WantedEnters
<1>5. i \in DOMAIN other.entries /\ IsDependent(e) /\ e.base = o
  BY DEF DependentsToAdd, DependentsIn, EntryOf
<1>6. MadeAs(x, e)
  BY <1>5, MadeIs
<1>7. x.base = NewBase(o) /\ x.type = kind
  BY <1>5, <1>6 DEF MadeAs
<1> HIDE DEF x, e
<1>8. Entering(q, NewId(i), x, kind, NewBase(o))
  BY <1>3, <1>4, <1>7 DEF Entering, WantedAs
<1>9. c = AddCommand(NewId(i), x)
  BY DEF MergeCommand, x
<1>10. c.id = NewId(i) /\ c.entry = x
  BY <1>9 DEF AddCommand
<1>11. c.entry = Made(i)
  BY <1>10 DEF x
<1> QED BY <1>8, <1>9, <1>10, <1>11 DEF CommandOf

(* All dependents of o, of the same kind, in the list of MergeOne. *)
Lists(list, lo, n, o, bases) ==
    /\ \A k \in lo + 1 .. n :
          \E i \in DependentsToAdd(o) : list[k].id = NewId(i) /\ list[k].entry = Made(i) /\ i \in Wanted(bases) /\ i # o
    /\ \A i \in DependentsToAdd(o) : \E k \in lo + 1 .. n : list[k].id = NewId(i)

LEMMA DependentsList ==
  ASSUME EntryFields = OtherFields, NEW p, NEW bases, MergeReady(p, bases), NEW B, B \subseteq Wanted(bases),
         NEW q, AddedTo(q, p, B), NEW o \in bases, Parts(o) \cap B = {},
         NEW kind, \A i \in DependentsToAdd(o) : EntryOf(other, i).type = kind,
         NEW list, NEW lo, NEW n, NEW deps, OneList(list, o, lo, n, deps)
  PROVE  DependentsOf1(list, lo, lo + n, q, NewBase(o), kind) /\ Lists(list, lo, lo + n, o, bases)
<1>1. n \in Nat /\ lo \in Nat
  BY DEF OneList
<1>2. ASSUME NEW i \in DependentsToAdd(o) PROVE i \in Wanted(bases) /\ i # o
  <2>1. i \in Wanted(bases)
    BY DEF Wanted, Parts
  <2>2. IsDependent(EntryOf(other, i)) /\ ~IsDependent(EntryOf(other, o))
    BY DEF DependentsToAdd, DependentsIn, EntryOf, MergeReady, OneReady
  <2> QED BY <2>1, <2>2
<1>3. ASSUME NEW k \in 1 .. n PROVE CommandOf(list[lo + k], deps[k], o, kind, q) /\ deps[k] \in DependentsToAdd(o)
  <2>1. deps[k] \in DependentsToAdd(o) /\ list[lo + k] = MergeCommand(deps[k])
    BY DEF OneList
  <2>2. EntryOf(other, deps[k]).type = kind
    BY <2>1
  <2> QED BY <2>1, <2>2, CommandIs
<1>4. ASSUME NEW k \in lo + 1 .. lo + n PROVE k - lo \in 1 .. n /\ lo + (k - lo) = k
  BY <1>1
<1>5. ASSUME NEW k \in lo + 1 .. lo + n
      PROVE  CommandOf(list[k], deps[k - lo], o, kind, q) /\ deps[k - lo] \in DependentsToAdd(o)
  BY <1>3, <1>4
<1>6. ASSUME NEW k \in lo + 1 .. lo + n
      PROVE  /\ list[k] = AddCommand(list[k].id, list[k].entry)
             /\ Entering(q, list[k].id, list[k].entry, kind, NewBase(o))
  BY <1>5 DEF CommandOf
<1>7. ASSUME NEW j \in lo + 1 .. lo + n, NEW k \in lo + 1 .. lo + n, j < k
      PROVE  /\ list[j].id # list[k].id
             /\ list[j].entry.key # list[k].entry.key \/ list[k].entry.key = NoKey
  <2> DEFINE i1 == deps[j - lo]
             i2 == deps[k - lo]
  <2>1. /\ list[j].id = NewId(i1) /\ list[j].entry = Made(i1) /\ list[k].id = NewId(i2) /\ list[k].entry = Made(i2)
        /\ i1 \in Wanted(bases) /\ i2 \in Wanted(bases)
    BY <1>2, <1>5 DEF CommandOf
  <2>2. j - lo \in 1 .. n /\ k - lo \in 1 .. n /\ j - lo < k - lo
    BY <1>1, <1>7
  <2>3. i1 # i2
    BY <2>2 DEF OneList
  <2> HIDE DEF i1, i2
  <2>4. NewId(i1) # NewId(i2) /\ (Made(i1).key # Made(i2).key \/ Made(i2).key = NoKey)
    BY <2>1, <2>3, TwoWanted
  <2> QED BY <2>1, <2>4
<1>8. DependentsOf1(list, lo, lo + n, q, NewBase(o), kind)
  BY <1>6, <1>7 DEF DependentsOf1
<1>9. ASSUME NEW k \in lo + 1 .. lo + n
      PROVE  \E i \in DependentsToAdd(o) : list[k].id = NewId(i) /\ list[k].entry = Made(i) /\ i \in Wanted(bases) /\ i # o
  BY <1>2, <1>5 DEF CommandOf
<1>10. ASSUME NEW i \in DependentsToAdd(o) PROVE \E k \in lo + 1 .. lo + n : list[k].id = NewId(i)
  <2>1. PICK k \in 1 .. n : deps[k] = i
    BY DEF OneList
  <2>2. list[lo + k].id = NewId(i)
    BY <1>3, <2>1 DEF CommandOf
  <2>3. lo + k \in lo + 1 .. lo + n
    BY <1>1
  <2> QED BY <2>2, <2>3
<1>11. Lists(list, lo, lo + n, o, bases)
  BY <1>9, <1>10 DEF Lists
<1> QED BY <1>8, <1>11

(* A base that is added. *)
LEMMA NewBaseRuns ==
  ASSUME EntryFields = OtherFields, NEW p, NEW bases, MergeReady(p, bases), NEW B, B \subseteq Wanted(bases),
         NEW q, AddedTo(q, p, B), NEW o \in bases, Parts(o) \cap B = {}, Same(o) = {},
         NEW list, NEW lo, NEW n, NEW deps, OneList(list, o, lo, n, deps)
  PROVE  \E r : IsPast(r) /\ Adds(r, q, list, 0, lo + n) /\ Runs(list, lo + n, Stage(q), Stage(q), r)
<1> DEFINE e == EntryOf(other, o)
           x == Made(o)
           y == [x EXCEPT !.type = "normal"]
           id == NewId(o)
           g == Put(q, id, Norm(y))
<1>1. OneReady(o) /\ IsPast(other.entries) /\ o \in DOMAIN other.entries /\ ~IsDependent(e)
  BY DEF MergeReady, OneReady
<1>2. n \in Nat /\ lo = 1 /\ list[1] = MergeCommand(o)
  BY DEF OneList
<1>3. o \in Wanted(bases) \ B
  BY DEF Wanted, Parts
<1>4. WantedAs(o, x, p)
  BY <1>3, WantedIs
<1>5. id \notin DOMAIN q /\ KeyFree(q, x)
  BY <1>3, WantedEnters
<1>6. PICK kind \in Kinds :
            /\ \A i \in DependentsIn(other, o) : EntryOf(other, i).type = kind
            /\ IF DependentsIn(other, o) = {} THEN e.type = "normal" ELSE e.type = BaseType[kind]
  BY <1>1, KindOf
<1>7. \A i \in DependentsToAdd(o) : EntryOf(other, i).type = kind
  BY <1>6 DEF DependentsToAdd
<1>8. \/ x.type = "normal" /\ lo + n = 1
      \/ x.type = BaseType[kind] /\ lo + n >= 2
  <2>1. x.type = e.type
    BY <1>4 DEF WantedAs
  <2>2. CASE n = 0
    <3>1. DependentsToAdd(o) = {}
      BY <2>2 DEF OneList
    <3>2. DependentsIn(other, o) = {}
      BY <1>1, <3>1 DEF OneReady
    <3> HIDE DEF x, e
    <3> QED BY <1>2, <1>6, <2>1, <2>2, <3>2
  <2>3. CASE n # 0
    <3>1. 1 \in 1 .. n
      BY <1>2, <2>3
    <3>2. deps[1] \in DependentsIn(other, o)
      BY <3>1 DEF OneList, DependentsToAdd
    <3> HIDE DEF x, e
    <3> QED BY <1>2, <1>6, <2>1, <2>3, <3>2
  <2> QED BY <2>2, <2>3
<1>9. DependentsOf1(list, lo, lo + n, q, NewBase(o), kind) /\ Lists(list, lo, lo + n, o, bases)
  <2> HIDE DEF e, x, y, id, g
  <2> QED BY <1>7, DependentsList
<1>10. NewBase(o) = id
  BY DEF NewBase
<1>11. ~IsDependent(x) /\ IsEntry(x) /\ DOMAIN x = EntryFields /\ id \in Ids
  BY <1>1, <1>4 DEF WantedAs, IsDependent
<1>12. IsEntry(y) /\ y.key = x.key /\ Norm(y).key = x.key
  <2>1. "normal" \in Types \ Kinds
    BY DEF Types, Kinds
  <2>2. IsEntry(y) /\ y.key = x.key
    BY <1>11, <2>1, RetypeIs
  <2> HIDE DEF y
  <2> QED BY <2>2, NormIs
<1> HIDE DEF x, y
<1>13. DependentsOf1(list, 1, lo + n, g, id, kind)
  <2>1. ASSUME NEW k \in 1 + 1 .. lo + n
        PROVE  /\ list[k] = AddCommand(list[k].id, list[k].entry)
               /\ Entering(g, list[k].id, list[k].entry, kind, id)
    <3> DEFINE c == list[k].id
               z == list[k].entry
    <3>1. list[k] = AddCommand(c, z) /\ Entering(q, c, z, kind, id)
      BY <1>2, <1>9, <1>10 DEF DependentsOf1
    <3>2. PICK i \in DependentsToAdd(o) : c = NewId(i) /\ z = Made(i) /\ i \in Wanted(bases) /\ i # o
      BY <1>2, <1>9 DEF Lists
    <3>3. NewId(o) # NewId(i) /\ (Made(o).key # Made(i).key \/ Made(i).key = NoKey)
      BY <1>3, <3>2, TwoWanted
    <3>4. c # id /\ (x.key # z.key \/ z.key = NoKey)
      BY <3>2, <3>3 DEF x
    <3> HIDE DEF c, z, id
    <3>5. DOMAIN g = DOMAIN q \cup {id} /\ g[id] = Norm(y) /\ \A j \in DOMAIN q : j # id => g[j] = q[j]
      BY DEF Put
    <3> HIDE DEF g
    <3>6. KeyFree(g, z)
      BY <1>12, <3>1, <3>4, <3>5 DEF Entering, KeyFree
    <3> QED BY <3>1, <3>4, <3>5, <3>6 DEF Entering, c, z
  <2>2. \A j, k \in 1 + 1 .. lo + n : j < k =>
          /\ list[j].id # list[k].id
          /\ list[j].entry.key # list[k].entry.key \/ list[k].entry.key = NoKey
    BY <1>2, <1>9 DEF DependentsOf1
  <2> HIDE DEF g, id
  <2> QED BY <2>1, <2>2 DEF DependentsOf1
<1>14. list[1] = AddCommand(id, x)
  BY <1>2 DEF MergeCommand, x
<1>15. id \in Ids \ DOMAIN q /\ lo + n \in Nat /\ y = [x EXCEPT !.type = "normal"]
  BY <1>2, <1>5, <1>11 DEF y
<1> HIDE DEF id
<1>16. BaseList(list, lo + n, q, id, x, y, kind)
  BY <1>5, <1>8, <1>11, <1>13, <1>14, <1>15 DEF BaseList, x
<1>17. IsPast(q)
  BY DEF AddedTo
<1> HIDE DEF g
<1> QED BY <1>16, <1>17, BaseRuns

(* A base that is there already.  It may have become one for the dependents *)
(* only that are of its own kind.                                           *)
LEMMA OldBaseStays ==
  ASSUME EntryFields = OtherFields, NEW p, NEW bases, MergeReady(p, bases), NEW B, B \subseteq Wanted(bases),
         NEW q, AddedTo(q, p, B), NEW o \in bases, o \in DOMAIN p,
         NEW kind \in Kinds, \A i \in DependentsIn(other, o) : EntryOf(other, i).type = kind,
         p[o].type \in {"normal", BaseType[kind]}
  PROVE  o \in DOMAIN q /\ q[o].type \in {"normal", BaseType[kind]}
<1>1. IsPast(q) /\ IsPast(p) /\ IsPast(other.entries) /\ o \in DOMAIN other.entries
  BY DEF AddedTo, MergeReady, Now, OneReady
<1>2. o \in DOMAIN q /\ AllBut(q[o], p[o])
  BY DEF AddedTo
<1>3. ~IsDependent(p[o])
  BY DEF IsDependent, Kinds, BaseType
<1>4. ~IsDependent(q[o])
  BY <1>2, <1>3 DEF AllBut
<1>5. q[o].type \in Types
  BY <1>1, <1>2, PastIs DEF IsEntry
<1>6. ASSUME NEW k2 \in Kinds, q[o].type = BaseType[k2], k2 # kind PROVE FALSE
  <2>1. PICK j \in DOMAIN q : q[j].type = k2 /\ q[j].base = o
    BY <1>1, <1>2, <1>6, PastIs
  <2>2. IsDependent(q[j])
    BY <2>1 DEF IsDependent
  <2>3. CASE j \in DOMAIN p
    <3>1. IsDependent(p[j]) /\ q[j] = p[j]
      BY <2>2, <2>3 DEF AddedTo, AllBut
    <3>2. p[o].type = BaseType[k2]
      BY <1>1, <2>1, <2>3, <3>1, PastIs
    <3> QED BY <1>6, <3>2 DEF BaseType, Kinds
  <2>4. CASE j \notin DOMAIN p
    <3>1. PICK i \in B : j = NewId(i)
      BY <2>4 DEF AddedTo
    <3> DEFINE y == Made(i)
               e == EntryOf(other, i)
    <3>2. AllBut(q[j], Norm(y)) /\ i \in DOMAIN other.entries
      BY <3>1 DEF AddedTo
    <3>3. MadeAs(y, e)
      BY <3>2, MadeIs
    <3> HIDE DEF y, e
    <3>4. IsDependent(Norm(y)) /\ q[j] = Norm(y)
      BY <2>2, <3>2 DEF AllBut
    <3>5. IsDependent(y) /\ q[j] = y
      BY <3>3, <3>4, NormIs DEF MadeAs
    <3>6. e.type = k2 /\ IsDependent(e) /\ NewBase(e.base) = o
      BY <2>1, <3>3, <3>5 DEF MadeAs, IsDependent
    <3>7. e.base \in DOMAIN other.entries
      BY <1>1, <3>2, <3>6, OtherIs DEF e
    <3>8. e.base = o
      BY <1>1, <3>6, <3>7, NewBaseIs
    <3>9. i \in DependentsIn(other, o)
      BY <3>2, <3>6, <3>8 DEF DependentsIn, e, EntryOf
    <3> QED BY <1>6, <3>6, <3>9 DEF e
  <2> QED BY <2>3, <2>4
<1>7. \A k2 \in Kinds : q[o].type = BaseType[k2] => k2 = kind
  BY <1>6
<1>8. q[o].type \in {"normal", "aliasbase", "shortcutbase"}
  BY <1>4, <1>5 DEF IsDependent, Types, Kinds
<1> QED BY <1>2, <1>7, <1>8 DEF Kinds, BaseType

LEMMA OldBaseRuns ==
  ASSUME EntryFields = OtherFields, NEW p, NEW bases, MergeReady(p, bases), NEW B, B \subseteq Wanted(bases),
         NEW q, AddedTo(q, p, B), NEW o \in bases, Parts(o) \cap B = {}, Same(o) # {},
         NEW list, NEW lo, NEW n, NEW deps, OneList(list, o, lo, n, deps)
  PROVE  \E r : IsPast(r) /\ Adds(r, q, list, 0, lo + n) /\ Runs(list, lo + n, Stage(q), Stage(q), r)
<1>1. OneReady(o) /\ IsPast(other.entries) /\ o \in DOMAIN other.entries /\ ~IsDependent(EntryOf(other, o)) /\ Now(p)
  BY DEF MergeReady, OneReady
<1>2. n \in Nat /\ lo = 0 /\ lo + n = n
  BY DEF OneList
<1>3. IsPast(q)
  BY DEF AddedTo
<1>4. CASE n = 0
  <2>1. Adds(q, q, list, 0, 0) /\ Runs(list, 0, Stage(q), Stage(q), q)
    BY AddsNone, RunsNone
  <2> QED BY <1>2, <1>3, <1>4, <2>1
<1>5. CASE n # 0
  <2>1. 1 \in 1 .. n
    BY <1>2, <1>5
  <2>2. deps[1] \in DependentsToAdd(o) /\ deps[1] \in DependentsIn(other, o)
    BY <2>1 DEF OneList, DependentsToAdd
  <2>3. PICK kind \in Kinds :
            /\ \A i \in DependentsIn(other, o) : EntryOf(other, i).type = kind
            /\ EntryOf(other, o).type = BaseType[kind]
    BY <1>1, <2>2, KindOf
  <2>4. o \in Used /\ Entry(o).type \in {"normal", BaseType[kind]}
    BY <1>1, <2>2, <2>3 DEF OneReady
  <2>5. o \in DOMAIN p /\ p[o].type \in {"normal", BaseType[kind]}
    BY <1>1, <2>4, EntryIs
  <2>6. o \in DOMAIN q /\ q[o].type \in {"normal", BaseType[kind]}
    BY <2>3, <2>5, OldBaseStays
  <2>7. \A i \in DependentsToAdd(o) : EntryOf(other, i).type = kind
    BY <2>3 DEF DependentsToAdd
  <2>8. DependentsOf1(list, lo, lo + n, q, NewBase(o), kind)
    BY <2>7, DependentsList
  <2>9. DependentsOf1(list, 0, n, q, o, kind)
    BY <1>2, <2>8 DEF NewBase
  <2>10. Adds(q, q, list, 0, 0) /\ Runs(list, 0, Stage(q), Stage(q), q) /\ 0 \in Nat /\ 0 <= 0 /\ 0 <= n
    BY <1>2, AddsNone, RunsNone
  <2>11. \E r : IsPast(r) /\ Adds(r, q, list, 0, n) /\ Runs(list, n, Stage(q), Stage(q), r)
    BY <1>2, <1>3, <2>6, <2>9, <2>10, DependentsRun
  <2> QED BY <1>2, <2>11
<1> QED BY <1>4, <1>5

(* The list of MergeOne adds what belongs to o. *)
LEMMA MergeOneRuns ==
  ASSUME EntryFields = OtherFields, NEW p, NEW bases, MergeReady(p, bases), NEW B, B \subseteq Wanted(bases),
         NEW q, AddedTo(q, p, B), NEW o \in bases, Parts(o) \cap B = {},
         NEW list, NEW lo, NEW n, NEW deps, OneList(list, o, lo, n, deps)
  PROVE  \E r : AddedTo(r, p, B \cup Parts(o)) /\ Runs(list, Len(list), Stage(q), Stage(q), r)
<1>1. PICK r : IsPast(r) /\ Adds(r, q, list, 0, lo + n) /\ Runs(list, lo + n, Stage(q), Stage(q), r)
  <2>1. CASE Same(o) = {}
    BY <2>1, NewBaseRuns
  <2>2. CASE Same(o) # {}
    BY <2>2, OldBaseRuns
  <2> QED BY <2>1, <2>2
<1>2. n \in Nat /\ lo \in {0, 1} /\ Len(list) = lo + n
  BY DEF OneList
<1> DEFINE m == lo + n
<1>3. ASSUME NEW k \in 1 .. m PROVE \E i \in Parts(o) : list[k] = MergeCommand(i)
  <2>1. CASE k = 1 /\ lo = 1
    BY <2>1 DEF OneList, Parts
  <2>2. CASE ~(k = 1 /\ lo = 1)
    <3>1. k - lo \in 1 .. n /\ lo + (k - lo) = k
      BY <1>2, <2>2
    <3>2. deps[k - lo] \in DependentsToAdd(o) /\ list[k] = MergeCommand(deps[k - lo])
      BY <3>1 DEF OneList
    <3> QED BY <3>2 DEF Parts
  <2> QED BY <2>1, <2>2
<1>4. ASSUME NEW i \in Parts(o) PROVE \E k \in 1 .. m : list[k] = MergeCommand(i)
  <2>1. CASE i \in DependentsToAdd(o)
    <3>1. PICK k \in 1 .. n : deps[k] = i /\ list[lo + k] = MergeCommand(deps[k])
      BY <2>1 DEF OneList
    <3>2. lo + k \in 1 .. m
      BY <1>2
    <3> QED BY <3>1, <3>2
  <2>2. CASE i \notin DependentsToAdd(o)
    <3>1. i = o /\ Same(o) = {}
      BY <2>2 DEF Parts
    <3>2. lo = 1 /\ list[1] = MergeCommand(i) /\ 1 \in 1 .. m
      BY <1>2, <3>1 DEF OneList
    <3> QED BY <3>2
  <2> QED BY <2>1, <2>2
<1>5. \A i : MergeCommand(i).id = NewId(i) /\ MergeCommand(i).entry = Made(i)
  BY DEF MergeCommand, AddCommand
<1>6. 0 + 1 = 1
  OBVIOUS
<1> HIDE DEF m
<1>7. /\ DOMAIN r = DOMAIN q \cup {list[k].id : k \in 1 .. m}
      /\ \A i \in DOMAIN q : AllBut(r[i], q[i])
      /\ \A k \in 1 .. m : AllBut(r[list[k].id], Norm(list[k].entry))
  BY <1>1, <1>6 DEF Adds, m
<1>8. DOMAIN q = DOMAIN p \cup {NewId(i) : i \in B}
  BY DEF AddedTo
<1>9. DOMAIN r = DOMAIN p \cup {NewId(i) : i \in B \cup Parts(o)}
  <2>1. {list[k].id : k \in 1 .. m} = {NewId(i) : i \in Parts(o)}
    BY <1>3, <1>4, <1>5
  <2> QED BY <1>7, <1>8, <2>1
<1>10. B \cup Parts(o) \subseteq DOMAIN other.entries
  <2>1. \A i \in Parts(o) : i \in DOMAIN other.entries
    BY PartsAre DEF PartOf
  <2> QED BY <2>1 DEF AddedTo
<1>11. ASSUME NEW i \in DOMAIN p PROVE AllBut(r[i], p[i])
  <2>1. AllBut(q[i], p[i]) /\ AllBut(r[i], q[i])
    BY <1>7, <1>8 DEF AddedTo
  <2> QED BY <2>1, AllButOn
<1>12. ASSUME NEW i \in B \cup Parts(o) PROVE AllBut(r[NewId(i)], Norm(Made(i)))
  <2>1. CASE i \in B
    <3>1. AllBut(q[NewId(i)], Norm(Made(i))) /\ AllBut(r[NewId(i)], q[NewId(i)])
      BY <1>7, <1>8, <2>1 DEF AddedTo
    <3> QED BY <3>1, AllButOn
  <2>2. CASE i \in Parts(o)
    <3>1. PICK k \in 1 .. m : list[k] = MergeCommand(i)
      BY <1>4, <2>2
    <3> QED BY <1>5, <1>7, <3>1
  <2> QED BY <2>1, <2>2
<1>13. AddedTo(r, p, B \cup Parts(o))
  BY <1>1, <1>9, <1>10, <1>11, <1>12 DEF AddedTo
<1> QED BY <1>1, <1>2, <1>13

(* The list adds the entries B of the other database. *)
Reached(r, list, p, B) ==
    AddedTo(r, p, B) /\ IsList(list) /\ Runs(list, Len(list), Stage(p), Stage(p), r)

LEMMA MergeOneFirst ==
  ASSUME EntryFields = OtherFields, IsFiniteSet(Ids), NEW p, NEW bases, MergeReady(p, bases), NEW o \in bases
  PROVE  \E r : Reached(r, MergeOne(o), p, Parts(o))
<1> DEFINE list == MergeOne(o)
           B == {}
<1>1. PICK lo, n, deps : OneList(list, o, lo, n, deps)
  BY MergeOneIs
<1>2. AddedTo(p, p, B)
  <2>1. IsPast(p)
    BY DEF MergeReady, Now
  <2>2. \A i : AllBut(p[i], p[i])
    BY AllButSelf
  <2> QED BY <2>1, <2>2 DEF AddedTo
<1>3. B \subseteq Wanted(bases) /\ Parts(o) \cap B = {} /\ B \cup Parts(o) = Parts(o)
  OBVIOUS
<1> HIDE DEF list, B
<1>4. \E r : AddedTo(r, p, B \cup Parts(o)) /\ Runs(list, Len(list), Stage(p), Stage(p), r)
  BY <1>1, <1>2, <1>3, MergeOneRuns
<1>5. IsList(list)
  BY <1>1 DEF OneList
<1> QED BY <1>3, <1>4, <1>5 DEF Reached, list

LEMMA MergeOneMore ==
  ASSUME EntryFields = OtherFields, IsFiniteSet(Ids), NEW p, NEW bases, MergeReady(p, bases), NEW o \in bases,
         NEW B, B \subseteq Wanted(bases), Parts(o) \cap B = {},
         NEW a, NEW q, Reached(q, a, p, B), NEW C, C = B \cup Parts(o)
  PROVE  \E r : Reached(r, a \o MergeOne(o), p, C)
<1> DEFINE b == MergeOne(o)
           list == a \o b
<1>1. PICK lo, n, deps : OneList(b, o, lo, n, deps)
  BY MergeOneIs
<1>2. IsList(b) /\ IsList(a) /\ AddedTo(q, p, B) /\ Runs(a, Len(a), Stage(p), Stage(p), q)
  BY <1>1 DEF OneList, Reached
<1> HIDE DEF b
<1>3. PICK r : AddedTo(r, p, B \cup Parts(o)) /\ Runs(b, Len(b), Stage(q), Stage(q), r)
  BY <1>1, <1>2, MergeOneRuns
<1>4. Concatenated(list, a, b)
  BY <1>2, ListsConcatenate
<1> HIDE DEF list
<1>5. /\ IsList(list) /\ Len(list) = Len(a) + Len(b) /\ Len(a) \in Nat /\ Len(b) \in Nat
      /\ \A k \in 1 .. Len(a) : list[k] = a[k]
      /\ \A k \in 1 .. Len(b) : list[Len(a) + k] = b[k]
  BY <1>2, <1>4 DEF Concatenated, IsList
<1>6. Runs(list, Len(a) + Len(b), Stage(p), Stage(p), r)
  <2> DEFINE m == Len(a)
             w == Len(b)
  <2>1. /\ m \in Nat /\ w \in Nat
        /\ \A k \in 1 .. m : list[k] = a[k]
        /\ \A k \in 1 .. w : list[m + k] = b[k]
        /\ Runs(a, m, Stage(p), Stage(p), q) /\ Runs(b, w, Stage(q), Stage(q), r)
    BY <1>2, <1>3, <1>5
  <2> HIDE DEF m, w
  <2>2. Runs(list, m + w, Stage(p), Stage(p), r)
    BY <2>1, RunsJoin
  <2> QED BY <2>2 DEF m, w
<1>7. Reached(r, list, p, C)
  BY <1>3, <1>5, <1>6 DEF Reached
<1> QED BY <1>7 DEF list, b

(* What the first k bases in the order add. *)
Upto(order, k) == UNION {Parts(order[j]) : j \in 1 .. k}

InOrder(order, n, bases) ==
    /\ \A k \in 1 .. n : order[k] \in bases
    /\ \A j, k \in 1 .. n : j < k => order[j] # order[k]

NextUpto(order, k, bases) ==
    /\ Upto(order, k + 1) = Upto(order, k) \cup Parts(order[k + 1])
    /\ Upto(order, k) \subseteq Wanted(bases)
    /\ Parts(order[k + 1]) \cap Upto(order, k) = {}

LEMMA UptoIs ==
  ASSUME NEW p, NEW bases, MergeReady(p, bases), NEW order, NEW n \in Nat, InOrder(order, n, bases), NEW k \in 1 .. n, k + 1 <= n
  PROVE  NextUpto(order, k, bases)
<1>1. 1 .. k + 1 = (1 .. k) \cup {k + 1}
  OBVIOUS
<1>2. Upto(order, k + 1) = Upto(order, k) \cup Parts(order[k + 1])
  BY <1>1 DEF Upto
<1>3. ASSUME NEW j \in 1 .. k PROVE order[j] \in bases /\ order[j] # order[k + 1]
  <2>1. j \in 1 .. n /\ k + 1 \in 1 .. n /\ j < k + 1
    OBVIOUS
  <2> QED BY <2>1 DEF InOrder
<1>4. Upto(order, k) \subseteq Wanted(bases)
  BY <1>3 DEF Upto, Wanted
<1>5. ASSUME NEW i \in Parts(order[k + 1]), NEW j \in 1 .. k, i \in Parts(order[j]) PROVE FALSE
  <2>1. order[k + 1] \in bases
    BY DEF InOrder
  <2>2. PartOf(i, order[k + 1]) /\ PartOf(i, order[j])
    BY <1>3, <1>5, <2>1, PartsAre
  <2> QED BY <1>3, <2>2 DEF PartOf
<1>6. Parts(order[k + 1]) \cap Upto(order, k) = {}
  BY <1>5 DEF Upto
<1> QED BY <1>2, <1>4, <1>6 DEF NextUpto

(* The list of a merge of bases in this order. *)
ListOfMerge(order) == FlattenSeq([k \in DOMAIN order |-> MergeOne(order[k])])

LEMMA MergeReaches ==
  ASSUME EntryFields = OtherFields, IsFiniteSet(Ids), NEW p, NEW bases, MergeReady(p, bases),
         NEW order, InSome(order, bases)
  PROVE  \E r : Reached(r, ListOfMerge(order), p, Wanted(bases))
<1> DEFINE lists == [k \in DOMAIN order |-> MergeOne(order[k])]
<1>1. PICK n \in Nat : /\ DOMAIN order = 1 .. n /\ \A k \in 1 .. n : order[k] \in bases
                       /\ \A x \in bases : \E k \in 1 .. n : order[k] = x
                       /\ \A j, k \in 1 .. n : j < k => order[j] # order[k]
  BY DEF InSome
<1>2. Len(lists) = n /\ \A k \in 1 .. n : lists[k] = MergeOne(order[k])
  <2>1. lists = [k \in 1 .. n |-> lists[k]] /\ \A k \in 1 .. n : lists[k] = MergeOne(order[k])
    BY <1>1
  <2> HIDE DEF lists
  <2> QED BY <2>1, LenIs
<1>3. CASE n = 0
  <2>1. ListOfMerge(order) = lists /\ lists = <<>>
    <3>1. lists = <<>>
      BY <1>1, <1>3
    <3>2. ListOfMerge(order) = FlattenSeq(lists)
      BY DEF ListOfMerge
    <3> HIDE DEF lists
    <3> QED BY <1>2, <1>3, <3>1, <3>2 DEF FlattenSeq
  <2>2. bases = {} /\ Wanted(bases) = {}
    BY <1>1, <1>3 DEF Wanted
  <2>3. AddedTo(p, p, {})
    <3>1. IsPast(p)
      BY DEF MergeReady, Now
    <3>2. \A i : AllBut(p[i], p[i])
      BY AllButSelf
    <3> QED BY <3>1, <3>2 DEF AddedTo
  <2>4. Runs(lists, 0, Stage(p), Stage(p), p)
    BY RunsNone
  <2>5. IsList(<<>>) /\ Len(<<>>) = 0
    BY DEF IsList
  <2> HIDE DEF lists
  <2> QED BY <2>1, <2>2, <2>3, <2>4, <2>5 DEF Reached
<1>4. CASE n # 0
  <2> DEFINE f == Flat(lists)
             S == {j \in Nat : j + 1 <= n => \E r : Reached(r, f[j + 1], p, Upto(order, j + 1))}
  <2>1. /\ FlattenSeq(lists) = f[n] /\ f[1] = lists[1] /\ \A k \in 2 .. n : f[k] = f[k - 1] \o lists[k]
    <3> HIDE DEF lists
    <3> QED BY <1>2, <1>4, FlattenIs
  <2> HIDE DEF f, lists
  <2>2. 0 \in S
    <3>1. 1 \in 1 .. n /\ 0 + 1 = 1
      BY <1>4
    <3>2. f[1] = MergeOne(order[1]) /\ order[1] \in bases
      BY <1>1, <1>2, <2>1, <3>1
    <3>3. Upto(order, 1) = Parts(order[1])
      BY DEF Upto
    <3>4. \E r : Reached(r, f[1], p, Upto(order, 1))
      BY <3>2, <3>3, MergeOneFirst
    <3> QED BY <3>1, <3>4
  <2>3. ASSUME NEW j \in Nat, j \in S PROVE j + 1 \in S
    <3> SUFFICES ASSUME (j + 1) + 1 <= n  PROVE \E r : Reached(r, f[(j + 1) + 1], p, Upto(order, (j + 1) + 1))
      OBVIOUS
    <3> DEFINE k == j + 1
               B == Upto(order, k)
               o == order[k + 1]
    <3>1. k \in 1 .. n /\ k + 1 <= n /\ k + 1 \in 2 .. n /\ k + 1 \in 1 .. n /\ (k + 1) - 1 = k
      OBVIOUS
    <3>2. PICK q : Reached(q, f[k], p, B)
      BY <2>3, <3>1
    <3>3. f[k + 1] = f[k] \o MergeOne(o)
      BY <1>2, <2>1, <3>1
    <3> HIDE DEF S, k
    <3>4. Upto(order, k + 1) = B \cup Parts(o) /\ B \subseteq Wanted(bases) /\ Parts(o) \cap B = {}
      <4>1. InOrder(order, n, bases)
      BY <1>1 DEF InOrder
    <4>2. NextUpto(order, k, bases)
      BY <3>1, <4>1, UptoIs
    <4> QED BY <4>2 DEF NextUpto
    <3>5. o \in bases
      BY <1>1, <3>1
    <3> HIDE DEF B, o
    <3>6. \E r : Reached(r, f[k] \o MergeOne(o), p, Upto(order, k + 1))
      BY <3>2, <3>4, <3>5, MergeOneMore
    <3> QED BY <3>3, <3>6 DEF k
  <2> HIDE DEF S
  <2>4. n - 1 \in Nat /\ n - 1 \in S /\ (n - 1) + 1 = n
    <3>1. Nat \subseteq S
      BY <2>2, <2>3, SetInduction
    <3> QED BY <1>4, <3>1
  <2>5. \E r : Reached(r, f[n], p, Upto(order, n))
    BY <2>4 DEF S
  <2>6. Upto(order, n) = Wanted(bases)
    BY <1>1 DEF Upto, Wanted
  <2>7. ListOfMerge(order) = f[n]
    BY <2>1 DEF ListOfMerge, lists
  <2> QED BY <2>5, <2>6, <2>7
<1> QED BY <1>3, <1>4

(* A merge leads to the entries with all of them added. *)
LEMMA MergeLeads ==
  ASSUME EntryFields = OtherFields, IsFiniteSet(Ids), NEW p, NEW bases, MergeReady(p, bases), IsFiniteSet(bases),
         NEW list, list = ListOfMerge(SetToSeq(bases))
  PROVE  IsList(list) /\ \E r : AddedTo(r, p, Wanted(bases)) /\ Leads(list, p, r)
<1> DEFINE order == SetToSeq(bases)
<1>1. InSome(order, bases)
  BY SeqOfSet
<1> HIDE DEF order
<1>2. PICK r : Reached(r, ListOfMerge(order), p, Wanted(bases))
  BY <1>1, MergeReaches
<1>3. AddedTo(r, p, Wanted(bases)) /\ IsList(list) /\ Runs(list, Len(list), Stage(p), Stage(p), r)
  BY <1>2 DEF Reached, order
<1>4. Leads(list, p, r)
  BY <1>3, RunsLead DEF IsList
<1> QED BY <1>3, <1>4

-----------------------------------------------------------------------------
(* Entries are edited, one after the other.                                 *)

EditOf(c, p) ==
    /\ c = Edit(c.id, c.old, c.new) /\ c.id \in DOMAIN p
    /\ IsEntry(c.old) /\ Norm(c.old) = p[c.id]
    /\ IsEntry(c.new) /\ DOMAIN c.new = EntryFields /\ c.new.type = c.old.type /\ c.new.base = c.old.base
    /\ c.old.key # c.new.key => KeyFree(Drop(p, {c.id}), c.new)

(* The commands edit other entries each, and to other keys. *)
EditList(list, n, p) ==
    /\ \A k \in 1 .. n : EditOf(list[k], p)
    /\ \A j, k \in 1 .. n : j # k =>
          /\ list[j].id # list[k].id
          /\ list[j].new.key # list[k].new.key \/ list[k].new.key = NoKey

EditedTo(r, p, list, m) ==
    /\ IsPast(r) /\ DOMAIN r = DOMAIN p
    /\ \A k \in 1 .. m : r[list[k].id] = Norm(list[k].new)
    /\ \A i \in DOMAIN p : (\A k \in 1 .. m : list[k].id # i) => r[i] = p[i]

LEMMA EditOneMore ==
  ASSUME NEW p, IsPast(p), NEW list, NEW n \in Nat, EditList(list, n, p), NEW m \in Nat, m < n,
         NEW r, EditedTo(r, p, list, m)
  PROVE  \E r2 : /\ EditedTo(r2, p, list, m + 1)
                 /\ Does(list[m + 1], Stage(r), Stage(r2), Stage(r), Stage(r2))
<1> DEFINE c == list[m + 1]
           id == c.id
           old == c.old
           x == c.new
           r2 == Put(r, id, Norm(x))
<1>1. m + 1 \in 1 .. n /\ \A k \in 1 .. m : k \in 1 .. n /\ k # m + 1
  OBVIOUS
<1>2. EditOf(c, p)
  BY <1>1 DEF EditList
<1>3. \A k \in 1 .. m : list[k].id # id
  BY <1>1 DEF EditList
<1>4. IsPast(r) /\ DOMAIN r = DOMAIN p /\ id \in DOMAIN r /\ r[id] = p[id]
  BY <1>2, <1>3 DEF EditedTo, EditOf
<1>5. /\ c = Edit(id, old, x) /\ IsEntry(old) /\ Norm(old) = r[id] /\ IsEntry(x) /\ DOMAIN x = EntryFields
      /\ x.type = old.type /\ x.base = old.base
  BY <1>2, <1>4 DEF EditOf
<1>6. ASSUME old.key # x.key PROVE KeyFree(Drop(r, {id}), x)
  <2>1. KeyFree(Drop(p, {id}), x)
    BY <1>2, <1>6 DEF EditOf
  <2>2. ASSUME x.key # NoKey, NEW i \in DOMAIN r \ {id} PROVE r[i].key # x.key
    <3>1. CASE \A k \in 1 .. m : list[k].id # i
      <4>1. r[i] = p[i]
        BY <2>2, <3>1 DEF EditedTo
      <4>2. p[i].key # x.key
        BY <1>4, <2>1, <2>2 DEF KeyFree, Drop
      <4> QED BY <4>1, <4>2
    <3>2. CASE \E k \in 1 .. m : list[k].id = i
      <4>1. PICK k \in 1 .. m : list[k].id = i
        BY <3>2
      <4>2. r[i] = Norm(list[k].new)
        BY <4>1 DEF EditedTo
      <4>3. EditOf(list[k], p) /\ list[k].new.key # x.key
        BY <1>1, <2>2 DEF EditList
      <4>4. Norm(list[k].new).key = list[k].new.key
        BY <4>3, NormIs DEF EditOf
      <4> QED BY <4>2, <4>3, <4>4
    <3> QED BY <3>1, <3>2
  <2> QED BY <2>2 DEF KeyFree, Drop
<1> HIDE DEF id, old, x, c
<1>7. IsPast(r2) /\ Does(Edit(id, old, x), Stage(r), Stage(r2), Stage(r), Stage(r2))
  BY <1>4, <1>5, <1>6, EditStep
<1>8. DOMAIN r2 = DOMAIN p /\ r2[id] = Norm(x) /\ \A i \in DOMAIN p : i # id => r2[i] = r[i]
  BY <1>4 DEF Put
<1> HIDE DEF r2
<1>9. ASSUME NEW k \in 1 .. m + 1 PROVE r2[list[k].id] = Norm(list[k].new)
  <2>1. CASE k = m + 1
    BY <1>8, <2>1 DEF id, x, c
  <2>2. CASE k # m + 1
    <3>1. k \in 1 .. m /\ k \in 1 .. n
      BY <2>2
    <3>2. list[k].id # id /\ list[k].id \in DOMAIN p
      BY <1>3, <3>1 DEF EditList, EditOf
    <3> QED BY <1>8, <3>1, <3>2 DEF EditedTo
  <2> QED BY <2>1, <2>2
<1>10. ASSUME NEW i \in DOMAIN p, \A k \in 1 .. m + 1 : list[k].id # i PROVE r2[i] = p[i]
  <2>1. m + 1 \in 1 .. m + 1 /\ \A k \in 1 .. m : k \in 1 .. m + 1
    OBVIOUS
  <2>2. i # id
    BY <1>10, <2>1 DEF id, c
  <2> QED BY <1>8, <1>10, <2>1, <2>2 DEF EditedTo
<1>11. EditedTo(r2, p, list, m + 1)
  BY <1>7, <1>8, <1>9, <1>10 DEF EditedTo
<1> QED BY <1>5, <1>7, <1>11 DEF c

LEMMA EditsLead ==
  ASSUME NEW p, IsPast(p), NEW list, NEW n \in Nat, Len(list) = n, EditList(list, n, p)
  PROVE  \E r : EditedTo(r, p, list, n) /\ Leads(list, p, r)
<1> DEFINE Right(r, m) == EditedTo(r, p, list, m) /\ Runs(list, m, Stage(p), Stage(p), r)
           S == {m \in Nat : m <= n => \E r : Right(r, m)}
<1>1. 0 \in S
  <2>1. Right(p, 0)
    BY RunsNone DEF EditedTo
  <2> HIDE DEF Right
  <2> QED BY <2>1
<1>2. ASSUME NEW m \in Nat, m \in S PROVE m + 1 \in S
  <2> SUFFICES ASSUME m + 1 <= n  PROVE \E r : Right(r, m + 1)
    OBVIOUS
  <2>1. PICK r : Right(r, m)
    BY <1>2
  <2>2. m < n
    OBVIOUS
  <2> HIDE DEF S
  <2>3. PICK r2 : EditedTo(r2, p, list, m + 1) /\ Does(list[m + 1], Stage(r), Stage(r2), Stage(r), Stage(r2))
    BY <2>1, <2>2, EditOneMore
  <2>4. Runs(list, m + 1, Stage(p), Stage(p), r2)
    BY <2>1, <2>3, RunsOn
  <2> QED BY <2>3, <2>4
<1> HIDE DEF S
<1>3. n \in S
  <2>1. Nat \subseteq S
    BY <1>1, <1>2, SetInduction
  <2> QED BY <2>1
<1>4. PICK r : Right(r, n)
  BY <1>3 DEF S
<1>5. Leads(list, p, r)
  BY <1>4, RunsLead
<1> QED BY <1>4, <1>5

-----------------------------------------------------------------------------
(* What a synchronisation makes of the entries it finds.                    *)

(* The entry old with the fields of e. *)
UpdatedAs(x, old, e, fields) ==
    /\ x = [f \in OtherFields |-> x[f]]
    /\ \A f \in {"type", "base", "name", "protected"} : x[f] = old[f]
    /\ \A f \in {"password", "expires", "key"} : x[f] = IF f \in fields THEN e[f] ELSE old[f]
    /\ x.own = IF "pname" \in fields /\ e.pname = NoPolicy /\ policies.default # other.policies.default
               THEN other.policies.default
               ELSE IF "own" \in fields THEN e.own ELSE old.own
    /\ x.pname = IF "pname" \notin fields \/ e.pname = NoPolicy THEN old.pname
                 ELSE IF ~PolicyKnown(e.pname) THEN e.pname
                 ELSE IF policies.named[e.pname] = other.policies.named[e.pname] THEN old.pname
                 ELSE RenamedPolicy[next][e.pname]

LEMMA UpdatedIs ==
  ASSUME EntryFields = OtherFields, NEW p, Now(p), NEW c \in Used, NEW o, NEW fields, fields \subseteq CopiedFields,
         NEW x, x = Updated(c, o, fields)
  PROVE  UpdatedAs(x, Entry(c), EntryOf(other, o), fields)
<1> DEFINE old == Entry(c)
           e == EntryOf(other, o)
           copied == [f \in DOMAIN old |-> IF f \in fields \ {"pname"} THEN e[f] ELSE old[f]]
<1>1. DOMAIN old = OtherFields
  BY EntryIs
<1>2. x = IF "pname" \in fields THEN WithPolicy(copied, e.pname) ELSE copied
  BY DEF Updated
<1> HIDE DEF old, e
<1>3. /\ copied = [f \in OtherFields |-> copied[f]]
      /\ \A f \in {"type", "base", "name", "protected", "pname"} : copied[f] = old[f]
      /\ \A f \in {"password", "expires", "key", "own"} : copied[f] = IF f \in fields THEN e[f] ELSE old[f]
  BY <1>1 DEF OtherFields, CopiedFields
<1> HIDE DEF copied
<1>4. CASE "pname" \notin fields
  <2>1. x = copied
    BY <1>2, <1>4
  <2>2. UpdatedAs(copied, old, e, fields)
    BY <1>3, <1>4 DEF UpdatedAs
  <2> QED BY <2>1, <2>2 DEF old, e
<1>5. CASE "pname" \in fields
  <2>1. PolicyGiven(x, copied, e.pname)
    BY <1>2, <1>3, <1>5, WithPolicyIs
  <2>2. /\ x = [f \in OtherFields |-> x[f]]
        /\ \A f \in {"type", "base", "name", "protected", "password", "expires", "key"} : x[f] = copied[f]
    BY <2>1 DEF PolicyGiven, OtherFields
  <2>3. UpdatedAs(x, old, e, fields)
    <3>1. /\ \A f \in {"type", "base", "name", "protected"} : x[f] = old[f]
          /\ \A f \in {"password", "expires", "key"} : x[f] = IF f \in fields THEN e[f] ELSE old[f]
      BY <1>3, <2>2
    <3> QED BY <1>3, <1>5, <2>1, <2>2, <3>1 DEF UpdatedAs, PolicyGiven
  <2> QED BY <2>3 DEF old, e
<1> QED BY <1>4, <1>5

(* What a synchronisation of names finds. *)
SyncReady(p, names, fields) ==
    /\ Now(p) /\ IsPast(other.entries) /\ fields \subseteq CopiedFields
    /\ \A i, j \in DOMAIN other.entries : i # j => EntryOf(other, i).name # EntryOf(other, j).name
    /\ NamesUnique
    /\ \A pair \in Pairs(names) : SyncIsCareful(pair[2], pair[1], fields)
    /\ Risky \cap {"alias", "keys"} = {}

(* The entry c of the open database is to have the fields of o. *)
Pair(c, o) ==
    /\ c \in Used /\ o \in DOMAIN other.entries /\ ~IsDependent(EntryOf(other, o))
    /\ Entry(c).name = EntryOf(other, o).name

LEMMA PairIs ==
  ASSUME NEW names, NEW pair \in Pairs(names)
  PROVE  pair = <<pair[1], pair[2]>> /\ Pair(pair[1], pair[2])
<1>1. pair = <<pair[1], pair[2]>> /\ pair[1] \in Used /\ pair[2] \in Synced(names) /\ pair[1] \in Matches(pair[2])
  BY DEF Pairs
<1> DEFINE c == pair[1]
           o == pair[2]
<1> HIDE DEF c, o
<1>2. o \in Synced(names) => o \in DOMAIN other.entries /\ ~IsDependent(EntryOf(other, o))
  BY DEF Synced, BasesIn, EntryOf
<1>3. c \in Matches(o) => Entry(c).name = EntryOf(other, o).name
  BY DEF Matches, Named, Current, Entry
<1> QED BY <1>1, <1>2, <1>3 DEF Pair, c, o

(* What becomes of the shortcut key. *)
KeyAs(key, old, e, p) ==
    \/ key = old
    \/ key = e /\ (key = NoKey \/ \A i \in DOMAIN p : p[i].key # key)

LEMMA SyncEdits ==
  ASSUME EntryFields = OtherFields, NEW p, NEW names, NEW fields, SyncReady(p, names, fields), NEW c, NEW o, Pair(c, o),
         SyncIsCareful(o, c, fields), NEW x, x = Updated(c, o, fields)
  PROVE  /\ EditOf(Edit(c, Entry(c), x), p)
         /\ KeyAs(x.key, Entry(c).key, EntryOf(other, o).key, p)
<1> DEFINE old == Entry(c)
           e == EntryOf(other, o)
<1>1. Now(p) /\ IsPast(other.entries) /\ fields \subseteq CopiedFields /\ Risky \cap {"alias", "keys"} = {}
      /\ c \in Used /\ o \in DOMAIN other.entries /\ ~IsDependent(e)
  BY DEF SyncReady, Pair
<1>2. /\ c \in DOMAIN p /\ c \in Ids /\ IsEntry(old) /\ Norm(old) = p[c] /\ DOMAIN old = OtherFields
      /\ old.key = p[c].key
  BY <1>1, EntryIs
<1>3. IsEntry(e)
  BY <1>1, OtherIs
<1>4. UpdatedAs(x, old, e, fields)
  BY <1>1, UpdatedIs
<1>5. /\ {"password", "expires"} \cap fields = {} \/ ~IsDependent(old)
      /\ "key" \notin fields \/ e.key = old.key \/ FreeKey(e.key) = e.key
  BY <1>1 DEF SyncIsCareful
<1>6. e.key \in Keys \cup {NoKey}
  BY <1>3 DEF IsEntry
<1>7. FreeKey(e.key) = e.key => e.key = NoKey \/ \A i \in DOMAIN p : p[i].key # e.key
  <2> HIDE DEF e
  <2> QED BY <1>1, <1>6, FreeKeyIs
<1> HIDE DEF old, e
<1>8. KeyAs(x.key, old.key, e.key, p)
  BY <1>4, <1>5, <1>7 DEF UpdatedAs, KeyAs
<1>9. DOMAIN x = EntryFields /\ x.type = old.type /\ x.base = old.base
  BY <1>4 DEF UpdatedAs
<1>10. IsEntry(x)
  <2>1. x = [f \in DOMAIN x |-> x[f]] /\ {"type", "base", "password", "key", "expires"} \subseteq DOMAIN x
    BY <1>4 DEF UpdatedAs, OtherFields
  <2>2. x.key \in Keys \cup {NoKey}
    BY <1>2, <1>6, <1>8 DEF KeyAs, IsEntry
  <2>3. IsDependent(x) <=> IsDependent(old)
    BY <1>9 DEF IsDependent
  <2>4. CASE IsDependent(old)
    <3>1. x.password = old.password /\ x.expires = old.expires
      BY <1>4, <1>5, <2>4 DEF UpdatedAs
    <3> QED BY <1>2, <1>9, <2>1, <2>2, <2>3, <2>4, <3>1 DEF IsEntry
  <2>5. CASE ~IsDependent(old)
    <3>1. x.password \in {old.password, e.password} /\ x.expires \in {old.expires, e.expires}
      BY <1>4 DEF UpdatedAs
    <3>2. ~IsDependent(e)
      BY <1>1 DEF e
    <3>3. x.password \in Passwords /\ x.expires \in BOOLEAN
      BY <1>2, <1>3, <2>5, <3>1, <3>2 DEF IsEntry
    <3> QED BY <1>2, <1>9, <2>1, <2>2, <2>3, <2>5, <3>3 DEF IsEntry
  <2> QED BY <2>4, <2>5
<1>11. old.key # x.key => KeyFree(Drop(p, {c}), x)
  BY <1>8 DEF KeyAs, KeyFree, Drop
<1> DEFINE d == Edit(c, old, x)
<1>12. d.id = c /\ d.old = old /\ d.new = x
  BY EditIs
<1>13. d = Edit(d.id, d.old, d.new)
  BY <1>12
<1> HIDE DEF d
<1>14. EditOf(d, p)
  BY <1>2, <1>9, <1>10, <1>11, <1>12, <1>13 DEF EditOf
<1> QED BY <1>8, <1>14 DEF d, old, e

Changed(names, fields) == {pair \in Pairs(names) : IsUpdated(pair[1], pair[2], fields)}

(* The list of a synchronisation in this order. *)
ListOfSync(order, fields) ==
    [k \in DOMAIN order |-> EditCommand(order[k][1], Updated(order[k][1], order[k][2], fields))]

(* Two pairs are of other entries, on both sides. *)
LEMMA TwoPairs ==
  ASSUME NEW p, NEW names, NEW fields, SyncReady(p, names, fields),
         NEW a \in Pairs(names), NEW b \in Pairs(names), a # b
  PROVE  a[1] # b[1] /\ a[2] # b[2]
<1> DEFINE c1 == a[1]
           o1 == a[2]
           c2 == b[1]
           o2 == b[2]
<1>1. a = <<c1, o1>> /\ Pair(c1, o1) /\ b = <<c2, o2>> /\ Pair(c2, o2)
  BY PairIs
<1> HIDE DEF c1, c2, o1, o2
<1>2. c1 = c2 <=> o1 = o2
  BY <1>1 DEF Pair, SyncReady, NamesUnique
<1> QED BY <1>1, <1>2 DEF c1, c2, o1, o2

SyncOrder(order, n, names) ==
    /\ n \in Nat /\ DOMAIN order = 1 .. n
    /\ \A k \in 1 .. n : order[k] \in Pairs(names)
    /\ \A j, k \in 1 .. n : j < k => order[j] # order[k]

IsSyncList(list, order, n, fields) ==
    \A k \in 1 .. n : list[k].id = order[k][1] /\ list[k].new = Updated(order[k][1], order[k][2], fields)

LEMMA SyncListEdits ==
  ASSUME EntryFields = OtherFields, NEW p, NEW names, NEW fields, SyncReady(p, names, fields),
         NEW order, NEW n, SyncOrder(order, n, names), NEW list, list = ListOfSync(order, fields)
  PROVE  IsList(list) /\ Len(list) = n /\ EditList(list, n, p) /\ IsSyncList(list, order, n, fields)
<1> USE DEF SyncOrder
<1> DEFINE c(k) == order[k][1]
           o(k) == order[k][2]
           x(k) == Updated(c(k), o(k), fields)
<1>1. IsList(list) /\ Len(list) = n /\ \A k \in 1 .. n : list[k] = EditCommand(c(k), x(k))
  <2>1. list = [k \in 1 .. n |-> list[k]] /\ \A k \in 1 .. n : list[k] = EditCommand(c(k), x(k))
    BY DEF ListOfSync
  <2> QED BY <2>1, ListOf
<1>2. ASSUME NEW k \in 1 .. n
      PROVE  /\ list[k] = Edit(c(k), Entry(c(k)), x(k)) /\ Pair(c(k), o(k)) /\ SyncIsCareful(o(k), c(k), fields)
             /\ order[k] = <<c(k), o(k)>>
  <2>1. order[k] \in Pairs(names)
    OBVIOUS
  <2>2. order[k] = <<order[k][1], order[k][2]>> /\ Pair(order[k][1], order[k][2])
    BY <2>1, PairIs
  <2>3. SyncIsCareful(order[k][2], order[k][1], fields)
    BY <2>1 DEF SyncReady
  <2>4. list[k] = Edit(c(k), Entry(c(k)), x(k))
    BY <1>1, EditCommandIs
  <2> QED BY <2>2, <2>3, <2>4
<1>3. ASSUME NEW k \in 1 .. n
      PROVE  EditOf(list[k], p) /\ KeyAs(x(k).key, Entry(c(k)).key, EntryOf(other, o(k)).key, p)
  <2> DEFINE ck == c(k)
             ok == o(k)
             xk == x(k)
  <2>1. Pair(ck, ok) /\ SyncIsCareful(ok, ck, fields) /\ xk = Updated(ck, ok, fields) /\ list[k] = Edit(ck, Entry(ck), xk)
    BY <1>2
  <2> HIDE DEF ck, ok, xk
  <2>2. EditOf(Edit(ck, Entry(ck), xk), p) /\ KeyAs(xk.key, Entry(ck).key, EntryOf(other, ok).key, p)
    BY <2>1, SyncEdits
  <2> QED BY <2>1, <2>2 DEF ck, ok, xk
<1>4. ASSUME NEW k \in 1 .. n PROVE list[k].id = c(k) /\ list[k].new = x(k)
  BY <1>2, EditIs
<1>5. ASSUME NEW j \in 1 .. n, NEW k \in 1 .. n, j # k
      PROVE  list[j].id # list[k].id /\ (list[j].new.key # list[k].new.key \/ list[k].new.key = NoKey)
  <2>1. order[j] # order[k] /\ order[j] \in Pairs(names) /\ order[k] \in Pairs(names)
    <3>1. j < k \/ k < j
      BY <1>5
    <3> QED BY <3>1
  <2> DEFINE a == order[j]
             b == order[k]
             c1 == a[1]
             o1 == a[2]
             c2 == b[1]
             o2 == b[2]
             k1 == x(j).key
             k2 == x(k).key
  <2>2. c1 # c2 /\ o1 # o2
    <3> HIDE DEF a, b
    <3>1. a # b /\ a \in Pairs(names) /\ b \in Pairs(names)
      BY <2>1 DEF a, b
    <3> QED BY <3>1, TwoPairs
  <2>3. /\ KeyAs(k1, Entry(c1).key, EntryOf(other, o1).key, p) /\ KeyAs(k2, Entry(c2).key, EntryOf(other, o2).key, p)
        /\ Pair(c1, o1) /\ Pair(c2, o2)
    BY <1>2, <1>3
  <2>4. list[j].id = c1 /\ list[k].id = c2 /\ list[j].new.key = k1 /\ list[k].new.key = k2
    BY <1>4
  <2> HIDE DEF a, b, c1, o1, c2, o2, k1, k2
  <2>5. c1 \in Used /\ c2 \in Used /\ o1 \in DOMAIN other.entries /\ o2 \in DOMAIN other.entries
    BY <2>3 DEF Pair
  <2>6. /\ c1 \in DOMAIN p /\ c2 \in DOMAIN p /\ Entry(c1).key = p[c1].key /\ Entry(c2).key = p[c2].key
        /\ p[c1].key # p[c2].key \/ p[c1].key = NoKey
        /\ EntryOf(other, o1).key # EntryOf(other, o2).key \/ EntryOf(other, o1).key = NoKey
    <3>1. Now(p) /\ IsPast(p) /\ IsPast(other.entries)
      BY DEF SyncReady, Now
    <3>2. c1 \in DOMAIN p /\ c2 \in DOMAIN p /\ Entry(c1).key = p[c1].key /\ Entry(c2).key = p[c2].key
      BY <2>5, <3>1, EntryIs
    <3>3. p[c1].key # p[c2].key \/ p[c1].key = NoKey
      BY <2>2, <3>1, <3>2, PastIs
    <3>4. EntryOf(other, o1).key # EntryOf(other, o2).key \/ EntryOf(other, o1).key = NoKey
      BY <2>2, <2>5, <3>1, PastIs DEF EntryOf
    <3> QED BY <3>2, <3>3, <3>4
  <2>7. k1 # k2 \/ k2 = NoKey
    BY <2>3, <2>6 DEF KeyAs
  <2> QED BY <2>2, <2>4, <2>7
<1> HIDE DEF c, x
<1>6. EditList(list, n, p)
  BY <1>3, <1>5 DEF EditList
<1>7. IsSyncList(list, order, n, fields)
  BY <1>4 DEF IsSyncList, c, x
<1> QED BY <1>1, <1>6, <1>7

(* The entries once all pairs are synchronised. *)
SyncedTo(r, p, names, fields) ==
    /\ IsPast(r) /\ DOMAIN r = DOMAIN p
    /\ \A pair \in Pairs(names) : r[pair[1]] = Norm(Updated(pair[1], pair[2], fields))
    /\ \A i \in DOMAIN p : (\A pair \in Pairs(names) : pair[1] # i) => r[i] = p[i]

LEMMA SyncLeads ==
  ASSUME EntryFields = OtherFields, IsFiniteSet(Ids), NEW p, NEW names, NEW fields, SyncReady(p, names, fields),
         NEW list, list = ListOfSync(SetToSeq(Changed(names, fields)), fields)
  PROVE  IsList(list) /\ \E r : SyncedTo(r, p, names, fields) /\ Leads(list, p, r)
<1> DEFINE C == Changed(names, fields)
           order == SetToSeq(C)
<1>1. Now(p) /\ IsPast(other.entries) /\ IsPast(p)
  BY DEF SyncReady, Now
<1>2. IsFiniteSet(C)
  <2>1. Used \subseteq Ids
    BY <1>1, EntryIs
  <2>2. IsFiniteSet(Ids \X Ids)
    BY FS_Product
  <2>3. C \subseteq Ids \X Ids
    <3> SUFFICES ASSUME NEW pair \in C  PROVE pair \in Ids \X Ids
      OBVIOUS
    <3>1. pair \in Pairs(names)
      BY DEF Changed
    <3>2. pair = <<pair[1], pair[2]>> /\ Pair(pair[1], pair[2])
      BY <3>1, PairIs
    <3>3. pair[1] \in Ids /\ pair[2] \in Ids
      BY <1>1, <2>1, <3>2, PastIs DEF Pair
    <3> QED BY <3>2, <3>3
  <2> HIDE DEF C
  <2> QED BY <2>2, <2>3, FS_Subset
<1>3. InSome(order, C)
  <2> HIDE DEF C
  <2> QED BY <1>2, SeqOfSet
<1>4. C \subseteq Pairs(names)
  BY DEF Changed
<1>5. list = ListOfSync(order, fields)
  OBVIOUS
<1> HIDE DEF order, C
<1>6. PICK n \in Nat : /\ DOMAIN order = 1 .. n /\ \A k \in 1 .. n : order[k] \in C
                       /\ \A x \in C : \E k \in 1 .. n : order[k] = x
                       /\ \A j, k \in 1 .. n : j < k => order[j] # order[k]
  BY <1>3 DEF InSome
<1>7. \A k \in 1 .. n : order[k] \in Pairs(names)
  BY <1>4, <1>6
<1>8. /\ IsList(list) /\ Len(list) = n /\ EditList(list, n, p)
      /\ \A k \in 1 .. n : list[k].id = order[k][1] /\ list[k].new = Updated(order[k][1], order[k][2], fields)
  <2>1. SyncOrder(order, n, names)
    BY <1>6, <1>7 DEF SyncOrder
  <2>2. IsList(list) /\ Len(list) = n /\ EditList(list, n, p) /\ IsSyncList(list, order, n, fields)
    BY <1>5, <2>1, SyncListEdits
  <2> QED BY <2>2 DEF IsSyncList
<1>9. PICK r : EditedTo(r, p, list, n) /\ Leads(list, p, r)
  BY <1>1, <1>8, EditsLead
<1>10. ASSUME NEW pair \in Pairs(names) PROVE r[pair[1]] = Norm(Updated(pair[1], pair[2], fields))
  <2>1. CASE pair \in C
    <3>1. PICK k \in 1 .. n : order[k] = pair
      BY <1>6, <2>1
    <3> QED BY <1>8, <1>9, <3>1 DEF EditedTo
  <2>2. CASE pair \notin C
    <3>1. Updated(pair[1], pair[2], fields) = Entry(pair[1])
      BY <2>2 DEF C, Changed, IsUpdated
    <3>2. ASSUME NEW k \in 1 .. n PROVE list[k].id # pair[1]
      <4> DEFINE b == order[k]
      <4>1. b \in Pairs(names) /\ b # pair
        BY <1>6, <1>7, <2>2
      <4> HIDE DEF b
      <4>2. b[1] # pair[1]
        BY <4>1, TwoPairs
      <4> QED BY <1>8, <4>2 DEF b
    <3>3. Pair(pair[1], pair[2])
      BY PairIs
    <3>4. pair[1] \in DOMAIN p /\ Norm(Entry(pair[1])) = p[pair[1]]
      BY <1>1, <3>3, EntryIs DEF Pair
    <3>5. r[pair[1]] = p[pair[1]]
      BY <1>9, <3>2, <3>4 DEF EditedTo
    <3> QED BY <3>1, <3>4, <3>5
  <2> QED BY <2>1, <2>2
<1>11. ASSUME NEW i \in DOMAIN p, \A pair \in Pairs(names) : pair[1] # i PROVE r[i] = p[i]
  <2>1. \A k \in 1 .. n : list[k].id # i
    BY <1>7, <1>8, <1>11
  <2> QED BY <1>9, <2>1 DEF EditedTo
<1>12. SyncedTo(r, p, names, fields)
  BY <1>9, <1>10, <1>11 DEF EditedTo, SyncedTo
<1> QED BY <1>8, <1>9, <1>12
-----------------------------------------------------------------------------
(* The inductive invariant: beside that of EntryStore, what the entries and *)
(* the policies are at each position of the history.                        *)

(* A name whose merges were at the positions up to k, or before the session. *)
IsName(x, k) ==
    /\ x = [title |-> x.title, merged |-> x.merged]
    /\ x.merged \in Seq(0 .. k)

NamedFits(named, k) ==
    /\ NoPolicy \notin DOMAIN named
    /\ \A n \in DOMAIN named :
          n \in FilePolicies \/ \E j \in 1 .. k - 1, x \in FilePolicies : n = RenamedPolicy[j][x]

PositionFits(e, k, named) ==
    /\ NamedFits(named, k)
    /\ \A i \in DOMAIN e :
          /\ i \in FileIds \/ \E j \in 1 .. k - 1, x \in FileIds : i = Renewed[j][x]
          /\ IsName(e[i].name, k - 1)
          /\ e[i].pname \in DOMAIN named \cup {NoPolicy}
          /\ \A j \in DOMAIN e : i # j => e[i].name # e[j].name

CaseFits ==
    /\ \E case \in Cases : other = case[2] /\ policies.default = case[1].policies.default
    /\ policies = [default |-> policies.default, named |-> policies.named]

(* N has the named policies at each position. *)
PoliciesFit(N, add, pasts, pos, named) ==
    /\ IsList(add) /\ Len(pasts) = Len(add) + 1 /\ N[pos] = named
    /\ \A k \in 1 .. Len(add) : add[k].old = N[k] /\ N[k + 1] = Extended(add[k].old, add[k].new)
    /\ \A k \in 1 .. Len(pasts) : PositionFits(pasts[k].entries, k, N[k])

OtherInv ==
    /\ StoreInv /\ CaseFits
    /\ \E N : PoliciesFit(N, added, history, next, policies.named)

LEMMA NameGrows ==
  ASSUME NEW x, NEW k \in Nat, NEW j \in Nat, j <= k, IsName(x, j)
  PROVE  IsName(x, k)
<1>1. 0 .. j \subseteq 0 .. k
  OBVIOUS
<1>2. x.merged \in Seq(0 .. k)
  BY <1>1 DEF IsName
<1> QED BY <1>2 DEF IsName

(* What is known of the other database and of the policies. *)
OtherKnown ==
    /\ IsFile(other) /\ IsPast(other.entries) /\ DOMAIN other.entries \subseteq FileIds
    /\ DOMAIN other.policies.named \subseteq FilePolicies
    /\ other.policies.default # NoOwn /\ policies.default # NoOwn
    /\ policies = [default |-> policies.default, named |-> policies.named]

LEMMA OtherKnows ==
  ASSUME EntryFields = OtherFields, CaseFits
  PROVE  OtherKnown
<1>1. PICK case \in Cases : other = case[2] /\ policies.default = case[1].policies.default
  BY DEF CaseFits
<1>2. IsFile(case[1]) /\ IsFile(case[2])
  BY OtherAssumption
<1>3. DOMAIN other.entries \subseteq FileIds
  BY <1>1 DEF FileIds
<1>4. DOMAIN other.policies.named \subseteq FilePolicies
  BY <1>1 DEF FilePolicies
<1>5. IsPast(other.entries)
  BY <1>1, <1>2, FileFits
<1>6. other.policies.default # NoOwn /\ policies.default # NoOwn
  BY <1>1, <1>2 DEF IsFile
<1> QED BY <1>1, <1>2, <1>3, <1>4, <1>5, <1>6 DEF OtherKnown, CaseFits

(* What an entry of the other database is. *)
OtherEntry(e) ==
    /\ e.name = [title |-> e.name.title, merged |-> e.name.merged] /\ e.name.merged \in Seq({0})
    /\ e.pname \in DOMAIN other.policies.named \cup {NoPolicy} /\ NoPolicy \notin DOMAIN other.policies.named

LEMMA OtherEntryIs ==
  ASSUME OtherKnown
  PROVE  /\ \A i \in DOMAIN other.entries : OtherEntry(EntryOf(other, i))
         /\ \A i, j \in DOMAIN other.entries : i # j => EntryOf(other, i).name # EntryOf(other, j).name
<1> QED BY DEF OtherKnown, IsFile, IsFileEntry, OtherEntry, EntryOf

(* What is so of a file at the first position. *)
LEMMA FilePosition ==
  ASSUME NEW case \in Cases, NEW d, d = case[1]
  PROVE  PositionFits(d.entries, 1, d.policies.named)
<1>1. IsFile(d)
  BY OtherAssumption
<1>2. DOMAIN d.entries \subseteq FileIds
  BY DEF FileIds
<1>3. DOMAIN d.policies.named \subseteq FilePolicies
  BY DEF FilePolicies
<1>4. ASSUME NEW i \in DOMAIN d.entries
      PROVE  /\ IsName(d.entries[i].name, 0)
             /\ d.entries[i].pname \in DOMAIN d.policies.named \cup {NoPolicy}
             /\ \A j \in DOMAIN d.entries : i # j => d.entries[i].name # d.entries[j].name
  <2>1. IsFileEntry(d.entries[i])
    BY <1>1 DEF IsFile
  <2>2. 0 .. 0 = {0}
    OBVIOUS
  <2>3. IsName(d.entries[i].name, 0)
    BY <2>1, <2>2 DEF IsFileEntry, IsName
  <2> QED BY <1>1, <2>3 DEF IsFile
<1>5. NamedFits(d.policies.named, 1)
  BY <1>1, <1>3 DEF NamedFits, IsFile
<1> QED BY <1>2, <1>4, <1>5 DEF PositionFits
LEMMA InitOtherFits ==
  ASSUME EntryFields = OtherFields, InitOther
  PROVE  OtherInv
<1>1. PICK case \in Cases :
         /\ db = DatabaseOf(case[1].entries) /\ policies = case[1].policies /\ other = case[2]
         /\ commands = <<>> /\ next = 1 /\ history = <<View(db)>> /\ added = <<>>
  BY DEF InitOther
<1> DEFINE e == case[1].entries
           named == policies.named
<1>2. IsFile(case[1])
  BY OtherAssumption
<1>3. IsPast(e)
  BY <1>2, FileFits
<1>4. At(db, e)
  BY <1>1, <1>3, ReadArrives
<1>5. View(db) = FullView(e)
  BY <1>3, <1>4, AtView
<1>6. IsList(history) /\ Len(history) = 1 /\ history[1] = FullView(e)
  BY <1>1, <1>5, ShortLists
<1>7. IsList(commands) /\ Len(commands) = 0 /\ IsList(added) /\ Len(added) = 0
  BY <1>1 DEF IsList
<1>8. history[1].entries = e
  BY <1>6 DEF FullView
<1>9. PositionFits(e, 1, named)
  BY <1>1, FilePosition
<1> HIDE DEF e
<1>10. StoreInv
  <2>1. ChainFits
    BY <1>1, <1>6, <1>7, StoreAssumption DEF ChainFits
  <2>2. PastsFit
    BY <1>3, <1>6, <1>8 DEF PastsFit
  <2>3. ListsLead /\ ListsReturn
    BY <1>1, <1>7 DEF ListsLead, ListsReturn
  <2>4. Present
    BY <1>1, <1>4, <1>8 DEF Present
  <2> QED BY <2>1, <2>2, <2>3, <2>4 DEF StoreInv
<1>11. CaseFits
  BY <1>1, <1>2 DEF CaseFits, IsFile
<1>12. PoliciesFit([k \in 1 .. 1 |-> named], added, history, next, named)
  <2> HIDE DEF named
  <2> DEFINE N == [k \in 1 .. 1 |-> named]
  <2>1. N[1] = named
    OBVIOUS
  <2> HIDE DEF N
  <2>2. PoliciesFit(N, added, history, next, named)
    BY <1>1, <1>6, <1>7, <1>8, <1>9, <2>1 DEF PoliciesFit
  <2> QED BY <2>2 DEF N
<1> QED BY <1>10, <1>11, <1>12 DEF OtherInv

(* A list of commands that leads to entries that fit is executed.           *)
LEMMA OtherKept ==
  ASSUME OtherInv, NEW p, Now(p), NEW list, IsList(list), NEW q, IsPast(q), Leads(list, p, q),
         NEW pnames, NEW operation, ExecuteWith(list, pnames, operation), NEW A, A = PoliciesAdded(pnames),
         PositionFits(q, next + 1, Extended(policies.named, A))
  PROVE  OtherInv'
<1> DEFINE result == ExecuteAll(list, db)
           named == policies.named
           x == [new |-> A, old |-> named]
<1>1. /\ Execute(list) /\ next <= MaxCommands /\ db' = result.db /\ next' = next + 1
      /\ history' = Append(SubSeq(history, 1, next), View(result.db))
      /\ commands' = Append(SubSeq(commands, 1, next - 1), result.did)
      /\ added' = Append(SubSeq(added, 1, next - 1), x)
      /\ policies' = [policies EXCEPT !.named = Extended(@, A)] /\ other' = other
  BY DEF Execute, ExecuteWith
<1>2. StoreInv'
  BY <1>1, Kept DEF OtherInv
<1>3. PICK N : PoliciesFit(N, added, history, next, named)
  BY DEF OtherInv
<1>4. /\ IsList(history) /\ Len(history) = Len(commands) + 1 /\ next \in 1 .. Len(commands) + 1
      /\ IsList(added) /\ Len(added) = Len(commands) /\ Len(commands) \in Nat
  <2>1. IsList(commands) /\ IsList(history) /\ Len(history) = Len(commands) + 1 /\ next \in 1 .. Len(commands) + 1
    BY DEF OtherInv, StoreInv, ChainFits
  <2>2. IsList(added) /\ Len(history) = Len(added) + 1
    BY <1>3 DEF PoliciesFit
  <2>3. Len(commands) \in Nat /\ Len(added) \in Nat
    BY <2>1, <2>2 DEF IsList
  <2> QED BY <2>1, <2>2, <2>3
<1>5. At(result.db, q)
  BY LeadsAgain DEF IsList, Now
<1>6. View(result.db) = FullView(q) /\ FullView(q).entries = q
  BY <1>5, AtView DEF FullView
<1>7. CaseFits'
  BY <1>1 DEF OtherInv, CaseFits
<1>8. policies'.named = Extended(named, A)
  BY <1>1 DEF OtherInv, CaseFits
<1> HIDE DEF result
<1>9. /\ Len(history') = next + 1 /\ history'[next + 1] = FullView(q)
      /\ \A k \in 1 .. next : history'[k] = history[k]
  <2> DEFINE t == history'
             y == View(result.db)
  <2>1. next \in 0 .. Len(history) /\ t = Append(SubSeq(history, 1, next), y)
    BY <1>1, <1>4
  <2> HIDE DEF t, y
  <2>2. Prolonged(t, history, next, y)
    BY <1>4, <2>1, ListExtended
  <2> QED BY <1>6, <2>2 DEF t, y, Prolonged
<1>10. /\ IsList(added') /\ Len(added') = next /\ added'[next].old = named /\ added'[next].new = A
       /\ \A k \in 1 .. next - 1 : added'[k] = added[k]
  <2> DEFINE n == next - 1
             t == added'
  <2>1. n \in 0 .. Len(added) /\ t = Append(SubSeq(added, 1, n), x) /\ n + 1 = next
    BY <1>1, <1>4
  <2>2. x.old = named /\ x.new = A
    OBVIOUS
  <2> HIDE DEF n, t, x
  <2>3. Prolonged(t, added, n, x)
    BY <1>4, <2>1, ListExtended
  <2> QED BY <2>1, <2>2, <2>3 DEF t, n, Prolonged
<1> DEFINE ext == Extended(named, A)
           M == [k \in 1 .. next + 1 |-> IF k <= next THEN N[k] ELSE ext]
<1>11. M[next + 1] = ext /\ \A k \in 1 .. next : M[k] = N[k]
  <2> HIDE DEF ext
  <2> QED BY <1>4
<1>12. PositionFits(q, next + 1, ext)
  OBVIOUS
<1>13. ext = Extended(named, A) /\ policies'.named = ext
  BY <1>8
<1> HIDE DEF M, ext, x
<1>14. /\ N[next] = named
       /\ \A k \in 1 .. Len(added) : added[k].old = N[k] /\ N[k + 1] = Extended(added[k].old, added[k].new)
       /\ \A k \in 1 .. Len(history) : PositionFits(history[k].entries, k, N[k])
  BY <1>3 DEF PoliciesFit
<1> HIDE DEF named
<1>15. ASSUME NEW k \in 1 .. next
       PROVE  added'[k].old = M[k] /\ M[k + 1] = Extended(added'[k].old, added'[k].new)
  <2>1. CASE k = next
    BY <1>10, <1>11, <1>13, <1>14, <2>1
  <2>2. CASE k # next
    <3>1. k \in 1 .. next - 1 /\ k \in 1 .. Len(added) /\ k + 1 \in 1 .. next
      BY <1>4, <2>2
    <3> QED BY <1>10, <1>11, <1>14, <3>1
  <2> QED BY <2>1, <2>2
<1>16. ASSUME NEW k \in 1 .. next + 1
       PROVE  PositionFits(history'[k].entries, k, M[k])
  <2>1. CASE k = next + 1
    BY <1>6, <1>9, <1>11, <1>12, <2>1
  <2>2. CASE k # next + 1
    <3>1. k \in 1 .. next /\ k \in 1 .. Len(history)
      BY <1>4, <2>2
    <3> QED BY <1>9, <1>11, <1>14, <3>1
  <2> QED BY <2>1, <2>2
<1>17. PoliciesFit(M, added', history', next', policies'.named)
  BY <1>1, <1>4, <1>9, <1>10, <1>11, <1>13, <1>15, <1>16 DEF PoliciesFit
<1> QED BY <1>2, <1>7, <1>17 DEF OtherInv

LEMMA UndoOtherKeeps ==
  ASSUME OtherInv, UndoOther
  PROVE  OtherInv'
<1>1. /\ Undo /\ next > 1 /\ next' = next - 1 /\ history' = history /\ added' = added /\ other' = other
      /\ policies' = [policies EXCEPT !.named = added[next - 1].old]
  BY DEF UndoOther, Undo
<1>2. StoreInv'
  BY <1>1, UndoKeeps DEF OtherInv
<1>3. CaseFits'
  BY <1>1 DEF OtherInv, CaseFits
<1>4. policies'.named = added[next - 1].old
  BY <1>1 DEF OtherInv, CaseFits
<1>5. PICK N : PoliciesFit(N, added, history, next, policies.named)
  BY DEF OtherInv
<1>6. next - 1 \in 1 .. Len(added)
  <2>1. next \in 1 .. Len(commands) + 1 /\ Len(history) = Len(commands) + 1 /\ Len(commands) \in Nat
    BY DEF OtherInv, StoreInv, ChainFits, IsList
  <2> QED BY <1>1, <1>5, <2>1 DEF PoliciesFit, IsList
<1>7. PoliciesFit(N, added', history', next', policies'.named)
  BY <1>1, <1>4, <1>5, <1>6 DEF PoliciesFit
<1> QED BY <1>2, <1>3, <1>7 DEF OtherInv

LEMMA RedoOtherKeeps ==
  ASSUME OtherInv, RedoOther
  PROVE  OtherInv'
<1>1. /\ Redo /\ next <= Len(commands) /\ next' = next + 1 /\ history' = history /\ added' = added /\ other' = other
      /\ policies' = [policies EXCEPT !.named = Extended(@, added[next].new)]
  BY DEF RedoOther, Redo
<1>2. StoreInv'
  BY <1>1, RedoKeeps DEF OtherInv
<1>3. CaseFits'
  BY <1>1 DEF OtherInv, CaseFits
<1>4. policies'.named = Extended(policies.named, added[next].new)
  BY <1>1 DEF OtherInv, CaseFits
<1>5. PICK N : PoliciesFit(N, added, history, next, policies.named)
  BY DEF OtherInv
<1>6. next \in 1 .. Len(added)
  <2>1. next \in 1 .. Len(commands) + 1 /\ Len(history) = Len(commands) + 1 /\ Len(commands) \in Nat
    BY DEF OtherInv, StoreInv, ChainFits, IsList
  <2> QED BY <1>1, <1>5, <2>1 DEF PoliciesFit, IsList
<1>7. N[next + 1] = policies'.named
  BY <1>4, <1>5, <1>6 DEF PoliciesFit
<1>8. PoliciesFit(N, added', history', next', policies'.named)
  BY <1>1, <1>5, <1>7 DEF PoliciesFit
<1> QED BY <1>2, <1>3, <1>8 DEF OtherInv
(* The entries there are and the policies, before a merge or a              *)
(* synchronisation.                                                         *)
Before(p) == /\ Now(p) /\ PositionFits(p, next, policies.named)
             /\ OtherKnown /\ next \in 1 .. MaxCommands

LEMMA HereIs ==
  ASSUME OtherInv
  PROVE  \E p : Now(p) /\ PositionFits(p, next, policies.named)
<1>1. PICK p : Now(p)
  BY NowIs DEF OtherInv
<1>2. p = history[next].entries
  BY <1>1 DEF Now
<1>3. next \in 1 .. Len(history)
  BY DEF OtherInv, StoreInv, ChainFits
<1>4. PICK N : PoliciesFit(N, added, history, next, policies.named)
  BY DEF OtherInv
<1>5. PositionFits(p, next, policies.named)
  BY <1>2, <1>3, <1>4 DEF PoliciesFit
<1> QED BY <1>1, <1>5

LEMMA BeforeIs ==
  ASSUME EntryFields = OtherFields, OtherInv, next <= MaxCommands
  PROVE  \E p : Before(p)
<1>1. PICK p : Now(p) /\ PositionFits(p, next, policies.named)
  BY HereIs
<1>2. IsList(commands) /\ next \in 1 .. Len(commands) + 1
  BY DEF OtherInv, StoreInv, ChainFits
<1>3. next \in 1 .. MaxCommands
  BY <1>2, StoreAssumption DEF IsList
<1>4. OtherKnown
  BY OtherKnows DEF OtherInv
<1> QED BY <1>1, <1>3, <1>4 DEF Before

(* A uuid that is in use gets one that is not. *)
LEMMA NewIdIs ==
  ASSUME NEW p, Before(p)
  PROVE  /\ \A i \in DOMAIN other.entries : /\ NewId(i) \in Ids \ DOMAIN p
                                            /\ NewId(i) = i \/ NewId(i) = Renewed[next][i]
         /\ \A i, j \in DOMAIN other.entries : NewId(i) = NewId(j) \/ NewId(i) = j => i = j
<1>1. Used = DOMAIN p /\ next \in 1 .. MaxCommands /\ DOMAIN other.entries \subseteq FileIds
  BY DEF Before, Now, Agrees, Used, OtherKnown
<1>2. DOMAIN other.entries \subseteq Ids
  BY DEF Before, OtherKnown, IsPast
<1>3. AreNew(Renewed, FileIds, FileIds) /\ \A k \in 1 .. MaxCommands, i \in FileIds : Renewed[k][i] \in Ids
  BY OtherAssumption
<1>4. \A i \in FileIds : Renewed[next][i] \notin FileIds
  BY <1>1, <1>3 DEF AreNew
<1>5. \A i, j \in FileIds : Renewed[next][i] = Renewed[next][j] => i = j
  BY <1>1, <1>3 DEF AreNew
<1>6. ASSUME NEW i \in FileIds, Renewed[next][i] \in DOMAIN p
      PROVE  FALSE
  <2>1. PICK j \in 1 .. next - 1, x \in FileIds : Renewed[next][i] = Renewed[j][x]
    BY <1>4, <1>6 DEF Before, PositionFits
  <2>2. j \in 1 .. MaxCommands /\ j # next
    BY <1>1, <2>1, StoreAssumption
  <2> QED BY <1>1, <1>3, <2>1, <2>2 DEF AreNew
<1>7. ASSUME NEW i \in DOMAIN other.entries
      PROVE  NewId(i) \in Ids \ DOMAIN p /\ (NewId(i) = i \/ NewId(i) = Renewed[next][i])
  BY <1>1, <1>2, <1>3, <1>6 DEF NewId
<1>8. ASSUME NEW i \in DOMAIN other.entries, NEW j \in DOMAIN other.entries, NewId(i) = NewId(j) \/ NewId(i) = j
      PROVE  i = j
  <2>1. i \in FileIds /\ j \in FileIds
    BY <1>1
  <2> QED BY <1>4, <1>5, <1>7, <1>8, <2>1
<1> QED BY <1>7, <1>8

(* What PoliciesAdded brings for the policy n.                              *)
PolicyAdded(A, n) ==
    /\ n # NoPolicy /\ ~PolicyKnown(n) => n \in DOMAIN A /\ A[n] = other.policies.named[n]
    /\ n # NoPolicy /\ PolicyKnown(n) /\ policies.named[n] # other.policies.named[n] =>
          /\ RenamedPolicy[next][n] \in DOMAIN A /\ A[RenamedPolicy[next][n]] = other.policies.named[n]
          /\ RenamedPolicy[next][n] \notin DOMAIN policies.named
          /\ RenamedPolicy[next][n] # NoPolicy

LEMMA RenamedIsNew ==
  ASSUME NEW p, Before(p), NEW n \in FilePolicies
  PROVE  /\ RenamedPolicy[next][n] \notin FilePolicies \cup {NoPolicy}
         /\ \A m \in FilePolicies : RenamedPolicy[next][m] = RenamedPolicy[next][n] => m = n
         /\ RenamedPolicy[next][n] \notin DOMAIN policies.named
<1>1. next \in 1 .. MaxCommands
  BY DEF Before
<1>2. AreNew(RenamedPolicy, FilePolicies, FilePolicies \cup {NoPolicy})
  BY OtherAssumption
<1>3. /\ RenamedPolicy[next][n] \notin FilePolicies \cup {NoPolicy}
      /\ \A m \in FilePolicies : RenamedPolicy[next][m] = RenamedPolicy[next][n] => m = n
  BY <1>1, <1>2 DEF AreNew
<1>4. ASSUME RenamedPolicy[next][n] \in DOMAIN policies.named
      PROVE  FALSE
  <2>1. PICK j \in 1 .. next - 1, x \in FilePolicies : RenamedPolicy[next][n] = RenamedPolicy[j][x]
    BY <1>3, <1>4 DEF Before, PositionFits, NamedFits
  <2>2. j \in 1 .. MaxCommands /\ j # next
    BY <1>1, <2>1, StoreAssumption
  <2> QED BY <1>1, <1>2, <2>1, <2>2 DEF AreNew
<1> QED BY <1>3, <1>4

LEMMA PoliciesAddedIs ==
  ASSUME NEW p, Before(p), NEW pnames, pnames \subseteq DOMAIN other.policies.named \cup {NoPolicy},
         NEW A, A = PoliciesAdded(pnames)
  PROVE  /\ \A n \in pnames : PolicyAdded(A, n)
         /\ NamedFits(Extended(policies.named, A), next + 1)
<1> DEFINE new == {n \in pnames : n # NoPolicy /\ ~PolicyKnown(n)}
           renamed == {n \in pnames : n # NoPolicy /\ PolicyKnown(n) /\ policies.named[n] # other.policies.named[n]}
           R == {RenamedPolicy[next][k] : k \in renamed}
           a == [n \in new |-> other.policies.named[n]]
           b == [n \in R |-> other.policies.named[CHOOSE k \in renamed : RenamedPolicy[next][k] = n]]
<1>1. A = Extended(a, b)
  BY DEF PoliciesAdded
<1>2. DOMAIN a = new /\ DOMAIN b = R
  OBVIOUS
<1>3. \A n \in pnames : n # NoPolicy => n \in FilePolicies
  BY DEF Before, OtherKnown
<1>4. new \subseteq FilePolicies /\ renamed \subseteq FilePolicies
  BY <1>3
<1>5. ASSUME NEW n \in renamed
      PROVE  /\ RenamedPolicy[next][n] \in R \ new /\ b[RenamedPolicy[next][n]] = other.policies.named[n]
             /\ RenamedPolicy[next][n] \notin DOMAIN policies.named
             /\ RenamedPolicy[next][n] # NoPolicy
  <2>1. /\ n \in FilePolicies /\ RenamedPolicy[next][n] \notin FilePolicies \cup {NoPolicy}
        /\ \A m \in FilePolicies : RenamedPolicy[next][m] = RenamedPolicy[next][n] => m = n
        /\ RenamedPolicy[next][n] \notin DOMAIN policies.named
    BY <1>4, RenamedIsNew
  <2>2. (CHOOSE k \in renamed : RenamedPolicy[next][k] = RenamedPolicy[next][n]) = n
    <3> HIDE DEF renamed
    <3> QED BY <1>4, <2>1
  <2>3. RenamedPolicy[next][n] \in R
    OBVIOUS
  <2>4. b[RenamedPolicy[next][n]] = other.policies.named[CHOOSE k \in renamed : RenamedPolicy[next][k] = RenamedPolicy[next][n]]
    <3> HIDE DEF renamed, R
    <3> QED BY <2>3
  <2> QED BY <1>4, <2>1, <2>2, <2>3, <2>4
<1>6. \A n \in new : a[n] = other.policies.named[n]
  OBVIOUS
<1> HIDE DEF a, b
<1>7. ASSUME NEW n \in pnames
      PROVE  PolicyAdded(A, n)
  <2>1. n # NoPolicy /\ ~PolicyKnown(n) => n \in DOMAIN A /\ A[n] = other.policies.named[n]
    <3>1. n # NoPolicy /\ ~PolicyKnown(n) => n \in new
      OBVIOUS
    <3> HIDE DEF new, R, renamed
    <3> QED BY <1>1, <1>2, <1>6, <3>1 DEF Extended
  <2>2. n # NoPolicy /\ PolicyKnown(n) /\ policies.named[n] # other.policies.named[n] => n \in renamed
    OBVIOUS
  <2>3. n \in renamed =>
          /\ RenamedPolicy[next][n] \in DOMAIN A /\ A[RenamedPolicy[next][n]] = other.policies.named[n]
          /\ RenamedPolicy[next][n] \notin DOMAIN policies.named
          /\ RenamedPolicy[next][n] # NoPolicy
    <3> HIDE DEF new, R, renamed
    <3> QED BY <1>1, <1>2, <1>5 DEF Extended
  <2> HIDE DEF renamed
  <2> QED BY <2>1, <2>2, <2>3 DEF PolicyAdded
<1>8. \A x \in new : x # NoPolicy
  OBVIOUS
<1>9. \A x \in R : \E n \in renamed : x = RenamedPolicy[next][n]
  OBVIOUS
<1> HIDE DEF new, R, renamed
<1>10. DOMAIN Extended(policies.named, A) = DOMAIN policies.named \cup new \cup R
  BY <1>1, <1>2 DEF Extended
<1>11. /\ NoPolicy \notin DOMAIN policies.named /\ next \in Nat
       /\ \A n \in DOMAIN policies.named :
             n \in FilePolicies \/ \E j \in 1 .. next - 1, x \in FilePolicies : n = RenamedPolicy[j][x]
  BY StoreAssumption DEF Before, PositionFits, NamedFits
<1>12. ASSUME NEW x \in DOMAIN policies.named \cup new \cup R
       PROVE  /\ x # NoPolicy
              /\ x \in FilePolicies \/ \E j \in 1 .. next, y \in FilePolicies : x = RenamedPolicy[j][y]
  <2>1. CASE x \in DOMAIN policies.named
    <3>1. 1 .. next - 1 \subseteq 1 .. next
      BY <1>11
    <3> QED BY <1>11, <2>1, <3>1
  <2>2. CASE x \in new
    BY <1>4, <1>8, <2>2
  <2>3. CASE x \in R
    <3>1. next \in 1 .. next
      BY DEF Before
    <3> QED BY <1>4, <1>5, <1>9, <2>3, <3>1
  <2> QED BY <2>1, <2>2, <2>3
<1>13. NamedFits(Extended(policies.named, A), next + 1)
  <2> DEFINE E == Extended(policies.named, A)
  <2>1. 1 .. next = 1 .. (next + 1) - 1
    BY <1>11
  <2>2. DOMAIN E = DOMAIN policies.named \cup new \cup R
    BY <1>10
  <2> HIDE DEF E
  <2>3. \A x \in DOMAIN E : x # NoPolicy /\ (x \in FilePolicies \/ \E j \in 1 .. next, y \in FilePolicies : x = RenamedPolicy[j][y])
    BY <2>2, <1>12
  <2>4. NamedFits(E, next + 1)
    BY <2>1, <2>3 DEF NamedFits
  <2> QED BY <2>4 DEF E
<1> QED BY <1>7, <1>13
-----------------------------------------------------------------------------
(* A merge keeps the invariant.                                             *)

IsOtherName(x) == x = [title |-> x.title, merged |-> x.merged] /\ x.merged \in Seq({0})

MergedFits(x) ==
    /\ IsName(MergedName(x), next) /\ ~IsName(MergedName(x), next - 1)
    /\ MergedName(x).title = x.title

LEMMA MergedNameIs ==
  ASSUME "second" \notin Risky, next \in Nat \ {0}, NEW x, IsOtherName(x)
  PROVE  MergedFits(x)
<1> DEFINE y == MergedName(x)
           s == x.merged
           t == Append(s, next)
<1>1. s \in Seq({0}) /\ x = [title |-> x.title, merged |-> s]
  BY DEF IsOtherName
<1>2. y = [title |-> x.title, merged |-> t]
  BY <1>1 DEF MergedName, Stamp
<1>3. Len(s) \in Nat /\ s \in Seq(0 .. next)
  BY <1>1
<1>4. next \in 0 .. next
  OBVIOUS
<1>5. t \in Seq(0 .. next) /\ t[Len(s) + 1] = next /\ Len(t) = Len(s) + 1
  BY <1>3, <1>4
<1> HIDE DEF t, y, s
<1>6. IsName(y, next) /\ y.title = x.title
  BY <1>2, <1>5 DEF IsName
<1>7. ASSUME IsName(y, next - 1)
      PROVE  FALSE
  <2>1. t \in Seq(0 .. next - 1)
    BY <1>2, <1>7 DEF IsName
  <2>2. Len(s) + 1 \in 1 .. Len(t)
    BY <1>3, <1>5
  <2>3. t[Len(s) + 1] \in 0 .. next - 1
    BY <2>1, <2>2
  <2> QED BY <1>5, <2>3
<1> QED BY <1>6, <1>7 DEF MergedFits, y

LEMMA MergedNameParts ==
  ASSUME "second" \notin Risky, NEW x, IsOtherName(x)
  PROVE  MergedName(x).title = x.title /\ MergedName(x).merged = Append(x.merged, next)
<1>1. x = [title |-> x.title, merged |-> x.merged]
  BY DEF IsOtherName
<1> QED BY <1>1 DEF MergedName, Stamp

LEMMA MergedNamesDiffer ==
  ASSUME "second" \notin Risky, next \in Nat, NEW x, IsOtherName(x), NEW y, IsOtherName(y), MergedName(x) = MergedName(y)
  PROVE  x = y
<1> DEFINE s == x.merged
           t == y.merged
<1>1. s \in Seq({0}) /\ x = [title |-> x.title, merged |-> s] /\ t \in Seq({0}) /\ y = [title |-> y.title, merged |-> t]
  BY DEF IsOtherName
<1> DEFINE u == Append(s, next)
           v == Append(t, next)
<1>2. MergedName(x).title = x.title /\ MergedName(x).merged = u
  BY MergedNameParts
<1>3. MergedName(y).title = y.title /\ MergedName(y).merged = v
  BY MergedNameParts
<1>4. x.title = y.title /\ u = v
  BY <1>2, <1>3
<1> HIDE DEF s, t
<1>5. s \in Seq(Nat) /\ t \in Seq(Nat)
  BY <1>1
<1>6. Len(s) = Len(t) /\ Len(s) \in Nat
  <2>1. Len(Append(s, next)) = Len(s) + 1 /\ Len(Append(t, next)) = Len(t) + 1 /\ Len(s) \in Nat /\ Len(t) \in Nat
    BY <1>5
  <2> QED BY <1>4, <2>1
<1>7. ASSUME NEW k \in 1 .. Len(s)
      PROVE  s[k] = t[k]
  <2>1. Append(s, next)[k] = s[k] /\ Append(t, next)[k] = t[k]
    BY <1>5, <1>6
  <2> QED BY <1>4, <2>1
<1>8. s = [k \in 1 .. Len(s) |-> s[k]] /\ t = [k \in 1 .. Len(t) |-> t[k]]
  BY <1>5
<1>9. s = t
  BY <1>6, <1>7, <1>8
<1> QED BY <1>1, <1>4, <1>9

(* Norm leaves all but the base id. *)
LEMMA NormFields ==
  ASSUME NEW x, x = [f \in OtherFields |-> x[f]]
  PROVE  /\ DOMAIN Norm(x) = OtherFields
         /\ \A f \in OtherFields \ {"base"} : Norm(x)[f] = x[f]
<1> QED BY DEF Norm

(* The entries as they are, and as the history has them. *)
LEMMA NowFields ==
  ASSUME EntryFields = OtherFields, NEW p, Now(p)
  PROVE  /\ Used = DOMAIN p
         /\ \A i \in DOMAIN p : /\ Entry(i) = [f \in OtherFields |-> Entry(i)[f]]
                                /\ DOMAIN p[i] = OtherFields
                                /\ \A f \in OtherFields \ {"base"} : p[i][f] = Entry(i)[f]
<1>1. Used = DOMAIN p
  BY DEF Now, Agrees, Used
<1>2. ASSUME NEW i \in DOMAIN p
      PROVE  /\ Entry(i) = [f \in OtherFields |-> Entry(i)[f]]
             /\ DOMAIN p[i] = OtherFields
             /\ \A f \in OtherFields \ {"base"} : p[i][f] = Entry(i)[f]
  <2> DEFINE x == Entry(i)
  <2>1. IsEntry(x) /\ Norm(x) = p[i] /\ DOMAIN x = OtherFields
    BY <1>1, EntryIs
  <2> HIDE DEF x
  <2>2. x = [f \in OtherFields |-> x[f]]
    BY <2>1 DEF IsEntry
  <2>3. DOMAIN p[i] = OtherFields /\ \A f \in OtherFields \ {"base"} : p[i][f] = x[f]
    BY <2>1, <2>2, NormFields
  <2> QED BY <2>2, <2>3 DEF x
<1> QED BY <1>1, <1>2

(* What a merge adds, once more: the name and the policy. *)
MadeFits(x, e, A) ==
    /\ x = [f \in OtherFields |-> x[f]]
    /\ x.password = e.password /\ x.expires = e.expires
    /\ x.name = IF Named(Current, e.name) = {} THEN e.name ELSE MergedName(e.name)
    /\ IsDependent(e) => x.own = e.own /\ x.pname = e.pname /\ x.name = e.name
    /\ ~IsDependent(e) => \E y : KeyedAs(y, e) /\ PolicyGiven(x, y, e.pname)
    /\ x.pname \in DOMAIN policies.named \cup DOMAIN A \cup {NoPolicy}

NoMergeRisk == Risky \cap {"identical", "skipped", "keys", "second", "named"} = {}
IsBases(bases) == \A o \in bases : o \in DOMAIN other.entries /\ ~IsDependent(EntryOf(other, o))

LEMMA MergeReadyIs ==
  ASSUME NEW p, Before(p), NoMergeRisk, NEW bases, IsBases(bases), MergeIsCareful(bases)
  PROVE  MergeReady(p, bases)
<1>1. Now(p) /\ IsPast(other.entries)
  BY DEF Before, OtherKnown
<1>2. /\ \A i \in DOMAIN other.entries : NewId(i) \in Ids \ DOMAIN p
      /\ \A i, j \in DOMAIN other.entries : NewId(i) = NewId(j) \/ NewId(i) = j => i = j
  BY NewIdIs
<1>3. ASSUME NEW o \in bases
      PROVE  OneReady(o)
  <2>1. /\ \/ Same(o) = {} \/ DependentsToAdd(o) = {}
           \/ o \in Same(o) /\ Entry(o).type \in {"normal", EntryOf(other, o).type}
        /\ Same(o) # {} \/ DependentsIn(other, o) = {} \/ DependentsToAdd(o) # {}
        /\ \A i \in DependentsToAdd(o) : EntryOf(other, i).key = FreeKey(EntryOf(other, i).key)
    BY DEF NoMergeRisk, MergeIsCareful
  <2>2. o \in Same(o) => o \in Used
    BY DEF Same, Named, Current, Used
  <2>3. o \in DOMAIN other.entries /\ ~IsDependent(EntryOf(other, o))
    BY DEF IsBases
  <2> QED BY <2>1, <2>2, <2>3 DEF OneReady
<1> QED BY <1>1, <1>2, <1>3 DEF MergeReady

(* The policies that a merge of bases adds. *)
MergePolicies(bases) == PoliciesAdded({EntryOf(other, o).pname : o \in {i \in bases : Same(i) = {}}})

LEMMA MadeFitsIs ==
  ASSUME EntryFields = OtherFields, NEW p, Before(p), NoMergeRisk, NEW bases, MergeReady(p, bases), MergeIsCareful(bases),
         NEW A, A = MergePolicies(bases), NEW i \in Wanted(bases), NEW x, x = Made(i), NEW e, e = EntryOf(other, i)
  PROVE  MadeFits(x, e, A)
<1>1. PICK o \in bases : i \in Parts(o)
  BY DEF Wanted
<1>2. PartOf(i, o)
  BY <1>1, PartsAre
<1>3. i \in DOMAIN other.entries /\ OtherKnown /\ IsPast(other.entries)
  BY <1>2 DEF PartOf, Before, OtherKnown
<1>4. e = [f \in OtherFields |-> e[f]]
  BY <1>3, OtherIs
<1>5. OtherEntry(e)
  BY <1>3, OtherEntryIs
<1>6. CASE IsDependent(e)
  <2>1. x = [e EXCEPT !.base = NewBase(e.base)] /\ i \in DependentsToAdd(o)
    BY <1>2, <1>6 DEF Made, PartOf
  <2>2. Named(Current, e.name) = {} /\ e.pname \in DOMAIN policies.named \cup {NoPolicy}
    BY <2>1 DEF DependentsToAdd, NoMergeRisk, MergeIsCareful
  <2>3. x = [f \in OtherFields |-> x[f]] /\ \A f \in OtherFields \ {"base"} : x[f] = e[f]
    BY <1>4, <2>1 DEF OtherFields
  <2> QED BY <1>6, <2>2, <2>3 DEF MadeFits, OtherFields
<1>7. CASE ~IsDependent(e)
  <2> DEFINE y == Keyed(o)
             n == e.pname
  <2>1. i = o /\ Same(o) = {} /\ x = MergedBase(o)
    BY <1>2, <1>7 DEF PartOf, Made
  <2>2. KeyedAs(y, e) /\ x = WithPolicy(y, n)
    BY <1>3, <2>1, KeyedIs
  <2> HIDE DEF y
  <2>3. /\ y = [f \in OtherFields |-> y[f]]
        /\ y.name = IF Named(Current, e.name) = {} THEN e.name ELSE MergedName(e.name)
        /\ y.password = e.password /\ y.expires = e.expires /\ y.pname = e.pname
    BY <2>2 DEF KeyedAs, OtherFields
  <2>4. PolicyGiven(x, y, n)
    <3> HIDE DEF n
    <3> QED BY <2>2, <2>3, WithPolicyIs
  <2>5. /\ x = [f \in OtherFields |-> x[f]] /\ x.name = y.name /\ x.password = y.password /\ x.expires = y.expires
        /\ x.pname = IF n = NoPolicy THEN y.pname
                     ELSE IF ~PolicyKnown(n) THEN n
                     ELSE IF policies.named[n] = other.policies.named[n] THEN y.pname ELSE RenamedPolicy[next][n]
    BY <2>4 DEF PolicyGiven, OtherFields
  <2>6. PolicyAdded(A, n)
    <3> DEFINE pnames == {EntryOf(other, k).pname : k \in {j \in bases : Same(j) = {}}}
    <3>1. n \in pnames
      BY <2>1
    <3>2. A = PoliciesAdded(pnames)
      BY DEF MergePolicies
    <3>3. pnames \subseteq DOMAIN other.policies.named \cup {NoPolicy}
      <4>1. ASSUME NEW k \in bases
            PROVE  EntryOf(other, k).pname \in DOMAIN other.policies.named \cup {NoPolicy}
        <5>1. k \in DOMAIN other.entries
          BY DEF MergeReady, OneReady
        <5> QED BY <1>3, <5>1, OtherEntryIs DEF OtherEntry
      <4> QED BY <4>1
    <3> HIDE DEF pnames, n
    <3> QED BY <3>1, <3>2, <3>3, PoliciesAddedIs
  <2>7. x.pname \in DOMAIN policies.named \cup DOMAIN A \cup {NoPolicy}
    BY <2>3, <2>5, <2>6 DEF PolicyAdded, PolicyKnown
  <2>8. \E z : KeyedAs(z, e) /\ PolicyGiven(x, z, e.pname)
    BY <2>2, <2>4
  <2> QED BY <1>7, <2>3, <2>5, <2>7, <2>8 DEF MadeFits
<1> QED BY <1>6, <1>7
(* The entries after a merge, field by field. *)
MergedAs(r, p, W) ==
    /\ DOMAIN r = DOMAIN p \cup {NewId(i) : i \in W}
    /\ \A i \in DOMAIN p : \A f \in OtherFields \ {"type", "base"} : r[i][f] = Entry(i)[f]
    /\ \A i \in W : \A f \in OtherFields \ {"type", "base"} : r[NewId(i)][f] = Made(i)[f]
    /\ \A i \in W : i \in DOMAIN other.entries

LEMMA MergedIs ==
  ASSUME EntryFields = OtherFields, NEW p, NEW bases, MergeReady(p, bases), NEW W, NEW r, AddedTo(r, p, W)
  PROVE  MergedAs(r, p, W)
<1>1. Now(p) /\ W \subseteq DOMAIN other.entries /\ DOMAIN r = DOMAIN p \cup {NewId(i) : i \in W}
  BY DEF MergeReady, AddedTo
<1>2. ASSUME NEW i \in DOMAIN p, NEW f \in OtherFields \ {"type", "base"}
      PROVE  r[i][f] = Entry(i)[f]
  <2>1. AllBut(r[i], p[i])
    BY DEF AddedTo
  <2>2. DOMAIN p[i] = OtherFields /\ p[i][f] = Entry(i)[f]
    BY <1>1, NowFields
  <2> QED BY <2>1, <2>2 DEF AllBut
<1>3. ASSUME NEW i \in W, NEW f \in OtherFields \ {"type", "base"}
      PROVE  r[NewId(i)][f] = Made(i)[f]
  <2> DEFINE x == Made(i)
             e == EntryOf(other, i)
  <2>1. i \in DOMAIN other.entries
    BY <1>1
  <2>2. AllBut(r[NewId(i)], Norm(x))
    BY DEF AddedTo
  <2>3. MadeAs(x, e)
    BY <2>1, MadeIs
  <2> HIDE DEF x
  <2>4. x = [g \in OtherFields |-> x[g]]
    BY <2>3 DEF MadeAs, IsEntry
  <2>5. DOMAIN Norm(x) = OtherFields /\ Norm(x)[f] = x[f]
    BY <2>4, NormFields
  <2>6. r[NewId(i)][f] = x[f]
    BY <2>2, <2>5 DEF AllBut
  <2> QED BY <2>6 DEF x
<1> QED BY <1>1, <1>2, <1>3 DEF MergedAs

(* The name of an entry that a merge adds is neither in use nor that of     *)
(* another one.                                                             *)
LEMMA MadeNames ==
  ASSUME EntryFields = OtherFields, NEW p, Before(p), NoMergeRisk, NEW bases, MergeReady(p, bases), MergeIsCareful(bases),
         NEW i \in Wanted(bases)
  PROVE  /\ IsName(Made(i).name, next)
         /\ \A j \in DOMAIN p : Entry(j).name # Made(i).name
         /\ \A j \in Wanted(bases) : i # j => Made(i).name # Made(j).name
         /\ Made(i).name.title = EntryOf(other, i).name.title
<1> DEFINE A == MergePolicies(bases)
           N(k) == EntryOf(other, k).name
<1>1. \A k \in Wanted(bases) : MadeFits(Made(k), EntryOf(other, k), A)
  BY MadeFitsIs
<1>2. \A k \in Wanted(bases) : k \in DOMAIN other.entries
  BY DEF Wanted, Parts, DependentsToAdd, DependentsIn, MergeReady, OneReady
<1>3. ASSUME NEW k \in Wanted(bases)
      PROVE  /\ IsOtherName(N(k)) /\ IsName(N(k), 0)
             /\ Made(k).name = IF Named(Current, N(k)) = {} THEN N(k) ELSE MergedName(N(k))
  <2>1. OtherEntry(EntryOf(other, k))
    BY <1>2, OtherEntryIs DEF Before
  <2>2. 0 .. 0 = {0}
    OBVIOUS
  <2> QED BY <1>1, <2>1, <2>2 DEF OtherEntry, IsOtherName, IsName, MadeFits
<1>4. next \in Nat \ {0} /\ "second" \notin Risky
  BY StoreAssumption DEF Before, NoMergeRisk
<1>5. ASSUME NEW k \in Wanted(bases)
      PROVE  MergedFits(N(k)) /\ IsName(N(k), next) /\ IsName(N(k), next - 1)
  <2>1. 0 <= next - 1 /\ 0 <= next /\ next - 1 \in Nat /\ next \in Nat /\ 0 \in Nat
    BY <1>4
  <2> QED BY <1>3, <1>4, <2>1, MergedNameIs, NameGrows
<1>6. \A k \in Wanted(bases), m \in Wanted(bases) : MergedName(N(k)) = MergedName(N(m)) => N(k) = N(m)
  BY <1>3, <1>4, MergedNamesDiffer
<1>7. \A k \in Wanted(bases), m \in Wanted(bases) : k # m => N(k) # N(m)
  BY <1>2, OtherEntryIs DEF Before
<1> HIDE DEF N
<1>8. IsName(Made(i).name, next) /\ Made(i).name.title = N(i).title
  BY <1>3, <1>5 DEF MergedFits
<1>9. ASSUME NEW j \in DOMAIN p
      PROVE  Entry(j).name # Made(i).name
  <2>1. IsName(p[j].name, next - 1)
    BY DEF Before, PositionFits
  <2>2. p[j].name = Entry(j).name /\ j \in Used
    BY NowFields DEF Before, OtherFields
  <2>3. Named(Current, N(i)) = {} => Entry(j).name # N(i)
    BY <2>2 DEF Named, Current, Entry, Used
  <2>4. Entry(j).name # MergedName(N(i))
    BY <1>5, <2>1, <2>2 DEF MergedFits
  <2> QED BY <1>3, <2>3, <2>4
<1>10. ASSUME NEW j \in Wanted(bases), i # j
       PROVE  Made(i).name # Made(j).name
  <2>1. N(i) # N(j) /\ MergedName(N(i)) # MergedName(N(j))
    BY <1>6, <1>7, <1>10
  <2>2. MergedName(N(i)) # N(j) /\ MergedName(N(j)) # N(i)
    BY <1>5 DEF MergedFits
  <2> QED BY <1>3, <2>1, <2>2
<1> QED BY <1>8, <1>9, <1>10 DEF N
(* Positions grow. *)
LEMMA RenewedGrows ==
  ASSUME NEW k \in Nat, NEW i, i \in FileIds \/ \E j \in 1 .. k - 1, x \in FileIds : i = Renewed[j][x]
  PROVE  i \in FileIds \/ \E j \in 1 .. (k + 1) - 1, x \in FileIds : i = Renewed[j][x]
<1>1. 1 .. k - 1 \subseteq 1 .. (k + 1) - 1
  OBVIOUS
<1> QED BY <1>1

LEMMA MergeFits ==
  ASSUME EntryFields = OtherFields, NEW p, Before(p), NoMergeRisk, NEW bases, MergeReady(p, bases), MergeIsCareful(bases),
         NEW A, A = MergePolicies(bases), NEW W, W = Wanted(bases), NEW r, MergedAs(r, p, W),
         NEW ext, ext = Extended(policies.named, A), NamedFits(ext, next + 1)
  PROVE  PositionFits(r, next + 1, ext)
<1>1. next \in Nat \ {0} /\ (next + 1) - 1 = next
  BY StoreAssumption DEF Before
<1>2. DOMAIN ext = DOMAIN policies.named \cup DOMAIN A
  BY DEF Extended
<1>3. ASSUME NEW i \in DOMAIN p
      PROVE  /\ i \in FileIds \/ \E j \in 1 .. (next + 1) - 1, x \in FileIds : i = Renewed[j][x]
             /\ IsName(r[i].name, next) /\ r[i].pname \in DOMAIN ext \cup {NoPolicy}
             /\ r[i].name = Entry(i).name
  <2>1. /\ i \in FileIds \/ \E j \in 1 .. next - 1, x \in FileIds : i = Renewed[j][x]
        /\ IsName(p[i].name, next - 1) /\ p[i].pname \in DOMAIN policies.named \cup {NoPolicy}
    BY DEF Before, PositionFits
  <2>2. p[i].name = Entry(i).name /\ p[i].pname = Entry(i).pname
    BY NowFields DEF Before, OtherFields
  <2>3. r[i].name = Entry(i).name /\ r[i].pname = Entry(i).pname
    BY DEF MergedAs, OtherFields
  <2>4. i \in FileIds \/ \E j \in 1 .. (next + 1) - 1, x \in FileIds : i = Renewed[j][x]
    BY <1>1, <2>1, RenewedGrows
  <2>5. next - 1 \in Nat /\ next \in Nat /\ next - 1 <= next
    BY <1>1
  <2>6. IsName(p[i].name, next)
    BY <2>1, <2>5, NameGrows
  <2> QED BY <1>2, <2>1, <2>2, <2>3, <2>4, <2>6
<1>4. ASSUME NEW w \in W
      PROVE  /\ NewId(w) \in FileIds \/ \E j \in 1 .. (next + 1) - 1, x \in FileIds : NewId(w) = Renewed[j][x]
             /\ IsName(r[NewId(w)].name, next) /\ r[NewId(w)].pname \in DOMAIN ext \cup {NoPolicy}
             /\ r[NewId(w)].name = Made(w).name
             /\ \A j \in DOMAIN p : Entry(j).name # Made(w).name
             /\ \A j \in W : w # j => Made(w).name # Made(j).name
  <2>1. r[NewId(w)].name = Made(w).name /\ r[NewId(w)].pname = Made(w).pname /\ w \in DOMAIN other.entries
    BY DEF MergedAs, OtherFields
  <2>2. w \in FileIds
    BY <2>1 DEF Before, OtherKnown
  <2>3. NewId(w) = w \/ NewId(w) = Renewed[next][w]
    BY <2>1, NewIdIs
  <2>4. next \in 1 .. (next + 1) - 1
    BY <1>1
  <2>5. MadeFits(Made(w), EntryOf(other, w), A)
    BY MadeFitsIs
  <2>6. Made(w).pname \in DOMAIN ext \cup {NoPolicy}
    BY <1>2, <2>5 DEF MadeFits
  <2>7. /\ IsName(Made(w).name, next)
        /\ \A j \in DOMAIN p : Entry(j).name # Made(w).name
        /\ \A j \in W : w # j => Made(w).name # Made(j).name
    BY MadeNames
  <2> QED BY <2>1, <2>2, <2>3, <2>4, <2>6, <2>7
<1>5. \A i \in DOMAIN p, j \in DOMAIN p : i # j => Entry(i).name # Entry(j).name
  <2>1. \A i \in DOMAIN p, j \in DOMAIN p : i # j => p[i].name # p[j].name
    BY DEF Before, PositionFits
  <2>2. \A i \in DOMAIN p : p[i].name = Entry(i).name
    BY NowFields DEF Before, OtherFields
  <2> QED BY <2>1, <2>2
<1>6. DOMAIN r = DOMAIN p \cup {NewId(w) : w \in W}
  BY DEF MergedAs
<1>7. \A i \in DOMAIN r : i \in DOMAIN p \/ \E w \in W : i = NewId(w)
  BY <1>6
<1>8. ASSUME NEW i \in DOMAIN r
      PROVE  /\ i \in FileIds \/ \E j \in 1 .. (next + 1) - 1, x \in FileIds : i = Renewed[j][x]
             /\ IsName(r[i].name, next) /\ r[i].pname \in DOMAIN ext \cup {NoPolicy}
  BY <1>3, <1>4, <1>7
<1>9. ASSUME NEW i \in DOMAIN r, NEW j \in DOMAIN r, i # j
      PROVE  r[i].name # r[j].name
  <2>1. CASE i \in DOMAIN p /\ j \in DOMAIN p
    BY <1>3, <1>5, <1>9, <2>1
  <2>2. CASE i \in DOMAIN p /\ j \notin DOMAIN p
    BY <1>3, <1>4, <1>7, <2>2
  <2>3. CASE i \notin DOMAIN p /\ j \in DOMAIN p
    BY <1>3, <1>4, <1>7, <2>3
  <2>4. CASE i \notin DOMAIN p /\ j \notin DOMAIN p
    BY <1>4, <1>7, <1>9, <2>4
  <2> QED BY <2>1, <2>2, <2>3, <2>4
<1> QED BY <1>1, <1>8, <1>9 DEF PositionFits

(* What a merge leads to. *)
MergeLeadsTo(r, p, bases, A) ==
    /\ AddedTo(r, p, Wanted(bases)) /\ MergedAs(r, p, Wanted(bases))
    /\ PositionFits(r, next + 1, Extended(policies.named, A))

MergePnames(bases) == {EntryOf(other, o).pname : o \in {i \in bases : Same(i) = {}}}

LEMMA MergeArrivesAt ==
  ASSUME EntryFields = OtherFields, IsFiniteSet(Ids), NoMergeRisk, NEW p, Before(p), NEW names,
         NEW bases, bases = BasesIn(other, names), MergeIsCareful(bases),
         NEW list, list = ListOfMerge(SetToSeq(bases)), NEW A, A = PoliciesAdded(MergePnames(bases))
  PROVE  /\ IsList(list)
         /\ \E r : MergeLeadsTo(r, p, bases, A) /\ Leads(list, p, r)
<1>1. IsBases(bases)
  BY DEF IsBases, BasesIn, EntryOf
<1>2. MergeReady(p, bases)
  BY <1>1, MergeReadyIs
<1>3. OtherKnown
  BY DEF Before
<1>4. bases \subseteq Ids
  BY <1>1, <1>3 DEF IsBases, OtherKnown, IsPast
<1>5. IsFiniteSet(bases)
  BY <1>4, FS_Subset
<1>6. IsList(list) /\ \E r : AddedTo(r, p, Wanted(bases)) /\ Leads(list, p, r)
  BY <1>2, <1>5, MergeLeads
<1>7. PICK r : AddedTo(r, p, Wanted(bases)) /\ Leads(list, p, r)
  BY <1>6
<1>8. MergedAs(r, p, Wanted(bases))
  BY <1>2, <1>7, MergedIs
<1> DEFINE pnames == MergePnames(bases)
           ext == Extended(policies.named, A)
           W == Wanted(bases)
<1>9. pnames \subseteq DOMAIN other.policies.named \cup {NoPolicy}
  <2>1. ASSUME NEW o \in bases
        PROVE  EntryOf(other, o).pname \in DOMAIN other.policies.named \cup {NoPolicy}
    BY <1>1, <1>3, OtherEntryIs DEF IsBases, OtherEntry
  <2> QED BY <2>1 DEF MergePnames
<1>10. A = MergePolicies(bases)
  BY DEF MergePolicies, MergePnames
<1>11. NamedFits(ext, next + 1)
  <2> HIDE DEF pnames
  <2> QED BY <1>9, PoliciesAddedIs DEF pnames
<1> HIDE DEF ext, W
<1>12. PositionFits(r, next + 1, ext)
  BY <1>2, <1>8, <1>10, <1>11, MergeFits DEF ext, W
<1>13. MergeLeadsTo(r, p, bases, A)
  BY <1>7, <1>8, <1>12 DEF MergeLeadsTo, ext
<1> QED BY <1>6, <1>7, <1>13

LEMMA MergeKeeps ==
  ASSUME EntryFields = OtherFields, IsFiniteSet(Ids), NoMergeRisk, OtherInv,
         NEW names, MergeIsCareful(BasesIn(other, names)), Merge(names)
  PROVE  OtherInv'
<1> DEFINE bases == BasesIn(other, names)
           list == ListOfMerge(SetToSeq(bases))
           pnames == MergePnames(bases)
           operation == [op |-> "merge", names |-> names, fields |-> {}]
           A == PoliciesAdded(pnames)
<1>1. ExecuteWith(list, pnames, operation)
  BY DEF Merge, ListOfMerge, MergePnames
<1>2. next <= MaxCommands
  BY <1>1 DEF ExecuteWith, Execute
<1>3. PICK p : Before(p)
  BY <1>2, BeforeIs
<1> HIDE DEF list, pnames, operation, bases
<1>4. IsList(list) /\ \E r : MergeLeadsTo(r, p, bases, A) /\ Leads(list, p, r)
  BY <1>3, MergeArrivesAt DEF list, pnames, bases
<1>5. PICK r : MergeLeadsTo(r, p, bases, A) /\ Leads(list, p, r)
  BY <1>4
<1> HIDE DEF A
<1>6. IsPast(r) /\ Now(p) /\ PositionFits(r, next + 1, Extended(policies.named, A))
  BY <1>3, <1>5 DEF MergeLeadsTo, AddedTo, Before
<1> QED BY <1>1, <1>4, <1>5, <1>6, OtherKept DEF A
-----------------------------------------------------------------------------
(* A synchronisation keeps the invariant.                                   *)

NoSyncRisk == Risky \cap {"alias", "keys"} = {}

LEMMA NamesAre ==
  ASSUME EntryFields = OtherFields, NEW p, Before(p)
  PROVE  NamesUnique
<1>1. \A i, j \in DOMAIN p : i # j => p[i].name # p[j].name
  BY DEF Before, PositionFits
<1>2. Used = DOMAIN p /\ \A i \in DOMAIN p : p[i].name = Entry(i).name
  BY NowFields DEF Before, OtherFields
<1> QED BY <1>1, <1>2 DEF NamesUnique

LEMMA SyncReadyIs ==
  ASSUME EntryFields = OtherFields, NEW p, Before(p), NoSyncRisk, NEW names, NEW fields \in FieldSets,
         \A pair \in Pairs(names) : SyncIsCareful(pair[2], pair[1], fields)
  PROVE  SyncReady(p, names, fields)
<1>1. Now(p) /\ OtherKnown /\ IsPast(other.entries)
  BY DEF Before, OtherKnown
<1>2. \A i, j \in DOMAIN other.entries : i # j => EntryOf(other, i).name # EntryOf(other, j).name
  BY <1>1, OtherEntryIs
<1>3. fields \subseteq CopiedFields
  BY OtherAssumption
<1> QED BY <1>1, <1>2, <1>3, NamesAre DEF SyncReady, NoSyncRisk

(* The entries after a synchronisation, field by field. *)
SyncedAs(r, p, names, fields) ==
    /\ DOMAIN r = DOMAIN p
    /\ \A pair \in Pairs(names) : \A f \in OtherFields \ {"base"} : r[pair[1]][f] = Updated(pair[1], pair[2], fields)[f]
    /\ \A i \in DOMAIN p : (\A pair \in Pairs(names) : pair[1] # i) =>
          \A f \in OtherFields \ {"base"} : r[i][f] = Entry(i)[f]

LEMMA SyncedIs ==
  ASSUME EntryFields = OtherFields, NEW p, NEW names, NEW fields, SyncReady(p, names, fields),
         NEW r, SyncedTo(r, p, names, fields)
  PROVE  SyncedAs(r, p, names, fields)
<1>1. Now(p) /\ fields \subseteq CopiedFields
  BY DEF SyncReady
<1>2. ASSUME NEW pair \in Pairs(names)
      PROVE  \A f \in OtherFields \ {"base"} : r[pair[1]][f] = Updated(pair[1], pair[2], fields)[f]
  <2> DEFINE x == Updated(pair[1], pair[2], fields)
  <2>1. pair[1] \in Used
    BY PairIs DEF Pair
  <2>2. UpdatedAs(x, Entry(pair[1]), EntryOf(other, pair[2]), fields)
    BY <1>1, <2>1, UpdatedIs
  <2>3. r[pair[1]] = Norm(x)
    BY DEF SyncedTo
  <2> HIDE DEF x
  <2>4. x = [f \in OtherFields |-> x[f]]
    BY <2>2 DEF UpdatedAs
  <2>5. \A f \in OtherFields \ {"base"} : Norm(x)[f] = x[f]
    BY <2>4, NormFields
  <2> QED BY <2>3, <2>5 DEF x
<1>3. ASSUME NEW i \in DOMAIN p, \A pair \in Pairs(names) : pair[1] # i
      PROVE  \A f \in OtherFields \ {"base"} : r[i][f] = Entry(i)[f]
  <2>1. r[i] = p[i]
    BY <1>3 DEF SyncedTo
  <2> QED BY <1>1, <2>1, NowFields
<1> QED BY <1>2, <1>3 DEF SyncedTo, SyncedAs

SyncPnames(names, fields) ==
    IF "pname" \in fields THEN {EntryOf(other, pair[2]).pname : pair \in Pairs(names)} ELSE {}

LEMMA SyncPnamesAre ==
  ASSUME NEW p, Before(p), NEW names, NEW fields
  PROVE  SyncPnames(names, fields) \subseteq DOMAIN other.policies.named \cup {NoPolicy}
<1>1. ASSUME NEW pair \in Pairs(names)
      PROVE  EntryOf(other, pair[2]).pname \in DOMAIN other.policies.named \cup {NoPolicy}
  <2>1. pair[2] \in DOMAIN other.entries
    BY PairIs DEF Pair
  <2> QED BY <2>1, OtherEntryIs DEF Before, OtherEntry
<1> QED BY <1>1 DEF SyncPnames

LEMMA SyncFits ==
  ASSUME EntryFields = OtherFields, NEW p, Before(p), NEW names, NEW fields, SyncReady(p, names, fields),
         NEW A, A = PoliciesAdded(SyncPnames(names, fields)), NEW r, SyncedAs(r, p, names, fields),
         NEW ext, ext = Extended(policies.named, A)
  PROVE  PositionFits(r, next + 1, ext)
<1>1. next \in Nat \ {0} /\ (next + 1) - 1 = next
  BY StoreAssumption DEF Before
<1>2. DOMAIN ext = DOMAIN policies.named \cup DOMAIN A
  BY DEF Extended
<1>3. DOMAIN r = DOMAIN p
  BY DEF SyncedAs
<1>4. \A i \in DOMAIN p : p[i].name = Entry(i).name /\ p[i].pname = Entry(i).pname
  BY NowFields DEF Before, OtherFields
<1> DEFINE pnames == SyncPnames(names, fields)
<1>5. NamedFits(ext, next + 1) /\ \A n \in pnames : PolicyAdded(A, n)
  <2>1. pnames \subseteq DOMAIN other.policies.named \cup {NoPolicy}
    BY SyncPnamesAre
  <2> HIDE DEF pnames
  <2> QED BY <2>1, PoliciesAddedIs DEF pnames
<1>6. ASSUME NEW i \in DOMAIN p
      PROVE  r[i].name = Entry(i).name /\ r[i].pname \in DOMAIN ext \cup {NoPolicy}
  <2>1. Entry(i).pname \in DOMAIN policies.named \cup {NoPolicy}
    BY <1>4 DEF Before, PositionFits
  <2>2. CASE \A pair \in Pairs(names) : pair[1] # i
    BY <1>2, <2>1, <2>2 DEF SyncedAs, OtherFields
  <2>3. CASE \E pair \in Pairs(names) : pair[1] = i
    <3>1. PICK pair \in Pairs(names) : pair[1] = i
      BY <2>3
    <3> DEFINE x == Updated(i, pair[2], fields)
               e == EntryOf(other, pair[2])
    <3>2. i \in Used /\ fields \subseteq CopiedFields /\ Now(p)
      BY <3>1, PairIs DEF Pair, SyncReady
    <3>3. UpdatedAs(x, Entry(i), e, fields)
      BY <3>2, UpdatedIs
    <3>4. r[i].name = x.name /\ r[i].pname = x.pname
      BY <3>1 DEF SyncedAs, OtherFields
    <3>5. "pname" \in fields => PolicyAdded(A, e.pname)
      BY <1>5 DEF SyncPnames
    <3> HIDE DEF x, e
    <3>6. x.name = Entry(i).name /\ x.pname \in DOMAIN ext \cup {NoPolicy}
      BY <1>2, <2>1, <3>3, <3>5 DEF UpdatedAs, PolicyAdded, PolicyKnown
    <3> QED BY <3>4, <3>6
  <2> QED BY <2>2, <2>3
<1>7. ASSUME NEW i \in DOMAIN p
      PROVE  /\ i \in FileIds \/ \E j \in 1 .. (next + 1) - 1, x \in FileIds : i = Renewed[j][x]
             /\ IsName(r[i].name, next)
             /\ \A j \in DOMAIN p : i # j => r[i].name # r[j].name
  <2>1. /\ i \in FileIds \/ \E j \in 1 .. next - 1, x \in FileIds : i = Renewed[j][x]
        /\ IsName(p[i].name, next - 1) /\ \A j \in DOMAIN p : i # j => p[i].name # p[j].name
    BY DEF Before, PositionFits
  <2>2. i \in FileIds \/ \E j \in 1 .. (next + 1) - 1, x \in FileIds : i = Renewed[j][x]
    BY <1>1, <2>1, RenewedGrows
  <2>3. next - 1 \in Nat /\ next \in Nat /\ next - 1 <= next
    BY <1>1
  <2>4. IsName(p[i].name, next)
    BY <2>1, <2>3, NameGrows
  <2> QED BY <1>4, <1>6, <2>1, <2>2, <2>4
<1> QED BY <1>1, <1>3, <1>5, <1>6, <1>7 DEF PositionFits

SyncLeadsTo(r, p, names, fields, A) ==
    /\ SyncedTo(r, p, names, fields) /\ SyncedAs(r, p, names, fields)
    /\ PositionFits(r, next + 1, Extended(policies.named, A))

LEMMA SyncArrivesAt ==
  ASSUME EntryFields = OtherFields, IsFiniteSet(Ids), NEW p, Before(p), NEW names, NEW fields, SyncReady(p, names, fields),
         NEW list, list = ListOfSync(SetToSeq(Changed(names, fields)), fields),
         NEW A, A = PoliciesAdded(SyncPnames(names, fields))
  PROVE  /\ IsList(list)
         /\ \E r : SyncLeadsTo(r, p, names, fields, A) /\ Leads(list, p, r)
<1>1. IsList(list) /\ \E r : SyncedTo(r, p, names, fields) /\ Leads(list, p, r)
  BY SyncLeads
<1>2. PICK r : SyncedTo(r, p, names, fields) /\ Leads(list, p, r)
  BY <1>1
<1>3. SyncedAs(r, p, names, fields)
  BY <1>2, SyncedIs
<1> DEFINE ext == Extended(policies.named, A)
<1> HIDE DEF ext
<1>4. PositionFits(r, next + 1, ext)
  BY <1>3, SyncFits DEF ext
<1> QED BY <1>1, <1>2, <1>3, <1>4 DEF SyncLeadsTo, ext

LEMMA SyncKeeps ==
  ASSUME EntryFields = OtherFields, IsFiniteSet(Ids), NoSyncRisk, OtherInv,
         NEW names, NEW fields \in FieldSets,
         \A pair \in Pairs(names) : SyncIsCareful(pair[2], pair[1], fields), Synchronize(names, fields)
  PROVE  OtherInv'
<1> DEFINE list == ListOfSync(SetToSeq(Changed(names, fields)), fields)
           pnames == SyncPnames(names, fields)
           operation == [op |-> "synchronize", names |-> names, fields |-> fields]
           A == PoliciesAdded(pnames)
<1>1. ExecuteWith(list, pnames, operation)
  BY DEF Synchronize, ListOfSync, Changed, SyncPnames
<1>2. next <= MaxCommands
  BY <1>1 DEF ExecuteWith, Execute
<1>3. PICK p : Before(p)
  BY <1>2, BeforeIs
<1>4. SyncReady(p, names, fields)
  BY <1>3, SyncReadyIs
<1> HIDE DEF list, pnames, operation
<1>5. IsList(list) /\ \E r : SyncLeadsTo(r, p, names, fields, A) /\ Leads(list, p, r)
  BY <1>3, <1>4, SyncArrivesAt DEF list, pnames
<1>6. PICK r : SyncLeadsTo(r, p, names, fields, A) /\ Leads(list, p, r)
  BY <1>5
<1> HIDE DEF A
<1>7. IsPast(r) /\ Now(p) /\ PositionFits(r, next + 1, Extended(policies.named, A))
  BY <1>3, <1>6 DEF SyncLeadsTo, SyncedTo, Before
<1> QED BY <1>1, <1>5, <1>6, <1>7, OtherKept DEF A
-----------------------------------------------------------------------------
(* What the invariant says.                                                 *)

LEMMA OtherStutterKeeps ==
  ASSUME OtherInv, UNCHANGED otherVars
  PROVE  OtherInv'
<1>1. UNCHANGED vars /\ UNCHANGED <<policies, other, added, last>>
  BY DEF otherVars
<1>2. StoreInv'
  BY <1>1, StutterKeeps DEF OtherInv
<1>3. CaseFits'
  BY <1>1 DEF OtherInv, CaseFits
<1>4. PICK N : PoliciesFit(N, added, history, next, policies.named)
  BY DEF OtherInv
<1>5. PoliciesFit(N, added', history', next', policies'.named)
  BY <1>1, <1>4 DEF vars
<1> QED BY <1>2, <1>3, <1>5 DEF OtherInv

(* The kinds of Risky that the invariant does not withstand. *)
NoStoreRisk == Risky \cap {"identical", "skipped", "keys", "second", "named", "alias"} = {}

LEMMA NextOtherKeeps ==
  ASSUME EntryFields = OtherFields, IsFiniteSet(Ids), NoStoreRisk, OtherInv, [NextOther]_otherVars
  PROVE  OtherInv'
<1>1. NoMergeRisk /\ NoSyncRisk
  BY DEF NoStoreRisk, NoMergeRisk, NoSyncRisk
<1>2. ASSUME NEW names, MergeIsCareful(BasesIn(other, names)), Merge(names)
      PROVE  OtherInv'
  BY <1>1, <1>2, MergeKeeps
<1>3. ASSUME NEW names, NEW fields \in FieldSets,
             \A pair \in Pairs(names) : SyncIsCareful(pair[2], pair[1], fields), Synchronize(names, fields)
      PROVE  OtherInv'
  BY <1>1, <1>3, SyncKeeps
<1>4. CASE UndoOther
  BY <1>4, UndoOtherKeeps
<1>5. CASE RedoOther
  BY <1>5, RedoOtherKeeps
<1>6. CASE UNCHANGED otherVars
  BY <1>6, OtherStutterKeeps
<1> QED BY <1>2, <1>3, <1>4, <1>5, <1>6 DEF NextOther

(* What is kept beside the entries is what reading them would make. *)
LEMMA AtReads ==
  ASSUME NEW p, IsPast(p), NEW d, At(d, p), NEW e, e = d.entries
  PROVE  View(d) = View(DatabaseOf(e)) /\ WellFormed(e)
<1> DEFINE f == DatabaseOf(e)
<1>1. Agrees(d, p)
  BY AtParts
<1>2. d.deps = Bag(Links(p)) /\ \A kind \in Kinds : LinksOf(e, kind) = Links(p)[kind]
  BY <1>1, LinksOfDb DEF Agrees
<1>3. d.deps = f.deps
  BY <1>2 DEF Bag, DatabaseOf
<1>4. \A key \in Keys : d.keys[key] = HolderOf(e, key)
  BY AtAgrees
<1>5. d.keys = [key \in Keys |-> d.keys[key]]
  <2>1. d.keys = [key \in Keys |-> HolderOf(p, key)]
    BY <1>1 DEF Agrees
  <2> QED BY <2>1
<1>6. d.keys = f.keys
  BY <1>4, <1>5 DEF DatabaseOf
<1>7. d.expired = f.expired
  BY AtAgrees DEF DatabaseOf
<1>8. f.entries = d.entries
  BY DEF DatabaseOf
<1> HIDE DEF f
<1>9. View(d) = View(f)
  BY <1>3, <1>6, <1>7, <1>8 DEF View
<1>10. /\ DOMAIN e = DOMAIN p
       /\ \A i \in DOMAIN p : /\ e[i].type = p[i].type /\ e[i].key = p[i].key
                              /\ IsDependent(e[i]) <=> IsDependent(p[i])
                              /\ IsDependent(p[i]) => e[i] = p[i]
  BY <1>1 DEF Agrees
<1>11. ASSUME NEW i \in DOMAIN e
       PROVE  IF IsDependent(e[i])
              THEN /\ ~e[i].expires /\ e[i].base \in DOMAIN e /\ e[e[i].base].type = BaseType[e[i].type]
              ELSE \A kind \in Kinds : e[i].type = BaseType[kind] =>
                      \E j \in DOMAIN e : e[j].type = kind /\ e[j].base = i
  <2>1. CASE IsDependent(e[i])
    BY <1>10, <2>1, PastIs
  <2>2. CASE ~IsDependent(e[i])
    <3>1. ASSUME NEW kind \in Kinds, e[i].type = BaseType[kind]
          PROVE  \E j \in DOMAIN e : e[j].type = kind /\ e[j].base = i
      <4>1. PICK j \in DOMAIN p : p[j].type = kind /\ p[j].base = i
        BY <1>10, <3>1, PastIs
      <4>2. e[j] = p[j]
        BY <1>10, <4>1 DEF IsDependent
      <4> QED BY <1>10, <4>1, <4>2
    <3> QED BY <2>2, <3>1
  <2> QED BY <2>1, <2>2
<1>12. \A i, j \in DOMAIN e : i # j => e[i].key # e[j].key \/ e[i].key = NoKey
  BY <1>10, PastIs
<1>13. WellFormed(e)
  BY <1>11, <1>12 DEF WellFormed
<1> QED BY <1>9, <1>13 DEF f

LEMMA OtherInvShows ==
  ASSUME EntryFields = OtherFields, OtherInv
  PROVE  StoreAgrees /\ NamesUnique /\ UndoIsExact
<1>1. PICK p : Now(p) /\ PositionFits(p, next, policies.named)
  BY HereIs
<1>2. IsPast(p) /\ At(db, p) /\ db.sound
  BY <1>1 DEF Now, Agrees
<1>3. View(db) = View(DatabaseOf(db.entries)) /\ WellFormed(db.entries)
  BY <1>2, AtReads
<1>4. /\ Used = DOMAIN p
      /\ \A i \in DOMAIN p : p[i].name = Entry(i).name /\ p[i].pname = Entry(i).pname
  BY <1>1, NowFields DEF OtherFields
<1>5. \A i \in DOMAIN p : /\ p[i].pname \in DOMAIN policies.named \cup {NoPolicy}
                          /\ \A j \in DOMAIN p : i # j => p[i].name # p[j].name
  BY <1>1 DEF PositionFits
<1>6. StoreAgrees
  BY <1>2, <1>3, <1>4, <1>5 DEF StoreAgrees
<1>7. NamesUnique
  BY <1>4, <1>5 DEF NamesUnique
<1> QED BY <1>6, <1>7, StoreInvShows DEF OtherInv

(* The inductive invariant: beside EntryStore's, the entries at every       *)
(* position of the history have names of their own, uuids and policies that *)
(* are of a file or were made at an earlier position, and no policy that is *)
(* not there, whatever merges, synchronisations, undos and redos follow.    *)
THEOREM OtherInvariant ==
  ASSUME EntryFields = OtherFields, IsFiniteSet(Ids), NoStoreRisk
  PROVE  SpecOther => []OtherInv
<1>1. InitOther => OtherInv
  BY InitOtherFits
<1>2. OtherInv /\ [NextOther]_otherVars => OtherInv'
  BY NextOtherKeeps
<1> QED BY <1>1, <1>2, PTL DEF SpecOther

(* Merge and Synchronize leave the multimaps, the shortcut keys and the     *)
(* expiry list as reading the entries would make them, every named policy   *)
(* is there, and no ASSERT of DoAddDependentEntry fails, though a merge     *)
(* adds bases that are recorded as such before they have dependents.        *)
THEOREM MergesAgree ==
  ASSUME EntryFields = OtherFields, IsFiniteSet(Ids), NoStoreRisk
  PROVE  SpecOther => []StoreAgrees
<1>1. OtherInv => StoreAgrees
  BY OtherInvShows
<1> QED BY <1>1, OtherInvariant, PTL

(* No merge gives an entry the group, title and user of another one: the    *)
(* time that Merge appends is that of no earlier merge.                     *)
THEOREM MergesKeepNamesUnique ==
  ASSUME EntryFields = OtherFields, IsFiniteSet(Ids), NoStoreRisk
  PROVE  SpecOther => []NamesUnique
<1>1. OtherInv => NamesUnique
  BY OtherInvShows
<1> QED BY <1>1, OtherInvariant, PTL

(* The undo of a merge or a synchronisation brings back all that PWScore    *)
(* had before, and its redo all that it had after.                          *)
THEOREM MergesUndoExactly ==
  ASSUME EntryFields = OtherFields, IsFiniteSet(Ids), NoStoreRisk
  PROVE  SpecOther => []UndoIsExact
<1>1. OtherInv => UndoIsExact
  BY OtherInvShows
<1> QED BY <1>1, OtherInvariant, PTL
-----------------------------------------------------------------------------
(* What a merge and a synchronisation do to the database.                   *)

(* The database d has the entries r and, with A, the policies.              *)
After(d, r, A) ==
    /\ DOMAIN d.entries = DOMAIN r
    /\ \A i \in DOMAIN r : \A f \in OtherFields \ {"base"} : d.entries[i][f] = r[i][f]
    /\ \A i \in DOMAIN r : IsDependent(r[i]) => d.entries[i].base = r[i].base
    /\ d.policies.default = policies.default
    /\ d.policies.named = Extended(policies.named, A)

LEMMA AfterIs ==
  ASSUME EntryFields = OtherFields, NEW p, Before(p), NEW list, IsList(list), NEW r, IsPast(r), Leads(list, p, r),
         NEW pnames, NEW operation, ExecuteWith(list, pnames, operation), NEW A, A = PoliciesAdded(pnames),
         NEW d, d = Current'
  PROVE  After(d, r, A)
<1>1. /\ db' = ExecuteAll(list, db).db
      /\ policies' = [policies EXCEPT !.named = Extended(@, A)]
  BY DEF ExecuteWith, Execute
<1>2. policies = [default |-> policies.default, named |-> policies.named]
  BY DEF Before, OtherKnown
<1>3. policies'.default = policies.default /\ policies'.named = Extended(policies.named, A)
  BY <1>1, <1>2
<1>4. At(db, p) /\ Len(list) \in Nat
  BY DEF Before, Now, IsList
<1>5. At(db', r)
  BY <1>1, <1>4, LeadsAgain
<1> DEFINE e == db'.entries
<1>6. /\ DOMAIN e = DOMAIN r
      /\ \A i \in DOMAIN r : IsEntry(e[i]) /\ r[i] = Norm(e[i]) /\ DOMAIN e[i] = OtherFields
  <2>1. Agrees(db', r)
    BY <1>5, AtParts
  <2> DEFINE D == db'
  <2> HIDE DEF D
  <2>2. Agrees(D, r)
    BY <2>1 DEF D
  <2> QED BY <2>2 DEF Agrees, D
<1>7. d.entries = e /\ d.policies = policies'
  BY DEF Current
<1> HIDE DEF e
<1>8. ASSUME NEW i \in DOMAIN r
      PROVE  \A f \in OtherFields \ {"base"} : e[i][f] = r[i][f]
  <2>1. e[i] = [f \in OtherFields |-> e[i][f]]
    BY <1>6 DEF IsEntry
  <2> DEFINE x == e[i]
  <2> HIDE DEF x
  <2>2. \A f \in OtherFields \ {"base"} : Norm(x)[f] = x[f]
    BY <2>1, NormFields DEF x
  <2> QED BY <1>6, <2>2 DEF x
<1>9. ASSUME NEW i \in DOMAIN r, IsDependent(r[i])
      PROVE  e[i].base = r[i].base
  <2>1. r[i].type = e[i].type
    BY <1>8 DEF OtherFields
  <2>2. IsDependent(e[i])
    BY <1>9, <2>1 DEF IsDependent
  <2> QED BY <1>6, <2>2 DEF Norm
<1> QED BY <1>3, <1>6, <1>7, <1>8, <1>9 DEF After

(* The fields that a merge keeps. *)
KeptFields == {"name", "password", "expires", "key", "own", "pname", "protected"}

LEMMA MergeKeepsCurrent ==
  ASSUME EntryFields = OtherFields, IsFiniteSet(Ids), NoMergeRisk, OtherInv,
         NEW names, MergeIsCareful(BasesIn(other, names)), Merge(names)
  PROVE  \E p, r, A : /\ Before(p) /\ MergeLeadsTo(r, p, BasesIn(other, names), A)
                      /\ A = MergePolicies(BasesIn(other, names)) /\ After(Current', r, A)
<1> DEFINE bases == BasesIn(other, names)
           list == ListOfMerge(SetToSeq(bases))
           pnames == MergePnames(bases)
           operation == [op |-> "merge", names |-> names, fields |-> {}]
           A == PoliciesAdded(pnames)
           d == Current'
<1>1. ExecuteWith(list, pnames, operation)
  BY DEF Merge, ListOfMerge, MergePnames
<1>2. next <= MaxCommands
  BY <1>1 DEF ExecuteWith, Execute
<1>3. PICK p : Before(p)
  BY <1>2, BeforeIs
<1>4. A = MergePolicies(bases)
  BY DEF MergePolicies, MergePnames
<1> HIDE DEF list, pnames, operation, bases, d
<1>5. IsList(list) /\ \E r : MergeLeadsTo(r, p, bases, A) /\ Leads(list, p, r)
  BY <1>3, MergeArrivesAt DEF list, pnames, bases
<1>6. PICK r : MergeLeadsTo(r, p, bases, A) /\ Leads(list, p, r)
  BY <1>5
<1> HIDE DEF A
<1>7. IsPast(r)
  BY <1>6 DEF MergeLeadsTo, AddedTo
<1>8. After(d, r, A)
  BY <1>1, <1>3, <1>5, <1>6, <1>7, AfterIs DEF A, d
<1> QED BY <1>3, <1>4, <1>6, <1>8 DEF bases, d

LEMMA SyncKeepsCurrent ==
  ASSUME EntryFields = OtherFields, IsFiniteSet(Ids), NoSyncRisk, OtherInv,
         NEW names, NEW fields \in FieldSets,
         \A pair \in Pairs(names) : SyncIsCareful(pair[2], pair[1], fields), Synchronize(names, fields)
  PROVE  \E p, r, A : /\ Before(p) /\ SyncReady(p, names, fields) /\ SyncLeadsTo(r, p, names, fields, A)
                      /\ A = PoliciesAdded(SyncPnames(names, fields)) /\ After(Current', r, A)
<1> DEFINE list == ListOfSync(SetToSeq(Changed(names, fields)), fields)
           pnames == SyncPnames(names, fields)
           operation == [op |-> "synchronize", names |-> names, fields |-> fields]
           A == PoliciesAdded(pnames)
           d == Current'
<1>1. ExecuteWith(list, pnames, operation)
  BY DEF Synchronize, ListOfSync, Changed, SyncPnames
<1>2. next <= MaxCommands
  BY <1>1 DEF ExecuteWith, Execute
<1>3. PICK p : Before(p)
  BY <1>2, BeforeIs
<1>4. SyncReady(p, names, fields)
  BY <1>3, SyncReadyIs
<1> HIDE DEF list, pnames, operation, d
<1>5. IsList(list) /\ \E r : SyncLeadsTo(r, p, names, fields, A) /\ Leads(list, p, r)
  BY <1>3, <1>4, SyncArrivesAt DEF list, pnames
<1>6. PICK r : SyncLeadsTo(r, p, names, fields, A) /\ Leads(list, p, r)
  BY <1>5
<1> HIDE DEF A
<1>7. IsPast(r)
  BY <1>6 DEF SyncLeadsTo, SyncedTo
<1>8. After(d, r, A)
  BY <1>1, <1>3, <1>5, <1>6, <1>7, AfterIs DEF A, d
<1> QED BY <1>3, <1>4, <1>6, <1>8 DEF A, pnames, d

(* An entry that was there. *)
Untouched(d, i) == i \in DOMAIN d.entries /\ \A f \in KeptFields : d.entries[i][f] = Entry(i)[f]

LEMMA MergeUntouched ==
  ASSUME EntryFields = OtherFields, NEW p, Before(p), NEW r, NEW bases, NEW A, MergeLeadsTo(r, p, bases, A),
         NEW d, After(d, r, A), NEW i \in Used
  PROVE  Untouched(d, i)
<1>1. i \in DOMAIN p
  BY NowFields DEF Before
<1>2. i \in DOMAIN r /\ \A f \in OtherFields \ {"type", "base"} : r[i][f] = Entry(i)[f]
  BY <1>1 DEF MergeLeadsTo, MergedAs
<1> QED BY <1>2 DEF After, Untouched, KeptFields, OtherFields

(* Only an entry that is not protected, and that the other database has,    *)
(* is synchronised.                                                         *)
LEMMA SyncUntouched ==
  ASSUME EntryFields = OtherFields, FrontEnd = "mfc", NEW p, Before(p), NEW names, NEW fields, SyncReady(p, names, fields),
         NEW r, NEW A, SyncLeadsTo(r, p, names, fields, A), NEW d, After(d, r, A), NEW i \in Used
  PROVE  \/ ~Entry(i).protected /\ \E o \in BasesIn(other, names) : EntryOf(other, o).name = Entry(i).name
         \/ Untouched(d, i)
<1>1. i \in DOMAIN p
  BY NowFields DEF Before
<1>2. CASE \A pair \in Pairs(names) : pair[1] # i
  <2>1. i \in DOMAIN r /\ \A f \in OtherFields \ {"base"} : r[i][f] = Entry(i)[f]
    BY <1>1, <1>2 DEF SyncLeadsTo, SyncedAs
  <2> QED BY <2>1 DEF After, Untouched, KeptFields, OtherFields
<1>3. CASE \E pair \in Pairs(names) : pair[1] = i
  <2>1. PICK pair \in Pairs(names) : pair[1] = i
    BY <1>3
  <2> DEFINE o == pair[2]
  <2>2. Entry(i).name = EntryOf(other, o).name
    BY <2>1, PairIs DEF Pair
  <2>3. o \in Synced(names)
    BY DEF Pairs
  <2>4. o \in BasesIn(other, names) /\ \E c \in Matches(o) : ~Entry(c).protected
    BY <2>3 DEF Synced
  <2>5. PICK c \in Matches(o) : ~Entry(c).protected
    BY <2>4
  <2>6. c \in Used /\ Entry(c).name = EntryOf(other, o).name
    BY DEF Matches, Named, Current, Used, Entry
  <2>7. c = i
    BY <2>2, <2>6 DEF SyncReady, NamesUnique
  <2> QED BY <2>2, <2>4, <2>5, <2>7
<1> QED BY <1>2, <1>3
LEMMA CurrentStays ==
  ASSUME EntryFields = OtherFields, IsFiniteSet(Ids), FrontEnd = "mfc", NoStoreRisk, OtherInv, NextOther, last'.op # "none"
  PROVE  \A i \in Used :
           \/ last'.op = "synchronize" /\ ~Entry(i).protected
                 /\ \E o \in BasesIn(other, last'.names) : EntryOf(other, o).name = Entry(i).name
           \/ /\ i \in DOMAIN db'.entries
              /\ \A f \in {"name", "password", "expires", "key", "own", "pname", "protected"} :
                    db'.entries[i][f] = Entry(i)[f]
<1> DEFINE Stays(i) == \/ last'.op = "synchronize" /\ ~Entry(i).protected
                             /\ \E o \in BasesIn(other, last'.names) : EntryOf(other, o).name = Entry(i).name
                       \/ Untouched(Current', i)
<1>1. NoMergeRisk /\ NoSyncRisk
  BY DEF NoStoreRisk, NoMergeRisk, NoSyncRisk
<1>2. ASSUME NEW names, MergeIsCareful(BasesIn(other, names)), Merge(names)
      PROVE  \A i \in Used : Stays(i)
  <2> DEFINE d == Current'
             bases == BasesIn(other, names)
  <2>1. PICK p, r, A : Before(p) /\ MergeLeadsTo(r, p, bases, A) /\ After(d, r, A)
    BY <1>1, <1>2, MergeKeepsCurrent
  <2> HIDE DEF d, bases
  <2>2. \A i \in Used : Untouched(d, i)
    BY <2>1, MergeUntouched
  <2> QED BY <2>2 DEF d
<1>3. ASSUME NEW names, NEW fields \in FieldSets,
             \A pair \in Pairs(names) : SyncIsCareful(pair[2], pair[1], fields), Synchronize(names, fields)
      PROVE  \A i \in Used : Stays(i)
  <2> DEFINE d == Current'
  <2>1. PICK p, r, A : /\ Before(p) /\ SyncReady(p, names, fields) /\ SyncLeadsTo(r, p, names, fields, A)
                       /\ After(d, r, A)
    BY <1>1, <1>3, SyncKeepsCurrent
  <2>2. last'.op = "synchronize" /\ last'.names = names
    BY <1>3 DEF Synchronize, ExecuteWith
  <2> HIDE DEF d
  <2>3. ASSUME NEW i \in Used
        PROVE  \/ ~Entry(i).protected /\ \E o \in BasesIn(other, names) : EntryOf(other, o).name = Entry(i).name
               \/ Untouched(d, i)
    BY <2>1, SyncUntouched
  <2> QED BY <2>2, <2>3 DEF d
<1>4. ~UndoOther /\ ~RedoOther
  BY DEF UndoOther, RedoOther, NoOperation
<1>5. \A i \in Used : Stays(i)
  <2> DEFINE G == \A i \in Used : Stays(i)
  <2>1. /\ \A names : MergeIsCareful(BasesIn(other, names)) /\ Merge(names) => G
        /\ \A names : \A fields \in FieldSets :
              (\A pair \in Pairs(names) : SyncIsCareful(pair[2], pair[1], fields)) /\ Synchronize(names, fields) => G
    BY <1>2, <1>3
  <2> HIDE DEF G
  <2>2. G
    BY <1>4, <2>1 DEF NextOther
  <2> QED BY <2>2 DEF G
<1>6. \A i \in Used : Untouched(Current', i) =>
         /\ i \in DOMAIN db'.entries
         /\ \A f \in {"name", "password", "expires", "key", "own", "pname", "protected"} : db'.entries[i][f] = Entry(i)[f]
  BY DEF Untouched, KeptFields, Current
<1> QED BY <1>5, <1>6

(* A merge changes no field of an entry that was there, whatever it adds    *)
(* and renames, and Synchronize of core/CoreOtherDB.cpp none of an entry    *)
(* that is protected or that the other database does not have.              *)
THEOREM MergesKeepCurrent ==
  ASSUME EntryFields = OtherFields, IsFiniteSet(Ids), FrontEnd = "mfc", NoStoreRisk
  PROVE  SpecOther => CurrentKept
<1>1. OtherInv /\ [NextOther]_otherVars =>
        [last'.op # "none" => \A i \in Used :
           \/ last'.op = "synchronize" /\ ~Entry(i).protected
                 /\ \E o \in BasesIn(other, last'.names) : EntryOf(other, o).name = Entry(i).name
           \/ /\ i \in DOMAIN db'.entries
              /\ \A f \in {"name", "password", "expires", "key", "own", "pname", "protected"} :
                    db'.entries[i][f] = Entry(i)[f]]_otherVars
  BY CurrentStays
<1> QED BY <1>1, OtherInvariant, PTL DEF SpecOther, CurrentKept
-----------------------------------------------------------------------------
(* What was asked for is there afterwards.                                  *)

(* The name that the policy n of the other database has here. *)
NameOfPolicy(n) ==
    IF PolicyKnown(n) /\ policies.named[n] # other.policies.named[n] THEN RenamedPolicy[next][n] ELSE n

LEMMA PolicyComes ==
  ASSUME NEW n, n # NoPolicy, NEW A, PolicyAdded(A, n), NEW m, m = NameOfPolicy(n), NEW ext, ext = Extended(policies.named, A)
  PROVE  m # NoPolicy /\ ext[m] = other.policies.named[n]
<1>1. CASE ~PolicyKnown(n)
  <2>1. m = n /\ n \in DOMAIN A /\ A[n] = other.policies.named[n] /\ n \notin DOMAIN policies.named
    BY <1>1 DEF NameOfPolicy, PolicyAdded, PolicyKnown
  <2> QED BY <2>1 DEF Extended
<1>2. CASE PolicyKnown(n) /\ policies.named[n] = other.policies.named[n]
  <2>1. m = n /\ n \in DOMAIN policies.named
    BY <1>2 DEF NameOfPolicy, PolicyKnown
  <2> QED BY <1>2, <2>1 DEF Extended
<1>3. CASE PolicyKnown(n) /\ policies.named[n] # other.policies.named[n]
  <2>1. /\ m = RenamedPolicy[next][n] /\ m # NoPolicy
        /\ m \in DOMAIN A /\ A[m] = other.policies.named[n] /\ m \notin DOMAIN policies.named
    BY <1>3 DEF NameOfPolicy, PolicyAdded
  <2> QED BY <2>1 DEF Extended
<1> QED BY <1>1, <1>2, <1>3

(* An entry x with the policy of e. *)
LEMMA PolicyStays ==
  ASSUME NEW e, OtherEntry(e), OtherKnown, NEW A, PolicyAdded(A, e.pname),
         NEW x, x.pname = (IF e.pname = NoPolicy THEN NoPolicy ELSE NameOfPolicy(e.pname)),
         e.pname = NoPolicy =>
            IF policies.default # other.policies.default
            THEN e.own = NoOwn /\ x.own = other.policies.default ELSE x.own = e.own,
         NEW d, d.policies.default = policies.default, d.policies.named = Extended(policies.named, A),
         NEW i, d.entries[i].pname = x.pname, d.entries[i].own = x.own,
         NEW o, e = EntryOf(other, o)
  PROVE  PolicyOf(d, i) = PolicyOf(other, o)
<1>1. PolicyOf(other, o) = IF e.pname # NoPolicy THEN other.policies.named[e.pname]
                           ELSE IF e.own # NoOwn THEN e.own ELSE other.policies.default
  BY DEF PolicyOf, EntryOf
<1>2. PolicyOf(d, i) = IF x.pname # NoPolicy THEN d.policies.named[x.pname]
                       ELSE IF x.own # NoOwn THEN x.own ELSE d.policies.default
  BY DEF PolicyOf
<1>3. CASE e.pname # NoPolicy
  <2> DEFINE n == e.pname
             m == x.pname
             ext == Extended(policies.named, A)
  <2>1. m = NameOfPolicy(n)
    BY <1>3
  <2> HIDE DEF n, m, ext
  <2>2. m # NoPolicy /\ ext[m] = other.policies.named[n]
    BY <1>3, <2>1, PolicyComes DEF n, ext
  <2> QED BY <1>1, <1>2, <1>3, <2>2 DEF n, m, ext
<1>4. CASE e.pname = NoPolicy
  BY <1>1, <1>2, <1>4 DEF OtherKnown
<1> QED BY <1>3, <1>4

LEMMA PolicyGivenIs ==
  ASSUME NEW x, NEW y, NEW n, PolicyGiven(x, y, n), y.pname = n
  PROVE  x.pname = IF n = NoPolicy THEN NoPolicy ELSE NameOfPolicy(n)
<1> QED BY DEF PolicyGiven, NameOfPolicy

(* A base of the other database that is added. *)
LEMMA NewBaseArrives ==
  ASSUME EntryFields = OtherFields, NoMergeRisk, "own" \notin Risky, NEW p, Before(p),
         NEW bases, IsBases(bases), MergeIsCareful(bases), NEW A, A = MergePolicies(bases),
         NEW r, MergeLeadsTo(r, p, bases, A), NEW d, After(d, r, A), NEW o \in bases, Same(o) = {}
  PROVE  Arrived(o, d)
<1> DEFINE e == EntryOf(other, o)
           x == Made(o)
           i == NewId(o)
           n == e.pname
<1>1. MergeReady(p, bases) /\ OtherKnown
  BY MergeReadyIs DEF Before
<1>2. o \in DOMAIN other.entries /\ ~IsDependent(e)
  BY DEF IsBases
<1>3. o \in Wanted(bases)
  BY DEF Wanted, Parts
<1>4. MadeFits(x, e, A) /\ x.name.title = e.name.title
  BY <1>1, <1>3, MadeFitsIs, MadeNames
<1>5. OtherEntry(e)
  BY <1>1, <1>2, OtherEntryIs
<1>6. PolicyAdded(A, n)
  <2> DEFINE pnames == MergePnames(bases)
  <2>1. n \in pnames
    BY DEF MergePnames
  <2>2. A = PoliciesAdded(pnames)
    BY DEF MergePolicies, MergePnames
  <2>3. pnames \subseteq DOMAIN other.policies.named \cup {NoPolicy}
    <3>1. ASSUME NEW k \in bases
          PROVE  EntryOf(other, k).pname \in DOMAIN other.policies.named \cup {NoPolicy}
      BY <1>1, OtherEntryIs DEF IsBases, OtherEntry
    <3> QED BY <3>1 DEF MergePnames
  <2> HIDE DEF pnames, n
  <2> QED BY <2>1, <2>2, <2>3, PoliciesAddedIs
<1>7. e.own = NoOwn \/ e.pname # NoPolicy \/ policies.default = other.policies.default
  BY DEF MergeIsCareful
<1>8. i \in DOMAIN r /\ \A f \in OtherFields \ {"type", "base"} : r[i][f] = x[f]
  BY <1>3 DEF MergeLeadsTo, MergedAs
<1>9. ~IsDependent(r[i]) /\ r[i].type \in Types
  <2>1. AllBut(r[i], Norm(x))
    BY <1>3 DEF MergeLeadsTo, AddedTo
  <2>2. MadeAs(x, e)
    BY <1>1, <1>2, MadeIs
  <2> HIDE DEF x, e, i
  <2>3. ~IsDependent(x)
    BY <1>2, <2>2 DEF MadeAs, IsDependent
  <2>4. x = [f \in OtherFields |-> x[f]]
    BY <1>4 DEF MadeFits
  <2>5. ~IsDependent(Norm(x))
    BY <2>3, <2>4 DEF Norm, IsDependent, OtherFields
  <2>6. r[i].type \in Types
    BY <1>8 DEF MergeLeadsTo, AddedTo, IsPast, IsEntry
  <2> QED BY <2>1, <2>5, <2>6 DEF AllBut
<1>10. \E y : KeyedAs(y, e) /\ PolicyGiven(x, y, e.pname)
  BY <1>2, <1>4 DEF MadeFits
<1> HIDE DEF e, x, i
<1>11. PICK y : KeyedAs(y, e) /\ PolicyGiven(x, y, e.pname)
  BY <1>10
<1>12. y.pname = e.pname /\ y.own = e.own
  BY <1>11 DEF KeyedAs, OtherFields
<1>13. x.pname = IF e.pname = NoPolicy THEN NoPolicy ELSE NameOfPolicy(e.pname)
  BY <1>11, <1>12, PolicyGivenIs
<1>14. e.pname = NoPolicy =>
         IF policies.default # other.policies.default
         THEN e.own = NoOwn /\ x.own = other.policies.default ELSE x.own = e.own
  BY <1>7, <1>11, <1>12 DEF PolicyGiven
<1>15. /\ i \in DOMAIN d.entries
       /\ d.entries[i].name = x.name /\ d.entries[i].password = x.password /\ d.entries[i].expires = x.expires
       /\ d.entries[i].pname = x.pname /\ d.entries[i].own = x.own /\ d.entries[i].type = r[i].type
  BY <1>8 DEF After, OtherFields
<1>16. d.policies.default = policies.default /\ d.policies.named = Extended(policies.named, A)
  BY DEF After
<1>17. PolicyOf(d, i) = PolicyOf(other, o)
  BY <1>1, <1>5, <1>6, <1>13, <1>14, <1>15, <1>16, PolicyStays DEF e
<1>18. Shown(d, i) = Shown(other, o)
  <2>1. Shown(other, o) = e.password
    BY <1>2 DEF Shown, EntryOf, e
  <2>2. ~IsDependent(d.entries[i])
    BY <1>9, <1>15 DEF IsDependent
  <2>3. Shown(d, i) = x.password
    BY <1>15, <2>2 DEF Shown
  <2> QED BY <1>4, <2>1, <2>3 DEF MadeFits, x, e
<1>19. x.name.title = e.name.title /\ x.expires = e.expires
  BY <1>4 DEF MadeFits, x, e
<1> QED BY <1>15, <1>17, <1>18, <1>19 DEF Arrived, e
(* A base that is there already and no different. *)
LEMMA OldBaseArrives ==
  ASSUME EntryFields = OtherFields, NEW p, Before(p), NEW bases, IsBases(bases), NEW A,
         NEW r, MergeLeadsTo(r, p, bases, A), NEW d, After(d, r, A), NEW o \in bases, Same(o) # {}
  PROVE  Arrived(o, d)
<1> DEFINE e == EntryOf(other, o)
<1>1. PICK c : c \in Same(o)
  OBVIOUS
<1> DEFINE x == Entry(c)
<1>2. c \in Used /\ x.name = e.name
  BY <1>1 DEF Same, Named, Current, Used, Entry
<1>3. /\ x.password = e.password /\ x.expires = e.expires /\ x.pname = e.pname
      /\ PolicyOf(Current, c) = PolicyOf(other, o)
  BY <1>1 DEF Same, Differs, PoliciesDiffer, Current, EntryOf, Entry
<1>4. Now(p) /\ c \in DOMAIN p /\ OtherKnown
  BY <1>2, NowFields DEF Before
<1>5. o \in DOMAIN other.entries /\ ~IsDependent(e)
  BY DEF IsBases
<1>6. e.password \in Passwords
  <2>1. IsEntry(e)
    BY <1>4, <1>5, OtherIs DEF OtherKnown
  <2> QED BY <1>5, <2>1 DEF IsEntry
<1>7. IsEntry(x)
  BY <1>2, <1>4, EntryIs
<1>8. ~IsDependent(x)
  BY <1>3, <1>6, <1>7, StoreAssumption DEF IsEntry
<1>9. x.pname \in DOMAIN policies.named \cup {NoPolicy}
  <2>1. p[c].pname = x.pname
    BY <1>4, NowFields DEF OtherFields
  <2> QED BY <1>4, <2>1 DEF Before, PositionFits
<1>10. Untouched(d, c)
  BY <1>2, MergeUntouched
<1>11. ~IsDependent(d.entries[c])
  <2>1. AllBut(r[c], p[c])
    BY <1>4 DEF MergeLeadsTo, AddedTo
  <2>2. p[c].type = x.type
    BY <1>4, NowFields DEF OtherFields
  <2>3. c \in DOMAIN r /\ d.entries[c].type = r[c].type
    BY <1>10 DEF After, OtherFields, Untouched
  <2> HIDE DEF x
  <2> QED BY <1>8, <2>1, <2>2, <2>3 DEF AllBut, IsDependent
<1>12. /\ PolicyOf(Current, c) = IF x.pname # NoPolicy THEN policies.named[x.pname]
                                 ELSE IF x.own # NoOwn THEN x.own ELSE policies.default
       /\ PolicyOf(d, c) = IF d.entries[c].pname # NoPolicy THEN d.policies.named[d.entries[c].pname]
                           ELSE IF d.entries[c].own # NoOwn THEN d.entries[c].own ELSE d.policies.default
  BY DEF PolicyOf, Current, Entry
<1>13. /\ c \in DOMAIN d.entries /\ d.entries[c].name = x.name /\ d.entries[c].password = x.password
       /\ d.entries[c].expires = x.expires /\ d.entries[c].pname = x.pname /\ d.entries[c].own = x.own
  BY <1>10 DEF Untouched, KeptFields
<1>14. d.policies.default = policies.default /\ d.policies.named = Extended(policies.named, A)
  BY DEF After
<1> HIDE DEF x
<1>15. PolicyOf(d, c) = PolicyOf(Current, c)
  BY <1>9, <1>12, <1>13, <1>14 DEF Extended
<1>16. Shown(d, c) = x.password /\ Shown(other, o) = e.password
  BY <1>5, <1>11, <1>13 DEF Shown, EntryOf
<1> QED BY <1>2, <1>3, <1>13, <1>15, <1>16 DEF Arrived

(* The base that the dependents of o get, and its password. *)
LEMMA NewBaseStands ==
  ASSUME EntryFields = OtherFields, NoMergeRisk, NEW p, Before(p),
         NEW bases, IsBases(bases), MergeIsCareful(bases), NEW A, A = MergePolicies(bases),
         NEW r, MergeLeadsTo(r, p, bases, A), NEW d, After(d, r, A),
         NEW o \in bases, DependentsToAdd(o) # {}
  PROVE  /\ NewBase(o) \in DOMAIN d.entries
         /\ d.entries[NewBase(o)].password = EntryOf(other, o).password
<1>1. MergeReady(p, bases)
  BY MergeReadyIs
<1>2. CASE Same(o) # {}
  <2>1. o \in Same(o)
    BY <1>2 DEF NoMergeRisk, MergeIsCareful
  <2>2. o \in Used /\ Entry(o).password = EntryOf(other, o).password
    BY <2>1 DEF Same, Differs, Named, Current, Used, EntryOf, Entry
  <2>3. Untouched(d, o)
    BY <2>2, MergeUntouched
  <2>4. NewBase(o) = o
    BY <1>2 DEF NewBase
  <2> QED BY <2>2, <2>3, <2>4 DEF Untouched, KeptFields
<1>3. CASE Same(o) = {}
  <2>1. o \in Wanted(bases)
    BY <1>3 DEF Wanted, Parts
  <2>2. MadeFits(Made(o), EntryOf(other, o), A)
    BY <1>1, <2>1, MadeFitsIs
  <2>3. NewId(o) \in DOMAIN r /\ r[NewId(o)].password = Made(o).password
    BY <2>1 DEF MergeLeadsTo, MergedAs, OtherFields
  <2>4. NewId(o) \in DOMAIN d.entries /\ d.entries[NewId(o)].password = r[NewId(o)].password
    BY <2>3 DEF After, OtherFields
  <2>5. NewBase(o) = NewId(o)
    BY <1>3 DEF NewBase
  <2> QED BY <2>2, <2>3, <2>4, <2>5 DEF MadeFits
<1> QED BY <1>2, <1>3

(* A dependent whose name is free is there, of its kind and with the        *)
(* password of its base.                                                    *)
LEMMA DependentsArrive ==
  ASSUME EntryFields = OtherFields, NoMergeRisk, NEW p, Before(p),
         NEW bases, IsBases(bases), MergeIsCareful(bases), NEW A, A = MergePolicies(bases),
         NEW r, MergeLeadsTo(r, p, bases, A), NEW d, After(d, r, A),
         NEW o \in bases, NEW i \in DependentsIn(other, o), i \in OnlyInOther(db)
  PROVE  DependentArrived(i, d)
<1> DEFINE e == EntryOf(other, i)
           x == Made(i)
           j == NewId(i)
<1>1. /\ i \in DOMAIN other.entries /\ o \in DOMAIN other.entries
      /\ IsDependent(e) /\ e.base = o
  BY DEF DependentsIn, EntryOf, IsBases
<1>2. i \in DependentsToAdd(o)
  BY DEF DependentsToAdd, OnlyInOther, Named, Current
<1>3. i \in Wanted(bases)
  BY <1>2 DEF Wanted, Parts
<1>4. MergeReady(p, bases) /\ IsPast(other.entries)
  BY MergeReadyIs DEF Before, OtherKnown
<1>5. x.name = e.name /\ x.type = e.type /\ x.base = NewBase(o)
  <2>1. e = [f \in OtherFields |-> e[f]]
    BY <1>1, <1>4, OtherIs
  <2>2. x = [e EXCEPT !.base = NewBase(o)]
    BY <1>1 DEF Made
  <2> QED BY <2>1, <2>2 DEF OtherFields
<1>6. j \in DOMAIN r /\ AllBut(r[j], Norm(x))
  BY <1>3 DEF MergeLeadsTo, AddedTo
<1> HIDE DEF e, x, j
<1>7. IsDependent(x) /\ Norm(x) = x
  BY <1>1, <1>5 DEF IsDependent, Norm
<1>8. r[j] = x
  BY <1>6, <1>7 DEF AllBut
<1>9. /\ j \in DOMAIN d.entries /\ d.entries[j].name = e.name /\ d.entries[j].type = e.type
      /\ d.entries[j].base = NewBase(o)
  BY <1>5, <1>6, <1>7, <1>8 DEF After, OtherFields
<1>10. IsDependent(d.entries[j])
  BY <1>1, <1>9 DEF IsDependent
<1>11. /\ NewBase(o) \in DOMAIN d.entries
       /\ d.entries[NewBase(o)].password = EntryOf(other, o).password
  BY <1>2, NewBaseStands
<1>12. Shown(d, j) = EntryOf(other, o).password
  BY <1>9, <1>10, <1>11 DEF Shown
<1>13. Shown(other, i) = EntryOf(other, o).password
  BY <1>1 DEF Shown, EntryOf, e
<1>14. j \in Named(d, e.name)
  BY <1>9 DEF Named
<1> QED BY <1>9, <1>12, <1>13, <1>14 DEF DependentArrived, EntryOf, e

LEMMA MergeBrings ==
  ASSUME EntryFields = OtherFields, IsFiniteSet(Ids), NoStoreRisk, "own" \notin Risky, OtherInv, NextOther, last'.op = "merge"
  PROVE  \A o \in BasesIn(other, last'.names) :
           /\ Arrived(o, Current')
           /\ \A i \in DependentsIn(other, o) \cap OnlyInOther(db) : DependentArrived(i, Current')
<1> DEFINE G == \A o \in BasesIn(other, last'.names) :
                   /\ Arrived(o, Current')
                   /\ \A i \in DependentsIn(other, o) \cap OnlyInOther(db) : DependentArrived(i, Current')
<1>1. NoMergeRisk
  BY DEF NoStoreRisk, NoMergeRisk
<1>2. ASSUME NEW names, MergeIsCareful(BasesIn(other, names)), Merge(names)
      PROVE  G
  <2> DEFINE d == Current'
             bases == BasesIn(other, names)
  <2>1. PICK p, r, A : /\ Before(p) /\ MergeLeadsTo(r, p, bases, A) /\ A = MergePolicies(bases) /\ After(d, r, A)
    BY <1>1, <1>2, MergeKeepsCurrent
  <2>2. last'.names = names
    BY <1>2 DEF Merge, ExecuteWith
  <2>3. IsBases(bases) /\ MergeIsCareful(bases)
    BY <1>2 DEF IsBases, BasesIn, EntryOf
  <2> HIDE DEF d, bases
  <2>5. ASSUME NEW o \in bases
        PROVE  Arrived(o, d)
    BY <1>1, <2>1, <2>3, NewBaseArrives, OldBaseArrives
  <2>6. ASSUME NEW o \in bases, NEW i \in DependentsIn(other, o), i \in OnlyInOther(db)
        PROVE  DependentArrived(i, d)
    BY <1>1, <2>1, <2>3, <2>6, DependentsArrive
  <2> QED BY <2>2, <2>5, <2>6 DEF d, bases
<1>3. ~UndoOther /\ ~RedoOther
  BY DEF UndoOther, RedoOther, NoOperation
<1>4. \A names, fields : ~Synchronize(names, fields)
  BY DEF Synchronize, ExecuteWith
<1> HIDE DEF G
<1>5. G
  BY <1>2, <1>3, <1>4 DEF NextOther
<1> QED BY <1>5 DEF G

(* After a merge, every base that was asked for is in the open database,    *)
(* under its title and with its password, expiry date and policy, however   *)
(* the policies and the names of the two databases clash; and each alias    *)
(* and shortcut of theirs whose name was free is linked to an entry with    *)
(* its password.                                                            *)
THEOREM MergesArrive ==
  ASSUME EntryFields = OtherFields, IsFiniteSet(Ids), NoStoreRisk, "own" \notin Risky
  PROVE  SpecOther => MergeArrives
<1>1. OtherInv /\ [NextOther]_otherVars =>
        [last'.op = "merge" => \A o \in BasesIn(other, last'.names) :
           /\ Arrived(o, Current')
           /\ \A i \in DependentsIn(other, o) \cap OnlyInOther(db) : DependentArrived(i, Current')]_otherVars
  BY MergeBrings
<1> QED BY <1>1, OtherInvariant, PTL DEF SpecOther, MergeArrives
(* The entry c and the base o that it is synchronised with. *)
Settled(d, c, o, fields) ==
    /\ \A f \in fields \ {"pname"} : ~Conflict(d, c, o, f)
    /\ "pname" \in fields => PolicyOf(d, c) = PolicyOf(other, o)

LEMMA PairIsThere ==
  ASSUME EntryFields = OtherFields, NEW p, Before(p), NEW names, NEW fields, SyncReady(p, names, fields),
         NEW r, NEW A, SyncLeadsTo(r, p, names, fields, A), NEW d, After(d, r, A),
         NEW o \in BasesIn(other, names), NEW c \in DOMAIN d.entries,
         d.entries[c].name = EntryOf(other, o).name, ~Entry(c).protected
  PROVE  /\ <<c, o>> \in Pairs(names) /\ Pair(c, o) /\ c \in DOMAIN r
         /\ \A f \in OtherFields \ {"base"} : r[c][f] = Updated(c, o, fields)[f]
<1>1. Used = DOMAIN p /\ DOMAIN r = DOMAIN p /\ c \in DOMAIN r
  BY NowFields DEF Before, SyncLeadsTo, SyncedTo, After
<1>2. r[c].name = EntryOf(other, o).name
  BY <1>1 DEF After, OtherFields
<1>3. Now(p) /\ fields \subseteq CopiedFields
  BY DEF SyncReady
<1>4. r[c].name = Entry(c).name
  <2>1. CASE \A pair \in Pairs(names) : pair[1] # c
    BY <1>1, <2>1 DEF SyncLeadsTo, SyncedAs, OtherFields
  <2>2. CASE \E pair \in Pairs(names) : pair[1] = c
    <3>1. PICK pair \in Pairs(names) : pair[1] = c
      BY <2>2
    <3> DEFINE x == Updated(c, pair[2], fields)
    <3>2. UpdatedAs(x, Entry(c), EntryOf(other, pair[2]), fields)
      BY <1>1, <1>3, UpdatedIs
    <3>3. r[c].name = x.name
      BY <3>1 DEF SyncLeadsTo, SyncedAs, OtherFields
    <3> HIDE DEF x
    <3> QED BY <3>2, <3>3 DEF UpdatedAs
  <2> QED BY <2>1, <2>2
<1>5. Entry(c).name = EntryOf(other, o).name
  BY <1>2, <1>4
<1>6. c \in Matches(o)
  BY <1>1, <1>5 DEF Matches, Named, Current, Used, Entry
<1>7. o \in Synced(names)
  BY <1>6 DEF Synced
<1>8. <<c, o>> \in Pairs(names)
  BY <1>1, <1>6, <1>7 DEF Pairs
<1>9. Pair(c, o)
  BY <1>1, <1>5 DEF Pair, BasesIn, EntryOf
<1>10. \A f \in OtherFields \ {"base"} : r[c][f] = Updated(c, o, fields)[f]
  <2> DEFINE pair == <<c, o>>
  <2>1. pair \in Pairs(names) /\ pair[1] = c /\ pair[2] = o
    BY <1>8
  <2> HIDE DEF pair
  <2>2. \A f \in OtherFields \ {"base"} : r[pair[1]][f] = Updated(pair[1], pair[2], fields)[f]
    BY <2>1 DEF SyncLeadsTo, SyncedAs
  <2> QED BY <2>1, <2>2
<1> QED BY <1>1, <1>8, <1>9, <1>10

LEMMA PairSettles ==
  ASSUME EntryFields = OtherFields, "policy" \notin Risky, NEW p, Before(p), NEW names, NEW fields, SyncReady(p, names, fields),
         NEW A, A = PoliciesAdded(SyncPnames(names, fields)),
         NEW r, SyncLeadsTo(r, p, names, fields, A), NEW d, After(d, r, A),
         NEW o \in BasesIn(other, names), NEW c \in DOMAIN d.entries,
         d.entries[c].name = EntryOf(other, o).name, ~Entry(c).protected, ~IsDependent(d.entries[c])
  PROVE  Settled(d, c, o, fields)
<1> DEFINE e == EntryOf(other, o)
           old == Entry(c)
           x == Updated(c, o, fields)
           y == d.entries[c]
<1>1. /\ <<c, o>> \in Pairs(names) /\ Pair(c, o) /\ c \in DOMAIN r
      /\ \A f \in OtherFields \ {"base"} : r[c][f] = x[f]
  BY PairIsThere
<1>2. \A f \in OtherFields \ {"base"} : y[f] = x[f]
  BY <1>1 DEF After
<1>3. Now(p) /\ fields \subseteq CopiedFields /\ OtherKnown /\ c \in Used /\ o \in DOMAIN other.entries /\ ~IsDependent(e)
  BY <1>1 DEF SyncReady, Before, Pair
<1>4. UpdatedAs(x, old, e, fields)
  BY <1>3, UpdatedIs
<1>5. SyncIsCareful(o, c, fields)
  <2> DEFINE pair == <<c, o>>
  <2>1. pair \in Pairs(names) /\ pair[1] = c /\ pair[2] = o
    BY <1>1
  <2> HIDE DEF pair
  <2>2. SyncIsCareful(pair[2], pair[1], fields)
    BY <2>1 DEF SyncReady
  <2> QED BY <2>1, <2>2
<1>6. /\ "pname" \in fields => old.pname = e.pname \/ e.pname \notin DOMAIN policies.named \cup {NoPolicy}
      /\ "own" \in fields => "pname" \in fields /\ (old.pname # NoPolicy \/ policies.default = other.policies.default)
      /\ "pname" \in fields /\ e.pname = NoPolicy => "own" \in fields
  BY <1>5 DEF SyncIsCareful
<1>7. OtherEntry(e)
  BY <1>3, OtherEntryIs
<1>8. "pname" \in fields => PolicyAdded(A, e.pname)
  <2> DEFINE pnames == SyncPnames(names, fields)
             n == e.pname
  <2>1. "pname" \in fields => n \in pnames
    <3> DEFINE pair == <<c, o>>
    <3>1. pair \in Pairs(names) /\ pair[2] = o
      BY <1>1
    <3> HIDE DEF pair
    <3> QED BY <3>1 DEF SyncPnames
  <2>2. pnames \subseteq DOMAIN other.policies.named \cup {NoPolicy}
    BY SyncPnamesAre
  <2> HIDE DEF pnames, n
  <2>3. "pname" \in fields => PolicyAdded(A, n)
    BY <2>1, <2>2, PoliciesAddedIs DEF pnames
  <2> QED BY <2>3 DEF n
<1>9. d.policies.default = policies.default /\ d.policies.named = Extended(policies.named, A)
  BY DEF After
<1> HIDE DEF x, old, e
<1>10. "pname" \in fields =>
          /\ x.pname = IF e.pname = NoPolicy THEN NoPolicy ELSE NameOfPolicy(e.pname)
          /\ e.pname = NoPolicy => policies.default = other.policies.default /\ x.own = e.own
  BY <1>4, <1>6 DEF UpdatedAs, NameOfPolicy, PolicyKnown
<1>11. "pname" \in fields => PolicyOf(d, c) = PolicyOf(other, o)
  <2> SUFFICES ASSUME "pname" \in fields
               PROVE  PolicyOf(d, c) = PolicyOf(other, o)
    OBVIOUS
  <2>1. PolicyAdded(A, e.pname) /\ x.pname = IF e.pname = NoPolicy THEN NoPolicy ELSE NameOfPolicy(e.pname)
    BY <1>8, <1>10
  <2>2. e.pname = NoPolicy =>
          IF policies.default # other.policies.default
          THEN e.own = NoOwn /\ x.own = other.policies.default ELSE x.own = e.own
    BY <1>10
  <2>3. d.entries[c].pname = x.pname /\ d.entries[c].own = x.own
    BY <1>2 DEF OtherFields
  <2> QED BY <1>3, <1>7, <1>9, <2>1, <2>2, <2>3, PolicyStays DEF e
<1>12. ASSUME NEW f \in fields \ {"pname"}
       PROVE  ~Conflict(d, c, o, f)
  <2>1. CASE f = "password"
    <3>1. Shown(d, c) = x.password
      BY <1>2 DEF Shown, OtherFields
    <3>2. Shown(other, o) = e.password
      BY <1>3 DEF Shown, EntryOf, e
    <3> QED BY <1>4, <2>1, <3>1, <3>2 DEF UpdatedAs, Conflict
  <2>2. CASE f = "own"
    BY <1>6, <1>11, <2>2 DEF Conflict
  <2>3. CASE f \in {"expires", "key"}
    <3>1. y[f] = x[f] /\ x[f] = e[f]
      BY <1>2, <1>4, <2>3 DEF UpdatedAs, OtherFields
    <3> QED BY <2>3, <3>1 DEF Conflict, EntryOf, e
  <2> QED BY <1>3, <2>1, <2>2, <2>3 DEF CopiedFields
<1> QED BY <1>11, <1>12 DEF Settled

LEMMA SyncSettles ==
  ASSUME EntryFields = OtherFields, IsFiniteSet(Ids), NoStoreRisk, "policy" \notin Risky, OtherInv, NextOther,
         last'.op = "synchronize"
  PROVE  \A o \in BasesIn(other, last'.names), c \in DOMAIN db'.entries :
           db'.entries[c].name = EntryOf(other, o).name
               /\ ~db.entries[c].protected /\ ~IsDependent(db'.entries[c]) =>
               /\ \A f \in last'.fields \ {"pname"} : ~Conflict(Current', c, o, f)
               /\ "pname" \in last'.fields => PolicyOf(Current', c) = PolicyOf(other, o)
<1> DEFINE G(names, fields) ==
             \A o \in BasesIn(other, names), c \in DOMAIN db'.entries :
               db'.entries[c].name = EntryOf(other, o).name /\ ~Entry(c).protected /\ ~IsDependent(db'.entries[c]) =>
                 Settled(Current', c, o, fields)
           H == G(last'.names, last'.fields)
<1>1. NoSyncRisk
  BY DEF NoStoreRisk, NoSyncRisk
<1>2. ASSUME NEW names, NEW fields \in FieldSets,
             \A pair \in Pairs(names) : SyncIsCareful(pair[2], pair[1], fields), Synchronize(names, fields)
      PROVE  H
  <2> DEFINE d == Current'
  <2>1. PICK p, r, A : /\ Before(p) /\ SyncReady(p, names, fields) /\ SyncLeadsTo(r, p, names, fields, A)
                       /\ A = PoliciesAdded(SyncPnames(names, fields)) /\ After(d, r, A)
    BY <1>1, <1>2, SyncKeepsCurrent
  <2>2. last'.names = names /\ last'.fields = fields
    BY <1>2 DEF Synchronize, ExecuteWith
  <2>3. d.entries = db'.entries
    BY DEF Current
  <2> HIDE DEF d
  <2>4. ASSUME NEW o \in BasesIn(other, names), NEW c \in DOMAIN d.entries,
               d.entries[c].name = EntryOf(other, o).name, ~Entry(c).protected, ~IsDependent(d.entries[c])
        PROVE  Settled(d, c, o, fields)
    BY <2>1, <2>4, PairSettles
  <2>5. G(names, fields)
    BY <2>3, <2>4 DEF d
  <2> HIDE DEF G
  <2> QED BY <2>2, <2>5
<1>3. ~UndoOther /\ ~RedoOther
  BY DEF UndoOther, RedoOther, NoOperation
<1>4. \A names : ~Merge(names)
  BY DEF Merge, ExecuteWith
<1> HIDE DEF H
<1>5. H
  BY <1>2, <1>3, <1>4 DEF NextOther
<1> QED BY <1>5 DEF H, Settled, Entry

(* After a synchronisation, Compare finds no conflict in the fields that    *)
(* were asked for, but of protected entries and dependents, and a policy    *)
(* that was asked for is that of the other database.                        *)
THEOREM SyncsSettle ==
  ASSUME EntryFields = OtherFields, IsFiniteSet(Ids), NoStoreRisk, "policy" \notin Risky
  PROVE  SpecOther => SyncLeavesNoConflict
<1>1. OtherInv /\ [NextOther]_otherVars =>
        [last'.op = "synchronize" =>
           \A o \in BasesIn(other, last'.names), c \in DOMAIN db'.entries :
              db'.entries[c].name = EntryOf(other, o).name
                  /\ ~db.entries[c].protected /\ ~IsDependent(db'.entries[c]) =>
                  /\ \A f \in last'.fields \ {"pname"} : ~Conflict(Current', c, o, f)
                  /\ "pname" \in last'.fields =>
                        PolicyOf(Current', c) = PolicyOf(other, o)]_otherVars
  BY SyncSettles
<1> QED BY <1>1, OtherInvariant, PTL DEF SpecOther, SyncLeavesNoConflict

=============================================================================
