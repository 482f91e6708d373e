-------------------------- MODULE OtherDatabaseMC --------------------------
(* Instances of OtherDatabase for TLC: pairs of small databases. *)
EXTENDS OtherDatabase

CONSTANTS a, b, p1, p2, k1, P, v1, v2, m1, m2

SixIds == 1 .. 6
BothPasswords == {p1, p2}

NameOf(title) == [title |-> title, merged |-> <<>>]
PlainEntry(title) ==
    [name |-> NameOf(title), type |-> "normal", base |-> NoId, password |-> p1, key |-> NoKey,
     expires |-> FALSE, own |-> NoOwn, pname |-> NoPolicy, protected |-> FALSE]
Default == [default |-> v1, named |-> <<>>]

Good(entries) ==
    /\ WellFormed(entries)
    /\ \A i, j \in DOMAIN entries : i # j => entries[i].name # entries[j].name

(* Bases, aliases and keys; one kind of policy. *)
LinkedEntries ==
    {[PlainEntry(title) EXCEPT !.password = password, !.key = key, !.type = type] :
        title \in {a, b}, password \in BothPasswords, key \in {NoKey, k1},
        type \in {"normal", "aliasbase"}}
    \cup {[PlainEntry(title) EXCEPT !.password = NoPassword, !.key = key,
                                    !.type = "alias", !.base = 1] :
        title \in {a, b}, key \in {NoKey, k1}}
Linked(idSets) ==
    {[entries |-> entries, policies |-> Default] :
        entries \in {e \in UNION {[S -> LinkedEntries] : S \in idSets} : Good(e)}}

(* Policies, protected entries and expiry dates. *)
PolicyEntries(protections) ==
    {[PlainEntry(a) EXCEPT !.own = own, !.pname = pname, !.protected = protected] :
        own \in {NoOwn, v1}, pname \in {NoPolicy, P}, protected \in protections}
Expiring == [PlainEntry(a) EXCEPT !.expires = TRUE]
Policies(defaults) ==
    {[default |-> default, named |-> named] :
        default \in defaults, named \in {<<>>} \cup {P :> v : v \in {v1, v2}}}
Ruled(ones, secondNames, defaults) ==
    {d \in {[entries |-> (1 :> one) @@ (2 :> [PlainEntry(b) EXCEPT !.pname = n]),
             policies |-> rules] :
                one \in ones, n \in secondNames, rules \in Policies(defaults)} :
        \A i \in {1, 2} : d.entries[i].pname \in DOMAIN d.policies.named \cup {NoPolicy}}

(* An alias made from an entry with a named policy keeps its name. *)
AliasesOf(entryNames) ==
    {[entries |-> (1 :> [PlainEntry(a) EXCEPT !.type = "aliasbase"])
                  @@ (2 :> [PlainEntry(b) EXCEPT !.type = "alias", !.base = 1,
                                                 !.password = NoPassword, !.pname = n]),
      policies |-> [default |-> v1, named |-> P :> v1]] : n \in entryNames}

AllCases ==
    (Linked(SUBSET {1, 2}) \X Linked({{1}, {1, 2}}))
    \cup (Ruled(PolicyEntries(BOOLEAN), {NoPolicy}, {v1})
           \X Ruled({Expiring} \cup PolicyEntries({FALSE}), {NoPolicy, P}, {v1, v2}))
    \cup ((Linked({{}, {1}}) \cup Ruled({PlainEntry(a)}, {NoPolicy, P}, {v1}))
           \X AliasesOf({NoPolicy, P}))

NewIds == <<[i \in 1 .. 2 |-> i + 2], [i \in 1 .. 2 |-> i + 4]>>
NewPolicies == <<P :> m1, P :> m2>>
SomeFields == {{"password", "expires", "key"}, {"own", "pname"}, {"pname"}}
SomeNames == {{NameOf(a), NameOf(b)}, {NameOf(a)}}
NoRisk == {}
IdenticalOnly == {"identical"}
Symmetry == Permutations(BothPasswords)
=============================================================================
