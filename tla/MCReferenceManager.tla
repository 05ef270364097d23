------------------------- MODULE MCReferenceManager --------------------------
(* TLC instances of ReferenceManager: two packages P and Q; P has the interfaces *)
(* I and J and the type collection C, Q an interface that is called I as well.   *)
EXTENDS ReferenceManager

P == <<"P">>
Q == <<"Q">>
PI == <<"P", "I">>
PJ == <<"P", "J">>
PC == <<"P", "C">>
QI == <<"Q", "I">>

MCInterfaces == {PI, PJ, QI}
MCTypeCollections == {PC}
MCMembers == {c \o <<"T">> : c \in {PI, PJ, PC, QI}}

\* I may declare a T that is a struct, an enumeration or a constant, J one of the last
\* two and C an enumeration; Q's I always does.
MCDeclarations == {d \in UNION {[S -> {"struct", "enum", "constant"}] : S \in SUBSET MCMembers} :
    /\ Append(QI, "T") \in DOMAIN d
    /\ \A m \in DOMAIN d : /\ m # Append(PI, "T") => d[m] # "struct"
                           /\ Front(m) \notin {PI, PJ} => d[m] = "enum"}

Use(kind, user, id, model, within) ==
    [kind |-> kind, user |-> user, id |-> id, model |-> model, within |-> within]

\* interface <user> extends <id>, or no base at all
Extends(i, ids) == {<<>>} \cup {<<Use("base", i, id, SubSeq(i, 1, 1), i)>> : id \in ids}

\* One use of a T in P: in I by any of its names, in C, where no methods are, by two; or a
\* method of I has two error clauses.  Or I manages J or an X that is nowhere.
Uses ==
    {<<Use(k, "u", id, P, PI)>> : k \in {"derived", "error", "element"},
        id \in {<<"T">>, <<"I", "T">>, <<"C", "T">>, <<"P", "I", "T">>, <<"Q", "I", "T">>}}
    \cup {<<Use(k, "u", id, P, PC)>> : k \in {"derived", "element"}, id \in {<<"T">>, <<"I", "T">>}}
    \cup {<<Use("error", "u", <<"T">>, P, PI), Use("error", "u", id, P, PI)>> :
              id \in {<<"T">>, <<"X">>, <<"C", "T">>}}
    \cup {<<Use("manages", PI, id, P, PI)>> : id \in {<<"J">>, <<"X">>}}

\* P imports Q.* or Q.I.*, before its interfaces or at its end.
ImportedBefore(s, list) == [n \in DOMAIN s |-> [imports |-> list] @@ s[n]]

NameSources == {ImportedBefore(a \o b \o c, list) :
    a \in Extends(PI, {<<"J">>, <<"Q", "I">>}), b \in Extends(PJ, {<<"I">>}),
    c \in Uses, list \in {<<>>, <<Q>>, <<QI>>}}
=============================================================================
